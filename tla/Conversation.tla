----------------------------- MODULE Conversation -----------------------------
(***************************************************************************)
(* A conversation with a model (conversation.go) whose history is pruned   *)
(* to a token budget before it is sent (pruning.go), and a branch of it.   *)
(*                                                                         *)
(* Go slices matter here: Messages is a length over an array with spare    *)
(* room, and GetPrunedMessages hands out a slice of the same array, which  *)
(* is read after the lock is given back (toLLMMessages).  An append that   *)
(* does not fit moves the conversation to a new array and leaves slices of *)
(* the old one as they are.  OldestFirstPruner and NewestFirstPruner       *)
(* remove a message by shifting the later ones down in that array, under   *)
(* the read lock, so two Sends may shift at once; the others copy first.   *)
(*                                                                         *)
(* Every message counts for one token.  Branches of branches, the          *)
(* CompositePruner (its parts in turn), titles and metadata are left out;  *)
(* the halves of one shift and of one copy are not told apart.             *)
(***************************************************************************)
EXTENDS Integers, Sequences, FiniteSets, SequencesExt

CONSTANTS Senders,      \* the callers of Send and SendStream
          MaxTokens,    \* conv.maxTokens
          KeepRecent,   \* NewestFirstPruner.KeepRecent
          WindowSize,   \* SlidingWindowPruner.WindowSize
          SummarySize,  \* SummarizePruner.summarySize
          Strategies,   \* the pruners of the instances
          MaxSends,     \* bound: how often each sender calls Send
          MaxMessages,  \* bound: the length of a conversation
          MaxUndos      \* bound: how often messages are taken back

ASSUME ConvAssumption == /\ MaxTokens \in Nat \ {0}
                         /\ KeepRecent \in Nat \ {0}
                         /\ WindowSize \in Nat \ {0}
                         /\ SummarySize \in 1 .. MaxTokens - 1

VARIABLES pruner,   \* conv.pruner, shared with the branch
          array,    \* the array under c.Messages, as long as its capacity
          length,   \* the length of c.Messages; -1 for a branch that is not made
          send,     \* what each sender's Send is doing
          spoken,   \* observer: what was added to each conversation and not taken back
          mixed,    \* observer: the conversations that something else used during a Send
          shifted,  \* observer: the conversations that were pruned in place
          undos     \* how often messages were taken back

convVars == <<pruner, array, length, send, spoken, mixed, shifted, undos>>

Convs   == {"root", "branch"}
Blank   == [role |-> "none", by |-> "none", n |-> 0]
Summary == [role |-> "system", by |-> "summary", n |-> 0]
ChatMessage(role, u, n) == [role |-> role, by |-> u, n |-> n]

Made(c)     == length[c] >= 0
Contents(c) == SubSeq(array[c], 1, length[c])

(***************************************************************************)
(* A Send: the conversation it is on, where it is, and the slice it got    *)
(* from GetPrunedMessages: either the first len messages of the            *)
(* conversation's own array, or a sequence of its own.                     *)
(***************************************************************************)
NoSend == [on |-> "root", at |-> "idle", alias |-> FALSE, len |-> 0, own |-> <<>>, n |-> 0]

View(u) == IF send[u].alias THEN SubSeq(array[send[u].on], 1, send[u].len)
                            ELSE send[u].own

Sending(c)  == {u \in Senders : send[u].on = c /\ send[u].at # "idle"}
Reading(c)  == {u \in Sending(c) : send[u].at \in {"pruning", "summarizing"}}
Lockable(c) == Made(c) /\ Reading(c) = {}

ConvAtRest ==
  /\ array = [c \in Convs |-> <<>>]
  /\ length = [c \in Convs |-> IF c = "root" THEN 0 ELSE -1]
  /\ send = [u \in Senders |-> NoSend]
  /\ spoken = [c \in Convs |-> <<>>]
  /\ mixed = {}
  /\ shifted = {}
  /\ undos = 0

(* NewConversation and NewPruner. *)
ConvInit == ConvAtRest /\ pruner \in Strategies

-----------------------------------------------------------------------------
(* The Sends on c keep the array they have when c moves to another one. *)
Left(c) == [u \in Senders |->
             IF send[u].on = c /\ send[u].alias
               THEN [send[u] EXCEPT !.alias = FALSE, !.own = View(u)] ELSE send[u]]

Room(n) == IF n = 0 THEN 1 ELSE 2 * n

(* What the Sends are after AddMessage. *)
Sends(c) == IF length[c] < Len(array[c]) THEN send ELSE Left(c)

AddMessage(c, m) ==
  /\ Lockable(c)
  /\ length[c] < MaxMessages
  /\ length' = [length EXCEPT ![c] = @ + 1]
  /\ spoken' = [spoken EXCEPT ![c] = Append(@, m)]
  /\ IF length[c] < Len(array[c])
       THEN array' = [array EXCEPT ![c][length[c] + 1] = m]
       ELSE array' = [array EXCEPT ![c] =
              Append(@, m) \o [i \in 1 .. Room(length[c]) - length[c] - 1 |-> Blank]]

Mix(c, u) == mixed' = IF Sending(c) \subseteq {u} THEN mixed ELSE mixed \cup {c}

(* Send and SendStream: the question is added. *)
Ask(u, c) ==
  /\ send[u].at = "idle"
  /\ send[u].n < MaxSends
  /\ AddMessage(c, ChatMessage("user", u, send[u].n + 1))
  /\ send' = [Sends(c) EXCEPT ![u] =
                [NoSend EXCEPT !.on = c, !.at = "asked", !.n = send[u].n + 1]]
  /\ Mix(c, u)
  /\ UNCHANGED <<pruner, shifted, undos>>

(* AddSystemMessage by the application. *)
AddSystemMessage(c) ==
  /\ \A m \in ToSet(spoken[c]) : m.role # "system"
  /\ AddMessage(c, ChatMessage("system", "app", 0))
  /\ send' = Sends(c)
  /\ Mix(c, "app")
  /\ UNCHANGED <<pruner, shifted, undos>>

(* GetPrunedMessages takes the read lock and the slice. *)
GetPrunedMessages(u) ==
  /\ send[u].at = "asked"
  /\ send' = [send EXCEPT ![u].at = "pruning", ![u].alias = TRUE,
                          ![u].len = length[send[u].on]]
  /\ UNCHANGED <<pruner, array, length, spoken, mixed, shifted, undos>>

-----------------------------------------------------------------------------
(* Pruning. *)
System(m)   == m.role = "system"
Other(m)    == m.role # "system"
Total(s)    == Len(s)
PlainIn(s)  == {i \in 1 .. Len(s) : Other(s[i])}

(* A variant of Removal that keeps one recent message too few. *)
RemovalOffByOne(s) ==
  LET oldest == SelectInSeq(s, Other)
      newest == SelectLastInSubSeq(s, 1, Len(s) - KeepRecent + 1, Other)
  IN CASE Total(s) <= MaxTokens -> 0
       [] pruner = "oldest" /\ Len(s) > 1 -> oldest
       [] pruner = "newest" /\ Len(s) > KeepRecent + 1 -> newest
       [] OTHER -> 0

(* The message that a pruner in place removes next; 0 when it is done.      *)
Removal(s) ==
  LET oldest == SelectInSeq(s, Other)
      newest == SelectLastInSubSeq(s, 1, Len(s) - KeepRecent, Other)
  IN CASE Total(s) <= MaxTokens -> 0
       [] pruner = "oldest" /\ Len(s) > 1 -> oldest
       [] pruner = "newest" /\ Len(s) > KeepRecent + 1 -> newest
       [] OTHER -> 0

(* append(messages[:i], messages[i+1:]...) *)
ShiftedDown(a, i, len) == [j \in DOMAIN a |-> IF j \in i .. len - 1 THEN a[j + 1] ELSE a[j]]

InPlace == pruner \in {"oldest", "newest"}

(* One round of the loops of OldestFirstPruner and NewestFirstPruner. *)
RemoveInPlace(u) ==
  /\ send[u].at = "pruning"
  /\ InPlace
  /\ LET c == send[u].on
         i == Removal(View(u))
     IN /\ i > 0
        /\ array' = [array EXCEPT ![c] = ShiftedDown(@, i, send[u].len)]
        /\ send' = [send EXCEPT ![u].len = @ - 1]
        /\ shifted' = shifted \cup {c}
  /\ UNCHANGED <<pruner, length, spoken, mixed, undos>>

(* What a pruner that copies may return: SlidingWindowPruner keeps the      *)
(* system messages and the last others, then prunes its copy as the oldest *)
(* first; ImportancePruner removes what scores lowest, by a score of the   *)
(* application's, and no system message.  One message always stays.        *)
Surplus(s) ==
  IF Total(s) <= MaxTokens THEN 0
  ELSE Min({Total(s) - MaxTokens, Len(SelectSeq(s, Other)), Len(s) - 1})

WindowOf(s) ==
  LET others == SelectSeq(s, Other)
      kept   == SubSeq(others, Max({1, Len(others) - 2 * WindowSize + 1}), Len(others))
      window == SelectSeq(s, System) \o kept
  IN SelectSeq(s, System) \o SubSeq(kept, Surplus(window) + 1, Len(kept))

ImportantOf(s) == {t \in AllSubSeqs(s) : /\ Len(t) = Len(s) - Surplus(s)
                                         /\ SelectSeq(t, System) = SelectSeq(s, System)}

(* SummarizePruner: the last messages fit, of the others only the system    *)
(* messages stay, and the rest is summarized.                              *)
Recent(s)     == {i \in 1 .. Len(s) : i > Len(s) - (MaxTokens - SummarySize)}
Rest(s)       == {i \in 1 .. Len(s) : i \notin Recent(s) /\ Other(s[i])}
Remaining(s)  == SelectSeq(SubSeq(s, 1, Len(s) - Cardinality(Recent(s))), System) \o
                 SubSeq(s, Len(s) - Cardinality(Recent(s)) + 1, Len(s))
Summarizes(s) == pruner = "summarize" /\ Total(s) > MaxTokens /\ Rest(s) # {}

(* Prune returns, and GetPrunedMessages gives the lock back. *)
ReturnPruned(u) ==
  /\ send[u].at = "pruning"
  /\ LET s == View(u)
     IN \/ /\ InPlace
           /\ Removal(s) = 0
           /\ send' = [send EXCEPT ![u].at = "pruned"]
        \/ /\ ~InPlace
           /\ ~Summarizes(s)
           /\ \E own \in CASE pruner = "window" -> {WindowOf(s)}
                          [] pruner = "importance" -> ImportantOf(s)
                          [] OTHER -> {IF Total(s) > MaxTokens THEN Remaining(s) ELSE s} :
                send' = [send EXCEPT ![u].at = "pruned", ![u].alias = FALSE, ![u].own = own]
  /\ UNCHANGED <<pruner, array, length, spoken, mixed, shifted, undos>>

(* SummarizePruner calls the model, still under the read lock. *)
StartSummary(u) ==
  /\ send[u].at = "pruning"
  /\ Summarizes(View(u))
  /\ send' = [send EXCEPT ![u].at = "summarizing", ![u].alias = FALSE, ![u].own = View(u)]
  /\ UNCHANGED <<pruner, array, length, spoken, mixed, shifted, undos>>

(* The summary or, after an error, the text cut short; or no choices.      *)
EndSummary(u) ==
  /\ send[u].at = "summarizing"
  /\ LET s == Remaining(send[u].own)
     IN \E own \in {s, <<Summary>> \o s} :
          send' = [send EXCEPT ![u].at = "pruned", ![u].own = own]
  /\ UNCHANGED <<pruner, array, length, spoken, mixed, shifted, undos>>

(* toLLMMessages reads the slice; its result is the prompt of Chat. *)
ToLLMMessages(u) ==
  /\ send[u].at = "pruned"
  /\ send' = [send EXCEPT ![u].at = "calling", ![u].alias = FALSE, ![u].own = View(u),
                          ![u].len = 0]
  /\ UNCHANGED <<pruner, array, length, spoken, mixed, shifted, undos>>

(* A variant of Answered that goes on from the pruned messages. *)
AnswerOnPruned(u) ==
  /\ send[u].at = "calling"
  /\ Lockable(send[u].on)
  /\ LET c == send[u].on
         m == ChatMessage("assistant", u, send[u].n)
     IN /\ length[c] < MaxMessages
        /\ array' = [array EXCEPT ![c] = Append(send[u].own, m)]
        /\ length' = [length EXCEPT ![c] = Len(send[u].own) + 1]
        /\ spoken' = [spoken EXCEPT ![c] = Append(@, m)]
        /\ send' = [Left(c) EXCEPT ![u] = [NoSend EXCEPT !.n = send[u].n]]
  /\ UNCHANGED <<pruner, mixed, shifted, undos>>

(* The model answers, and the answer is added. *)
Answered(u) ==
  /\ send[u].at = "calling"
  /\ AddMessage(send[u].on, ChatMessage("assistant", u, send[u].n))
  /\ send' = [Sends(send[u].on) EXCEPT ![u] = [NoSend EXCEPT !.n = send[u].n]]
  /\ UNCHANGED <<pruner, mixed, shifted, undos>>

(* The call fails or has no choices: the question stays. *)
Fails(u) ==
  /\ send[u].at = "calling"
  /\ send' = [send EXCEPT ![u] = [NoSend EXCEPT !.n = send[u].n]]
  /\ UNCHANGED <<pruner, array, length, spoken, mixed, shifted, undos>>

-----------------------------------------------------------------------------
(* Rollback(n): a shorter slice of the same array, or a new one; Clear is   *)
(* the latter.                                                             *)
Rollback(c, n) ==
  /\ Lockable(c)
  /\ undos < MaxUndos
  /\ undos' = undos + 1
  /\ IF n >= length[c]
       THEN /\ array' = [array EXCEPT ![c] = <<>>]
            /\ length' = [length EXCEPT ![c] = 0]
            /\ spoken' = [spoken EXCEPT ![c] = <<>>]
            /\ send' = Left(c)
       ELSE /\ length' = [length EXCEPT ![c] = @ - n]
            /\ spoken' = [spoken EXCEPT ![c] = SubSeq(@, 1, Len(@) - n)]
            /\ UNCHANGED <<array, send>>
  /\ Mix(c, "app")
  /\ UNCHANGED <<pruner, shifted>>

Inherited(S) == IF "root" \in S THEN S \cup {"branch"} ELSE S

(* Branch: a copy of the messages, once. *)
Branch ==
  /\ Lockable("root")
  /\ ~Made("branch")
  /\ array' = [array EXCEPT !["branch"] = Contents("root")]
  /\ length' = [length EXCEPT !["branch"] = length["root"]]
  /\ spoken' = [spoken EXCEPT !["branch"] = spoken["root"]]
  /\ shifted' = Inherited(shifted)
  /\ mixed' = Inherited(mixed)
  /\ UNCHANGED <<pruner, send, undos>>

SendStep(u) ==
  \/ GetPrunedMessages(u) \/ RemoveInPlace(u) \/ ReturnPruned(u) \/ StartSummary(u)
  \/ EndSummary(u) \/ ToLLMMessages(u) \/ Answered(u) \/ Fails(u)

ConvNext ==
  \/ \E u \in Senders : SendStep(u)
  \/ \E u \in Senders, c \in Convs : Ask(u, c)
  \/ \E c \in Convs : AddSystemMessage(c) \/ \E n \in 1 .. MaxMessages : Rollback(c, n)
  \/ Branch

ConvSpec == ConvInit /\ [][ConvNext]_convVars

-----------------------------------------------------------------------------
(* MessageHistory.GetPairs: each assistant message with the last user       *)
(* message before it that has none yet.                                    *)
GetPairs(h) ==
  LET Step(acc, m) ==
        CASE m.role = "user" -> [acc EXCEPT !.lastUser = m]
          [] m.role = "assistant" /\ acc.lastUser # Blank ->
               [pairs |-> acc.pairs \cup {<<acc.lastUser, m>>}, lastUser |-> Blank]
          [] OTHER -> acc
  IN FoldLeft(Step, [pairs |-> {}, lastUser |-> Blank], h).pairs

(* A conversation that no pruner has shifted holds what was spoken to it,  *)
(* in order, whatever slices of it are still read and whatever its branch  *)
(* or the conversation it was branched from has done since; and if no      *)
(* Sends overlapped in it, GetPairs puts every answer with its own         *)
(* question, past Sends that failed and messages that were taken back      *)
(* (AddMessage, Rollback, Branch, the pruners that copy, GetPairs).        *)
HistoryIsTrue ==
  \A c \in Convs : Made(c) /\ c \notin shifted =>
    /\ Contents(c) = spoken[c]
    /\ c \notin mixed =>
         \A p \in GetPairs(Contents(c)) : p[1].by = p[2].by /\ p[1].n = p[2].n

(* The prompt of a Send that had the conversation to itself ends with its   *)
(* own question.  ImportancePruner may drop the question itself, and       *)
(* system messages that use up the budget push it out (Send, Prune).       *)
QuestionIsAsked ==
  \A u \in Senders :
    LET c == send[u].on
    IN /\ send[u].at = "calling"
       /\ c \notin mixed
       /\ pruner # "importance"
       /\ Len(SelectSeq(Contents(c), System)) < MaxTokens
       => send[u].own # <<>> /\ Last(send[u].own) = ChatMessage("user", u, send[u].n)

(* A conversation and its prompts tell what was said. *)
ConversationIsTrue == HistoryIsTrue /\ QuestionIsAsked

(* GetMessages returns all messages: what was spoken and not taken back. *)
AllMessagesAreKept ==
  \A c \in Convs : Made(c) => Contents(c) = spoken[c]
=============================================================================
