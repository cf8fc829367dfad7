------------------------------ MODULE SelfHealing ------------------------------
(***************************************************************************)
(* SelfHealingAgent (self_healing.go): Process executes the agent again    *)
(* and again, recovers in between, and learns which strategy recovers from *)
(* which type of error.  Several goroutines call it, on one agent.         *)
(*                                                                         *)
(* sha.mu is held by RegisterStrategy, recordRecovery, updateRecoveryStats *)
(* and learnPattern, each alone; tryRecover reads learnedPattern and the   *)
(* strategies without it, and the runtime ends a program that reads a map  *)
(* while it is written.  The strategies are tried in the order of their    *)
(* registration: Priority is never called.  Process does not look at its   *)
(* context, so a cancelled call makes all its attempts.                    *)
(***************************************************************************)
EXTENDS Naturals, Sequences, FiniteSets, SequencesExt

CONSTANTS Healers,        \* goroutines that call Process
          Custom,         \* strategies of the application's own
          MaxRetries,     \* config.MaxRetries
          HistorySize,    \* config.ErrorHistorySize
          MaxProcess      \* bound: calls of Process in one life of the program

(* The application's strategies have names of their own. *)
ASSUME SHAssumption ==
  /\ {MaxRetries, HistorySize, MaxProcess} \subseteq Nat \ {0}
  /\ IsFiniteSet(Healers) /\ "none" \notin Healers
  /\ "retry" \notin Custom

VARIABLES learning,    \* config.EnableLearning and config.AutoRecover
          strategies,  \* sha.strategies
          learned,     \* sha.learnedPattern, by the type of the error
          stats,       \* sha.recoveryStats, by strategy
          errors,      \* sha.errorHistory
          writer,      \* the goroutine that is writing learnedPattern, or none
          wrapped,     \* what the strategies do to the agent they wrap
          healer,      \* where each call of Process is
          crashed,     \* the runtime has ended the program
          counts       \* calls of Process, those of them that met an error, messages said

healVars == <<learning, strategies, learned, stats, errors, writer, wrapped,
              healer, crashed, counts>>

(* fmt.Errorf yields one of two types, with and without a wrapped error.  *)
(* Only the first can come from an execution that got past the guardrails *)
(* and has appended its input to the conversation.                        *)
ErrorTypes == {"*fmt.wrapError", "*errors.errorString"}

Defaults == <<"retry", "reset_state", "simplify_prompt", "fallback_model">>
Idle     == [at |-> "idle", attempt |-> 0, err |-> "nil", used |-> "none"]
NoCounts == [calls |-> 0, met |-> 0, said |-> 0]
Intact   == [conversation |-> 0, simplified_mode |-> FALSE, use_fallback_model |-> FALSE]

HealAtRest ==
  /\ strategies = Defaults
  /\ learned = <<>> /\ stats = <<>> /\ errors = <<>>
  /\ writer = "none"
  /\ wrapped = Intact
  /\ healer = [h \in Healers |-> Idle]
  /\ crashed = FALSE
  /\ counts = NoCounts

HealInit == HealAtRest /\ learning \in [EnableLearning : BOOLEAN, AutoRecover : BOOLEAN]

Healing(h, s) == healer[h].at = s /\ ~crashed
Unlocked      == writer = "none"
Moves(h, s)   == healer' = [healer EXCEPT ![h].at = s]

-----------------------------------------------------------------------------
RegisterStrategy(s) ==
  /\ ~crashed /\ Unlocked
  /\ strategies' = Append(strategies, s)
  /\ UNCHANGED <<learning, learned, stats, errors, writer, wrapped, healer, crashed, counts>>

Process(h) ==
  /\ Healing(h, "idle")
  /\ counts.calls < MaxProcess
  /\ counts' = [counts EXCEPT !.calls = @ + 1]
  /\ healer' = [healer EXCEPT ![h] = [Idle EXCEPT !.at = "executing"]]
  /\ UNCHANGED <<learning, strategies, learned, stats, errors, writer, wrapped, crashed>>

Says(n) == wrapped' = [wrapped EXCEPT !.conversation = @ + n]

(* Execute appends the input and the answer; a success is only recorded   *)
(* when it is not the first attempt.                                      *)
ExecuteSucceeds(h) ==
  /\ Healing(h, "executing")
  /\ Says(2)
  /\ counts' = [counts EXCEPT !.said = @ + 2]
  /\ IF healer[h].attempt > 0 THEN Moves(h, "recovered")
     ELSE healer' = [healer EXCEPT ![h] = Idle]
  /\ UNCHANGED <<learning, strategies, learned, stats, errors, writer, crashed>>

(* Execute fails, with the input appended or, by a guardrail, before.      *)
ExecuteFails(h, err, n) ==
  /\ Healing(h, "executing")
  /\ n = 0 \/ err = "*fmt.wrapError"
  /\ Says(n)
  /\ healer' = [healer EXCEPT ![h].err = err,
                              ![h].at = IF healer[h].attempt = MaxRetries THEN "lost"
                                        ELSE IF learning.AutoRecover THEN "failed"
                                        ELSE "waiting"]
  /\ counts' = [counts EXCEPT !.met = IF healer[h].attempt = 0 THEN @ + 1 ELSE @,
                              !.said = @ + n]
  /\ UNCHANGED <<learning, strategies, learned, stats, errors, writer, crashed>>

(* What Recover of a built-in strategy does to the agent: it trims the    *)
(* conversation or sets a flag that nothing reads.                        *)
Effect(s) == CASE s = "reset_state"     -> [wrapped EXCEPT !.conversation = 0]
               [] s = "simplify_prompt" -> [wrapped EXCEPT !.simplified_mode = TRUE]
               [] s = "fallback_model"  -> [wrapped EXCEPT !.use_fallback_model = TRUE]
               [] OTHER                 -> wrapped

(* A variant that does not consult what was learned. *)
NothingConsulted(h) ==
  /\ Healing(h, "failed")
  /\ Moves(h, "trying")
  /\ UNCHANGED <<learning, strategies, learned, stats, errors, writer, wrapped,
                 crashed, counts>>

(* A variant that fails on every read of the patterns. *)
ReadAlwaysCrashes(h) ==
  /\ Healing(h, "failed")
  /\ learning.EnableLearning
  /\ crashed' = TRUE
  /\ UNCHANGED <<learning, strategies, learned, stats, errors, writer, wrapped,
                 healer, counts>>

(* A variant that executes again at once, and does not count the attempt. *)
UseLearnedAtOnce(h) ==
  /\ Healing(h, "failed")
  /\ learning.EnableLearning
  /\ healer[h].err \in DOMAIN learned
  /\ wrapped' = Effect(learned[healer[h].err].strategy)
  /\ Moves(h, "executing")
  /\ UNCHANGED <<learning, strategies, learned, stats, errors, writer, crashed, counts>>

(* tryRecover looks for a learned strategy, without the lock, and uses it. *)
UseLearned(h) ==
  /\ Healing(h, "failed")
  /\ learning.EnableLearning
  /\ healer[h].err \in DOMAIN learned
  /\ wrapped' = Effect(learned[healer[h].err].strategy)
  /\ Moves(h, "waiting")
  /\ UNCHANGED <<learning, strategies, learned, stats, errors, writer, crashed, counts>>

NothingLearned(h) ==
  /\ Healing(h, "failed")
  /\ learning.EnableLearning => healer[h].err \notin DOMAIN learned
  /\ Moves(h, "trying")
  /\ UNCHANGED <<learning, strategies, learned, stats, errors, writer, wrapped,
                 crashed, counts>>

(* The runtime notices that tryRecover reads while learnPattern writes.    *)
ReadWhileWritten(h) ==
  /\ Healing(h, "failed")
  /\ learning.EnableLearning
  /\ ~Unlocked
  /\ crashed' = TRUE
  /\ UNCHANGED <<learning, strategies, learned, stats, errors, writer, wrapped,
                 healer, counts>>

(* updateRecoveryStats of strategies that failed, and of one that did not. *)
Tally(failed, s) ==
  LET old(t) == IF t \in DOMAIN stats THEN stats[t]
                ELSE [TotalAttempts |-> 0, Successful |-> 0, Failed |-> 0]
  IN [t \in DOMAIN stats \cup failed \cup {s} |->
        [TotalAttempts |-> old(t).TotalAttempts + (IF t \in failed \cup {s} THEN 1 ELSE 0),
         Successful    |-> old(t).Successful + (IF t = s THEN 1 ELSE 0),
         Failed        |-> old(t).Failed + (IF t \in failed THEN 1 ELSE 0)]]

(* The application's strategies may decline an error or fail to recover.  *)
TryThese(h, order) ==
  /\ Healing(h, "trying") /\ Unlocked
  /\ \E failing \in SUBSET Custom, n \in DOMAIN order :
       /\ order[n] \notin failing
       /\ \A i \in 1 .. n - 1 : order[i] \in failing
       /\ stats' = Tally({order[i] : i \in 1 .. n - 1}, order[n])
       /\ wrapped' = Effect(order[n])
       /\ healer' = [healer EXCEPT ![h].used = order[n],
                                   ![h].at = IF learning.EnableLearning
                                             THEN "learning" ELSE "waiting"]
  /\ UNCHANGED <<learning, strategies, learned, errors, writer, crashed, counts>>

(* A variant that tries the strategies by their Priority, highest first,   *)
(* as the comment in tryRecover says.                                      *)
TryByPriority(h) == TryThese(h, Reverse(strategies))

TryStrategies(h) == TryThese(h, strategies)

LearnBegins(h) ==
  /\ Healing(h, "learning") /\ Unlocked
  /\ writer' = h
  /\ UNCHANGED <<learning, strategies, learned, stats, errors, wrapped, healer,
                 crashed, counts>>

(* Confidence is counted in tenths.  A pattern that another strategy has   *)
(* outdone is dropped when its confidence falls below one half.            *)
Learned(p, s) ==
  LET lower == IF p.confidence < 2 THEN 0 ELSE p.confidence - 2
  IN IF p.strategy = s
       THEN [p EXCEPT !.confidence = IF @ = 10 THEN 10 ELSE @ + 1]
     ELSE IF lower < 5 THEN [strategy |-> s, confidence |-> 5]
     ELSE [p EXCEPT !.confidence = lower]

LearnEnds(h) ==
  /\ writer = h /\ ~crashed
  /\ writer' = "none"
  /\ LET e == healer[h].err
         s == healer[h].used
         new == IF e \in DOMAIN learned THEN Learned(learned[e], s)
                ELSE [strategy |-> s, confidence |-> 5]
     IN learned' = [t \in DOMAIN learned \cup {e} |-> IF t = e THEN new ELSE learned[t]]
  /\ Moves(h, "waiting")
  /\ UNCHANGED <<learning, strategies, stats, errors, wrapped, crashed, counts>>

(* The sleep before the next attempt. *)
Sleep(h) ==
  /\ Healing(h, "waiting")
  /\ healer' = [healer EXCEPT ![h].at = "executing", ![h].attempt = @ + 1]
  /\ UNCHANGED <<learning, strategies, learned, stats, errors, writer, wrapped,
                 crashed, counts>>

Newest(seq) ==
  IF Len(seq) > HistorySize THEN SubSeq(seq, Len(seq) - HistorySize + 1, Len(seq)) ELSE seq

(* recordRecovery, with the attempts that failed, and Process returns. *)
RecordRecovery(h) ==
  /\ healer[h].at \in {"recovered", "lost"} /\ ~crashed /\ Unlocked
  /\ LET lost == healer[h].at = "lost"
     IN errors' = Newest(Append(errors,
          [err |-> healer[h].err, recovered |-> ~lost,
           attempts |-> IF lost THEN MaxRetries + 1 ELSE healer[h].attempt]))
  /\ healer' = [healer EXCEPT ![h] = Idle]
  /\ UNCHANGED <<learning, strategies, learned, stats, writer, wrapped, crashed, counts>>

(* The program starts anew: nothing of the agent is kept. *)
StartAnew ==
  /\ crashed \/ \A h \in Healers : healer[h].at = "idle"
  /\ strategies' = Defaults
  /\ learned' = <<>> /\ stats' = <<>> /\ errors' = <<>>
  /\ writer' = "none"
  /\ wrapped' = Intact
  /\ healer' = [h \in Healers |-> Idle]
  /\ crashed' = FALSE
  /\ counts' = NoCounts
  /\ UNCHANGED learning

HealerStep(h) ==
  \/ ExecuteSucceeds(h) \/ \E e \in ErrorTypes, n \in {0, 1} : ExecuteFails(h, e, n)
  \/ UseLearned(h) \/ NothingLearned(h) \/ ReadWhileWritten(h)
  \/ TryStrategies(h) \/ LearnBegins(h) \/ LearnEnds(h)
  \/ Sleep(h) \/ RecordRecovery(h)

HealNext ==
  \/ \E h \in Healers : Process(h) \/ HealerStep(h)
  \/ \E s \in Custom \ ToSet(strategies) : RegisterStrategy(s)
  \/ StartAnew

(* A call that has begun goes on: Go's locks do not starve who waits. *)
HealFairness == \A h \in Healers : WF_healVars(HealerStep(h))

HealSpec == HealInit /\ [][HealNext]_healVars /\ HealFairness

-----------------------------------------------------------------------------
Busy == {h \in Healers : healer[h].at # "idle"}
Met  == DOMAIN learned \cup {healer[h].err : h \in {g \in Healers : healer[g].at = "learning"}}

(* Reading the patterns without the lock endangers nobody but those who    *)
(* call Process at once, on an agent that learns (tryRecover, learnPattern).*)
AloneNeverCrashes ==
  crashed => learning.EnableLearning /\ Cardinality(Busy) > 1

(* The first strategy always recovers, so recovery leaves the agent as it  *)
(* is: the conversation keeps all that was ever said, the input of a call  *)
(* once for every attempt, and no strategy but the first is ever used.     *)
RecoveryIsRetry ==
  /\ wrapped = [Intact EXCEPT !.conversation = counts.said]
  /\ DOMAIN stats \subseteq {"retry"}
  /\ \A e \in DOMAIN learned : learned[e].strategy = "retry"

(* Once a type of error has a pattern, its recoveries are counted no more: *)
(* the statistics and the confidence show at most the goroutines that met  *)
(* the type before it was learned (tryRecover).                            *)
StatisticsGoBlind ==
  learning.EnableLearning =>
    /\ \A s \in DOMAIN stats :
         stats[s].TotalAttempts <= Cardinality(Healers) * Cardinality(Met)
    /\ \A e \in DOMAIN learned : learned[e].confidence < 5 + Cardinality(Healers)

(* The error history holds the newest of the calls that met an error and   *)
(* have returned (recordRecovery).                                         *)
Returned == counts.met - Cardinality({h \in Busy : healer[h].err # "nil"})
HistoryIsNewest == Len(errors) = IF Returned > HistorySize THEN HistorySize ELSE Returned

HealingIsTrue == AloneNeverCrashes /\ RecoveryIsRetry /\ StatisticsGoBlind /\ HistoryIsNewest

(* A call of Process returns, unless the program ends. *)
HealingEnds == \A h \in Healers : h \in Busy ~> (h \notin Busy \/ crashed)
=============================================================================
