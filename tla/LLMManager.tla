----------------------------- MODULE LLMManager -----------------------------
(***************************************************************************)
(* LLMManager of llm/manager.go: Chat with its retries, ChatStream over a  *)
(* provider that streams or one that does not, the registration of         *)
(* providers and the statistics.                                           *)
(*                                                                         *)
(* Each call of the manager is made by one of Calls and is in a phase; a   *)
(* call that has returned stays in the phase that says how until its       *)
(* caller goes on.  What a provider answers, and when, is its own affair.  *)
(* RetryDelay is taken to be positive.                                     *)
(***************************************************************************)
EXTENDS Naturals, FiniteSets

CONSTANTS Calls,      \* those who call the manager, one call at a time each
          Streams,    \* those of them that call ChatStream
          Names,      \* names that may stand for a provider
          Streaming,  \* providers that stream (StreamingProvider)
          Nobody,     \* no provider yet
          MaxRetries, \* config.MaxRetries
          MaxEvents   \* bound: events of one stream before "done"

ASSUME LMAssumption ==
  /\ IsFiniteSet(Calls)
  /\ MaxRetries \in Nat
  /\ MaxEvents \in Nat
  /\ Streams \subseteq Calls

VARIABLES providers,  \* names registered with the manager
          stats,      \* requests that succeeded and failed, in all and by provider
          phase,      \* where each call of the manager is
          target,     \* the provider it is for
          attempt,    \* how often it was retried
          sent,       \* the events its stream has had, MaxEvents + 1 after "done"
          deadline,   \* "open", or whose deadline has passed: "own", "caller"
          asked,      \* how often each caller has had each provider asked
          late        \* how often after its own deadline

manager == <<providers, stats, phase, target, attempt, sent, deadline, asked, late>>

Working  == {"asking", "waiting", "streaming", "simulating", "message", "closing"}
Returned == {"answered", "failed"}
Counts   == [ok : Nat, failed : Nat]

ManagerTypeOK ==
  /\ providers \in SUBSET Names
  /\ stats \in [all : Counts, of : [Names -> Counts], healthy : [Names -> BOOLEAN]]
  /\ phase \in [Calls -> {"out"} \union Working \union Returned]
  /\ target \in [Calls -> Names \union {Nobody}]
  /\ attempt \in [Calls -> 0 .. MaxRetries]
  /\ sent \in [Calls -> 0 .. MaxEvents + 1]
  /\ deadline \in [Calls -> {"open", "own", "caller"}]
  /\ asked \in [Calls -> [Names -> Nat]]
  /\ late \in [Calls -> Nat]

-----------------------------------------------------------------------------
(* Some providers are registered before the first call, others later. *)
ManagerInit ==
  /\ providers \in SUBSET Names
  /\ stats = [all |-> [ok |-> 0, failed |-> 0],
              of  |-> [p \in Names |-> [ok |-> 0, failed |-> 0]],
              healthy |-> [p \in Names |-> TRUE]]
  /\ phase = [c \in Calls |-> "out"]
  /\ target = [c \in Calls |-> Nobody]
  /\ attempt = [c \in Calls |-> 0]
  /\ sent = [c \in Calls |-> 0]
  /\ deadline = [c \in Calls |-> "open"]
  /\ asked = [c \in Calls |-> [p \in Names |-> 0]]
  /\ late = [c \in Calls |-> 0]

(* A name that is taken is refused, so that nobody's counts are reset. *)
RegisterProvider(p) ==
  /\ p \notin providers
  /\ providers' = providers \union {p}
  /\ stats' = [stats EXCEPT !.of[p] = [ok |-> 0, failed |-> 0], !.healthy[p] = TRUE]
  /\ UNCHANGED <<phase, target, attempt, sent, deadline, asked, late>>

(* The provider is asked on behalf of c. *)
Asks(c, p) ==
  /\ asked' = [asked EXCEPT ![c][p] = @ + 1]
  /\ late' = [late EXCEPT ![c] = IF deadline[c] = "caller" THEN @ + 1 ELSE @]

(* updateStats *)
UpdateStats(p, kind) ==
  stats' = [stats EXCEPT !.all[kind] = @ + 1, !.of[p][kind] = @ + 1,
                         !.healthy[p] = (kind = "ok")]

(* Chat or ChatStream is called: the manager's own timeout starts afresh,  *)
(* under the caller's deadline.                                            *)
ManagerCall(c, p) ==
  /\ phase[c] = "out"
  /\ target' = [target EXCEPT ![c] = p]
  /\ attempt' = [attempt EXCEPT ![c] = 0]
  /\ sent' = [sent EXCEPT ![c] = 0]
  /\ deadline' = [deadline EXCEPT ![c] = IF @ = "own" THEN "open" ELSE @]
  /\ phase' = [phase EXCEPT ![c] = IF p \notin providers THEN "failed"
                                   ELSE IF c \notin Streams THEN "asking"
                                   ELSE IF p \in Streaming THEN "streaming"
                                   ELSE "simulating"]
  /\ IF p \in providers THEN Asks(c, p) ELSE UNCHANGED <<asked, late>>
  /\ UNCHANGED <<providers, stats>>

Goes(c, where) == phase' = [phase EXCEPT ![c] = where]

(* provider.Chat answers, or an event stream ends, be it without "done". *)
ProviderAnswers(c) ==
  /\ phase[c] \in {"asking", "streaming"}
  /\ Goes(c, "answered")
  /\ UpdateStats(target[c], "ok")
  /\ UNCHANGED <<providers, target, attempt, sent, deadline, asked, late>>

(* provider.Chat fails: there is another try after RetryDelay, or none. *)
ProviderFails(c) ==
  /\ phase[c] = "asking"
  /\ IF attempt[c] < MaxRetries
     THEN Goes(c, "waiting") /\ UNCHANGED stats
     ELSE Goes(c, "failed") /\ UpdateStats(target[c], "failed")
  /\ UNCHANGED <<providers, target, attempt, sent, deadline, asked, late>>

(* A variant: the wait before the retry does not look at the context. *)
RetryRegardless(c) ==
  /\ phase[c] = "waiting"
  /\ Goes(c, "asking")
  /\ attempt' = [attempt EXCEPT ![c] = @ + 1]
  /\ Asks(c, target[c])
  /\ UNCHANGED <<providers, stats, target, sent, deadline>>

(* The retry, unless the context is done first. *)
Retry(c) ==
  /\ phase[c] = "waiting"
  /\ deadline[c] = "open"
  /\ Goes(c, "asking")
  /\ attempt' = [attempt EXCEPT ![c] = @ + 1]
  /\ Asks(c, target[c])
  /\ UNCHANGED <<providers, stats, target, sent, deadline>>

(* A deadline that passes meanwhile ends the call; it is not counted. *)
CancelledWaiting(c) ==
  /\ phase[c] = "waiting"
  /\ deadline[c] # "open"
  /\ Goes(c, "failed")
  /\ UNCHANGED <<providers, stats, target, attempt, sent, deadline, asked, late>>

(* A streaming provider calls the handler; an error of the handler ends the *)
(* provider's ChatStream with that error.                                  *)
Event(c, done, accepts) ==
  /\ phase[c] = "streaming"
  /\ sent[c] < (IF done THEN MaxEvents + 1 ELSE MaxEvents)
  /\ sent' = [sent EXCEPT ![c] = IF done THEN MaxEvents + 1 ELSE @ + 1]
  /\ IF accepts THEN UNCHANGED <<phase, stats>>
                ELSE Goes(c, "failed") /\ UpdateStats(target[c], "failed")
  /\ UNCHANGED <<providers, target, attempt, deadline, asked, late>>

(* The stream breaks off; after "done" only a provider that reads on until *)
(* its context is done can still fail.                                     *)
StreamBreaks(c) ==
  /\ phase[c] = "streaming"
  /\ sent[c] = MaxEvents + 1 => deadline[c] # "open"
  /\ Goes(c, "failed")
  /\ UpdateStats(target[c], "failed")
  /\ UNCHANGED <<providers, target, attempt, sent, deadline, asked, late>>

(* A provider that does not stream is asked once; its answer, if it has    *)
(* one, becomes a message event and a "done" event.  None of it is counted. *)
SimulateStream(c) ==
  /\ phase[c] = "simulating"
  /\ \E where \in {"failed", "message", "closing"} : Goes(c, where)
  /\ UNCHANGED <<providers, stats, target, attempt, sent, deadline, asked, late>>

(* A variant: a made-up stream is counted. *)
SimulatedEventCounted(c, accepts) ==
  /\ phase[c] \in {"message", "closing"}
  /\ sent' = [sent EXCEPT ![c] = IF phase[c] = "closing" THEN MaxEvents + 1 ELSE @]
  /\ Goes(c, IF ~accepts THEN "failed"
             ELSE IF phase[c] = "message" THEN "closing" ELSE "answered")
  /\ UpdateStats(target[c], "ok")
  /\ UNCHANGED <<providers, target, attempt, deadline, asked, late>>

(* The events of such a stream, and what the handler makes of them. *)
SimulatedEvent(c, accepts) ==
  /\ phase[c] \in {"message", "closing"}
  /\ sent' = [sent EXCEPT ![c] = IF phase[c] = "closing" THEN MaxEvents + 1 ELSE @]
  /\ Goes(c, IF ~accepts THEN "failed"
             ELSE IF phase[c] = "message" THEN "closing" ELSE "answered")
  /\ UNCHANGED <<providers, stats, target, attempt, deadline, asked, late>>

(* A deadline passes: the manager's own for this call, or the caller's. *)
Expire(c, whose) ==
  /\ phase[c] \in Working
  /\ deadline[c] # "caller" /\ deadline[c] # whose
  /\ deadline' = [deadline EXCEPT ![c] = whose]
  /\ UNCHANGED <<providers, stats, phase, target, attempt, sent, asked, late>>
=============================================================================
