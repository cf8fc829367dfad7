------------------------------ MODULE Gateway ------------------------------
(***************************************************************************)
(* The AIGateway of gateway.go over one LLMManager that has the providers: *)
(* calls of Chat and ChatStream, each of which is routed and tries its     *)
(* routes one after the other, and the ProviderHealthChecker that says     *)
(* which of them to pass over.                                             *)
(*                                                                         *)
(* The gateway's configuration does not change after Build.  The health    *)
(* checker was started once, for the providers in Watched.  The gateway    *)
(* itself never records how a request went; the application may.           *)
(***************************************************************************)
EXTENDS Routing, LLMManager

CONSTANTS Requests,   \* what may be asked for: see DefaultAnswers and the others
          Watched,    \* the providers given to healthChecker.Start
          Tolerated,  \* failures that do not yet make a provider unhealthy: 3
          MaxRecords  \* bound: how often the application records a result

RouterKinds  == {"default", "cost", "capability", "latency", "custom"}
DecisionType == [provider : Names \union {None}, model : Models \union {None},
                 confidence : Nat, alternatives : Seq(Names)]

ASSUME GAssumption ==
  /\ Registered \subseteq Names /\ Watched \subseteq Names
  /\ Tolerated \in Nat /\ MaxRecords \in Nat
  /\ Routers \in Seq(RouterKinds)
  /\ DefaultModel \in [Registered -> Models]
  /\ Fallbacks \in [Models \union {None} -> Seq(Names \union {None})]
  /\ IsFiniteSet(Capable)
  /\ \A c \in Capable : c.provider \in Names /\ c.model \in Models /\ c.score \in Nat
  /\ Custom \subseteq DecisionType \union {None, Failed}
  /\ \A req \in Requests : req.model \in Models \union {None} /\ req.provider \in Names \union {None}

VARIABLES pc,       \* where each call of the gateway is
          routes,   \* its routes
          pos,      \* the one it has come to
          passed,   \* providers that it could not use, or had no time to retry
          heard,    \* the routes from which its handler has had events
          broken,   \* calls whose stream broke off half-way or whose handler refused
          healthy,  \* status.Healthy of the watched providers
          results,  \* status.Successes and status.Failures
          checker,  \* the health checker's goroutine; while "checking" it has the lock
          checked,  \* the providers it has checked since it took the lock
          probes,   \* checkFunc is there
          up        \* what checkFunc would say

calls  == <<pc, routes, pos, passed, heard, broken>>
health == <<healthy, results, checker, checked, probes, up>>
vars   == <<calls, health, manager>>

Ended == {"answered", "failed", "panicked"}

TypeOK ==
  /\ ManagerTypeOK
  /\ pc \in [Calls -> {"idle", "trying"} \union Ended]
  /\ routes \in [Calls -> Seq(Names \union {None})]
  /\ pos \in [Calls -> Nat]
  /\ passed \in [Calls -> SUBSET (Names \union {None})]
  /\ heard \in [Calls -> SUBSET Nat]
  /\ broken \in SUBSET Streams
  /\ healthy \in [Watched -> BOOLEAN]
  /\ results \in [Watched -> Counts]
  /\ checker \in {"resting", "checking", "stopped"}
  /\ checked \in SUBSET Watched
  /\ probes \in BOOLEAN
  /\ up \in [Watched -> BOOLEAN]

-----------------------------------------------------------------------------
Init ==
  /\ ManagerInit
  /\ pc = [c \in Calls |-> "idle"]
  /\ routes = [c \in Calls |-> <<>>]
  /\ pos = [c \in Calls |-> 1]
  /\ passed = [c \in Calls |-> {}]
  /\ heard = [c \in Calls |-> {}]
  /\ broken = {}
  /\ healthy = [p \in Watched |-> TRUE]
  /\ results = [p \in Watched |-> [ok |-> 0, failed |-> 0]]
  /\ checker = "resting"
  /\ checked = {}
  /\ probes \in BOOLEAN
  /\ up \in [Watched -> BOOLEAN]

(* The decisions that each request may lead to, within the budget or not. *)
DecisionTable == [req \in Requests |-> [within \in BOOLEAN |-> Decisions(req, within)]]

(* Chat and ChatStream begin: the decision, and the routes that follow     *)
(* from it.  A nil decision that is looked into ends the call in a panic.  *)
Begin(c, req, within) ==
  /\ pc[c] = "idle"
  /\ \E d \in DecisionTable[req][within] :
       LET fails == d \in {None, Panic} IN
       /\ pc' = [pc EXCEPT ![c] = IF d = Panic THEN "panicked"
                                 ELSE IF d = None THEN "failed" ELSE "trying"]
       /\ routes' = [routes EXCEPT ![c] = IF fails THEN <<>> ELSE RouteList(d)]
  /\ UNCHANGED <<pos, passed, heard, broken, health, manager>>

(* IsHealthy, which waits while the health checker has the lock. *)
IsHealthy(p) == p \in Watched => healthy[p]

AtRoute(c) == /\ pc[c] = "trying" /\ phase[c] = "out" /\ pos[c] <= Len(routes[c])
              /\ checker # "checking"

Usable(p) == IsHealthy(p) /\ p \in Registered

(* A provider that is unhealthy, or that the gateway does not know, is     *)
(* passed over.                                                            *)
SkipRoute(c) ==
  /\ AtRoute(c)
  /\ ~Usable(routes[c][pos[c]])
  /\ passed' = [passed EXCEPT ![c] = @ \union {routes[c][pos[c]]}]
  /\ pos' = [pos EXCEPT ![c] = @ + 1]
  /\ UNCHANGED <<pc, routes, heard, broken, health, manager>>

TryRoute(c) ==
  /\ AtRoute(c)
  /\ LET p == routes[c][pos[c]] IN
       /\ Usable(p)
       /\ ManagerCall(c, p)
       /\ passed' = [passed EXCEPT ![c] = IF p \in providers THEN @ ELSE @ \union {p}]
  /\ UNCHANGED <<pc, routes, pos, heard, broken, health>>

(* A variant: ChatStream goes on to the next route after a success. *)
AfterRouteGoesOn(c) ==
  /\ pc[c] = "trying" /\ phase[c] \in Returned
  /\ IF phase[c] = "answered" /\ c \notin Streams
     THEN pc' = [pc EXCEPT ![c] = "answered"] /\ UNCHANGED <<pos, phase>>
     ELSE /\ pos' = [pos EXCEPT ![c] = @ + 1]
          /\ phase' = [phase EXCEPT ![c] = "out"]
          /\ UNCHANGED pc
  /\ UNCHANGED <<routes, passed, heard, broken, health>>
  /\ UNCHANGED <<providers, stats, target, attempt, sent, deadline, asked, late>>

(* The manager has returned: the first success is the answer, a failure    *)
(* leads on to the next route.  The context is not looked at.              *)
AfterRoute(c) ==
  /\ pc[c] = "trying" /\ phase[c] \in Returned
  /\ IF phase[c] = "answered"
     THEN pc' = [pc EXCEPT ![c] = "answered"] /\ UNCHANGED <<pos, phase>>
     ELSE /\ pos' = [pos EXCEPT ![c] = @ + 1]
          /\ phase' = [phase EXCEPT ![c] = "out"]
          /\ UNCHANGED pc
  /\ UNCHANGED <<routes, passed, heard, broken, health>>
  /\ UNCHANGED <<providers, stats, target, attempt, sent, deadline, asked, late>>

(* A variant: the last route is left out. *)
AllRoutesFailedEarly(c) ==
  /\ pc[c] = "trying" /\ phase[c] = "out" /\ pos[c] >= Len(routes[c])
  /\ pc' = [pc EXCEPT ![c] = "failed"]
  /\ UNCHANGED <<routes, pos, passed, heard, broken, health, manager>>

AllRoutesFailed(c) ==
  /\ pc[c] = "trying" /\ phase[c] = "out" /\ pos[c] > Len(routes[c])
  /\ pc' = [pc EXCEPT ![c] = "failed"]
  /\ UNCHANGED <<routes, pos, passed, heard, broken, health, manager>>

-----------------------------------------------------------------------------
(* What the manager does for a call, and what the gateway's caller sees of *)
(* it.                                                                     *)
Hears(c, accepts) ==
  /\ heard' = [heard EXCEPT ![c] = @ \union {pos[c]}]
  /\ broken' = IF accepts THEN broken ELSE broken \union {c}
  /\ UNCHANGED passed

HearsNothing == UNCHANGED <<passed, heard, broken>>

Reply(c) ==
  \/ ProviderAnswers(c) /\ HearsNothing
  \/ ProviderFails(c) /\ HearsNothing
  \/ Retry(c) /\ HearsNothing
  \/ SimulateStream(c) /\ HearsNothing
  \/ /\ CancelledWaiting(c)
     /\ passed' = [passed EXCEPT ![c] = @ \union {target[c]}]
     /\ UNCHANGED <<heard, broken>>
  \/ \E done, accepts \in BOOLEAN : Event(c, done, accepts) /\ Hears(c, accepts)
  \/ \E accepts \in BOOLEAN : SimulatedEvent(c, accepts) /\ Hears(c, accepts)
  \/ /\ StreamBreaks(c)
     /\ broken' = IF sent[c] > 0 THEN broken \union {c} ELSE broken
     /\ UNCHANGED <<passed, heard>>

ManagerStep(c) == Reply(c) /\ UNCHANGED <<pc, routes, pos, health>>

Timeout(c) == \E whose \in {"own", "caller"} :
                Expire(c, whose) /\ UNCHANGED <<calls, health>>

Registration == \E p \in Names : RegisterProvider(p) /\ UNCHANGED <<calls, health>>

-----------------------------------------------------------------------------
(* runChecks: a tick takes the lock and keeps it while the providers are   *)
(* checked one after the other.                                            *)
Tick ==
  /\ checker = "resting"
  /\ checker' = "checking"
  /\ UNCHANGED <<healthy, results, checked, probes, up, calls, manager>>

(* A variant: a check may find a provider unhealthy, never well again. *)
CheckNeverWell(p) ==
  /\ checker = "checking" /\ p \in Watched \ checked
  /\ checked' = checked \union {p}
  /\ healthy' = IF probes THEN [healthy EXCEPT ![p] = @ /\ up[p]] ELSE healthy
  /\ UNCHANGED <<results, checker, probes, up, calls, manager>>

Check(p) ==
  /\ checker = "checking" /\ p \in Watched \ checked
  /\ checked' = checked \union {p}
  /\ healthy' = IF probes THEN [healthy EXCEPT ![p] = up[p]] ELSE healthy
  /\ UNCHANGED <<results, checker, probes, up, calls, manager>>

(* A variant: the lock is not released between two rounds of checks. *)
EndTickLocked ==
  /\ checker = "checking" /\ checked = Watched
  /\ checked' = {}
  /\ UNCHANGED <<healthy, results, checker, probes, up, calls, manager>>

EndTick ==
  /\ checker = "checking" /\ checked = Watched
  /\ checker' = "resting" /\ checked' = {}
  /\ UNCHANGED <<healthy, results, probes, up, calls, manager>>

Stop ==
  /\ checker = "resting"
  /\ checker' = "stopped"
  /\ UNCHANGED <<healthy, results, checked, probes, up, calls, manager>>

(* RecordSuccess and RecordFailure by the application: more than Tolerated *)
(* failures that are more than half of all make the provider unhealthy.    *)
RecordSuccess(p) ==
  /\ checker # "checking" /\ results[p].ok + results[p].failed < MaxRecords
  /\ results' = [results EXCEPT ![p].ok = @ + 1]
  /\ healthy' = [healthy EXCEPT ![p] = TRUE]
  /\ UNCHANGED <<checker, checked, probes, up, calls, manager>>

RecordFailure(p) ==
  /\ checker # "checking" /\ results[p].ok + results[p].failed < MaxRecords
  /\ results' = [results EXCEPT ![p].failed = @ + 1]
  /\ healthy' = [healthy EXCEPT ![p] =
       @ /\ ~(results'[p].failed > results'[p].ok /\ results'[p].failed > Tolerated)]
  /\ UNCHANGED <<checker, checked, probes, up, calls, manager>>

ProviderTurns(p) ==
  /\ up' = [up EXCEPT ![p] = ~@]
  /\ UNCHANGED <<healthy, results, checker, checked, probes, calls, manager>>

HealthStep == \/ Tick \/ EndTick \/ Stop
              \/ \E p \in Watched : \/ Check(p) \/ ProviderTurns(p)
                                     \/ RecordSuccess(p) \/ RecordFailure(p)

CallStep(c) ==
  \/ \E req \in Requests, within \in BOOLEAN : Begin(c, req, within)
  \/ SkipRoute(c) \/ TryRoute(c) \/ AfterRoute(c) \/ AllRoutesFailed(c)
  \/ ManagerStep(c) \/ Timeout(c)

Next == \/ \E c \in Calls : CallStep(c)
        \/ HealthStep
        \/ Registration

(* Everyone goes on who can: providers answer or fail in the end, handlers *)
(* return, checks end, the ticker ticks.  Readers that wait for the health *)
(* checker's lock get it when it is released (sync.RWMutex).               *)
Fairness ==
  /\ \A c \in Calls : /\ SF_vars(SkipRoute(c) \/ TryRoute(c))
                      /\ WF_vars(AfterRoute(c) \/ AllRoutesFailed(c) \/ ManagerStep(c))
  /\ WF_vars(Tick \/ EndTick \/ \E p \in Watched : Check(p))

Spec     == Init /\ [][Next]_vars
FairSpec == Spec /\ Fairness

-----------------------------------------------------------------------------
Times(c, p) == Cardinality({i \in DOMAIN routes[c] : routes[c][i] = p})

(* A call fails only after every provider on its list was of no use, ran   *)
(* out of time, or failed as often as it may be tried, for every place it  *)
(* has on the list: no route is left out, whatever the health checker and  *)
(* the registrations do meanwhile (Chat, ChatStream, LLMManager.Chat).     *)
FailsForCause ==
  \A c \in Calls : pc[c] = "failed" =>
    \A i \in DOMAIN routes[c] : LET p == routes[c][i] IN
      \/ p \in passed[c]
      \/ asked[c][p] = Times(c, p) * (IF c \in Streams THEN 1 ELSE MaxRetries + 1)

(* A call has a provider asked at most MaxRetries + 1 times for each place *)
(* it has on the list, and after its own deadline, which the gateway does  *)
(* not look at, at most once for each route that is left.                  *)
AsksBounded ==
  \A c \in Calls :
    /\ \A p \in Names : asked[c][p] <= Times(c, p) * (MaxRetries + 1)
    /\ late[c] <= Len(routes[c])

(* A handler hears a single provider, the one that answers, unless a       *)
(* provider broke off in the middle of its stream or the handler itself    *)
(* returned an error (ChatStream starts the next one on the same handler). *)
OneVoice == \A c \in Streams \ broken : heard[c] \subseteq {pos[c]}

(* Every answer an application gets is in the statistics, under the        *)
(* provider that gave it, and nothing else is counted as a success; only   *)
(* the streams that are made up from an answer are missing (updateStats).  *)
Served(p) == {c \in Calls : /\ phase[c] = "answered" /\ target[c] = p
                            /\ c \in Streams => p \in Streaming}
AnswersAreCounted ==
  /\ \A p \in Names : stats.of[p].ok = Cardinality(Served(p))
  /\ stats.all.ok = Cardinality(UNION {Served(p) : p \in Names})

(* Asks and answers are in proportion to what is called and counted. *)
AsksAreAccounted == AsksBounded /\ AnswersAreCounted

(* The list of routes is tried as far as it must be and no further. *)
RoutesAreTried == FailsForCause /\ AsksAreAccounted

(* Every call comes to an end, however the health checker holds its lock   *)
(* and whatever providers come and go.                                     *)
CallsEnd == \A c \in Calls : (pc[c] = "trying") ~> (pc[c] \in Ended)

(* A provider that was taken for unhealthy is used again once it is well,  *)
(* whatever the application recorded, if the checker can find out.         *)
HealthReturns ==
  \A p \in Watched : []<>(healthy[p] \/ ~up[p] \/ ~probes \/ checker = "stopped")

(* Neither a call nor a provider waits for ever. *)
GatewayLives == CallsEnd /\ HealthReturns
=============================================================================
