-------------------------- MODULE Gateway_proofs --------------------------
(***************************************************************************)
(* Safety of the gateway over its manager, for any number of calls,        *)
(* providers, routers and retries.                                         *)
(*                                                                         *)
(* A call of the manager is made for the route the gateway has come to     *)
(* (PhaseInv).  From there the questions put to a provider are counted     *)
(* route by route: every route that was passed cost all its tries, unless  *)
(* the provider was of no use (AskInv).                                    *)
(***************************************************************************)
EXTENDS Gateway, FiniteSetTheorems, TLAPS

(* The tries a route of c costs when nothing cuts them short. *)
Tries(c) == IF c \in Streams THEN 1 ELSE MaxRetries + 1

(* The first k places of a list of routes at which p stands. *)
Places(s, p, k) == {i \in 1 .. k : s[i] = p}
Before(c, p)    == Cardinality(Places(routes[c], p, pos[c] - 1))

(* The questions of the manager call under way. *)
Now(c, p) == IF phase[c] # "out" /\ target[c] = p THEN attempt[c] + 1 ELSE 0

(* The manager works for the route its caller has come to, and only on     *)
(* what that caller can have asked for.                                    *)
PhaseOK(c) ==
  /\ pc[c] \in {"idle", "failed", "panicked"} => phase[c] = "out"
  /\ pc[c] = "answered" => phase[c] = "answered"
  /\ pc[c] = "idle" => pos[c] = 1 /\ late[c] = 0
  /\ pc[c] = "failed" => pos[c] = Len(routes[c]) + 1
  /\ pos[c] \in 1 .. Len(routes[c]) + 1
  /\ phase[c] # "out" => /\ pos[c] <= Len(routes[c])
                         /\ target[c] = routes[c][pos[c]]
                         /\ target[c] \in Names
  /\ phase[c] \in Working \union {"answered"} => target[c] \in providers
  /\ phase[c] \in {"asking", "waiting"} => c \notin Streams
  /\ phase[c] = "waiting" => attempt[c] < MaxRetries
  /\ phase[c] = "streaming" => c \in Streams /\ target[c] \in Streaming
  /\ phase[c] \in {"simulating", "message", "closing"} => c \in Streams /\ target[c] \notin Streaming
  /\ c \in Streams => attempt[c] = 0
PhaseInv == \A c \in Calls : PhaseOK(c)

(* A handler that has heard a provider is with the one it has heard. *)
VoiceOK(c) ==
  c \in Streams \ broken =>
    /\ heard[c] \subseteq {pos[c]}
    /\ phase[c] \in {"out", "failed", "simulating", "message"} => heard[c] = {}
    /\ phase[c] = "streaming" /\ sent[c] = 0 => heard[c] = {}
VoiceInv == \A c \in Calls : VoiceOK(c)

(* What the routes so far have cost. *)
AskOK(c) ==
  /\ \A i \in 1 .. pos[c] - 1 : routes[c][i] \in passed[c] \union Names
  /\ \A p \in Names :
       /\ asked[c][p] <= (MaxRetries + 1) * Before(c, p) + Now(c, p)
       /\ p \notin passed[c] => asked[c][p] = Tries(c) * Before(c, p) + Now(c, p)
  /\ phase[c] = "failed" /\ target[c] \notin passed[c] => attempt[c] + 1 = Tries(c)
  /\ late[c] <= pos[c] - 1 + (IF phase[c] = "out" THEN 0 ELSE 1)
AskInv == \A c \in Calls : AskOK(c)

IInv == TypeOK /\ PhaseInv /\ VoiceInv /\ AskInv /\ AnswersAreCounted

(* A step leaves what it knows of the call c alone. *)
Stays(c) ==
  /\ pc'[c] = pc[c] /\ routes'[c] = routes[c] /\ pos'[c] = pos[c]
  /\ passed'[c] = passed[c] /\ heard'[c] = heard[c]
  /\ c \in broken' <=> c \in broken
  /\ phase'[c] = phase[c] /\ target'[c] = target[c] /\ attempt'[c] = attempt[c]
  /\ sent'[c] = sent[c] /\ asked'[c] = asked[c] /\ late'[c] = late[c]
  /\ providers \subseteq providers'

-----------------------------------------------------------------------------
(* What the routers decide is a list of routes. *)
LEMMA AnswersTyped ==
  ASSUME NEW req \in Requests, NEW within \in BOOLEAN, NEW i \in DOMAIN Routers,
         NEW a \in AnswersOf(Routers[i], req, within)
  PROVE  a \in DecisionType \union {None, Failed}
<1>0. Routers[i] \in RouterKinds
  BY GAssumption
<1>1. \A p \in Names \union {None}, md \in Models \union {None}, cf \in Nat, alts \in Seq(Names) :
        Decision(p, md, cf, alts) \in DecisionType
  BY DEF Decision, DecisionType
<1>2. <<>> \in Seq(Names) /\ {50, 70, 80, 90, 100} \subseteq Nat
  OBVIOUS
<1>3. /\ req.model \in Models \union {None} /\ req.provider \in Names \union {None}
      /\ Registered \subseteq Names
      /\ \A p \in Registered : DefaultModel[p] \in Models
  BY GAssumption
<1>4. CASE Routers[i] = "default"
  <2> DEFINE fit == {p \in Registered \ req.exclude : req.prefer = {} \/ p \in req.prefer}
  <2>1. a \in DefaultAnswers(req)
    BY <1>4 DEF AnswersOf
  <2>2. CASE req.model # None
    <3>1. \E p \in Names \union {None} : a = Decision(p, req.model, 100, <<>>)
      BY <1>3, <2>1, <2>2 DEF DefaultAnswers
    <3>2. PICK p \in Names \union {None} : a = Decision(p, req.model, 100, <<>>)
      BY <3>1
    <3>3. Decision(p, req.model, 100, <<>>) \in DecisionType
      BY <1>1, <1>2, <1>3
    <3>4. QED
      BY <3>2, <3>3
  <2>3. CASE req.model = None /\ a # None
    <3>1. \E p \in Registered, cf \in {50, 70} : a = Decision(p, DefaultModel[p], cf, <<>>)
      <4>1. CASE fit # {}
        BY <2>1, <2>3, <4>1 DEF DefaultAnswers
      <4>2. CASE fit = {}
        BY <2>1, <2>3, <4>2 DEF DefaultAnswers
      <4>3. QED
        BY <4>1, <4>2
    <3>2. PICK p \in Registered, cf \in {50, 70} : a = Decision(p, DefaultModel[p], cf, <<>>)
      BY <3>1
    <3>3. p \in Names /\ DefaultModel[p] \in Models /\ cf \in Nat
      BY <1>3
    <3>4. QED
      BY <1>1, <1>2, <3>2, <3>3
  <2>4. QED
    BY <2>2, <2>3
<1>5. CASE Routers[i] = "cost"
  <2> DEFINE priced == Registered \intersect DOMAIN Price
             fit    == {p \in priced : req.maxCost > 0 /\ Price[p] <= req.maxCost}
  <2>1. a \in CostAnswers(req, within)
    BY <1>5 DEF AnswersOf
  <2>2. SUFFICES ASSUME a # None PROVE a \in DecisionType
    OBVIOUS
  <2>3. \E p \in Registered, cf \in {80, 90} : a = Decision(p, DefaultModel[p], cf, <<>>)
    <3>1. CASE ~within /\ priced # {}
      BY <2>1, <3>1 DEF CostAnswers, Cheapest
    <3>2. CASE ~(~within /\ priced # {}) /\ fit # {}
      <4>1. a \in {Decision(p, DefaultModel[p], 80, <<>>) : p \in fit}
        BY <2>1, <3>2 DEF CostAnswers
      <4>2. QED
        BY <4>1
    <3>3. CASE ~(~within /\ priced # {}) /\ fit = {}
      <4>1. a \in {None}
        BY <2>1, <3>3 DEF CostAnswers
      <4>2. QED
        BY <2>2, <4>1
    <3>4. QED
      BY <3>1, <3>2, <3>3
  <2>4. PICK p \in Registered, cf \in {80, 90} : a = Decision(p, DefaultModel[p], cf, <<>>)
    BY <2>3
  <2>5. p \in Names /\ DefaultModel[p] \in Models /\ cf \in Nat
    BY <1>3
  <2>6. Decision(p, DefaultModel[p], cf, <<>>) \in DecisionType
    <3>1. p \in Names \union {None} /\ DefaultModel[p] \in Models \union {None} /\ <<>> \in Seq(Names)
      BY <1>2, <2>5
    <3>2. QED
      BY <1>1, <2>5, <3>1
  <2>7. QED
    BY <2>4, <2>6
<1>6. CASE Routers[i] = "latency"
  <2> DEFINE model(p) == IF req.model = None THEN DefaultModel[p] ELSE req.model
             known    == {p \in Registered \ req.exclude : <<p, model(p)>> \in DOMAIN Speed}
             fastest  == {p \in known : \A q \in known : Speed[<<p, model(p)>>] <= Speed[<<q, model(q)>>]}
  <2>1. a \in LatencyAnswers(req)
    BY <1>6 DEF AnswersOf
  <2>2. SUFFICES ASSUME a # None PROVE a \in DecisionType
    OBVIOUS
  <2>3. a \in {Decision(p, model(p), 80, <<>>) : p \in fastest}
    BY <2>1, <2>2 DEF LatencyAnswers
  <2>4. PICK p \in fastest : a = Decision(p, model(p), 80, <<>>)
    BY <2>3
  <2>5. \E md \in Models \union {None} : a = Decision(p, md, 80, <<>>)
    BY <1>3, <2>4
  <2>6. PICK md \in Models \union {None} : a = Decision(p, md, 80, <<>>)
    BY <2>5
  <2>7. p \in Names /\ 80 \in Nat
    BY <1>3
  <2>8. QED
    BY <1>1, <1>2, <2>6, <2>7
<1>7. CASE Routers[i] = "custom"
  BY <1>7, GAssumption DEF AnswersOf
<1>8. CASE Routers[i] = "capability"
  <2> DEFINE match == {c \in Capable : c.provider \notin req.exclude /\ c.score > 0}
             n     == Cardinality(match)
  <2>1. a \in CapabilityAnswers(req)
    BY <1>8 DEF AnswersOf
  <2>2. SUFFICES ASSUME a # None PROVE a \in DecisionType
    OBVIOUS
  <2> DEFINE orders    == {s \in [1 .. n -> match] :
                             \A k, j \in DOMAIN s : s[k] = s[j] => k = j}
             scores(s) == [k \in DOMAIN s |-> s[k].score]
             others(s) == [k \in 1 .. Len(s) - 1 |-> s[k + 1].provider]
             given(s)  == {Decision(s[k].provider, s[k].model, s[k].score, others(s)) :
                             k \in Foremost(scores(s), DOMAIN s)}
  <2>3. PICK s \in [1 .. n -> match], j \in 1 .. n :
          a = Decision(s[j].provider, s[j].model, s[j].score, others(s))
    <3>1. a \in UNION {given(s) : s \in orders}
      BY <2>1, <2>2 DEF CapabilityAnswers
    <3>2. PICK s \in orders : a \in given(s)
      BY <3>1
    <3>3. PICK k \in Foremost(scores(s), DOMAIN s) :
            a = Decision(s[k].provider, s[k].model, s[k].score, others(s))
      BY <3>2
    <3>4. s \in [1 .. n -> match] /\ k \in 1 .. n
      BY <3>2, <3>3 DEF Foremost
    <3>5. QED
      BY <3>3, <3>4
  <2>4. s[j] \in Capable
    BY <2>3
  <2>5. s[j].provider \in Names /\ s[j].model \in Models /\ s[j].score \in Nat
    BY <2>4, GAssumption
  <2>6. n \in Nat /\ Len(s) = n
    <3>1. IsFiniteSet(match)
      BY GAssumption, FS_Subset
    <3>2. n \in Nat
      BY <3>1, FS_CardinalityType
    <3>3. QED
      BY <2>3, <3>2
  <2>7. ASSUME NEW k \in 1 .. Len(s) - 1
        PROVE  s[k + 1].provider \in Names
    <3>1. k + 1 \in 1 .. n
      BY <2>6
    <3>2. s[k + 1] \in Capable
      BY <2>3, <3>1
    <3>3. QED
      BY <3>2, GAssumption
  <2>8. [k \in 1 .. Len(s) - 1 |-> s[k + 1].provider] \in Seq(Names)
    <3> DEFINE t == [k \in 1 .. Len(s) - 1 |-> s[k + 1].provider]
    <3>1. CASE n = 0
      <4>1. 1 .. n - 1 = 1 .. 0
        BY <3>1
      <4>2. QED
        BY <2>6, <2>7, <4>1
    <3>2. CASE n # 0
      <4>1. n - 1 \in Nat
        BY <2>6, <3>2
      <4>2. QED
        BY <2>6, <2>7, <4>1
    <3>3. QED
      BY <3>1, <3>2
  <2>9. QED
    BY <1>1, <2>3, <2>5, <2>8
<1>9. QED
  BY <1>0, <1>4, <1>5, <1>6, <1>7, <1>8 DEF RouterKinds

LEMMA DecisionsTyped ==
  ASSUME NEW req \in Requests, NEW within \in BOOLEAN, NEW d \in Decisions(req, within)
  PROVE  d \in DecisionType \union {None, Panic}
<1>1. CASE \E s \in AnswerLists(req, within) : d \in Choice(s)
  <2>1. PICK s \in AnswerLists(req, within) : d \in Choice(s)
    BY <1>1
  <2>2. ASSUME NEW i \in DOMAIN s
        PROVE  s[i] \in DecisionType \union {None, Failed}
    <3>1. i \in DOMAIN Routers /\ s[i] \in AnswersOf(Routers[i], req, within)
      BY <2>1 DEF AnswerLists
    <3>2. QED
      BY <3>1, AnswersTyped
  <2>3. QED
    BY <2>1, <2>2 DEF Choice, Foremost
<1>2. CASE d = None
  BY <1>2
<1>3. CASE \E p \in Registered : d = Decision(p, req.model, 50, <<>>)
  BY <1>3, GAssumption DEF Decision, DecisionType
<1>4. QED
  BY <1>1, <1>2, <1>3 DEF Decisions

LEMMA RoutesTyped ==
  ASSUME NEW d \in DecisionType
  PROVE  /\ RouteList(d) \in Seq(Names \union {None})
<1>1. /\ d.provider \in Names \union {None}
      /\ Fallbacks[d.model] \in Seq(Names \union {None})
      /\ d.alternatives \in Seq(Names)
  BY GAssumption DEF DecisionType
<1> DEFINE fb == Fallbacks[d.model]
           ps == [i \in DOMAIN fb |-> IF fb[i] = None THEN d.provider ELSE fb[i]]
<1>2. ps \in Seq(Names \union {None})
  BY <1>1
<1>3. d.alternatives \in Seq(Names \union {None})
  BY <1>1
<1>4. QED
  BY <1>1, <1>2, <1>3 DEF RouteList

-----------------------------------------------------------------------------
(* What happens to one call leaves the others alone. *)
LEMMA OthersStay ==
  ASSUME TypeOK, NEW c \in Calls, CallStep(c), NEW e \in Calls, e # c
  PROVE  Stays(e)
<1> USE DEF TypeOK, ManagerTypeOK, Stays, calls, health, manager
<1>1. CASE \E req \in Requests, within \in BOOLEAN : Begin(c, req, within)
  BY <1>1 DEF Begin
<1>2. CASE SkipRoute(c)
  BY <1>2 DEF SkipRoute
<1>3. CASE TryRoute(c)
  BY <1>3 DEF TryRoute, ManagerCall, Asks
<1>4. CASE AfterRoute(c)
  BY <1>4 DEF AfterRoute
<1>5. CASE AllRoutesFailed(c)
  BY <1>5 DEF AllRoutesFailed
<1>6. CASE Timeout(c)
  BY <1>6 DEF Timeout, Expire
<1>7. CASE ManagerStep(c)
  <2>0. UNCHANGED <<pc, routes, pos, health>>
    BY <1>7 DEF ManagerStep
  <2>1. CASE ProviderAnswers(c) /\ HearsNothing
    BY <2>0, <2>1 DEF ProviderAnswers, HearsNothing, Goes
  <2>2. CASE ProviderFails(c) /\ HearsNothing
    BY <2>0, <2>2 DEF ProviderFails, HearsNothing, Goes
  <2>3. CASE Retry(c) /\ HearsNothing
    BY <2>0, <2>3 DEF Retry, HearsNothing, Goes, Asks
  <2>4. CASE SimulateStream(c) /\ HearsNothing
    BY <2>0, <2>4 DEF SimulateStream, HearsNothing, Goes
  <2>5. CASE /\ CancelledWaiting(c)
             /\ passed' = [passed EXCEPT ![c] = @ \union {target[c]}]
             /\ UNCHANGED <<heard, broken>>
    BY <2>0, <2>5 DEF CancelledWaiting, Goes
  <2>6. CASE \E done, accepts \in BOOLEAN : Event(c, done, accepts) /\ Hears(c, accepts)
    BY <2>0, <2>6 DEF Event, Hears, Goes
  <2>7. CASE \E accepts \in BOOLEAN : SimulatedEvent(c, accepts) /\ Hears(c, accepts)
    BY <2>0, <2>7 DEF SimulatedEvent, Hears, Goes
  <2>8. CASE /\ StreamBreaks(c)
             /\ broken' = IF sent[c] > 0 THEN broken \union {c} ELSE broken
             /\ UNCHANGED <<passed, heard>>
    BY <2>0, <2>8 DEF StreamBreaks, Goes
  <2>9. QED
    BY <1>7, <2>1, <2>2, <2>3, <2>4, <2>5, <2>6, <2>7, <2>8 DEF ManagerStep, Reply
<1>8. QED
  BY <1>1, <1>2, <1>3, <1>4, <1>5, <1>6, <1>7 DEF CallStep

(* Nor do the health checker, the application and the registrations do     *)
(* anything to a call.                                                     *)
LEMMA AllStay ==
  ASSUME TypeOK, HealthStep \/ Registration \/ UNCHANGED vars, NEW e \in Calls
  PROVE  Stays(e)
<1> USE DEF Stays, calls, manager
<1>1. CASE HealthStep
  BY <1>1 DEF HealthStep, Tick, EndTick, Stop, Check, ProviderTurns, RecordSuccess, RecordFailure
<1>2. CASE Registration
  BY <1>2 DEF Registration, RegisterProvider
<1>3. CASE UNCHANGED vars
  BY <1>3 DEF vars
<1>4. QED
  BY <1>1, <1>2, <1>3

(* What holds of a call goes on holding while it stays as it is. *)
LEMMA Kept ==
  ASSUME TypeOK, NEW e \in Calls, Stays(e)
  PROVE  /\ PhaseOK(e) => PhaseOK(e)'
         /\ VoiceOK(e) => VoiceOK(e)'
         /\ AskOK(e) => AskOK(e)'
<1>1. PhaseOK(e) => PhaseOK(e)'
  BY DEF Stays, PhaseOK
<1>2. VoiceOK(e) => VoiceOK(e)'
  BY DEF Stays, VoiceOK
<1>3. AskOK(e) => AskOK(e)'
  BY DEF Stays, AskOK, Before, Now, Tries
<1>4. QED
  BY <1>1, <1>2, <1>3

-----------------------------------------------------------------------------
LEMMA StatsTyped ==
  ASSUME ManagerTypeOK, NEW p \in Names, NEW kind \in {"ok", "failed"}, UpdateStats(p, kind)
  PROVE  /\ stats' \in [all : Counts, of : [Names -> Counts], healthy : [Names -> BOOLEAN]]
         /\ \A q \in Names : stats'.of[q].ok = stats.of[q].ok
                                                  + (IF q = p /\ kind = "ok" THEN 1 ELSE 0)
         /\ stats'.all.ok = stats.all.ok + (IF kind = "ok" THEN 1 ELSE 0)
<1>1. stats \in [all : Counts, of : [Names -> Counts], healthy : [Names -> BOOLEAN]]
  BY DEF ManagerTypeOK
<1>2. stats'.all = [stats.all EXCEPT ![kind] = @ + 1]
  BY <1>1 DEF UpdateStats
<1>3. stats'.of = [stats.of EXCEPT ![p][kind] = @ + 1]
  BY <1>1 DEF UpdateStats
<1>4. stats'.healthy = [stats.healthy EXCEPT ![p] = (kind = "ok")]
  BY <1>1 DEF UpdateStats
<1>5. stats' = [all |-> stats'.all, of |-> stats'.of, healthy |-> stats'.healthy]
  BY <1>1 DEF UpdateStats
<1>6. /\ stats'.all \in Counts
      /\ stats'.all.ok = stats.all.ok + (IF kind = "ok" THEN 1 ELSE 0)
  BY <1>1, <1>2 DEF Counts
<1>7. /\ stats'.of \in [Names -> Counts]
      /\ \A q \in Names : stats'.of[q].ok = stats.of[q].ok
                                               + (IF q = p /\ kind = "ok" THEN 1 ELSE 0)
  <2>1. CASE kind = "ok"
    BY <1>1, <1>3, <2>1 DEF Counts
  <2>2. CASE kind = "failed"
    BY <1>1, <1>3, <2>2 DEF Counts
  <2>3. QED
    BY <2>1, <2>2
<1>8. stats'.healthy \in [Names -> BOOLEAN]
  BY <1>1, <1>4
<1>9. QED
  BY <1>5, <1>6, <1>7, <1>8

LEMMA CallTyped ==
  ASSUME TypeOK, NEW c \in Calls, PhaseOK(c), CallStep(c)
  PROVE  TypeOK'
<1> USE DEF TypeOK, ManagerTypeOK, calls, health, manager
<1>1. CASE \E req \in Requests, within \in BOOLEAN : Begin(c, req, within)
  <2>1. PICK req \in Requests, within \in BOOLEAN : Begin(c, req, within)
    BY <1>1
  <2>2. PICK d \in Decisions(req, within) :
          /\ pc' = [pc EXCEPT ![c] = IF d = Panic THEN "panicked"
                                    ELSE IF d = None THEN "failed" ELSE "trying"]
          /\ routes' = [routes EXCEPT ![c] = IF d \in {None, Panic} THEN <<>> ELSE RouteList(d)]
    <3>1. DecisionTable[req][within] = Decisions(req, within)
      BY DEF DecisionTable
    <3>2. QED
      BY <2>1, <3>1 DEF Begin
  <2>3. (IF d \in {None, Panic} THEN <<>> ELSE RouteList(d)) \in Seq(Names \union {None})
    <3>1. d \in DecisionType \union {None, Panic}
      BY DecisionsTyped
    <3>2. QED
      BY <3>1, RoutesTyped
  <2>4. /\ routes' \in [Calls -> Seq(Names \union {None})]
        /\ pc' \in [Calls -> {"idle", "trying"} \union Ended]
    BY <2>2, <2>3 DEF Ended
  <2>5. QED
    BY <2>1, <2>4 DEF Begin
<1>2. CASE SkipRoute(c)
  <2>1. routes[c][pos[c]] \in Names \union {None}
    BY <1>2 DEF SkipRoute, AtRoute, PhaseOK
  <2>2. QED
    BY <1>2, <2>1 DEF SkipRoute
<1>3. CASE TryRoute(c)
  <2> DEFINE p == routes[c][pos[c]]
  <2>1. p \in Names
    BY <1>3, GAssumption DEF TryRoute, Usable
  <2> HIDE DEF p
  <2>2. /\ ManagerCall(c, p)
        /\ passed' = [passed EXCEPT ![c] = IF p \in providers THEN @ ELSE @ \union {p}]
        /\ UNCHANGED <<pc, routes, pos, heard, broken, health>>
    BY <1>3 DEF TryRoute, p
  <2>3. /\ target' \in [Calls -> Names \union {Nobody}]
        /\ attempt' \in [Calls -> 0 .. MaxRetries]
        /\ sent' \in [Calls -> 0 .. MaxEvents + 1]
        /\ deadline' \in [Calls -> {"open", "own", "caller"}]
        /\ phase' \in [Calls -> {"out"} \union Working \union Returned]
    BY <2>1, <2>2, LMAssumption DEF ManagerCall, Working, Returned
  <2>4. asked' \in [Calls -> [Names -> Nat]] /\ late' \in [Calls -> Nat]
    <3>1. CASE p \in providers
      <4>1. Asks(c, p)
        BY <2>2, <3>1 DEF ManagerCall
      <4>2. asked' \in [Calls -> [Names -> Nat]]
        BY <2>1, <4>1 DEF Asks
      <4>3. late' \in [Calls -> Nat]
        BY <4>1 DEF Asks
      <4>4. QED
        BY <4>2, <4>3
    <3>2. CASE p \notin providers
      BY <2>2, <3>2 DEF ManagerCall
    <3>3. QED
      BY <3>1, <3>2
  <2>5. passed' \in [Calls -> SUBSET (Names \union {None})] /\ UNCHANGED <<providers, stats>>
    BY <2>1, <2>2 DEF ManagerCall
  <2>6. QED
    BY <2>2, <2>3, <2>4, <2>5
<1>4. CASE AfterRoute(c)
  <2>1. CASE phase[c] = "answered"
    <3>1. pc' = [pc EXCEPT ![c] = "answered"] /\ UNCHANGED <<pos, phase>>
      BY <1>4, <2>1 DEF AfterRoute
    <3>2. pc' \in [Calls -> {"idle", "trying"} \union Ended]
      BY <3>1 DEF Ended
    <3>3. QED
      BY <1>4, <3>1, <3>2 DEF AfterRoute
  <2>2. CASE phase[c] # "answered"
    <3>1. /\ pos' = [pos EXCEPT ![c] = @ + 1]
          /\ phase' = [phase EXCEPT ![c] = "out"]
          /\ UNCHANGED pc
      BY <1>4, <2>2 DEF AfterRoute
    <3>2. pos' \in [Calls -> Nat] /\ phase' \in [Calls -> {"out"} \union Working \union Returned]
      BY <3>1
    <3>3. QED
      BY <1>4, <3>1, <3>2 DEF AfterRoute
  <2>3. QED
    BY <2>1, <2>2
<1>5. CASE AllRoutesFailed(c)
  BY <1>5 DEF AllRoutesFailed, Ended
<1>6. CASE Timeout(c)
  BY <1>6 DEF Timeout, Expire
<1>7. CASE ManagerStep(c)
  <2>0. /\ UNCHANGED <<pc, routes, pos, health>>
        /\ phase[c] \in Working => target[c] \in Names
    BY <1>7 DEF ManagerStep, PhaseOK, Working
  <2> USE DEF Working, Returned
  <2>1. CASE ProviderAnswers(c) /\ HearsNothing
    <3>1. UpdateStats(target[c], "ok") /\ target[c] \in Names
      BY <2>0, <2>1 DEF ProviderAnswers
    <3>2. QED
      BY <2>0, <2>1, <3>1, StatsTyped DEF ProviderAnswers, HearsNothing, Goes
  <2>2. CASE ProviderFails(c) /\ HearsNothing
    <3>1. stats' = stats \/ (UpdateStats(target[c], "failed") /\ target[c] \in Names)
      BY <2>0, <2>2 DEF ProviderFails
    <3>2. stats' \in [all : Counts, of : [Names -> Counts], healthy : [Names -> BOOLEAN]]
      BY <3>1, StatsTyped
    <3>3. QED
      BY <2>0, <2>2, <3>2 DEF ProviderFails, HearsNothing, Goes
  <2>3. CASE Retry(c) /\ HearsNothing
    <3>1. target[c] \in Names /\ attempt[c] + 1 \in 0..MaxRetries
      BY <2>0, <2>3, LMAssumption DEF Retry, PhaseOK
    <3>2. /\ phase' = [phase EXCEPT ![c] = "asking"]
          /\ attempt' = [attempt EXCEPT ![c] = @ + 1]
          /\ Asks(c, target[c])
          /\ UNCHANGED <<providers, stats, target, sent, deadline, passed, heard, broken>>
      BY <2>3 DEF Retry, HearsNothing, Goes
    <3>3. attempt' \in [Calls -> 0..MaxRetries]
      BY <3>1, <3>2
    <3>4. asked' \in [Calls -> [Names -> Nat]] /\ late' \in [Calls -> Nat]
      BY <3>1, <3>2 DEF Asks
    <3>5. phase' \in [Calls -> {"out"} \union Working \union Returned]
      BY <3>2
    <3>6. UNCHANGED deadline
      BY <3>2
    <3>7. QED
      BY <2>0, <3>2, <3>3, <3>4, <3>5, <3>6
  <2>4. CASE SimulateStream(c) /\ HearsNothing
    BY <2>0, <2>4 DEF SimulateStream, HearsNothing, Goes
  <2>5. CASE /\ CancelledWaiting(c)
             /\ passed' = [passed EXCEPT ![c] = @ \union {target[c]}]
             /\ UNCHANGED <<heard, broken>>
    BY <2>0, <2>5 DEF CancelledWaiting, Goes
  <2>6. CASE \E done, accepts \in BOOLEAN : Event(c, done, accepts) /\ Hears(c, accepts)
    <3>1. PICK done, accepts \in BOOLEAN : Event(c, done, accepts) /\ Hears(c, accepts)
      BY <2>6
    <3>2. stats' = stats \/ (UpdateStats(target[c], "failed") /\ target[c] \in Names)
      BY <2>0, <3>1 DEF Event
    <3>3. stats' \in [all : Counts, of : [Names -> Counts], healthy : [Names -> BOOLEAN]]
      BY <3>2, StatsTyped
    <3>4. sent' \in [Calls -> 0 .. MaxEvents + 1]
      BY <3>1, LMAssumption DEF Event
    <3>5. broken' \in SUBSET Streams /\ heard' \in [Calls -> SUBSET Nat]
      BY <3>1 DEF Event, Hears, PhaseOK
    <3>6. phase' \in [Calls -> {"out"} \union Working \union Returned]
      <4>1. phase' = phase \/ phase' = [phase EXCEPT ![c] = "failed"]
        BY <3>1 DEF Event, Goes
      <4>2. QED
        BY <4>1
    <3>7. QED
      BY <2>0, <3>1, <3>3, <3>4, <3>5, <3>6 DEF Event, Hears
  <2>7. CASE \E accepts \in BOOLEAN : SimulatedEvent(c, accepts) /\ Hears(c, accepts)
    <3>1. PICK accepts \in BOOLEAN : SimulatedEvent(c, accepts) /\ Hears(c, accepts)
      BY <2>7
    <3>2. sent' \in [Calls -> 0 .. MaxEvents + 1]
      BY <3>1, LMAssumption DEF SimulatedEvent
    <3>3. broken' \in SUBSET Streams /\ heard' \in [Calls -> SUBSET Nat]
      BY <3>1 DEF SimulatedEvent, Hears, PhaseOK
    <3>4. phase' \in [Calls -> {"out"} \union Working \union Returned]
      BY <3>1 DEF SimulatedEvent, Goes
    <3>5. QED
      BY <2>0, <3>1, <3>2, <3>3, <3>4 DEF SimulatedEvent, Hears
  <2>8. CASE /\ StreamBreaks(c)
             /\ broken' = IF sent[c] > 0 THEN broken \union {c} ELSE broken
             /\ UNCHANGED <<passed, heard>>
    <3>1. UpdateStats(target[c], "failed") /\ target[c] \in Names
      BY <2>0, <2>8 DEF StreamBreaks
    <3>2. broken' \in SUBSET Streams
      BY <2>8 DEF StreamBreaks, PhaseOK
    <3>3. QED
      BY <2>0, <2>8, <3>1, <3>2, StatsTyped DEF StreamBreaks, Goes
  <2>9. QED
    BY <1>7, <2>1, <2>2, <2>3, <2>4, <2>5, <2>6, <2>7, <2>8 DEF ManagerStep, Reply
<1>8. QED
  BY <1>1, <1>2, <1>3, <1>4, <1>5, <1>6, <1>7 DEF CallStep

LEMMA OtherTyped ==
  ASSUME TypeOK, HealthStep \/ Registration \/ UNCHANGED vars
  PROVE  TypeOK'
<1> USE DEF TypeOK, ManagerTypeOK, calls, health, manager
<1>1. CASE Tick \/ EndTick \/ Stop
  BY <1>1 DEF Tick, EndTick, Stop
<1>2. CASE \E p \in Watched : (Check(p) \/ ProviderTurns(p))
  <2>1. PICK p \in Watched : Check(p) \/ ProviderTurns(p)
    BY <1>2
  <2>2. /\ healthy' \in [Watched -> BOOLEAN] /\ up' \in [Watched -> BOOLEAN]
        /\ checked' \in SUBSET Watched
    BY <2>1, Zenon DEF Check, ProviderTurns
  <2>3. QED
    BY <2>1, <2>2 DEF Check, ProviderTurns
<1>3. CASE \E p \in Watched : (RecordSuccess(p) \/ RecordFailure(p))
  <2>1. PICK p \in Watched : RecordSuccess(p) \/ RecordFailure(p)
    BY <1>3
  <2>2. results' \in [Watched -> Counts]
    <3>1. \E k \in Counts : results' = [results EXCEPT ![p] = k]
      <4>1. results[p] \in Counts
        OBVIOUS
      <4>2. /\ [results[p] EXCEPT !.ok = @ + 1] \in Counts
            /\ [results[p] EXCEPT !.failed = @ + 1] \in Counts
        BY <4>1 DEF Counts
      <4>3. \/ results' = [results EXCEPT ![p] = [results[p] EXCEPT !.ok = @ + 1]]
            \/ results' = [results EXCEPT ![p] = [results[p] EXCEPT !.failed = @ + 1]]
        BY <2>1 DEF RecordSuccess, RecordFailure
      <4>4. QED
        BY <4>2, <4>3
    <3>2. QED
      BY <3>1
  <2>3. healthy' \in [Watched -> BOOLEAN]
    BY <2>1 DEF RecordSuccess, RecordFailure
  <2>4. QED
    BY <2>1, <2>2, <2>3 DEF RecordSuccess, RecordFailure
<1>4. CASE Registration
  <2>1. PICK p \in Names : RegisterProvider(p) /\ UNCHANGED <<calls, health>>
    BY <1>4 DEF Registration
  <2>2. stats' \in [all : Counts, of : [Names -> Counts], healthy : [Names -> BOOLEAN]]
    BY <2>1 DEF RegisterProvider, Counts
  <2>3. QED
    BY <2>1, <2>2 DEF RegisterProvider
<1>5. CASE UNCHANGED vars
  BY <1>5 DEF vars
<1>6. QED
  BY <1>1, <1>2, <1>3, <1>4, <1>5 DEF HealthStep

-----------------------------------------------------------------------------
(* What a step of the manager does to the phase of a call. *)
LEMMA PhaseKept ==
  ASSUME TypeOK, NEW c \in Calls, PhaseOK(c), CallStep(c)
  PROVE  PhaseOK(c)'
<1> USE DEF TypeOK, ManagerTypeOK, calls, health, manager, PhaseOK
<1>1. CASE \E req \in Requests, within \in BOOLEAN : Begin(c, req, within)
  <2>1. PICK req \in Requests, within \in BOOLEAN : Begin(c, req, within)
    BY <1>1
  <2>2. /\ UNCHANGED <<pos, late, phase, target, attempt, providers>>
        /\ phase[c] = "out" /\ pos[c] = 1
        /\ pc'[c] \in {"panicked", "failed", "trying"}
        /\ pc'[c] = "failed" => routes'[c] = <<>>
    <3>1. PICK d \in DecisionTable[req][within] :
            /\ pc' = [pc EXCEPT ![c] = IF d = Panic THEN "panicked"
                                      ELSE IF d = None THEN "failed" ELSE "trying"]
            /\ routes' = [routes EXCEPT ![c] = IF d \in {None, Panic} THEN <<>> ELSE RouteList(d)]
      BY <2>1 DEF Begin
    <3>2. QED
      BY <2>1, <3>1 DEF Begin
  <2>3. routes'[c] \in Seq(Names \union {None})
    BY CallTyped, <1>1 DEF CallStep
  <2>4. Len(routes'[c]) \in Nat
    BY <2>3
  <2>5. QED
    BY <2>2, <2>4 DEF Working
<1>2. CASE SkipRoute(c)
  BY <1>2 DEF SkipRoute, AtRoute, Working
<1>3. CASE TryRoute(c)
  <2> DEFINE p == routes[c][pos[c]]
  <2>1. p \in Names
    BY <1>3, GAssumption DEF TryRoute, Usable
  <2>2. /\ target'[c] = p /\ attempt'[c] = 0
        /\ UNCHANGED <<pc, routes, pos, providers>>
        /\ pc[c] = "trying" /\ pos[c] <= Len(routes[c])
        /\ phase'[c] = IF p \notin providers THEN "failed"
                       ELSE IF c \notin Streams THEN "asking"
                       ELSE IF p \in Streaming THEN "streaming"
                       ELSE "simulating"
    BY <1>3 DEF TryRoute, ManagerCall, AtRoute
  <2> HIDE DEF p
  <2>3. p = routes[c][pos[c]]
    BY DEF p
  <2>4. QED
    BY <2>1, <2>2, <2>3 DEF Working
<1>4. CASE AfterRoute(c)
  BY <1>4 DEF AfterRoute, Working, Returned
<1>5. CASE AllRoutesFailed(c)
  BY <1>5 DEF AllRoutesFailed, Working
<1>6. CASE Timeout(c)
  BY <1>6 DEF Timeout, Expire
<1>7. CASE ManagerStep(c)
  <2>0. UNCHANGED <<pc, routes, pos, health>>
    BY <1>7 DEF ManagerStep
  <2> USE DEF Working
  <2>1. CASE ProviderAnswers(c) /\ HearsNothing
    BY <2>0, <2>1 DEF ProviderAnswers, HearsNothing, Goes
  <2>2. CASE ProviderFails(c) /\ HearsNothing
    BY <2>0, <2>2 DEF ProviderFails, HearsNothing, Goes
  <2>3. CASE Retry(c) /\ HearsNothing
    BY <2>0, <2>3 DEF Retry, HearsNothing, Goes, Asks
  <2>4. CASE SimulateStream(c) /\ HearsNothing
    BY <2>0, <2>4 DEF SimulateStream, HearsNothing, Goes
  <2>5. CASE /\ CancelledWaiting(c)
             /\ passed' = [passed EXCEPT ![c] = @ \union {target[c]}]
             /\ UNCHANGED <<heard, broken>>
    BY <2>0, <2>5 DEF CancelledWaiting, Goes
  <2>6. CASE \E done, accepts \in BOOLEAN : Event(c, done, accepts) /\ Hears(c, accepts)
    BY <2>0, <2>6 DEF Event, Hears, Goes
  <2>7. CASE \E accepts \in BOOLEAN : SimulatedEvent(c, accepts) /\ Hears(c, accepts)
    BY <2>0, <2>7 DEF SimulatedEvent, Hears, Goes
  <2>8. CASE /\ StreamBreaks(c)
             /\ broken' = IF sent[c] > 0 THEN broken \union {c} ELSE broken
             /\ UNCHANGED <<passed, heard>>
    BY <2>0, <2>8 DEF StreamBreaks, Goes
  <2>9. QED
    BY <1>7, <2>1, <2>2, <2>3, <2>4, <2>5, <2>6, <2>7, <2>8 DEF ManagerStep, Reply
<1>8. QED
  BY <1>1, <1>2, <1>3, <1>4, <1>5, <1>6, <1>7 DEF CallStep

LEMMA VoiceKept ==
  ASSUME TypeOK, NEW c \in Calls, PhaseOK(c), VoiceOK(c), CallStep(c)
  PROVE  VoiceOK(c)'
<1> USE DEF TypeOK, ManagerTypeOK, calls, health, manager, VoiceOK
<1>1. CASE \E req \in Requests, within \in BOOLEAN : Begin(c, req, within)
  BY <1>1 DEF Begin
<1>2. CASE SkipRoute(c)
  BY <1>2 DEF SkipRoute, AtRoute
<1>3. CASE TryRoute(c)
  BY <1>3 DEF TryRoute, ManagerCall, AtRoute
<1>4. CASE AfterRoute(c)
  BY <1>4 DEF AfterRoute, Returned
<1>5. CASE AllRoutesFailed(c)
  BY <1>5 DEF AllRoutesFailed
<1>6. CASE Timeout(c)
  BY <1>6 DEF Timeout, Expire
<1>7. CASE ManagerStep(c)
  <2>0. UNCHANGED <<pc, routes, pos, health>>
    BY <1>7 DEF ManagerStep
  <2>1. CASE ProviderAnswers(c) /\ HearsNothing
    BY <2>0, <2>1 DEF ProviderAnswers, HearsNothing, Goes
  <2>2. CASE ProviderFails(c) /\ HearsNothing
    BY <2>0, <2>2 DEF ProviderFails, HearsNothing, Goes, PhaseOK
  <2>3. CASE Retry(c) /\ HearsNothing
    BY <2>0, <2>3 DEF Retry, HearsNothing, Goes, PhaseOK
  <2>4. CASE SimulateStream(c) /\ HearsNothing
    BY <2>0, <2>4 DEF SimulateStream, HearsNothing, Goes
  <2>5. CASE /\ CancelledWaiting(c)
             /\ passed' = [passed EXCEPT ![c] = @ \union {target[c]}]
             /\ UNCHANGED <<heard, broken>>
    BY <2>0, <2>5 DEF CancelledWaiting, Goes, PhaseOK
  <2>6. CASE \E done, accepts \in BOOLEAN : Event(c, done, accepts) /\ Hears(c, accepts)
    <3>1. PICK done, accepts \in BOOLEAN : Event(c, done, accepts) /\ Hears(c, accepts)
      BY <2>6
    <3>2. sent'[c] # 0
      BY <3>1, LMAssumption DEF Event
    <3>3. QED
      BY <2>0, <3>1, <3>2 DEF Event, Hears, Goes
  <2>7. CASE \E accepts \in BOOLEAN : SimulatedEvent(c, accepts) /\ Hears(c, accepts)
    BY <2>0, <2>7 DEF SimulatedEvent, Hears, Goes
  <2>8. CASE /\ StreamBreaks(c)
             /\ broken' = IF sent[c] > 0 THEN broken \union {c} ELSE broken
             /\ UNCHANGED <<passed, heard>>
    BY <2>0, <2>8 DEF StreamBreaks, Goes
  <2>9. QED
    BY <1>7, <2>1, <2>2, <2>3, <2>4, <2>5, <2>6, <2>7, <2>8 DEF ManagerStep, Reply
<1>8. QED
  BY <1>1, <1>2, <1>3, <1>4, <1>5, <1>6, <1>7 DEF CallStep

-----------------------------------------------------------------------------
(* One place more on a list. *)
LEMMA PlacesNext ==
  ASSUME NEW s, NEW p, NEW k \in Nat
  PROVE  /\ IsFiniteSet(Places(s, p, k))
         /\ Cardinality(Places(s, p, k)) \in Nat
         /\ Cardinality(Places(s, p, k + 1)) =
              Cardinality(Places(s, p, k)) + (IF s[k + 1] = p THEN 1 ELSE 0)
<1>1. IsFiniteSet(1 .. k)
  BY FS_Interval
<1>2. IsFiniteSet(Places(s, p, k)) /\ Cardinality(Places(s, p, k)) \in Nat
  BY <1>1, FS_Subset, FS_CardinalityType DEF Places
<1>3. CASE s[k + 1] = p
  <2>1. Places(s, p, k + 1) = Places(s, p, k) \union {k + 1}
    BY <1>3 DEF Places
  <2>2. k + 1 \notin Places(s, p, k)
    BY DEF Places
  <2>3. QED
    BY <1>2, <1>3, <2>1, <2>2, FS_AddElement
<1>4. CASE s[k + 1] # p
  <2>1. Places(s, p, k + 1) = Places(s, p, k)
    BY <1>4 DEF Places
  <2>2. QED
    BY <1>2, <1>4, <2>1
<1>5. QED
  BY <1>2, <1>3, <1>4

LEMMA PlacesNone ==
  ASSUME NEW s, NEW p
  PROVE  Cardinality(Places(s, p, 0)) = 0
<1>1. Places(s, p, 0) = {}
  BY DEF Places
<1>2. QED
  BY <1>1, FS_EmptySet

LEMMA PlacesGrow ==
  ASSUME NEW s, NEW p, NEW k \in Nat, NEW n \in Nat, k <= n
  PROVE  Cardinality(Places(s, p, k)) <= Cardinality(Places(s, p, n))
<1>1. Places(s, p, k) \subseteq Places(s, p, n)
  BY DEF Places
<1>2. QED
  BY <1>1, PlacesNext, FS_Subset

LEMMA Costs ==
  ASSUME NEW t \in Nat, NEW n \in Nat
  PROVE  t * n \in Nat /\ t * 0 = 0 /\ t * (n + 1) = t * n + t
OBVIOUS

LEMMA Dearer ==
  ASSUME NEW t \in Nat, NEW k \in Nat, NEW n \in Nat, k <= n
  PROVE  t * k <= t * n
OBVIOUS

(* The manager goes on with the route it is at. *)
LEMMA WorkGoesOn ==
  ASSUME NEW c \in Calls, AskOK(c),
         routes'[c] = routes[c], pos'[c] = pos[c], target'[c] = target[c],
         attempt'[c] = attempt[c], asked'[c] = asked[c], late'[c] = late[c],
         passed'[c] = passed[c], phase[c] # "out", phase'[c] # "out",
         phase'[c] = "failed" => phase[c] = "failed" \/ attempt[c] + 1 = Tries(c)
  PROVE  AskOK(c)'
BY DEF AskOK, Before, Now, Tries

LEMMA AskKept ==
  ASSUME TypeOK, NEW c \in Calls, PhaseOK(c), AskOK(c), CallStep(c)
  PROVE  AskOK(c)'
<1> USE DEF calls, health, manager
<1>t. /\ pos[c] \in Nat /\ pos[c] - 1 \in Nat /\ pos[c] # 0
      /\ late[c] \in Nat /\ attempt[c] \in Nat /\ MaxRetries \in Nat
      /\ asked[c] \in [Names -> Nat]
      /\ \A p : Before(c, p) \in Nat
  <2>1. /\ pos[c] \in Nat /\ pos[c] - 1 \in Nat /\ pos[c] # 0
        /\ late[c] \in Nat /\ attempt[c] \in Nat /\ MaxRetries \in Nat
        /\ asked[c] \in [Names -> Nat]
    BY LMAssumption DEF TypeOK, ManagerTypeOK, PhaseOK
  <2>2. \A p : Before(c, p) \in Nat
    BY <2>1, PlacesNext DEF Before
  <2>3. QED
    BY <2>1, <2>2
<1>u. Tries(c) \in Nat /\ MaxRetries + 1 \in Nat
  BY <1>t DEF Tries
(* The next route. *)
<1>n. ASSUME routes'[c] = routes[c], pos'[c] = pos[c] + 1, NEW p
      PROVE  Before(c, p)' = Before(c, p) + (IF routes[c][pos[c]] = p THEN 1 ELSE 0)
  <2>1. pos'[c] - 1 = (pos[c] - 1) + 1 /\ (pos[c] - 1) + 1 = pos[c]
    BY <1>n, <1>t
  <2>2. Cardinality(Places(routes[c], p, (pos[c] - 1) + 1)) =
          Cardinality(Places(routes[c], p, pos[c] - 1)) + (IF routes[c][(pos[c] - 1) + 1] = p THEN 1 ELSE 0)
    BY <1>t, PlacesNext
  <2>3. QED
    BY <1>n, <2>1, <2>2 DEF Before
<1>1. CASE \E req \in Requests, within \in BOOLEAN : Begin(c, req, within)
  <2>1. /\ phase[c] = "out" /\ pos[c] = 1
        /\ UNCHANGED <<pos, phase, target, attempt, asked, late, passed>>
    BY <1>1 DEF Begin, PhaseOK
  <2>2. \A p : Before(c, p) = 0 /\ Before(c, p)' = 0
    BY <2>1, PlacesNone DEF Before
  <2>3. Tries(c)' = Tries(c) /\ \A p \in Names : Now(c, p)' = Now(c, p)
    BY <2>1 DEF Tries, Now
  <2>4. QED
    BY <2>1, <2>2, <2>3 DEF AskOK
<1>2. CASE SkipRoute(c)
  <2> DEFINE r == routes[c][pos[c]]
  <2>1. /\ phase[c] = "out" /\ routes'[c] = routes[c] /\ pos'[c] = pos[c] + 1
        /\ passed'[c] = passed[c] \union {r}
        /\ UNCHANGED <<phase, target, attempt, asked, late>>
    BY <1>2 DEF SkipRoute, AtRoute, TypeOK
  <2>2. \A p : Before(c, p)' = Before(c, p) + (IF r = p THEN 1 ELSE 0)
    BY <1>n, <2>1
  <2>3. \A p : Now(c, p) = 0 /\ Now(c, p)' = 0
    BY <2>1 DEF Now
  <2>4. \A i \in 1 .. pos'[c] - 1 : routes'[c][i] \in passed'[c] \union Names
    <3>1. \A i \in 1 .. pos'[c] - 1 : i = pos[c] \/ i \in 1 .. pos[c] - 1
      BY <1>t, <2>1
    <3>2. QED
      BY <2>1, <3>1 DEF AskOK
  <2>5. ASSUME NEW p \in Names
        PROVE  /\ asked'[c][p] <= (MaxRetries + 1) * Before(c, p)' + Now(c, p)'
               /\ p \notin passed'[c] => asked'[c][p] = Tries(c)' * Before(c, p)' + Now(c, p)'
    <3>1. /\ asked[c][p] <= (MaxRetries + 1) * Before(c, p)
          /\ p \notin passed[c] => asked[c][p] = Tries(c) * Before(c, p)
      BY <1>t, <1>u, <2>3, Costs DEF AskOK
    <3>2. CASE r = p
      <4>1. Before(c, p)' = Before(c, p) + 1 /\ p \in passed'[c]
        BY <2>1, <2>2, <3>2
      <4>2. /\ (MaxRetries + 1) * Before(c, p)' = (MaxRetries + 1) * Before(c, p) + (MaxRetries + 1)
            /\ (MaxRetries + 1) * Before(c, p) \in Nat
        BY <1>t, <1>u, <4>1, Costs
      <4>3. QED
        BY <1>t, <1>u, <2>1, <2>3, <3>1, <4>1, <4>2
    <3>3. CASE r # p
      <4>1. Before(c, p)' = Before(c, p) /\ (p \in passed'[c] <=> p \in passed[c])
        BY <1>t, <2>1, <2>2, <3>3
      <4>2. Tries(c)' = Tries(c) /\ Tries(c) * Before(c, p) \in Nat /\ (MaxRetries + 1) * Before(c, p) \in Nat
        BY <1>t, <1>u, Costs DEF Tries
      <4>3. QED
        BY <2>1, <2>3, <3>1, <4>1, <4>2
    <3>4. QED
      BY <3>2, <3>3
  <2>6. QED
    BY <1>t, <2>1, <2>4, <2>5 DEF AskOK
<1>3. CASE TryRoute(c)
  <2> DEFINE r == routes[c][pos[c]]
  <2>1. /\ phase[c] = "out" /\ phase'[c] # "out" /\ target'[c] = r /\ attempt'[c] = 0
        /\ r \in Names
        /\ UNCHANGED <<routes, pos>>
        /\ r \in providers => passed'[c] = passed[c] /\ Asks(c, r)
        /\ r \notin providers => passed'[c] = passed[c] \union {r} /\ UNCHANGED <<asked, late>>
        /\ phase'[c] = "failed" => r \notin providers
    BY <1>3, GAssumption DEF TryRoute, AtRoute, Usable, ManagerCall, TypeOK, ManagerTypeOK
  <2>2. \A p : Before(c, p)' = Before(c, p)
    BY <2>1 DEF Before
  <2>3. \A p : Now(c, p) = 0 /\ Now(c, p)' = (IF r = p THEN 1 ELSE 0)
    BY <2>1 DEF Now
  <2>4. \A p \in Names : asked'[c][p] = asked[c][p] + (IF r \in providers /\ r = p THEN 1 ELSE 0)
    BY <1>t, <2>1 DEF Asks, TypeOK, ManagerTypeOK
  <2>5. late'[c] <= late[c] + 1
    BY <1>t, <2>1 DEF Asks, TypeOK, ManagerTypeOK
  <2>6. \A p : p \notin passed'[c] => p \notin passed[c] /\ (r = p => r \in providers)
    BY <2>1
  <2>7. ASSUME NEW p \in Names
        PROVE  /\ asked'[c][p] <= (MaxRetries + 1) * Before(c, p)' + Now(c, p)'
               /\ p \notin passed'[c] => asked'[c][p] = Tries(c)' * Before(c, p)' + Now(c, p)'
    <3>1. /\ asked[c][p] <= (MaxRetries + 1) * Before(c, p)
          /\ p \notin passed[c] => asked[c][p] = Tries(c) * Before(c, p)
          /\ Tries(c) * Before(c, p) \in Nat /\ (MaxRetries + 1) * Before(c, p) \in Nat
      BY <1>t, <1>u, <2>3, Costs DEF AskOK
    <3>2. Tries(c)' = Tries(c)
      BY DEF Tries
    <3>3. QED
      BY <1>t, <2>2, <2>3, <2>4, <2>6, <3>1, <3>2
  <2>8. r \in passed'[c] \/ phase'[c] # "failed"
    BY <2>1
  <2>9. late[c] <= pos[c] - 1 /\ \A i \in 1 .. pos[c] - 1 : routes[c][i] \in passed[c] \union Names
    BY <1>t, <2>1 DEF AskOK
  <2>10. QED
    <3>1. late'[c] \in Nat /\ late'[c] <= pos'[c] - 1 + 1
      <4>1. TypeOK'
        BY <1>3, CallTyped DEF CallStep
      <4>2. late'[c] \in Nat
        BY <4>1 DEF TypeOK, ManagerTypeOK
      <4>3. QED
        BY <1>t, <2>1, <2>5, <2>9, <4>2
    <3>2. \A i \in 1 .. pos'[c] - 1 : routes'[c][i] \in passed'[c] \union Names
      BY <2>1, <2>9
    <3>3. target'[c] = r
      BY <2>1
    <3> HIDE DEF r
    <3>4. QED
      BY <2>1, <2>7, <2>8, <3>1, <3>2, <3>3 DEF AskOK
<1>4. CASE AfterRoute(c)
  <2>1. CASE phase[c] = "answered"
    <3>1. UNCHANGED <<routes, pos, passed, phase, target, attempt, asked, late>>
      BY <1>4, <2>1 DEF AfterRoute
    <3>2. QED
      BY <3>1 DEF AskOK, Before, Now, Tries
  <2>2. CASE phase[c] = "failed"
    <3>1. /\ routes'[c] = routes[c] /\ pos'[c] = pos[c] + 1 /\ phase'[c] = "out"
          /\ target[c] = routes[c][pos[c]] /\ target[c] \in Names
          /\ UNCHANGED <<routes, passed, target, attempt, asked, late>>
      BY <1>4, <2>2 DEF AfterRoute, TypeOK, ManagerTypeOK, PhaseOK
    <3>2. \A p : Before(c, p)' = Before(c, p) + (IF target[c] = p THEN 1 ELSE 0)
      BY <1>n, <3>1
    <3>3. \A p : Now(c, p)' = 0 /\ Now(c, p) = (IF target[c] = p THEN attempt[c] + 1 ELSE 0)
      BY <2>2, <3>1 DEF Now
    <3>4. target[c] \notin passed[c] => attempt[c] + 1 = Tries(c)
      BY <2>2 DEF AskOK
    <3>5. attempt[c] + 1 <= MaxRetries + 1
      BY LMAssumption DEF TypeOK, ManagerTypeOK
    <3>6. ASSUME NEW p \in Names
          PROVE  /\ asked'[c][p] <= (MaxRetries + 1) * Before(c, p)' + Now(c, p)'
                 /\ p \notin passed'[c] => asked'[c][p] = Tries(c)' * Before(c, p)' + Now(c, p)'
      <4>1. /\ asked[c][p] <= (MaxRetries + 1) * Before(c, p) + Now(c, p)
            /\ p \notin passed[c] => asked[c][p] = Tries(c) * Before(c, p) + Now(c, p)
            /\ Tries(c)' = Tries(c)
        BY DEF AskOK, Tries
      <4>2. CASE target[c] = p
        <5>1. Before(c, p)' = Before(c, p) + 1
          BY <3>2, <4>2
        <5>2. /\ (MaxRetries + 1) * Before(c, p)' = (MaxRetries + 1) * Before(c, p) + (MaxRetries + 1)
              /\ Tries(c) * Before(c, p)' = Tries(c) * Before(c, p) + Tries(c)
              /\ (MaxRetries + 1) * Before(c, p) \in Nat /\ Tries(c) * Before(c, p) \in Nat
          BY <1>t, <1>u, <5>1, Costs
        <5>3. QED
          BY <1>t, <1>u, <3>1, <3>3, <3>4, <3>5, <4>1, <4>2, <5>2
      <4>3. CASE target[c] # p
        <5>1. Before(c, p)' = Before(c, p) /\ Now(c, p) = 0 /\ Now(c, p)' = 0
          BY <1>t, <3>2, <3>3, <4>3
        <5>2. (MaxRetries + 1) * Before(c, p) \in Nat /\ Tries(c) * Before(c, p) \in Nat
          BY <1>t, <1>u, Costs
        <5>3. QED
          BY <3>1, <4>1, <5>1, <5>2
      <4>4. QED
        BY <4>2, <4>3
    <3>7. \A i \in 1 .. pos'[c] - 1 : routes'[c][i] \in passed'[c] \union Names
      BY <1>t, <3>1 DEF AskOK
    <3>8. late'[c] <= pos'[c] - 1 + 0
      BY <1>t, <2>2, <3>1 DEF AskOK
    <3>9. QED
      BY <3>1, <3>6, <3>7, <3>8 DEF AskOK
  <2>3. QED
    BY <1>4, <2>1, <2>2 DEF AfterRoute, Returned
<1>5. CASE AllRoutesFailed(c)
  BY <1>5 DEF AllRoutesFailed, AskOK, Before, Now, Tries
<1>6. CASE Timeout(c)
  <2>1. /\ UNCHANGED <<routes, pos, passed, phase, target, attempt, asked, late>>
        /\ phase[c] # "out"
    BY <1>6 DEF Timeout, Expire, Working
  <2>2. QED
    BY <2>1, WorkGoesOn
<1>7. CASE ManagerStep(c)
  <2>0. UNCHANGED <<pc, routes, pos, health>>
    BY <1>7 DEF ManagerStep
  <2> USE DEF TypeOK, ManagerTypeOK
  <2>1. CASE ProviderAnswers(c) /\ HearsNothing
    <3>1. /\ UNCHANGED <<passed, target, attempt, asked, late>>
          /\ phase[c] # "out" /\ phase'[c] = "answered"
      BY <2>1 DEF ProviderAnswers, HearsNothing, Goes
    <3>2. QED
      BY <2>0, <3>1, WorkGoesOn
  <2>2. CASE ProviderFails(c) /\ HearsNothing
    <3>1. /\ UNCHANGED <<passed, target, attempt, asked, late>>
          /\ phase[c] # "out" /\ phase'[c] # "out"
          /\ phase'[c] = "failed" => ~(attempt[c] < MaxRetries)
      BY <2>2 DEF ProviderFails, HearsNothing, Goes
    <3>2. phase'[c] = "failed" => attempt[c] + 1 = Tries(c)
      <4>1. c \notin Streams
        BY <2>2 DEF ProviderFails, PhaseOK
      <4>2. attempt[c] \in 0 .. MaxRetries /\ MaxRetries \in Nat
        BY LMAssumption
      <4>3. QED
        BY <3>1, <4>1, <4>2 DEF Tries
    <3>3. QED
      BY <2>0, <3>1, <3>2, WorkGoesOn
  <2>3. CASE Retry(c) /\ HearsNothing
    <3>1. /\ UNCHANGED <<passed, target>>
          /\ phase[c] = "waiting" /\ phase'[c] = "asking"
          /\ attempt'[c] = attempt[c] + 1 /\ late'[c] = late[c]
          /\ target[c] \in Names
          /\ \A p \in Names : asked'[c][p] = asked[c][p] + (IF p = target[c] THEN 1 ELSE 0)
      BY <1>t, <2>3 DEF Retry, HearsNothing, Goes, Asks, PhaseOK
    <3>2. \A p : /\ Before(c, p)' = Before(c, p)
                 /\ Now(c, p)' = Now(c, p) + (IF p = target[c] THEN 1 ELSE 0)
                 /\ Now(c, p) \in Nat
      BY <1>t, <2>0, <3>1 DEF Before, Now
    <3>3. ASSUME NEW p \in Names
          PROVE  /\ asked'[c][p] <= (MaxRetries + 1) * Before(c, p)' + Now(c, p)'
                 /\ p \notin passed'[c] => asked'[c][p] = Tries(c)' * Before(c, p)' + Now(c, p)'
      <4>1. /\ (MaxRetries + 1) * Before(c, p) \in Nat /\ Tries(c) * Before(c, p) \in Nat
            /\ Tries(c)' = Tries(c)
        BY <1>t, <1>u, Costs DEF Tries
      <4>2. /\ asked[c][p] <= (MaxRetries + 1) * Before(c, p) + Now(c, p)
            /\ p \notin passed[c] => asked[c][p] = Tries(c) * Before(c, p) + Now(c, p)
            /\ asked[c][p] \in Nat
        BY <1>t DEF AskOK
      <4>3. /\ (MaxRetries + 1) * Before(c, p)' = (MaxRetries + 1) * Before(c, p)
            /\ Tries(c)' * Before(c, p)' = Tries(c) * Before(c, p)
        BY <3>2, <4>1
      <4>4. passed'[c] = passed[c]
        BY <3>1
      <4> DEFINE X == (MaxRetries + 1) * Before(c, p)
                 Y == Tries(c) * Before(c, p)
      <4> HIDE DEF X, Y
      <4>5. /\ asked[c][p] <= X + Now(c, p) /\ X \in Nat
            /\ p \notin passed[c] => asked[c][p] = Y + Now(c, p)
            /\ Y \in Nat /\ asked[c][p] \in Nat
        BY <4>1, <4>2 DEF X, Y
      <4>6. asked'[c][p] <= X + Now(c, p)' /\ (p \notin passed'[c] => asked'[c][p] = Y + Now(c, p)')
        <5> DEFINE one == IF p = target[c] THEN 1 ELSE 0
        <5>1. /\ asked'[c][p] = asked[c][p] + one /\ Now(c, p)' = Now(c, p) + one
              /\ Now(c, p) \in Nat /\ one \in Nat
          BY <3>1, <3>2
        <5> HIDE DEF one
        <5>2. QED
          BY <4>4, <4>5, <5>1
      <4>7. QED
        BY <4>3, <4>6 DEF X, Y
    <3>4. QED
      BY <2>0, <3>1, <3>3 DEF AskOK
  <2>4. CASE SimulateStream(c) /\ HearsNothing
    <3>1. /\ UNCHANGED <<passed, target, attempt, asked, late>>
          /\ phase[c] # "out" /\ phase'[c] # "out" /\ c \in Streams /\ attempt[c] = 0
      BY <2>4 DEF SimulateStream, HearsNothing, Goes, PhaseOK
    <3>2. QED
      BY <2>0, <3>1, WorkGoesOn DEF Tries
  <2>5. CASE /\ CancelledWaiting(c)
             /\ passed' = [passed EXCEPT ![c] = @ \union {target[c]}]
             /\ UNCHANGED <<heard, broken>>
    <3>1. /\ UNCHANGED <<target, attempt, asked, late>>
          /\ phase[c] = "waiting" /\ phase'[c] = "failed"
          /\ passed'[c] = passed[c] \union {target[c]}
      BY <2>5 DEF CancelledWaiting, Goes
    <3>2. QED
      BY <2>0, <3>1 DEF AskOK, Before, Now, Tries
  <2>6. CASE \E done, accepts \in BOOLEAN : Event(c, done, accepts) /\ Hears(c, accepts)
    <3>1. /\ UNCHANGED <<passed, target, attempt, asked, late>>
          /\ phase[c] # "out" /\ phase'[c] # "out" /\ c \in Streams /\ attempt[c] = 0
      BY <2>6 DEF Event, Hears, Goes, PhaseOK
    <3>2. QED
      BY <2>0, <3>1, WorkGoesOn DEF Tries
  <2>7. CASE \E accepts \in BOOLEAN : SimulatedEvent(c, accepts) /\ Hears(c, accepts)
    <3>1. /\ UNCHANGED <<passed, target, attempt, asked, late>>
          /\ phase[c] # "out" /\ phase'[c] # "out" /\ c \in Streams /\ attempt[c] = 0
      BY <2>7 DEF SimulatedEvent, Hears, Goes, PhaseOK
    <3>2. QED
      BY <2>0, <3>1, WorkGoesOn DEF Tries
  <2>8. CASE /\ StreamBreaks(c)
             /\ broken' = IF sent[c] > 0 THEN broken \union {c} ELSE broken
             /\ UNCHANGED <<passed, heard>>
    <3>1. /\ UNCHANGED <<passed, target, attempt, asked, late>>
          /\ phase[c] # "out" /\ phase'[c] # "out" /\ c \in Streams /\ attempt[c] = 0
      BY <2>8 DEF StreamBreaks, Goes, PhaseOK
    <3>2. QED
      BY <2>0, <3>1, WorkGoesOn DEF Tries
  <2>9. QED
    BY <1>7, <2>1, <2>2, <2>3, <2>4, <2>5, <2>6, <2>7, <2>8 DEF ManagerStep, Reply
<1>8. QED
  BY <1>1, <1>2, <1>3, <1>4, <1>5, <1>6, <1>7 DEF CallStep

-----------------------------------------------------------------------------
(* The successes stay as they are while no answer is given. *)
LEMMA CountKept ==
  ASSUME AnswersAreCounted,
         \A e \in Calls : \A p \in Names : (e \in Served(p))' <=> e \in Served(p),
         \A p \in Names : stats'.of[p].ok = stats.of[p].ok,
         stats'.all.ok = stats.all.ok
  PROVE  AnswersAreCounted'
<1>1. \A p \in Names : Served(p)' = Served(p)
  BY DEF Served
<1>2. UNION {Served(p)' : p \in Names} = UNION {Served(p) : p \in Names}
  BY <1>1
<1>3. QED
  BY <1>1, <1>2 DEF AnswersAreCounted

(* A provider answers a call: one more. *)
LEMMA CountedAnswer ==
  ASSUME TypeOK, AnswersAreCounted, NEW c \in Calls, PhaseOK(c), ProviderAnswers(c)
  PROVE  AnswersAreCounted'
<1> DEFINE r == target[c]
<1>1. /\ r \in Names /\ UpdateStats(r, "ok") /\ UNCHANGED target
      /\ phase[c] # "answered" /\ phase' = [phase EXCEPT ![c] = "answered"]
      /\ c \in Streams => r \in Streaming
  BY DEF ProviderAnswers, Goes, PhaseOK
<1>2. /\ \A q \in Names : stats'.of[q].ok = stats.of[q].ok + (IF q = r THEN 1 ELSE 0)
      /\ stats'.all.ok = stats.all.ok + 1
  BY <1>1, StatsTyped DEF TypeOK
<1>3. \A p \in Names : Served(p)' = IF p = r THEN Served(p) \union {c} ELSE Served(p)
  BY <1>1 DEF Served, TypeOK, ManagerTypeOK
<1>4. \A p \in Names : c \notin Served(p) /\ IsFiniteSet(Served(p))
  <2>1. \A p \in Names : Served(p) \subseteq Calls /\ c \notin Served(p)
    BY <1>1 DEF Served
  <2>2. QED
    BY <2>1, FS_Subset, LMAssumption
<1> DEFINE All == UNION {Served(p) : p \in Names}
<1>5. UNION {Served(p)' : p \in Names} = All \union {c}
  BY <1>1, <1>3
<1>6. c \notin All /\ IsFiniteSet(All)
  <2>1. All \subseteq Calls
    BY DEF Served
  <2>2. QED
    BY <1>4, <2>1, FS_Subset, LMAssumption
<1>7. Cardinality(All \union {c}) = Cardinality(All) + 1
  BY <1>6, FS_AddElement
<1>8. \A p \in Names : Cardinality(Served(p)') = Cardinality(Served(p)) + (IF p = r THEN 1 ELSE 0)
  <2>1. ASSUME NEW p \in Names
        PROVE  Cardinality(Served(p)') = Cardinality(Served(p)) + (IF p = r THEN 1 ELSE 0)
    <3>1. Cardinality(Served(p)) \in Nat
      BY <1>4, FS_CardinalityType
    <3>2. Cardinality(Served(p) \union {c}) = Cardinality(Served(p)) + 1
      BY <1>4, FS_AddElement
    <3>3. CASE p = r
      <4>1. Served(p)' = Served(p) \union {c}
        BY <1>3, <3>3
      <4>2. QED
        BY <3>2, <3>3, <4>1
    <3>4. CASE p # r
      <4>1. Served(p)' = Served(p)
        BY <1>3, <3>4
      <4>2. QED
        BY <3>1, <3>4, <4>1
    <3>5. QED
      BY <3>3, <3>4
  <2>2. QED
    BY <2>1
<1>9. \A p \in Names : stats'.of[p].ok = Cardinality(Served(p)')
  BY <1>2, <1>8 DEF AnswersAreCounted
<1>10. stats'.all.ok = Cardinality(UNION {Served(p)' : p \in Names})
  BY <1>2, <1>5, <1>7 DEF AnswersAreCounted
<1>11. QED
  BY <1>9, <1>10 DEF AnswersAreCounted

LEMMA CallCounted ==
  ASSUME TypeOK, AnswersAreCounted, NEW c \in Calls, PhaseOK(c), CallStep(c)
  PROVE  AnswersAreCounted'
<1>1. CASE ProviderAnswers(c)
  BY <1>1, CountedAnswer
<1>2. CASE ~ProviderAnswers(c)
  <2> SUFFICES ASSUME TRUE
               PROVE  /\ (phase'[c] = "answered" => phase[c] = "answered" \/ ~(c \in Streams => target[c] \in Streaming))
                      /\ (phase[c] = "answered" => phase'[c] = "answered")
                      /\ phase[c] # "out" => target'[c] = target[c]
                      /\ phase[c] = "out" => phase'[c] # "answered"
                      /\ \A p \in Names : stats'.of[p].ok = stats.of[p].ok
                      /\ stats'.all.ok = stats.all.ok
    <3>1. \A e \in Calls \ {c} : \A p \in Names : (e \in Served(p))' <=> e \in Served(p)
      BY OthersStay DEF Stays, Served
    <3>2. \A p \in Names : (c \in Served(p))' <=> c \in Served(p)
      BY DEF Served
    <3>3. \A e \in Calls : \A p \in Names : (e \in Served(p))' <=> e \in Served(p)
      BY <3>1, <3>2
    <3>4. QED
      BY <3>3, CountKept
  <2> USE DEF TypeOK, ManagerTypeOK, calls, health, manager, PhaseOK
  <2>1. CASE \E req \in Requests, within \in BOOLEAN : Begin(c, req, within)
    BY <2>1 DEF Begin
  <2>2. CASE SkipRoute(c)
    BY <2>2 DEF SkipRoute, AtRoute
  <2>3. CASE TryRoute(c)
    BY <2>3 DEF TryRoute, ManagerCall
  <2>4. CASE AfterRoute(c)
    BY <2>4 DEF AfterRoute, Returned
  <2>5. CASE AllRoutesFailed(c)
    BY <2>5 DEF AllRoutesFailed
  <2>6. CASE Timeout(c)
    BY <2>6 DEF Timeout, Expire, Working
  <2>7. CASE Reply(c)
    <3>1. /\ \/ UpdateStats(target[c], "failed") /\ target[c] \in Names
             \/ stats' = stats
          /\ phase[c] # "out" /\ phase[c] # "answered" /\ target' = target
          /\ phase'[c] = "answered" => phase[c] = "closing"
      <4>1. CASE ProviderFails(c)
        BY <4>1 DEF ProviderFails, Goes
      <4>2. CASE Retry(c)
        BY <4>2 DEF Retry, Goes
      <4>3. CASE SimulateStream(c)
        BY <4>3 DEF SimulateStream, Goes
      <4>4. CASE CancelledWaiting(c)
        BY <4>4 DEF CancelledWaiting, Goes
      <4>5. CASE \E done, accepts \in BOOLEAN : Event(c, done, accepts)
        BY <4>5 DEF Event, Goes
      <4>6. CASE \E accepts \in BOOLEAN : SimulatedEvent(c, accepts)
        BY <4>6 DEF SimulatedEvent, Goes
      <4>7. CASE StreamBreaks(c)
        BY <4>7 DEF StreamBreaks, Goes
      <4>8. QED
        BY <1>2, <2>7, <4>1, <4>2, <4>3, <4>4, <4>5, <4>6, <4>7 DEF Reply
    <3>2. \A p \in Names : stats'.of[p].ok = stats.of[p].ok + 0 \/ stats' = stats
      BY <3>1, StatsTyped
    <3>3. stats'.all.ok = stats.all.ok + 0 \/ stats' = stats
      BY <3>1, StatsTyped
    <3>4. stats.all.ok \in Nat /\ \A p \in Names : stats.of[p].ok \in Nat
      BY DEF Counts
    <3>5. phase[c] = "closing" => ~(c \in Streams => target[c] \in Streaming)
      OBVIOUS
    <3>6. QED
      BY <3>1, <3>2, <3>3, <3>4, <3>5
  <2>8. QED
    BY <2>1, <2>2, <2>3, <2>4, <2>5, <2>6, <2>7 DEF CallStep, ManagerStep
<1>3. QED
  BY <1>1, <1>2

LEMMA OtherCounted ==
  ASSUME TypeOK, PhaseInv, AnswersAreCounted, HealthStep \/ Registration \/ UNCHANGED vars
  PROVE  AnswersAreCounted'
<1>1. \A e \in Calls : \A p \in Names : (e \in Served(p))' <=> e \in Served(p)
  BY AllStay DEF Stays, Served
<1>2. CASE UNCHANGED stats
  BY <1>1, <1>2, CountKept
<1>3. CASE Registration
  <2>1. PICK p \in Names : RegisterProvider(p)
    BY <1>3 DEF Registration
  <2>2. Served(p) = {}
    BY <2>1 DEF RegisterProvider, Served, PhaseInv, PhaseOK
  <2>3. stats.of[p].ok = 0
    BY <2>2, FS_EmptySet DEF AnswersAreCounted
  <2>4. /\ \A q \in Names : stats'.of[q].ok = IF q = p THEN 0 ELSE stats.of[q].ok
        /\ stats'.all = stats.all
    BY <2>1 DEF RegisterProvider, TypeOK, ManagerTypeOK
  <2>5. QED
    BY <1>1, <2>3, <2>4, CountKept
<1>4. HealthStep => UNCHANGED stats
  BY DEF HealthStep, Tick, EndTick, Stop, Check, ProviderTurns, RecordSuccess, RecordFailure, manager
<1>5. QED
  BY <1>2, <1>3, <1>4 DEF vars, manager

-----------------------------------------------------------------------------
LEMMA Initially == Init => IInv
<1> SUFFICES ASSUME Init PROVE IInv
  OBVIOUS
<1> USE LMAssumption, GAssumption DEF Init, ManagerInit
<1>1. TypeOK
  BY DEF TypeOK, ManagerTypeOK, Counts, Ended
<1>2. PhaseInv
  BY DEF PhaseInv, PhaseOK, Working
<1>3. VoiceInv
  BY DEF VoiceInv, VoiceOK
<1>4. AskInv
  <2>1. ASSUME NEW c \in Calls, NEW p \in Names
        PROVE  Before(c, p) = 0 /\ Now(c, p) = 0 /\ asked[c][p] = 0
    BY PlacesNone DEF Before, Now
  <2>2. \A c \in Calls : Tries(c) \in Nat
    BY DEF Tries
  <2>3. QED
    BY <2>1, <2>2 DEF AskInv, AskOK
<1>5. AnswersAreCounted
  <2>1. \A p : Served(p) = {}
    BY DEF Served
  <2>2. UNION {Served(p) : p \in Names} = {}
    BY <2>1
  <2>3. QED
    BY <2>1, <2>2, FS_EmptySet DEF AnswersAreCounted
<1>6. QED
  BY <1>1, <1>2, <1>3, <1>4, <1>5 DEF IInv

LEMMA Inductive == IInv /\ [Next]_vars => IInv'
<1> SUFFICES ASSUME IInv, [Next]_vars PROVE IInv'
  OBVIOUS
<1> USE DEF IInv
<1>1. CASE \E c \in Calls : CallStep(c)
  <2>1. PICK c \in Calls : CallStep(c)
    BY <1>1
  <2>2. PhaseOK(c) /\ VoiceOK(c) /\ AskOK(c)
    BY DEF PhaseInv, VoiceInv, AskInv
  <2>3. TypeOK' /\ AnswersAreCounted'
    BY <2>1, <2>2, CallTyped, CallCounted
  <2>4. PhaseOK(c)' /\ VoiceOK(c)' /\ AskOK(c)'
    BY <2>1, <2>2, PhaseKept, VoiceKept, AskKept
  <2>5. ASSUME NEW e \in Calls, e # c
        PROVE  PhaseOK(e)' /\ VoiceOK(e)' /\ AskOK(e)'
    <3>1. Stays(e)
      BY <2>1, <2>5, OthersStay
    <3>2. QED
      BY <3>1, Kept DEF PhaseInv, VoiceInv, AskInv
  <2>6. QED
    BY <2>3, <2>4, <2>5 DEF PhaseInv, VoiceInv, AskInv
<1>2. CASE HealthStep \/ Registration \/ UNCHANGED vars
  <2>1. TypeOK' /\ AnswersAreCounted'
    BY <1>2, OtherTyped, OtherCounted
  <2>2. ASSUME NEW e \in Calls
        PROVE  PhaseOK(e)' /\ VoiceOK(e)' /\ AskOK(e)'
    <3>1. Stays(e)
      BY <1>2, AllStay
    <3>2. QED
      BY <3>1, Kept DEF PhaseInv, VoiceInv, AskInv
  <2>3. QED
    BY <2>1, <2>2 DEF PhaseInv, VoiceInv, AskInv
<1>3. QED
  BY <1>1, <1>2 DEF Next

LEMMA Always == Spec => []IInv
<1>1. QED
  BY Initially, Inductive, PTL DEF Spec

LEMMA AllTimes ==
  ASSUME TypeOK, NEW c \in Calls, NEW p
  PROVE  /\ Times(c, p) = Cardinality(Places(routes[c], p, Len(routes[c])))
         /\ Times(c, p) \in Nat
<1>1. routes[c] \in Seq(Names \union {None})
  BY DEF TypeOK
<1>2. DOMAIN routes[c] = 1 .. Len(routes[c]) /\ Len(routes[c]) \in Nat
  BY <1>1
<1>3. {i \in DOMAIN routes[c] : routes[c][i] = p} = Places(routes[c], p, Len(routes[c]))
  BY <1>2 DEF Places
<1>4. Cardinality(Places(routes[c], p, Len(routes[c]))) \in Nat
  BY <1>2, PlacesNext
<1>5. QED
  BY <1>3, <1>4 DEF Times

(* Every variable keeps its type; no call is tried more often than         *)
(* MaxRetries allows (TypeOK).                                             *)
THEOREM TypeCorrect == Spec => []TypeOK
<1>1. IInv => TypeOK
  BY DEF IInv
<1>2. QED
  BY <1>1, Always, PTL

(* A handler hears the provider that answers and no other, unless a stream *)
(* broke off or the handler failed (OneVoice).                             *)
THEOREM VoiceCorrect == Spec => []OneVoice
<1>1. IInv => OneVoice
  BY LMAssumption DEF IInv, VoiceInv, VoiceOK, OneVoice
<1>2. QED
  BY <1>1, Always, PTL

(* The statistics count every answer once, under its provider              *)
(* (AnswersAreCounted).                                                    *)
THEOREM CountCorrect == Spec => []AnswersAreCounted
<1>1. IInv => AnswersAreCounted
  BY DEF IInv
<1>2. QED
  BY <1>1, Always, PTL

(* No call fails with a route left untried (FailsForCause).                *)
THEOREM CauseCorrect == Spec => []FailsForCause
<1>1. IInv => FailsForCause
  <2> SUFFICES ASSUME IInv, NEW c \in Calls, pc[c] = "failed", NEW i \in DOMAIN routes[c],
                      routes[c][i] \notin passed[c]
               PROVE  asked[c][routes[c][i]] =
                        Times(c, routes[c][i]) * (IF c \in Streams THEN 1 ELSE MaxRetries + 1)
    BY DEF FailsForCause
  <2> DEFINE p == routes[c][i]
  <2>1. /\ pos[c] = Len(routes[c]) + 1 /\ phase[c] = "out"
        /\ routes[c] \in Seq(Names \union {None})
    BY DEF IInv, PhaseInv, PhaseOK, TypeOK
  <2>2. pos[c] - 1 = Len(routes[c]) /\ i \in 1 .. pos[c] - 1
    BY <2>1
  <2>3. p \in Names
    BY <2>2 DEF IInv, AskInv, AskOK
  <2>4. Times(c, p) = Before(c, p) /\ Times(c, p) \in Nat
    BY <2>2, AllTimes DEF Before, IInv
  <2>5. asked[c][p] = Tries(c) * Before(c, p) + Now(c, p) /\ Now(c, p) = 0
    BY <2>1, <2>3 DEF IInv, AskInv, AskOK, Now
  <2>6. QED
    BY <2>4, <2>5, LMAssumption DEF Tries
<1>2. QED
  BY <1>1, Always, PTL

(* Retries and fallbacks multiply to no more than the list allows          *)
(* (AsksBounded).                                                          *)
THEOREM AsksCorrect == Spec => []AsksBounded
<1>1. IInv => AsksBounded
  <2> SUFFICES ASSUME IInv, NEW c \in Calls
               PROVE  /\ \A p \in Names : asked[c][p] <= Times(c, p) * (MaxRetries + 1)
                      /\ late[c] <= Len(routes[c])
    BY DEF AsksBounded
  <2> DEFINE n == Len(routes[c])
             t == MaxRetries + 1
  <2>1. /\ pos[c] \in 1 .. n + 1 /\ n \in Nat /\ t \in Nat
        /\ late[c] \in Nat /\ attempt[c] + 1 \in 1 .. t
        /\ phase[c] # "out" => pos[c] <= n
        /\ phase[c] # "out" => target[c] = routes[c][pos[c]]
    BY LMAssumption DEF IInv, PhaseInv, PhaseOK, TypeOK, ManagerTypeOK
  <2>2. late[c] <= n
    <3>1. late[c] <= pos[c] - 1 + (IF phase[c] = "out" THEN 0 ELSE 1)
      BY DEF IInv, AskInv, AskOK
    <3> HIDE DEF n
    <3>2. QED
      BY <2>1, <3>1
  <2>3. ASSUME NEW p \in Names
        PROVE  asked[c][p] <= Times(c, p) * t
    <3>1. /\ asked[c][p] <= t * Before(c, p) + Now(c, p) /\ asked[c][p] \in Nat
      BY DEF IInv, AskInv, AskOK, TypeOK, ManagerTypeOK
    <3>2. /\ Times(c, p) = Cardinality(Places(routes[c], p, n)) /\ Times(c, p) \in Nat
          /\ Before(c, p) \in Nat
      <4>1. pos[c] - 1 \in Nat
        BY <2>1
      <4>2. QED
        BY <4>1, AllTimes, PlacesNext DEF Before, IInv
    <3> HIDE DEF n, t
    <3>3. t * Times(c, p) = Times(c, p) * t
      BY <2>1, <3>2
    <3>4. CASE phase[c] # "out" /\ target[c] = p
      <4>1. pos[c] - 1 \in Nat /\ (pos[c] - 1) + 1 = pos[c] /\ pos[c] \in Nat /\ pos[c] <= n
        BY <2>1, <3>4
      <4>2. Cardinality(Places(routes[c], p, (pos[c] - 1) + 1)) = Before(c, p) + 1
        BY <2>1, <3>4, <4>1, PlacesNext DEF Before
      <4>3. Before(c, p) + 1 <= Times(c, p)
        BY <2>1, <3>2, <4>1, <4>2, PlacesGrow
      <4>4. t * (Before(c, p) + 1) <= t * Times(c, p)
        BY <2>1, <3>2, <4>3, Dearer
      <4>5. t * (Before(c, p) + 1) = t * Before(c, p) + t /\ t * Before(c, p) \in Nat
        BY <2>1, <3>2, Costs
      <4>6. Now(c, p) <= t /\ Now(c, p) \in Nat
        BY <2>1, <3>4 DEF Now
      <4>7. QED
        BY <2>1, <3>1, <3>2, <3>3, <4>4, <4>5, <4>6
    <3>5. CASE ~(phase[c] # "out" /\ target[c] = p)
      <4>1. pos[c] - 1 \in Nat /\ pos[c] - 1 <= n
        BY <2>1
      <4>2. Before(c, p) <= Times(c, p)
        BY <2>1, <3>2, <4>1, PlacesGrow DEF Before
      <4>3. t * Before(c, p) <= t * Times(c, p) /\ t * Before(c, p) \in Nat
        BY <2>1, <3>2, <4>2, Dearer, Costs
      <4>4. Now(c, p) = 0
        BY <3>5 DEF Now
      <4>5. QED
        <5> DEFINE X == t * Before(c, p)
                   Y == t * Times(c, p)
        <5>1. asked[c][p] <= X + 0 /\ X <= Y /\ X \in Nat /\ Y \in Nat
          BY <2>1, <3>1, <3>2, <4>3, <4>4, Costs
        <5> HIDE DEF X, Y
        <5>2. asked[c][p] <= Y
          BY <3>1, <5>1
        <5>3. QED
          BY <3>3, <5>2 DEF Y
    <3>6. QED
      BY <3>4, <3>5
  <2>4. QED
    BY <2>2, <2>3
<1>2. QED
  BY <1>1, Always, PTL

(* A call fails only after every route of its list was of no use, asks no  *)
(* provider more often than its places on the list and the retries allow,  *)
(* and its answer is counted once (FailsForCause, AsksAreAccounted).       *)
THEOREM RoutesCorrect == Spec => []RoutesAreTried
<1>1. FailsForCause /\ AsksBounded /\ AnswersAreCounted => RoutesAreTried
  BY DEF RoutesAreTried, AsksAreAccounted
<1>2. QED
  BY CauseCorrect, CountCorrect, AsksCorrect, <1>1, PTL
=============================================================================
