------------------------------ MODULE Routing ------------------------------
(***************************************************************************)
(* How the AIGateway decides where a request goes: the routers of          *)
(* router.go, the choice among their answers (route) and the list of       *)
(* routes to try (buildRouteList).                                         *)
(*                                                                         *)
(* Providers are kept in Go maps, whose order is not determined, so a      *)
(* router has a set of possible answers.  A route is the name of its       *)
(* provider: its model is only forwarded.  Confidences are in hundredths.  *)
(***************************************************************************)
EXTENDS Naturals, Sequences, FiniteSets

CONSTANTS Registered,    \* names the gateway has a manager for
          Models,        \* names of models
          None,          \* the empty string, and the nil decision
          Failed,        \* what a router that returns an error answers
          Panic,         \* a nil decision was dereferenced
          Routers,       \* the routers, in the order of WithRouter
          DefaultModel,  \* getDefaultModel
          Fallbacks,     \* g.fallbacks: for each model, providers (None: as decided)
          Price,         \* modelCosts of the default models of some providers
          Speed,         \* average latencies: a function on some <<provider, model>>
          Capable,       \* registered capabilities: a set of [provider, model, score]
          Custom         \* the answers of an application's own router

Decision(p, m, conf, alts) ==
  [provider |-> p, model |-> m, confidence |-> conf, alternatives |-> alts]

(* DefaultRouter.Route: a named model is taken as it is, whatever is        *)
(* excluded.                                                               *)
DefaultAnswers(req) ==
  LET fit == {p \in Registered \ req.exclude : req.prefer = {} \/ p \in req.prefer}
      from(S, conf) == {Decision(p, DefaultModel[p], conf, <<>>) : p \in S}
  IN IF req.model # None
     THEN {Decision(p, req.model, 100, <<>>) :
             p \in IF req.provider = None /\ Registered # {} THEN Registered ELSE {req.provider}}
     ELSE IF fit # {} THEN from(fit, 70)
     ELSE IF Registered # {} THEN from(Registered, 50)
     ELSE {None}

Cheapest(S) == {p \in S : \A q \in S : Price[p] <= Price[q]}

(* CostBasedRouter.Route: over budget the cheapest, else any within the    *)
(* request's own limit (0: no limit), else nil.                            *)
CostAnswers(req, within) ==
  LET priced == Registered \intersect DOMAIN Price
      fit    == {p \in priced : req.maxCost > 0 /\ Price[p] <= req.maxCost}
      from(S, conf) == {Decision(p, DefaultModel[p], conf, <<>>) : p \in S}
  IN IF ~within /\ priced # {} THEN from(Cheapest(priced), 90)
     ELSE IF fit # {} THEN from(fit, 80)
     ELSE {None}

(* The first of those with the highest confidence. *)
Foremost(conf, S) == {i \in S : \A j \in S : /\ conf[j] <= conf[i]
                                            /\ j < i => conf[j] < conf[i]}

(* CapabilityRouter.Route: the foremost in the order of the map; the       *)
(* alternatives are all but the first, which need not be the foremost.     *)
CapabilityAnswers(req) ==
  LET match     == {c \in Capable : c.provider \notin req.exclude /\ c.score > 0}
      orders    == {s \in [1 .. Cardinality(match) -> match] :
                      \A i, j \in DOMAIN s : s[i] = s[j] => i = j}
      scores(s) == [i \in DOMAIN s |-> s[i].score]
      others(s) == [i \in 1 .. Len(s) - 1 |-> s[i + 1].provider]
  IN IF ~req.caps \/ match = {} THEN {None}
     ELSE UNION {{Decision(s[i].provider, s[i].model, s[i].score, others(s)) :
                    i \in Foremost(scores(s), DOMAIN s)} : s \in orders}

(* LatencyBasedRouter.Route: the fastest of those measured, else nil. *)
LatencyAnswers(req) ==
  LET model(p) == IF req.model = None THEN DefaultModel[p] ELSE req.model
      known    == {p \in Registered \ req.exclude : <<p, model(p)>> \in DOMAIN Speed}
      fastest  == {p \in known : \A q \in known : Speed[<<p, model(p)>>] <= Speed[<<q, model(q)>>]}
  IN IF known = {} THEN {None} ELSE {Decision(p, model(p), 80, <<>>) : p \in fastest}

AnswersOf(kind, req, within) ==
  CASE kind = "default"    -> DefaultAnswers(req)
    [] kind = "cost"       -> CostAnswers(req, within)
    [] kind = "capability" -> CapabilityAnswers(req)
    [] kind = "latency"    -> LatencyAnswers(req)
    [] kind = "custom"     -> Custom

(* What the loop of route makes of the routers' answers: errors are passed *)
(* over, and the foremost decision is taken.  A nil answer before the first *)
(* decision does no harm; of one after it the confidence is looked at.     *)
Choice(answers) ==
  LET given == {i \in DOMAIN answers : answers[i] # Failed}
      some  == {i \in given : answers[i] # None}
      conf  == [i \in some |-> answers[i].confidence]
  IN IF some = {} THEN {None}
     ELSE IF \E i \in some, j \in given \ some : i < j THEN {Panic}
     ELSE {answers[i] : i \in Foremost(conf, some)}

(* What the routers may answer, one after the other. *)
AnswerLists(req, within) ==
  {s \in [DOMAIN Routers -> UNION {AnswersOf(Routers[i], req, within) : i \in DOMAIN Routers}] :
     \A i \in DOMAIN Routers : s[i] \in AnswersOf(Routers[i], req, within)}

(* The decisions route may come to.  Without one it is any provider, and   *)
(* without providers None, an error.                                       *)
Decisions(req, within) ==
  LET chosen  == UNION {Choice(s) : s \in AnswerLists(req, within)}
      instead == IF Registered = {} THEN {None}
                 ELSE {Decision(p, req.model, 50, <<>>) : p \in Registered}
  IN (chosen \ {None}) \union (IF None \in chosen THEN instead ELSE {})

(* buildRouteList *)
RouteList(d) ==
  <<d.provider>>
    \o [i \in DOMAIN Fallbacks[d.model] |->
          IF Fallbacks[d.model][i] = None THEN d.provider ELSE Fallbacks[d.model][i]]
    \o d.alternatives
=============================================================================
