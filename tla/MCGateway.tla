----------------------------- MODULE MCGateway -----------------------------
(* An instance of Gateway for TLC: two providers and a name that is on the  *)
(* fallback list of a model without being known, one call of Chat and one   *)
(* of ChatStream.                                                           *)
EXTENDS Gateway, TLC

CONSTANTS chat, stream, a, b, x, m, d

(* The routers of the example in gateway.go's comment, and the others. *)
MCRouters == <<"cost", "capability", "latency", "custom", "default">>

MCDefaultModel == [p \in {a, b} |-> d]
MCFallbacks == (m :> <<x, b>>) @@ (d :> <<>>) @@ (None :> <<>>)
MCPrice == a :> 2 @@ b :> 3
MCSpeed == <<a, d>> :> 1
MCCapable == {[provider |-> a, model |-> d, score |-> 50],
              [provider |-> b, model |-> d, score |-> 100]}
MCCustom == {Failed}

(* A model is named; a capability is required; the price is limited; one    *)
(* provider is excluded.                                                    *)
Anything == [model |-> None, provider |-> None, exclude |-> {}, prefer |-> {},
             caps |-> FALSE, maxCost |-> 0]
MCRequests == {[Anything EXCEPT !.model = m], [Anything EXCEPT !.caps = TRUE],
               [Anything EXCEPT !.maxCost = 2], [Anything EXCEPT !.exclude = {a}]}

MCInit == /\ Init
          /\ providers = {a}
          /\ up = [p \in Watched |-> TRUE]

(* b is registered before the stream begins or not at all.  The health     *)
(* checker is stopped while a is unhealthy, and the application records    *)
(* how its calls went when they are over.  A stream runs out of time only  *)
(* without a call of Chat beside it, and never for the manager's timeout   *)
(* alone.  Chat falls back on a's behalf, or has b on its list twice;      *)
(* ChatStream falls back from b, which does not stream, to a, which does.  *)
Narrow ==
  /\ providers' # providers => providers' = {a, b} /\ pc[stream] = "idle"
  /\ up' # up => probes /\ checker = "resting"
  /\ checker' = "stopped" => ~healthy[a]
  /\ results' # results => \A c \in Calls : pc[c] \in Ended
  /\ \/ deadline'[stream] = "open"
     \/ deadline'[stream] = "caller" /\ pc'[chat] = "idle"
  /\ routes'[chat] \in {<<>>, <<a, x, b>>, <<b, b>>}
  /\ routes'[stream] \in {<<>>, <<b, a>>}

MCNext == Next /\ Narrow
MCSpec == MCInit /\ [][MCNext]_vars /\ Fairness
=============================================================================
