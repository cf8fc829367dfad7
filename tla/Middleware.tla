------------------------------ MODULE Middleware ------------------------------
(***************************************************************************)
(* The chain of middlewares around a chat request (middleware.go): each     *)
(* passes the request to the next, the last to the model, and sees what    *)
(* comes back.  Modelled are those that keep state or decide: the cache,    *)
(* the rate limiter (TokenBucketLimiter or SlidingWindowLimiter, whose      *)
(* windows do not slide), the cost total, retry and timeout; logging and   *)
(* metrics pass everything on.                                             *)
(*                                                                         *)
(* DefaultRetryCondition retries an exceeded deadline only, the middle-     *)
(* ware's own or the provider's.  All requests have one cache key and one   *)
(* limiter key, and cost one unit each.                                    *)
(***************************************************************************)
EXTENDS Integers, Sequences, FiniteSets

CONSTANTS Requesters,   \* who sends requests
          Stacks,       \* the chains: names of middlewares, each at most once
          Allowance,    \* the limit of the window, the capacity of the bucket
          Refill,       \* tokens per tick of the bucket
          Span,         \* the limiter's window
          TTL,          \* config.TTL of the cache
          MaxRetries,   \* config.MaxRetries
          MaxRequests,  \* bound: how many requests each requester sends
          MaxTicks      \* bound: how long time goes on

ASSUME MWAssumption == /\ Allowance \in Nat \ {0}
                       /\ Refill \in Nat
                       /\ Span \in Nat \ {0}
                       /\ {TTL, MaxRetries, MaxRequests, MaxTicks} \subseteq Nat
                       /\ \A s \in Stacks :
                            /\ s \in Seq({"cache", "limit", "cost", "retry", "timeout"})
                            /\ \A i, j \in DOMAIN s : s[i] = s[j] => i = j

VARIABLES layers,     \* c.middlewares, outermost first
          limiter,    \* which one it is, its tokens or count, the age of its window
          cacheAge,   \* age of the cached response; -1: none
          totalCost,  \* m.totalCost
          request,    \* the request of each requester
          ticks,      \* the time
          granted,    \* observer: by k, how many requests the limiter let through
                      \* no more than k ticks ago
          paid        \* observer: how many answers the model gave

mwVars == <<layers, limiter, cacheAge, totalCost, request, ticks, granted, paid>>

NoRequest == [at |-> 0, going |-> "idle", attempt |-> 0, resp |-> "none",
              expired |-> FALSE, calls |-> 0, sent |-> 0]

LayersAtRest ==
  /\ cacheAge = -1
  /\ totalCost = 0
  /\ request = [c \in Requesters |-> NoRequest]
  /\ ticks = 0
  /\ granted = [k \in 0 .. Span - 1 |-> 0]
  /\ paid = 0

(* NewTokenBucketLimiter, whose buckets begin full, NewSlidingWindowLimiter *)
LayersInit ==
  /\ LayersAtRest
  /\ layers \in Stacks
  /\ limiter \in {[kind |-> "bucket", n |-> Allowance, age |-> 0],
                  [kind |-> "window", n |-> 0, age |-> Span]}

Layer(c)      == IF request[c].at \in DOMAIN layers THEN layers[request[c].at] ELSE "none"
Going(c, way, layer) == request[c].going = way /\ Layer(c) = layer
Turns(c, r) == request' = [request EXCEPT ![c] = r]
Inner(r)      == [r EXCEPT !.at = @ + 1]
Outer(r)      == [r EXCEPT !.at = @ - 1]
Back(r, resp) == [Outer(r) EXCEPT !.going = "up", !.resp = resp]
Good(r)       == r.resp \in {"answer", "cached"}
Positions(l)  == {i \in DOMAIN layers : layers[i] = l}

-----------------------------------------------------------------------------
(* MiddlewareChain.Execute. *)
SendRequest(c) ==
  /\ request[c].going = "idle"
  /\ request[c].sent < MaxRequests
  /\ Turns(c, [NoRequest EXCEPT !.at = 1, !.going = "down", !.sent = request[c].sent + 1])
  /\ UNCHANGED <<layers, limiter, cacheAge, totalCost, ticks, granted, paid>>

(* CachingMiddleware before next, and InMemoryCache.Get. *)
LookUp(c) ==
  /\ Going(c, "down", "cache")
  /\ Turns(c, IF cacheAge \in 0 .. TTL THEN Back(request[c], "cached")
                                          ELSE Inner(request[c]))
  /\ UNCHANGED <<layers, limiter, cacheAge, totalCost, ticks, granted, paid>>

(* CachingMiddleware after next: what came back is stored, not an error. *)
Store(c) ==
  /\ Going(c, "up", "cache")
  /\ cacheAge' = IF Good(request[c]) THEN 0 ELSE cacheAge
  /\ Turns(c, Outer(request[c]))
  /\ UNCHANGED <<layers, limiter, totalCost, ticks, granted, paid>>

(* SlidingWindowLimiter.AllowN and TokenBucketLimiter.AllowN. *)
NewWindow(l) == l.kind = "window" /\ l.age >= Span
Allowed(l) == CASE l.kind = "bucket" -> l.n >= 1
                [] NewWindow(l)      -> Allowance >= 1
                [] OTHER             -> l.n < Allowance

(* A variant of Taken whose windows begin again at every request. *)
TakenRestarts(l) ==
  CASE l.kind = "bucket" -> [l EXCEPT !.n = @ - 1]
    [] NewWindow(l)      -> [l EXCEPT !.n = 0, !.age = 0]
    [] OTHER             -> [l EXCEPT !.n = @ + 1]

Taken(l) ==
  CASE l.kind = "bucket" -> [l EXCEPT !.n = @ - 1]
    [] NewWindow(l)      -> [l EXCEPT !.n = 1, !.age = 0]
    [] OTHER             -> [l EXCEPT !.n = @ + 1]

(* RateLimitMiddleware. *)
Ration(c) ==
  /\ Going(c, "down", "limit")
  /\ IF Allowed(limiter)
       THEN /\ limiter' = Taken(limiter)
            /\ granted' = [k \in DOMAIN granted |-> granted[k] + 1]
            /\ Turns(c, Inner(request[c]))
       ELSE /\ Turns(c, Back(request[c], "error"))
            /\ UNCHANGED <<limiter, granted>>
  /\ UNCHANGED <<layers, cacheAge, totalCost, ticks, paid>>

(* What a layer does not act on: the limiter on the way out, the cost on    *)
(* the way in; the retries begin at none; the timeout's context begins, and *)
(* is cancelled on the way out.                                            *)
Pass(c) ==
  /\ \/ /\ Going(c, "up", "limit")
        /\ Turns(c, Outer(request[c]))
     \/ /\ Going(c, "down", "cost")
        /\ Turns(c, Inner(request[c]))
     \/ /\ Going(c, "down", "retry")
        /\ Turns(c, [Inner(request[c]) EXCEPT !.attempt = 0])
     \/ /\ Going(c, "down", "timeout")
        /\ Turns(c, [Inner(request[c]) EXCEPT !.expired = FALSE])
     \/ /\ Going(c, "up", "timeout")
        /\ Turns(c, [Outer(request[c]) EXCEPT !.expired = FALSE])
  /\ UNCHANGED <<layers, limiter, cacheAge, totalCost, ticks, granted, paid>>

(* The model at the end of the chain. *)
ModelResponds(c) ==
  /\ request[c].going = "down"
  /\ request[c].at = Len(layers) + 1
  /\ \E resp \in {"answer", "error", "deadline"} :
       /\ Turns(c, [Back(request[c], resp) EXCEPT !.calls = @ + 1])
       /\ paid' = IF resp = "answer" THEN paid + 1 ELSE paid
  /\ UNCHANGED <<layers, limiter, cacheAge, totalCost, ticks, granted>>

(* A variant of Charge that charges for a call that failed, too. *)
ChargeAlways(c) ==
  /\ Going(c, "up", "cost")
  /\ totalCost' = totalCost + 1
  /\ Turns(c, Outer(request[c]))
  /\ UNCHANGED <<layers, limiter, cacheAge, ticks, granted, paid>>

(* CostTrackingMiddleware: also what came from a cache has its usage. *)
Charge(c) ==
  /\ Going(c, "up", "cost")
  /\ totalCost' = IF Good(request[c]) THEN totalCost + 1 ELSE totalCost
  /\ Turns(c, Outer(request[c]))
  /\ UNCHANGED <<layers, limiter, cacheAge, ticks, granted, paid>>

(* A variant of MayRetry that counts the retries from the next one. *)
RetryOnceMore(c) ==
  /\ Going(c, "up", "retry")
  /\ Turns(c, IF request[c].resp = "deadline" /\ request[c].attempt <= MaxRetries
                   THEN [request[c] EXCEPT !.going = "waiting"]
                   ELSE Outer(request[c]))
  /\ UNCHANGED <<layers, limiter, cacheAge, totalCost, ticks, granted, paid>>

(* RetryMiddleware after next. *)
MayRetry(c) ==
  /\ Going(c, "up", "retry")
  /\ Turns(c, IF request[c].resp = "deadline" /\ request[c].attempt < MaxRetries
                   THEN [request[c] EXCEPT !.going = "waiting"]
                   ELSE Outer(request[c]))
  /\ UNCHANGED <<layers, limiter, cacheAge, totalCost, ticks, granted, paid>>

(* The delay before a retry, unless the context around it is done. *)
Wait(c) ==
  /\ Going(c, "waiting", "retry")
  /\ Turns(c, IF request[c].expired
                   THEN Back(request[c], "deadline")
                   ELSE [Inner(request[c]) EXCEPT !.going = "down", !.attempt = @ + 1])
  /\ UNCHANGED <<layers, limiter, cacheAge, totalCost, ticks, granted, paid>>

Returned(c) ==
  /\ request[c].going = "up"
  /\ request[c].at = 0
  /\ Turns(c, [NoRequest EXCEPT !.sent = request[c].sent])
  /\ UNCHANGED <<layers, limiter, cacheAge, totalCost, ticks, granted, paid>>

(* The deadline of a timeout that the request is inside of. *)
DeadlinePasses(c) ==
  /\ request[c].going \in {"down", "waiting"}
  /\ ~request[c].expired
  /\ \E i \in Positions("timeout") : i < request[c].at
  /\ Turns(c, [request[c] EXCEPT !.expired = TRUE])
  /\ UNCHANGED <<layers, limiter, cacheAge, totalCost, ticks, granted, paid>>

Smaller(a, b) == IF a <= b THEN a ELSE b

(* Time; the cleanup of InMemoryCache removes what Get no longer returns. *)
MwTick ==
  /\ ticks < MaxTicks
  /\ ticks' = ticks + 1
  /\ limiter' = IF limiter.kind = "bucket"
                  THEN [limiter EXCEPT !.n = Smaller(Allowance, @ + Refill)]
                  ELSE [limiter EXCEPT !.age = Smaller(Span, @ + 1)]
  /\ cacheAge' = IF cacheAge \in 0 .. TTL - 1 THEN cacheAge + 1 ELSE -1
  /\ granted' = [k \in DOMAIN granted |-> IF k = 0 THEN 0 ELSE granted[k - 1]]
  /\ UNCHANGED <<layers, totalCost, request, paid>>

(* CostTrackingMiddleware.ResetCost, Delete of the cache, Reset of the      *)
(* limiter are the application's; here they are not called.                *)
MwStep(c) ==
  \/ LookUp(c) \/ Store(c) \/ Ration(c) \/ Pass(c) \/ ModelResponds(c)
  \/ Charge(c) \/ MayRetry(c) \/ Wait(c) \/ Returned(c)

MwNext ==
  \/ \E c \in Requesters : SendRequest(c) \/ MwStep(c) \/ DeadlinePasses(c)
  \/ MwTick

MwSpec == LayersInit /\ [][MwNext]_mwVars

-----------------------------------------------------------------------------
(* An answer of the model that has not passed the cost middleware yet. *)
Uncharged == {c \in Requesters : /\ request[c].going = "up"
                                 /\ request[c].resp = "answer"
                                 /\ \E i \in Positions("cost") : request[c].at >= i}

CostInside == /\ Positions("cost") # {}
              /\ \A i \in Positions("cost"), j \in Positions("cache") : j < i

(* In any span as long as the limiter's window it lets through what the     *)
(* bucket holds and gains, or twice what one window may; when the cost      *)
(* middleware sits inside the cache, every answer of the model is charged   *)
(* once and nothing else is; and a request calls the model at most once     *)
(* more than it may be retried (AllowN, CostTrackingMiddleware and          *)
(* RetryMiddleware in any order).                                          *)
LayersHold ==
  /\ granted[Span - 1] <=
       IF limiter.kind = "bucket" THEN Allowance + Refill * (Span - 1) ELSE 2 * Allowance
  /\ CostInside => totalCost + Cardinality(Uncharged) = paid
  /\ \A c \in Requesters :
       request[c].calls <= IF Positions("retry") = {} THEN 1 ELSE MaxRetries + 1
=============================================================================
