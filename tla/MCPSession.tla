----------------------------- MODULE MCPSession -----------------------------
(***************************************************************************)
(* Client of mcp/client.go and its server.  Callers, the goroutines that   *)
(* use the client, make one request at a time: a call (ReadResource, a tool,*)
(* the lists), a subscription or the end of one.  The receive loop hands   *)
(* responses to those who wait for them, and when the resource it has      *)
(* handlers for is updated, it makes a request itself, and waits.          *)
(***************************************************************************)
EXTENDS Naturals, Sequences

(* The server, behind a stdio transport, and the two pipes.  Start handles *)
(* one request at a time: handleMessage, then Send.  The notifications are *)
(* sent by other goroutines at any time, to clients that have subscribed   *)
(* and to those that have not.  There is one resource.                     *)
CONSTANTS Requesters,   \* the goroutines of the client that send requests
          MaxUpdates,   \* bound: NotifyResourceUpdated
          MayStop       \* whether the server may stop before the client closes

VARIABLES toServer,     \* requests in the pipe
          toClient,     \* responses and notifications in the pipe
          subscribed,   \* resources.subscriptions of the resource
          updates,      \* notifications sent
          stopped       \* the server's process has ended

server == <<subscribed, updates, stopped>>
wire   == <<toServer, toClient>>

Kinds    == {"call", "subscribe", "unsubscribe"}
Request  == [id : Nat, of : Requesters, kind : Kinds]
Response == [id : Nat \ {0}, of : Requesters, ok : BOOLEAN]
Update   == [method |-> "resources/updated"]

ServerTypeOK ==
  /\ toServer \in Seq(Request)
  /\ toClient \in Seq(Response \union {Update})
  /\ subscribed \in BOOLEAN
  /\ updates \in 0 .. MaxUpdates
  /\ stopped \in BOOLEAN

ServerInit == /\ toServer = <<>> /\ toClient = <<>>
              /\ subscribed = FALSE /\ updates = 0 /\ stopped = FALSE

-----------------------------------------------------------------------------
(* handleMessage, then Send: the response bears the request's ID.  Only a    *)
(* subscription to a resource that is registered succeeds.                   *)
Serve ==
  /\ ~stopped /\ toServer # <<>>
  /\ LET m == Head(toServer)
     IN \E ok \in IF m.kind = "unsubscribe" THEN {TRUE} ELSE BOOLEAN :
          /\ toClient' = Append(toClient, [id |-> m.id, of |-> m.of, ok |-> ok])
          /\ subscribed' = CASE m.kind = "subscribe" -> subscribed \/ ok
                             [] m.kind = "unsubscribe" -> FALSE
                             [] OTHER -> subscribed
  /\ toServer' = Tail(toServer)
  /\ UNCHANGED <<updates, stopped>>

NotifyResourceUpdated ==
  /\ ~stopped /\ updates < MaxUpdates
  /\ toClient' = Append(toClient, Update)
  /\ updates' = updates + 1
  /\ UNCHANGED <<toServer, subscribed, stopped>>

(* The server's process ends: what it has sent can still be read. *)
Stop ==
  /\ ~stopped
  /\ stopped' = TRUE
  /\ toServer' = <<>>
  /\ UNCHANGED <<toClient, subscribed, updates>>

(* Start reads the end of its input, which the client has closed. *)
EndOfInput == toServer = <<>> /\ Stop

ServerStep == Serve \/ NotifyResourceUpdated \/ (MayStop /\ Stop)

-----------------------------------------------------------------------------
(* The client. *)
CONSTANTS Loop,       \* the goroutine of receiveLoop
          Deadline,   \* callers whose context ends by itself
          MaxRequests,\* bound: callers make no more requests after that many
          MayClose    \* whether the client is closed at some time

Callers == Requesters \ {Loop}

ASSUME MSAssumption == /\ Loop \in Requesters
                       /\ Deadline \in SUBSET Callers
                       /\ MaxUpdates \in Nat /\ MaxRequests \in Nat
                       /\ MayClose \in BOOLEAN /\ MayStop \in BOOLEAN

VARIABLES requestID,  \* c.requestID
          pending,    \* c.pendingRequests: the requester to answer, by request ID
          chan,       \* what is in each requester's respChan
          handlers,   \* how many handlers the resource has in c.subscriptions
          closed,     \* Close was called
          pc,         \* where each requester is
          id, kind,   \* its last request
          overlap     \* subscriptions overlapped or failed so far

client == <<requestID, pending, chan, handlers, closed>>
local  == <<pc, id, kind>>
vars   == <<client, local, overlap, server, wire>>

CallerSteps == {"idle", "sending", "waiting", "answered"}
LoopSteps   == {"checking", "receiving", "reading", "sending", "waiting", "answered", "ended"}
InFlight    == {r \in Requesters : pc[r] \in {"sending", "waiting"}}

TypeOK ==
  /\ ServerTypeOK
  /\ requestID \in Nat
  /\ DOMAIN pending \in SUBSET (1 .. requestID)
  /\ \A i \in DOMAIN pending : pending[i] \in Requesters
  /\ chan \in [Requesters -> Seq(Response)]
  /\ handlers \in Nat
  /\ closed \in BOOLEAN
  /\ pc \in [Requesters -> CallerSteps \union LoopSteps]
  /\ pc[Loop] \in LoopSteps
  /\ \A c \in Callers : pc[c] \in CallerSteps
  /\ id \in [Requesters -> 0 .. requestID]
  /\ kind \in [Requesters -> Kinds]
  /\ overlap \in BOOLEAN

Init ==
  /\ ServerInit
  /\ requestID = 0 /\ pending = <<>> /\ handlers = 0 /\ closed = FALSE
  /\ chan = [r \in Requesters |-> <<>>]
  /\ pc = [r \in Requesters |-> IF r = Loop THEN "checking" ELSE "idle"]
  /\ id = [r \in Requesters |-> 0]
  /\ kind = [r \in Requesters |-> "call"]
  /\ overlap = FALSE

-----------------------------------------------------------------------------
Goto(r, l) == pc' = [pc EXCEPT ![r] = l]

Subscribing == {c \in Callers : pc[c] \in {"sending", "waiting", "answered"} /\ kind[c] # "call"}

(* A variant whose requests may get the ID of another one. *)
RegisterSameID(r, k) ==
  /\ IF r = Loop THEN pc[r] = "reading" ELSE pc[r] = "idle" /\ requestID < MaxRequests
  /\ requestID' \in {requestID, requestID + 1}
  /\ id' = [id EXCEPT ![r] = requestID']
  /\ kind' = [kind EXCEPT ![r] = k]
  /\ pending' = [i \in DOMAIN pending \union {requestID'} |->
                   IF i = requestID' THEN r ELSE pending[i]]
  /\ chan' = [chan EXCEPT ![r] = <<>>]
  /\ overlap' = (overlap \/ (k # "call" /\ Subscribing # {}))
  /\ Goto(r, "sending")
  /\ UNCHANGED <<handlers, closed, server, wire>>

(* request, up to Send: a new ID, and a new channel to wait on. *)
Register(r, k) ==
  /\ IF r = Loop THEN pc[r] = "reading" ELSE pc[r] = "idle" /\ requestID < MaxRequests
  /\ requestID' = requestID + 1
  /\ id' = [id EXCEPT ![r] = requestID']
  /\ kind' = [kind EXCEPT ![r] = k]
  /\ pending' = [i \in DOMAIN pending \union {requestID'} |->
                   IF i = requestID' THEN r ELSE pending[i]]
  /\ chan' = [chan EXCEPT ![r] = <<>>]
  /\ overlap' = (overlap \/ (k # "call" /\ Subscribing # {}))
  /\ Goto(r, "sending")
  /\ UNCHANGED <<handlers, closed, server, wire>>

(* A pipe whose reader is gone may still take a message. *)
Send(r) ==
  /\ pc[r] = "sending" /\ ~closed
  /\ Goto(r, "waiting")
  /\ toServer' = IF stopped THEN toServer
                 ELSE Append(toServer, [id |-> id[r], of |-> r, kind |-> kind[r]])
  /\ UNCHANGED <<client, id, kind, overlap, server, toClient>>

(* The deferred delete; the channel goes with the call. *)
Forget(r) ==
  /\ pending' = [i \in DOMAIN pending \ {id[r]} |-> pending[i]]
  /\ chan' = [chan EXCEPT ![r] = <<>>]
  /\ id' = [id EXCEPT ![r] = 0]

(* request returns an error; the receive loop goes on.                      *)
Fail(r) ==
  /\ Forget(r)
  /\ Goto(r, IF r = Loop THEN "checking" ELSE "idle")
  /\ overlap' = (overlap \/ kind[r] # "call")
  /\ UNCHANGED <<requestID, handlers, closed, kind, server, wire>>

SendFails(r) == pc[r] = "sending" /\ (closed \/ stopped) /\ Fail(r)

(* The context ends: a caller's by its deadline, the loop's by Close. *)
ContextEnds(r) ==
  /\ pc[r] = "waiting"
  /\ r \in Deadline \/ (r = Loop /\ closed)
  /\ Fail(r)

(* request returns the response, or the error in it. *)
Answered(r) ==
  /\ pc[r] = "waiting" /\ chan[r] # <<>>
  /\ Forget(r)
  /\ Goto(r, IF Head(chan[r]).ok THEN "answered"
             ELSE IF r = Loop THEN "checking" ELSE "idle")
  /\ UNCHANGED <<requestID, handlers, closed, kind, overlap, server, wire>>

(* A variant that keeps the handlers of an ended subscription. *)
FinishKeepsHandlers(r) ==
  /\ pc[r] = "answered"
  /\ handlers' = IF kind[r] = "subscribe" THEN handlers + 1 ELSE handlers
  /\ Goto(r, IF r = Loop THEN "checking" ELSE "idle")
  /\ UNCHANGED <<requestID, pending, chan, closed, id, kind, overlap, server, wire>>

(* What the client does with an answer: it adds the subscription's handler, *)
(* removes all handlers, or, in the loop, calls them.                       *)
Finish(r) ==
  /\ pc[r] = "answered"
  /\ handlers' = CASE kind[r] = "subscribe" -> handlers + 1
                   [] kind[r] = "unsubscribe" -> 0
                   [] OTHER -> handlers
  /\ Goto(r, IF r = Loop THEN "checking" ELSE "idle")
  /\ UNCHANGED <<requestID, pending, chan, closed, id, kind, overlap, server, wire>>

-----------------------------------------------------------------------------
(* handleMessage: a response goes into the channel of the request, if it is *)
(* still waited for and the channel is empty.                               *)
Deliver(m) ==
  /\ chan' = IF m.id \in DOMAIN pending /\ chan[pending[m.id]] = <<>>
               THEN [chan EXCEPT ![pending[m.id]] = <<m>>]
               ELSE chan
  /\ Goto(Loop, "checking")

(* An update of a resource without handlers is dropped. *)
HandleResourceUpdate ==
  /\ Goto(Loop, IF handlers > 0 THEN "reading" ELSE "checking")
  /\ UNCHANGED chan

(* A variant that loses the responses that come after an update. *)
ReceiveDropsNext ==
  /\ pc[Loop] = "receiving" /\ toClient # <<>>
  /\ LET m == Head(toClient)
     IN IF m = Update THEN HandleResourceUpdate ELSE Deliver(m)
  /\ toClient' = IF Head(toClient) = Update THEN <<>> ELSE Tail(toClient)
  /\ UNCHANGED <<requestID, pending, handlers, closed, id, kind, overlap, server, toServer>>

Receive ==
  /\ pc[Loop] = "receiving" /\ toClient # <<>>
  /\ LET m == Head(toClient)
     IN IF m = Update THEN HandleResourceUpdate ELSE Deliver(m)
  /\ toClient' = Tail(toClient)
  /\ UNCHANGED <<requestID, pending, handlers, closed, id, kind, overlap, server, toServer>>

(* receiveLoop, between two messages. *)
CheckContext ==
  /\ pc[Loop] = "checking"
  /\ Goto(Loop, IF closed THEN "ended" ELSE "receiving")
  /\ UNCHANGED <<client, id, kind, overlap, server, wire>>

(* The loop ends with the server's output, which Close cuts off when the    *)
(* server has ended; those who wait go on waiting.                          *)
LoopEnds ==
  /\ pc[Loop] = "receiving"
  /\ stopped /\ (closed \/ toClient = <<>>)
  /\ Goto(Loop, "ended")
  /\ UNCHANGED <<client, id, kind, overlap, server, wire>>

Close ==
  /\ MayClose /\ ~closed
  /\ closed' = TRUE
  /\ UNCHANGED <<requestID, pending, chan, handlers, local, overlap, server, wire>>

RequestStep(r) ==
  \/ \E k \in (IF r = Loop THEN {"call"} ELSE Kinds) : Register(r, k)
  \/ Send(r) \/ SendFails(r) \/ ContextEnds(r) \/ Answered(r) \/ Finish(r)

Next ==
  \/ \E r \in Requesters : RequestStep(r)
  \/ Receive \/ CheckContext \/ LoopEnds \/ Close
  \/ (ServerStep \/ (closed /\ EndOfInput)) /\ UNCHANGED <<client, local, overlap>>

(* The goroutines of the client and of the server run.  Nothing makes a     *)
(* caller call, a resource change or a process end.                         *)
Fairness ==
  /\ \A r \in Requesters : /\ WF_vars(Send(r) \/ SendFails(r) \/ Answered(r))
                           /\ WF_vars(Finish(r))
                           /\ WF_vars(ContextEnds(r))
  /\ WF_vars(Register(Loop, "call"))
  /\ WF_vars(Receive) /\ WF_vars(CheckContext) /\ WF_vars(LoopEnds)
  /\ WF_vars(Serve /\ UNCHANGED <<client, local, overlap>>)
  /\ WF_vars(closed /\ EndOfInput /\ UNCHANGED <<client, local, overlap>>)

Spec == Init /\ [][Next]_vars /\ Fairness

-----------------------------------------------------------------------------
(* Whoever gets a response gets the one to its own last request, whatever   *)
(* comes late, out of turn or after a deadline.                             *)
AnswerIsOwn ==
  \A r \in Requesters : \A i \in DOMAIN chan[r] : chan[r][i].of = r /\ chan[r][i].id = id[r]

(* The table holds exactly the requests in flight, each under its own       *)
(* requester: no return path leaves an entry behind or takes another's.     *)
PendingIsInFlight ==
  /\ DOMAIN pending = {id[r] : r \in InFlight}
  /\ \A r \in InFlight : pending[id[r]] = r

(* When no subscription is on its way, client and server agree on whether   *)
(* there is one, unless subscriptions overlapped or failed half-way.        *)
SubscriptionsAgree ==
  overlap \/ Subscribing # {} \/ (subscribed <=> handlers > 0)

(* A request that was sent is answered, its context allowing, as long as    *)
(* the connection lasts and no update has drawn the loop into a read.       *)
AnswersArrive ==
  \A c \in Callers :
    pc[c] = "waiting" ~> pc[c] # "waiting" \/ closed \/ stopped \/ pc[Loop] \notin {"checking", "receiving"}

(* The handling of an update comes to an end, with the handlers called or   *)
(* the read refused, as long as the connection lasts.                       *)
UpdatesAreHandled ==
  pc[Loop] = "reading" ~> pc[Loop] \in {"answered", "checking"} \/ closed \/ stopped
=============================================================================
