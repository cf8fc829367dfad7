-------------------------- MODULE MCPSession_proofs --------------------------
(***************************************************************************)
(* Safety of the MCP session for any number of requesters, requests and    *)
(* updates.  The argument is the uniqueness of request IDs: a message on   *)
(* the wire bears an ID given out before, and whoever waits for that ID is *)
(* the one who made the request.                                           *)
(***************************************************************************)
EXTENDS MCPSession, TLAPS

(* A message whose ID has been given out, and is nobody else's. *)
Own(m) == m.id \in 1 .. requestID /\ \A r \in Requesters : id[r] = m.id => m.of = r

WireInv ==
  /\ \A i \in DOMAIN toServer : Own(toServer[i])
  /\ \A i \in DOMAIN toClient : toClient[i] # Update => Own(toClient[i])

(* Only who is in flight holds an ID and may find something in its channel. *)
LocalInv ==
  /\ \A r \in InFlight : id[r] \in 1 .. requestID
  /\ \A r \in Requesters \ InFlight : id[r] = 0 /\ chan[r] = <<>>

IInv == TypeOK /\ PendingIsInFlight /\ LocalInv /\ AnswerIsOwn /\ WireInv

-----------------------------------------------------------------------------
LEMMA UpdateIsNoResponse == \A m \in Response : m # Update
  BY DEF Response, Update

LEMMA InitInv == Init => IInv
<1> SUFFICES ASSUME Init PROVE IInv
  OBVIOUS
<1> USE MSAssumption DEF Init, ServerInit
<1>1. TypeOK
  <2>1. DOMAIN pending = {}
    OBVIOUS
  <2>2. /\ pc \in [Requesters -> CallerSteps \union LoopSteps]
        /\ pc[Loop] \in LoopSteps
        /\ \A c \in Callers : pc[c] \in CallerSteps
    BY DEF Callers, CallerSteps, LoopSteps
  <2>3. kind \in [Requesters -> Kinds]
    BY DEF Kinds
  <2>4. ServerTypeOK
    <3>1. updates \in 0 .. MaxUpdates
      OBVIOUS
    <3>2. stopped \in BOOLEAN /\ subscribed \in BOOLEAN
      BY Zenon
    <3>3. toServer \in Seq(Request) /\ toClient \in Seq(Response \union {Update})
      OBVIOUS
    <3>4. QED
      BY <3>1, <3>2, <3>3 DEF ServerTypeOK
  <2>5. chan \in [Requesters -> Seq(Response)] /\ id \in [Requesters -> 0 .. requestID]
    OBVIOUS
  <2>6. QED
    BY <2>1, <2>2, <2>3, <2>4, <2>5 DEF TypeOK
<1>2. InFlight = {}
  BY DEF InFlight
<1>3. PendingIsInFlight /\ LocalInv
  BY <1>2 DEF PendingIsInFlight, LocalInv
<1>4. AnswerIsOwn /\ WireInv
  BY DEF AnswerIsOwn, WireInv
<1>5. QED
  BY <1>1, <1>3, <1>4 DEF IInv

-----------------------------------------------------------------------------
(* A new request: its ID is nobody's, on the wire or in the table. *)
LEMMA RegisterInv ==
  ASSUME IInv, NEW r \in Requesters, NEW k \in Kinds, Register(r, k)
  PROVE  IInv'
<1> USE MSAssumption DEF IInv
<1>1. requestID \in Nat /\ requestID' = requestID + 1
  BY DEF Register, TypeOK
<1>2. r \notin InFlight /\ InFlight' = InFlight \union {r}
  BY DEF Register, Goto, InFlight, TypeOK
<1>3. id' = [id EXCEPT ![r] = requestID'] /\ id \in [Requesters -> 0 .. requestID]
  BY DEF Register, TypeOK
<1>4. chan' = [chan EXCEPT ![r] = <<>>] /\ chan \in [Requesters -> Seq(Response)]
  BY DEF Register, TypeOK
<1>5. DOMAIN pending' = DOMAIN pending \union {requestID'}
  BY DEF Register
<1>6. /\ pending'[requestID'] = r
      /\ \A i \in DOMAIN pending : i # requestID' => pending'[i] = pending[i]
  BY DEF Register
<1>7. PendingIsInFlight'
  <2>1. \A q \in InFlight : q # r /\ id'[q] = id[q] /\ id[q] # requestID'
    BY <1>1, <1>2, <1>3 DEF InFlight
  <2>2. id'[r] = requestID'
    BY <1>3
  <2>3. \A q \in InFlight' : pending'[id'[q]] = q
    BY <2>1, <2>2, <1>2, <1>6 DEF PendingIsInFlight
  <2>4. {id'[q] : q \in InFlight'} = {id[q] : q \in InFlight} \union {requestID'}
    BY <2>1, <2>2, <1>2
  <2>5. QED
    BY <2>3, <2>4, <1>5 DEF PendingIsInFlight
<1>8. LocalInv'
  BY <1>1, <1>2, <1>3, <1>4 DEF LocalInv, InFlight
<1>9. AnswerIsOwn'
  BY <1>3, <1>4 DEF AnswerIsOwn
<1>10. WireInv'
  <2>1. ASSUME NEW m, Own(m)  PROVE Own(m)'
    BY <2>1, <1>1, <1>3 DEF Own
  <2>2. UNCHANGED <<toServer, toClient>>
    BY DEF Register, wire
  <2>3. QED
    BY <2>1, <2>2 DEF WireInv
<1>11. TypeOK'
  <2>1. id' \in [Requesters -> 0 .. requestID']
    BY <1>1, <1>3
  <2>2. \A i \in DOMAIN pending' : i \in 1 .. requestID' /\ pending'[i] \in Requesters
    BY <1>1, <1>5, <1>6 DEF TypeOK
  <2>3. /\ pc' \in [Requesters -> CallerSteps \union LoopSteps]
        /\ pc'[Loop] \in LoopSteps
        /\ \A c \in Callers : pc'[c] \in CallerSteps
    BY DEF Register, Goto, TypeOK, Callers, CallerSteps, LoopSteps
  <2>4. kind' \in [Requesters -> Kinds] /\ overlap' \in BOOLEAN
    BY DEF Register, TypeOK
  <2>5. ServerTypeOK' /\ handlers' \in Nat /\ closed' \in BOOLEAN
    BY DEF Register, TypeOK, ServerTypeOK, server, wire
  <2>6. QED
    BY <2>1, <2>2, <2>3, <2>4, <2>5, <1>1, <1>4 DEF TypeOK
<1>12. QED
  BY <1>7, <1>8, <1>9, <1>10, <1>11

(* The end of a request, at any answer, error or deadline. *)
LEMMA ForgetInv ==
  ASSUME IInv, NEW r \in InFlight, NEW l, Forget(r), pc' = [pc EXCEPT ![r] = l],
         UNCHANGED <<requestID, handlers, closed, kind, server, wire>>,
         overlap' \in BOOLEAN,
         IF r = Loop THEN l \in {"checking", "answered"} ELSE l \in {"idle", "answered"}
  PROVE  IInv'
<1> USE MSAssumption DEF IInv
<1>1. r \in Requesters /\ InFlight' = InFlight \ {r}
  BY DEF InFlight, TypeOK
<1>2. id' = [id EXCEPT ![r] = 0] /\ id \in [Requesters -> 0 .. requestID]
  BY DEF Forget, TypeOK
<1>3. chan' = [chan EXCEPT ![r] = <<>>] /\ chan \in [Requesters -> Seq(Response)]
  BY DEF Forget, TypeOK
<1>4. /\ DOMAIN pending' = DOMAIN pending \ {id[r]}
      /\ \A i \in DOMAIN pending' : pending'[i] = pending[i]
  BY DEF Forget
<1>5. PendingIsInFlight'
  <2>1. \A q \in InFlight' : id'[q] = id[q] /\ id[q] # id[r]
    BY <1>1, <1>2 DEF PendingIsInFlight, InFlight
  <2>2. {id'[q] : q \in InFlight'} = {id[q] : q \in InFlight} \ {id[r]}
    BY <2>1, <1>1
  <2>3. DOMAIN pending' = {id'[q] : q \in InFlight'}
    BY <2>2, <1>4 DEF PendingIsInFlight
  <2>4. \A q \in InFlight' : pending'[id'[q]] = q
    BY <2>1, <2>3, <1>1, <1>4 DEF PendingIsInFlight
  <2>5. QED
    BY <2>3, <2>4 DEF PendingIsInFlight
<1>6. LocalInv'
  BY <1>1, <1>2, <1>3 DEF LocalInv, InFlight
<1>7. AnswerIsOwn'
  BY <1>2, <1>3 DEF AnswerIsOwn
<1>8. WireInv'
  <2>1. ASSUME NEW m, Own(m)  PROVE Own(m)'
    BY <2>1, <1>1, <1>2 DEF Own, TypeOK
  <2>2. UNCHANGED <<toServer, toClient>>
    BY DEF wire
  <2>3. QED
    BY <2>1, <2>2 DEF WireInv
<1>9. TypeOK'
  <2>1. id' \in [Requesters -> 0 .. requestID']
    <3>1. requestID' = requestID /\ requestID \in Nat
      BY DEF TypeOK
    <3>2. 0 \in 0 .. requestID
      BY <3>1
    <3>3. QED
      BY <1>2, <3>1, <3>2
  <2>2. \A i \in DOMAIN pending' : i \in 1 .. requestID' /\ pending'[i] \in Requesters
    BY <1>4 DEF TypeOK
  <2>3. /\ pc' \in [Requesters -> CallerSteps \union LoopSteps]
        /\ pc'[Loop] \in LoopSteps
        /\ \A c \in Callers : pc'[c] \in CallerSteps
    BY <1>1 DEF TypeOK, Callers, CallerSteps, LoopSteps
  <2>4. ServerTypeOK'
    BY DEF TypeOK, ServerTypeOK, server, wire
  <2>5. QED
    BY <2>1, <2>2, <2>3, <2>4, <1>3 DEF TypeOK
<1>10. QED
  BY <1>5, <1>6, <1>7, <1>8, <1>9

-----------------------------------------------------------------------------
(* Steps that leave requests, IDs and channels as they are. *)
Quiet == UNCHANGED <<requestID, pending, id, chan>> /\ InFlight' = InFlight

LEMMA QuietInv ==
  ASSUME IInv, Quiet, TypeOK', WireInv'
  PROVE  IInv'
<1>1. PendingIsInFlight' /\ LocalInv' /\ AnswerIsOwn'
  BY DEF IInv, Quiet, PendingIsInFlight, LocalInv, AnswerIsOwn
<1>2. QED
  BY <1>1 DEF IInv

LEMMA WireQuiet ==
  ASSUME WireInv, Quiet,
         \A i \in DOMAIN toServer' : \E j \in DOMAIN toServer : toServer'[i] = toServer[j],
         \A i \in DOMAIN toClient' : \/ toClient'[i] = Update
                                     \/ \E j \in DOMAIN toClient : toClient'[i] = toClient[j]
  PROVE  WireInv'
<1>1. ASSUME NEW m, Own(m)  PROVE Own(m)'
  BY <1>1 DEF Own, Quiet
<1>2. QED
  BY <1>1 DEF WireInv, Update

-----------------------------------------------------------------------------
(* A requester moves on without a change of its request. *)
LEMMA MoveTypes ==
  ASSUME TypeOK, NEW r \in Requesters, NEW l, Goto(r, l),
         IF r = Loop THEN l \in LoopSteps ELSE l \in CallerSteps,
         UNCHANGED <<requestID, pending, chan, id, kind, overlap>>,
         handlers' \in Nat, closed' \in BOOLEAN, ServerTypeOK'
  PROVE  TypeOK'
<1>1. /\ pc' \in [Requesters -> CallerSteps \union LoopSteps]
      /\ pc'[Loop] \in LoopSteps
      /\ \A c \in Callers : pc'[c] \in CallerSteps
  BY MSAssumption DEF Goto, TypeOK, Callers
<1>2. QED
  BY <1>1 DEF TypeOK

LEMMA SendInv ==
  ASSUME IInv, NEW r \in Requesters, Send(r)
  PROVE  IInv'
<1> USE MSAssumption
<1>1. TypeOK /\ r \in InFlight
  BY DEF IInv, Send, InFlight
<1> DEFINE m == [id |-> id[r], of |-> r, kind |-> kind[r]]
<1>2. m \in Request /\ id[r] \in 1 .. requestID
  BY <1>1 DEF IInv, LocalInv, TypeOK, Request
<1>3. toServer \in Seq(Request) /\ toClient \in Seq(Response \union {Update})
  BY <1>1 DEF TypeOK, ServerTypeOK
<1>4. /\ toServer' = toServer \/ toServer' = Append(toServer, m)
      /\ UNCHANGED <<client, id, kind, overlap, server, toClient>>
  BY DEF Send
<1> HIDE DEF m
<1>5. ServerTypeOK'
  <2>1. toServer' \in Seq(Request)
    BY <1>2, <1>3, <1>4
  <2>2. UNCHANGED <<toClient, subscribed, updates, stopped>>
    BY <1>4 DEF server
  <2>3. QED
    BY <2>1, <2>2, <1>1 DEF TypeOK, ServerTypeOK
<1>6. TypeOK'
  BY <1>1, <1>4, <1>5, MoveTypes
     DEF Send, client, TypeOK, LoopSteps, CallerSteps
<1>7. Quiet
  <2>1. InFlight' = InFlight
    BY <1>1 DEF Send, Goto, InFlight, TypeOK
  <2>2. QED
    BY <2>1, <1>4 DEF Quiet, client
<1>8. Own(m)
  <2>1. m.id = id[r] /\ m.of = r
    BY DEF m
  <2>2. ASSUME NEW q \in Requesters, id[q] = id[r]  PROVE q = r
    <3>1. q \in InFlight
      BY <1>2, <2>2 DEF IInv, LocalInv
    <3>2. QED
      BY <3>1, <1>1, <2>2 DEF IInv, PendingIsInFlight
  <2>3. QED
    BY <2>1, <2>2, <1>2 DEF Own
<1>9. WireInv'
  <2>1. ASSUME NEW x, Own(x)  PROVE Own(x)'
    BY <2>1, <1>7 DEF Own, Quiet
  <2>2. \A i \in DOMAIN toServer' : Own(toServer'[i])
    BY <1>3, <1>4, <1>2, <1>8 DEF IInv, WireInv
  <2>3. \A i \in DOMAIN toClient' : toClient'[i] # Update => Own(toClient'[i])
    BY <1>4 DEF IInv, WireInv
  <2>4. QED
    BY <2>1, <2>2, <2>3, <1>7 DEF WireInv, Own, Quiet
<1>10. QED
  BY <1>6, <1>7, <1>9, QuietInv

LEMMA FinishInv ==
  ASSUME IInv, NEW r \in Requesters, Finish(r)
  PROVE  IInv'
<1>1. TypeOK
  BY DEF IInv
<1>2. TypeOK'
  <2>1. handlers' \in Nat
    BY <1>1 DEF Finish, TypeOK
  <2>2. ServerTypeOK'
    BY <1>1 DEF Finish, TypeOK, ServerTypeOK, server, wire
  <2>3. QED
    BY <1>1, <2>1, <2>2, MoveTypes DEF Finish, TypeOK, LoopSteps, CallerSteps
<1>3. Quiet
  <2>1. InFlight' = InFlight
    BY <1>1 DEF Finish, Goto, InFlight, TypeOK
  <2>2. QED
    BY <2>1 DEF Quiet, Finish
<1>4. WireInv'
  BY <1>3, WireQuiet DEF IInv, Finish, wire
<1>5. QED
  BY <1>2, <1>3, <1>4, QuietInv

LEMMA RequestInv ==
  ASSUME IInv, NEW r \in Requesters, RequestStep(r)
  PROVE  IInv'
<1>1. ASSUME NEW k \in (IF r = Loop THEN {"call"} ELSE Kinds), Register(r, k)
      PROVE  IInv'
  <2>1. k \in Kinds
    BY DEF Kinds
  <2>2. QED
    BY <1>1, <2>1, RegisterInv
<1>2. CASE Send(r)
  BY <1>2, SendInv
<1>3. CASE SendFails(r) \/ ContextEnds(r)
  <2>1. r \in InFlight /\ Fail(r)
    BY <1>3 DEF SendFails, ContextEnds, InFlight
  <2> DEFINE l == IF r = Loop THEN "checking" ELSE "idle"
  <2>2. /\ Forget(r) /\ pc' = [pc EXCEPT ![r] = l]
        /\ UNCHANGED <<requestID, handlers, closed, kind, server, wire>>
    BY <2>1 DEF Fail, Goto
  <2>3. overlap' \in BOOLEAN
    BY <2>1 DEF Fail
  <2>4. IF r = Loop THEN l \in {"checking", "answered"} ELSE l \in {"idle", "answered"}
    OBVIOUS
  <2> HIDE DEF l
  <2>5. QED
    BY <2>1, <2>2, <2>3, <2>4, ForgetInv
<1>4. CASE Answered(r)
  <2>1. r \in InFlight
    BY <1>4 DEF Answered, InFlight
  <2> DEFINE l == IF Head(chan[r]).ok THEN "answered"
                  ELSE IF r = Loop THEN "checking" ELSE "idle"
  <2>2. /\ Forget(r) /\ pc' = [pc EXCEPT ![r] = l]
        /\ UNCHANGED <<requestID, handlers, closed, kind, server, wire>>
    BY <1>4 DEF Answered, Goto
  <2>3. overlap' \in BOOLEAN
    BY <1>4 DEF Answered, IInv, TypeOK
  <2>4. IF r = Loop THEN l \in {"checking", "answered"} ELSE l \in {"idle", "answered"}
    OBVIOUS
  <2> HIDE DEF l
  <2>5. QED
    BY <2>1, <2>2, <2>3, <2>4, ForgetInv
<1>5. CASE Finish(r)
  BY <1>5, FinishInv
<1>6. QED
  BY <1>1, <1>2, <1>3, <1>4, <1>5 DEF RequestStep

-----------------------------------------------------------------------------
(* A response is delivered to whom it is for, or to nobody. *)
LEMMA ReceiveInv ==
  ASSUME IInv, Receive
  PROVE  IInv'
<1> USE MSAssumption
<1> DEFINE m == Head(toClient)
<1>1. TypeOK /\ toClient \in Seq(Response \union {Update}) /\ toClient # <<>>
  BY DEF IInv, TypeOK, ServerTypeOK, Receive
<1>2. m \in Response \union {Update} /\ m = toClient[1] /\ 1 \in DOMAIN toClient
  BY <1>1
<1>3. /\ toClient' \in Seq(Response \union {Update})
      /\ \A i \in DOMAIN toClient' : i + 1 \in DOMAIN toClient /\ toClient'[i] = toClient[i + 1]
  BY <1>1 DEF Receive
<1>4. UNCHANGED <<requestID, pending, handlers, closed, id, kind, overlap, server, toServer>>
  BY DEF Receive
<1>5. /\ pc[Loop] = "receiving"
      /\ pc' = [pc EXCEPT ![Loop] = "checking"] \/ pc' = [pc EXCEPT ![Loop] = "reading"]
  BY DEF Receive, Deliver, HandleResourceUpdate, Goto
<1>6. ASSUME chan' # chan
      PROVE  \E r \in InFlight : /\ m \in Response /\ Own(m)
                                 /\ id[r] = m.id
                                 /\ chan' = [chan EXCEPT ![r] = <<m>>]
  <2>1. m # Update /\ Deliver(m)
    BY <1>6 DEF Receive, HandleResourceUpdate
  <2>2. /\ m.id \in DOMAIN pending
        /\ chan' = [chan EXCEPT ![pending[m.id]] = <<m>>]
    BY <2>1, <1>6 DEF Deliver
  <2>3. PICK r \in InFlight : m.id = id[r]
    BY <2>2 DEF IInv, PendingIsInFlight
  <2>4. pending[m.id] = r
    BY <2>3 DEF IInv, PendingIsInFlight
  <2>5. m \in Response /\ Own(m)
    BY <2>1, <1>2 DEF IInv, WireInv
  <2> HIDE DEF m
  <2>6. QED
    BY <2>2, <2>3, <2>4, <2>5
<1>7. InFlight' = InFlight
  BY <1>1, <1>5 DEF InFlight, TypeOK
<1>8. ServerTypeOK'
  BY <1>1, <1>3, <1>4 DEF TypeOK, ServerTypeOK, server
<1>9. /\ pc' \in [Requesters -> CallerSteps \union LoopSteps]
      /\ pc'[Loop] \in LoopSteps
      /\ \A c \in Callers : pc'[c] \in CallerSteps
  BY <1>1, <1>5 DEF TypeOK, Callers, LoopSteps
<1>10. WireInv'
  <2>1. ASSUME NEW x, Own(x)  PROVE Own(x)'
    BY <2>1, <1>4 DEF Own
  <2>2. \A i \in DOMAIN toClient' : toClient'[i] # Update => Own(toClient'[i])
    BY <1>3 DEF IInv, WireInv
  <2>3. \A i \in DOMAIN toServer' : Own(toServer'[i])
    BY <1>4 DEF IInv, WireInv
  <2>4. QED
    BY <1>4, <2>1, <2>2, <2>3 DEF WireInv, Own, Update
<1>11. PendingIsInFlight'
  BY <1>4, <1>7 DEF IInv, PendingIsInFlight
<1> HIDE DEF m
<1>12. CASE chan' = chan
  <2>1. TypeOK'
    BY <1>12, <1>1, <1>4, <1>8, <1>9 DEF TypeOK
  <2>2. LocalInv' /\ AnswerIsOwn'
    BY <1>12, <1>4, <1>7 DEF IInv, LocalInv, AnswerIsOwn
  <2>3. QED
    BY <2>1, <2>2, <1>10, <1>11 DEF IInv
<1>13. CASE chan' # chan
  <2>1. PICK r \in InFlight : /\ m \in Response /\ Own(m)
                              /\ id[r] = m.id
                              /\ chan' = [chan EXCEPT ![r] = <<m>>]
    BY <1>13, <1>6
  <2>2. r \in Requesters /\ chan \in [Requesters -> Seq(Response)]
    BY <1>1 DEF InFlight, TypeOK
  <2>3. chan' \in [Requesters -> Seq(Response)]
    BY <2>1, <2>2
  <2>4. TypeOK'
    BY <2>3, <1>1, <1>4, <1>8, <1>9 DEF TypeOK
  <2>5. LocalInv'
    BY <2>1, <2>2, <1>4, <1>7 DEF IInv, LocalInv
  <2>6. AnswerIsOwn'
    <3>1. m.of = r
      BY <2>1, <2>2 DEF Own
    <3>2. \A i \in DOMAIN chan'[r] : chan'[r][i] = m
      BY <2>1, <2>2
    <3>3. \A q \in Requesters \ {r} : chan'[q] = chan[q]
      BY <2>1, <2>2
    <3>4. QED
      BY <3>1, <3>2, <3>3, <2>1, <1>4 DEF IInv, AnswerIsOwn
  <2>7. QED
    BY <2>4, <2>5, <2>6, <1>10, <1>11 DEF IInv
<1>14. QED
  BY <1>12, <1>13

-----------------------------------------------------------------------------
LEMMA LoopInv ==
  ASSUME IInv, CheckContext \/ LoopEnds \/ Close
  PROVE  IInv'
<1> USE MSAssumption
<1>1. TypeOK
  BY DEF IInv
<1>2. UNCHANGED <<requestID, pending, id, chan, kind, overlap, handlers, server, wire>>
  BY DEF CheckContext, LoopEnds, Close, client, local
<1>3. ServerTypeOK'
  BY <1>1, <1>2 DEF TypeOK, ServerTypeOK, server, wire
<1>4. TypeOK' /\ InFlight' = InFlight
  <2>1. CASE Close
    BY <1>1, <1>2, <1>3, <2>1 DEF Close, TypeOK, InFlight, local
  <2>2. CASE CheckContext \/ LoopEnds
    <3>1. PICK l \in {"receiving", "ended"} : pc' = [pc EXCEPT ![Loop] = l]
      BY <2>2 DEF CheckContext, LoopEnds, Goto
    <3>2. pc[Loop] \in {"checking", "receiving"} /\ closed' = closed
      BY <2>2 DEF CheckContext, LoopEnds, client
    <3>3. InFlight' = InFlight
      BY <1>1, <3>1, <3>2 DEF InFlight, TypeOK
    <3>4. Loop \in Requesters /\ l \in LoopSteps /\ Goto(Loop, l)
      BY <3>1 DEF LoopSteps, Goto
    <3>5. handlers' \in Nat /\ closed' \in BOOLEAN
      BY <1>1, <1>2, <3>2 DEF TypeOK
    <3>6. TypeOK'
      BY <1>1, <1>2, <1>3, <3>4, <3>5, MoveTypes
    <3>7. QED
      BY <3>3, <3>6
  <2>3. QED
    BY <2>1, <2>2
<1>5. Quiet
  BY <1>2, <1>4 DEF Quiet
<1>6. WireInv'
  BY <1>2, <1>5, WireQuiet DEF IInv, wire
<1>7. QED
  BY <1>4, <1>5, <1>6, QuietInv

(* The server answers a request under the request's own ID. *)
LEMMA ServeInv ==
  ASSUME IInv, Serve, UNCHANGED <<client, local, overlap>>
  PROVE  IInv'
<1> DEFINE q == Head(toServer)
<1>1. /\ TypeOK /\ toServer \in Seq(Request) /\ toServer # <<>>
      /\ toClient \in Seq(Response \union {Update})
  BY DEF IInv, TypeOK, ServerTypeOK, Serve
<1>2. q \in Request /\ q = toServer[1] /\ 1 \in DOMAIN toServer
  BY <1>1
<1>3. Own(q)
  BY <1>2 DEF IInv, WireInv
<1>4. PICK ok \in BOOLEAN :
        /\ toClient' = Append(toClient, [id |-> q.id, of |-> q.of, ok |-> ok])
        /\ subscribed' \in BOOLEAN
  BY <1>1 DEF Serve, TypeOK, ServerTypeOK
<1> DEFINE m == [id |-> q.id, of |-> q.of, ok |-> ok]
<1>5. m \in Response /\ Own(m)
  BY <1>1, <1>2, <1>3 DEF Own, Response, Request, TypeOK
<1>6. /\ toServer' \in Seq(Request)
      /\ \A i \in DOMAIN toServer' : i + 1 \in DOMAIN toServer /\ toServer'[i] = toServer[i + 1]
  <2>1. toServer' = Tail(toServer)
    BY DEF Serve
  <2>2. QED
    BY <1>1, <2>1
<1>7. toClient' = Append(toClient, m)
  BY <1>4
<1> HIDE DEF m, q
<1>8. toClient' \in Seq(Response \union {Update})
  BY <1>1, <1>5, <1>7
<1>9. ServerTypeOK'
  BY <1>1, <1>4, <1>6, <1>8 DEF Serve, TypeOK, ServerTypeOK
<1>10. TypeOK'
  BY <1>1, <1>9 DEF TypeOK, client, local
<1>11. Quiet
  BY DEF Quiet, InFlight, client, local
<1>12. WireInv'
  <2>1. ASSUME NEW x, Own(x)  PROVE Own(x)'
    BY <2>1, <1>11 DEF Own, Quiet
  <2>2. \A i \in DOMAIN toServer' : Own(toServer'[i])
    BY <1>6 DEF IInv, WireInv
  <2>3. \A i \in DOMAIN toClient' : toClient'[i] # Update => Own(toClient'[i])
    BY <1>1, <1>5, <1>7 DEF IInv, WireInv
  <2>4. QED
    BY <1>11, <2>1, <2>2, <2>3 DEF WireInv, Own, Quiet, Update
<1>13. QED
  BY <1>10, <1>11, <1>12, QuietInv

LEMMA ServerInv ==
  ASSUME IInv, NotifyResourceUpdated \/ Stop, UNCHANGED <<client, local, overlap>>
  PROVE  IInv'
<1>1. /\ TypeOK /\ toServer \in Seq(Request)
      /\ toClient \in Seq(Response \union {Update}) /\ updates \in 0 .. MaxUpdates
  BY DEF IInv, TypeOK, ServerTypeOK
<1>2. /\ toServer' = toServer \/ toServer' = <<>>
      /\ toClient' = toClient \/ toClient' = Append(toClient, Update)
  BY DEF NotifyResourceUpdated, Stop
<1>3. toServer' \in Seq(Request) /\ toClient' \in Seq(Response \union {Update})
  <2>1. <<>> \in Seq(Request)
    OBVIOUS
  <2>2. Append(toClient, Update) \in Seq(Response \union {Update})
    BY <1>1
  <2>3. QED
    BY <1>1, <1>2, <2>1, <2>2
<1>4. updates' \in 0 .. MaxUpdates
  BY <1>1, MSAssumption DEF NotifyResourceUpdated, Stop
<1>5. subscribed' \in BOOLEAN /\ stopped' \in BOOLEAN
  BY <1>1 DEF NotifyResourceUpdated, Stop, TypeOK, ServerTypeOK
<1>6. TypeOK'
  BY <1>1, <1>3, <1>4, <1>5 DEF TypeOK, ServerTypeOK, client, local
<1>7. Quiet
  BY DEF Quiet, InFlight, client, local
<1>8. WireInv'
  <2>1. \A i \in DOMAIN toServer' : \E j \in DOMAIN toServer : toServer'[i] = toServer[j]
    BY <1>2
  <2>2. \A i \in DOMAIN toClient' : \/ toClient'[i] = Update
                                    \/ \E j \in DOMAIN toClient : toClient'[i] = toClient[j]
    BY <1>1, <1>2
  <2>3. QED
    BY <2>1, <2>2, <1>7, WireQuiet DEF IInv
<1>9. QED
  BY <1>6, <1>7, <1>8, QuietInv

LEMMA StepInv == IInv /\ [Next]_vars => IInv'
<1> SUFFICES ASSUME IInv, [Next]_vars PROVE IInv'
  OBVIOUS
<1>1. CASE \E r \in Requesters : RequestStep(r)
  BY <1>1, RequestInv
<1>2. CASE Receive
  BY <1>2, ReceiveInv
<1>3. CASE CheckContext \/ LoopEnds \/ Close
  BY <1>3, LoopInv
<1>4. CASE (ServerStep \/ (closed /\ EndOfInput)) /\ UNCHANGED <<client, local, overlap>>
  BY <1>4, ServeInv, ServerInv DEF ServerStep, EndOfInput
<1>5. CASE UNCHANGED vars
  <2>1. UNCHANGED <<client, local, overlap, server, wire>>
    BY <1>5 DEF vars
  <2>2. TypeOK' /\ Quiet
    BY <2>1 DEF IInv, TypeOK, ServerTypeOK, Quiet, InFlight, client, local, server, wire
  <2>3. WireInv'
    BY <2>1, <2>2, WireQuiet DEF IInv, wire
  <2>4. QED
    BY <2>2, <2>3, QuietInv
<1>6. QED
  BY <1>1, <1>2, <1>3, <1>4, <1>5 DEF Next

LEMMA Inductive == Spec => []IInv
<1>1. QED
  BY InitInv, StepInv, PTL DEF Spec

-----------------------------------------------------------------------------
(* Every variable keeps its type; in particular the loop and the callers    *)
(* each stay in their own places.                                           *)
THEOREM TypeCorrect == Spec => []TypeOK
<1>1. IInv => TypeOK
  BY DEF IInv
<1>2. QED
  BY <1>1, Inductive, PTL

(* The table of pending requests holds exactly those in flight, each under  *)
(* its own requester, on every path that ends one.                          *)
THEOREM PendingCorrect == Spec => []PendingIsInFlight
<1>1. IInv => PendingIsInFlight
  BY DEF IInv
<1>2. QED
  BY <1>1, Inductive, PTL

(* Nobody ever receives another request's response, however late responses  *)
(* are and however many requests have been given up.                        *)
THEOREM AnswersCorrect == Spec => []AnswerIsOwn
<1>1. IInv => AnswerIsOwn
  BY DEF IInv
<1>2. QED
  BY <1>1, Inductive, PTL
-----------------------------------------------------------------------------
(* A request on the wire is the one its requester waits for, if it still    *)
(* does, and bears its kind; it is there once, and nothing has answered it. *)
KindInv ==
  /\ kind[Loop] = "call"
  /\ \A i \in DOMAIN toServer : \A r \in Requesters :
       toServer[i].id = id[r] =>
         pc[r] = "waiting" /\ toServer[i].kind = kind[r] /\ chan[r] = <<>>
  /\ \A i, j \in DOMAIN toServer : toServer[i].id = toServer[j].id => i = j
  /\ \A i \in DOMAIN toServer : \A j \in DOMAIN toClient :
       toClient[j] # Update => toClient[j].id # toServer[i].id
  /\ \A r \in Requesters : pc[r] = "sending" =>
       /\ chan[r] = <<>>
       /\ \A j \in DOMAIN toClient : toClient[j] # Update => toClient[j].id # id[r]

Agree   == subscribed <=> handlers > 0
Done(c) == IF kind[c] = "subscribe" THEN subscribed ELSE ~subscribed

(* What an answer says of the subscription, while it is on its way. *)
Right(m, c) == IF m.ok THEN Done(c) ELSE Agree

(* One subscription is on its way at a time: until the server has served it, *)
(* the two sides agree; from then on its answer tells what the server did.   *)
SubInv ==
  ~overlap =>
    /\ \A s, t \in Subscribing : s = t
    /\ Subscribing = {} => Agree
    /\ \A s \in Subscribing :
         /\ pc[s] = "sending" => Agree
         /\ pc[s] = "answered" => Done(s)
         /\ \A j \in DOMAIN chan[s] : Right(chan[s][j], s)
         /\ \A j \in DOMAIN toClient :
              toClient[j] # Update /\ toClient[j].id = id[s] => Right(toClient[j], s)
    /\ \A i \in DOMAIN toServer : toServer[i].kind # "call" =>
         /\ toServer[i].of \in Subscribing /\ id[toServer[i].of] = toServer[i].id
         /\ Agree

LEMMA InitSub == Init => KindInv /\ SubInv
<1> SUFFICES ASSUME Init PROVE KindInv /\ SubInv
  OBVIOUS
<1>1. /\ \A i \in DOMAIN toServer : FALSE
      /\ \A r \in Requesters : pc[r] \in {"idle", "checking"}
  BY DEF Init, ServerInit
<1>2. kind[Loop] = "call" /\ Subscribing = {} /\ Agree
  <2>1. kind[Loop] = "call"
    BY MSAssumption DEF Init
  <2>2. Subscribing = {}
    BY <1>1 DEF Subscribing, Callers
  <2>3. ~subscribed /\ ~(handlers > 0)
    <3>1. ~subscribed
      BY Zenon DEF Init, ServerInit
    <3>2. handlers = 0
      BY DEF Init
    <3>3. QED
      BY <3>1, <3>2
  <2>4. QED
    BY <2>1, <2>2, <2>3 DEF Agree
<1>3. KindInv
  <2>1. \A i, j \in DOMAIN toServer : toServer[i].id = toServer[j].id => i = j
    BY <1>1
  <2>2. \A r \in Requesters : pc[r] # "sending"
    BY <1>1
  <2>3. QED
    BY <1>1, <1>2, <2>1, <2>2, Zenon DEF KindInv
<1>4. SubInv
  BY <1>1, <1>2 DEF SubInv
<1>5. QED
  BY <1>3, <1>4

(* What the invariant says of IDs: those on the wire have been given out. *)
LEMMA WireIDs ==
  ASSUME IInv
  PROVE  /\ requestID \in Nat /\ id \in [Requesters -> 0 .. requestID]
         /\ pc \in [Requesters -> CallerSteps \union LoopSteps]
         /\ chan \in [Requesters -> Seq(Response)] /\ kind \in [Requesters -> Kinds]
         /\ \A i \in DOMAIN toServer : toServer[i].id \in 1 .. requestID
         /\ \A j \in DOMAIN toClient :
              toClient[j] # Update => toClient[j].id \in 1 .. requestID
BY DEF IInv, TypeOK, WireInv, Own

-----------------------------------------------------------------------------
(* A new request has an ID that is nowhere on the wire. *)
LEMMA RegisterKind ==
  ASSUME IInv, KindInv, NEW r \in Requesters, NEW k \in Kinds, Register(r, k),
         r = Loop => k = "call"
  PROVE  KindInv'
<1>1. /\ requestID' = requestID + 1 /\ id' = [id EXCEPT ![r] = requestID']
      /\ kind' = [kind EXCEPT ![r] = k] /\ chan' = [chan EXCEPT ![r] = <<>>]
      /\ pc' = [pc EXCEPT ![r] = "sending"]
      /\ UNCHANGED <<toServer, toClient>>
  BY DEF Register, Goto, wire
<1>2. kind'[Loop] = "call"
  BY <1>1, WireIDs, MSAssumption DEF KindInv
<1>3. \A i \in DOMAIN toServer : toServer[i].id # requestID'
  BY <1>1, WireIDs
<1>4. \A j \in DOMAIN toClient : toClient[j] # Update => toClient[j].id # requestID'
  BY <1>1, WireIDs
<1>5. \A i \in DOMAIN toServer : \A q \in Requesters :
        toServer[i].id = id'[q] =>
          pc'[q] = "waiting" /\ toServer[i].kind = kind'[q] /\ chan'[q] = <<>>
  BY <1>1, <1>3, WireIDs DEF KindInv
<1>6. \A q \in Requesters : pc'[q] = "sending" =>
        /\ chan'[q] = <<>>
        /\ \A j \in DOMAIN toClient : toClient[j] # Update => toClient[j].id # id'[q]
  BY <1>1, <1>4, WireIDs DEF KindInv
<1>7. QED
  BY <1>1, <1>2, <1>5, <1>6 DEF KindInv, Update

LEMMA RegisterSub ==
  ASSUME IInv, KindInv, SubInv, NEW r \in Requesters, NEW k \in Kinds, Register(r, k),
         r = Loop => k = "call"
  PROVE  SubInv'
<1> SUFFICES ASSUME ~overlap' PROVE SubInv'
  BY DEF SubInv
<1>1. /\ requestID' = requestID + 1 /\ id' = [id EXCEPT ![r] = requestID']
      /\ kind' = [kind EXCEPT ![r] = k] /\ chan' = [chan EXCEPT ![r] = <<>>]
      /\ pc' = [pc EXCEPT ![r] = "sending"]
      /\ UNCHANGED <<toServer, toClient, handlers, subscribed>>
      /\ ~overlap /\ (k # "call" => Subscribing = {})
      /\ pc[r] \in {"idle", "reading"}
  BY DEF Register, Goto, wire, server
<1>2. Agree' = Agree /\ \A c \in Callers \ {r} : Done(c)' = Done(c)
  BY <1>1, WireIDs DEF Agree, Done, Callers
<1>3. CASE k = "call"
  <2>1. Subscribing' = Subscribing /\ r \notin Subscribing
    BY <1>1, <1>3, WireIDs DEF Subscribing, Callers
  <2>2. \A s \in Subscribing : id'[s] = id[s] /\ pc'[s] = pc[s] /\ chan'[s] = chan[s]
                                /\ Done(s)' = Done(s)
    BY <1>1, <1>2, <2>1, WireIDs DEF Subscribing, Callers
  <2>3. \A s \in Subscribing : \A m : Right(m, s)' = Right(m, s)
    BY <1>2, <2>2 DEF Right
  <2>4. QED
    BY <1>1, <1>2, <2>1, <2>2, <2>3 DEF SubInv, Update
<1>4. CASE k # "call"
  <2>1. r # Loop /\ Subscribing' = {r}
    BY <1>1, <1>4, WireIDs DEF Subscribing, Callers
  <2>2. Agree
    BY <1>1, <1>4 DEF SubInv
  <2>3. \A i \in DOMAIN toServer : toServer[i].kind = "call"
    BY <1>1, <1>4 DEF SubInv
  <2>4. /\ pc'[r] = "sending" /\ chan'[r] = <<>>
        /\ \A j \in DOMAIN toClient : toClient[j] # Update => toClient[j].id # id'[r]
    BY <1>1, WireIDs
  <2>5. QED
    BY <1>1, <1>2, <2>1, <2>2, <2>3, <2>4 DEF SubInv, Update
<1>5. QED
  BY <1>3, <1>4

-----------------------------------------------------------------------------
LEMMA SentRequest ==
  ASSUME IInv, NEW r \in Requesters, NEW m, m = [id |-> id[r], of |-> r, kind |-> kind[r]],
         toServer' = toServer \/ toServer' = Append(toServer, m)
  PROVE  \A i \in DOMAIN toServer' :
           \/ i \in DOMAIN toServer /\ toServer'[i] = toServer[i]
           \/ i = Len(toServer) + 1 /\ i \notin DOMAIN toServer /\ toServer'[i] = m
<1>1. toServer \in Seq(Request)
  BY DEF IInv, TypeOK, ServerTypeOK
<1>2. m \in Request
  BY WireIDs DEF Request
<1>3. QED
  BY <1>1, <1>2

(* A request goes out once, before anything has answered it. *)
LEMMA SendKind ==
  ASSUME IInv, KindInv, NEW r \in Requesters, Send(r)
  PROVE  KindInv'
<1> DEFINE m == [id |-> id[r], of |-> r, kind |-> kind[r]]
<1>1. /\ pc[r] = "sending" /\ pc' = [pc EXCEPT ![r] = "waiting"]
      /\ toServer' = toServer \/ toServer' = Append(toServer, m)
      /\ UNCHANGED <<id, kind, chan, toClient>>
  BY DEF Send, Goto, client
<1>2. \A i \in DOMAIN toServer' :
        \/ i \in DOMAIN toServer /\ toServer'[i] = toServer[i]
        \/ i = Len(toServer) + 1 /\ i \notin DOMAIN toServer /\ toServer'[i] = m
  BY <1>1, SentRequest
<1>3. \A i \in DOMAIN toServer : toServer[i].id # id[r]
  BY <1>1 DEF KindInv
<1>4. m.id = id[r] /\ m.kind = kind[r] /\ m.of = r
  OBVIOUS
<1> HIDE DEF m
<1>5. \A i, j \in DOMAIN toServer' : toServer'[i].id = toServer'[j].id => i = j
  BY <1>2, <1>3, <1>4 DEF KindInv
<1>6. chan[r] = <<>> /\ \A j \in DOMAIN toClient : toClient[j] # Update => toClient[j].id # id[r]
  BY <1>1 DEF KindInv
<1>7. \A i \in DOMAIN toServer' : \A j \in DOMAIN toClient :
        toClient[j] # Update => toClient[j].id # toServer'[i].id
  BY <1>2, <1>4, <1>6 DEF KindInv
<1>8. \A q \in Requesters : id[q] = id[r] => q = r
  <2>1. r \in InFlight /\ id[r] \in 1 .. requestID
    BY <1>1 DEF IInv, LocalInv, InFlight
  <2>2. \A q \in Requesters : id[q] = id[r] => q \in InFlight
    BY <2>1 DEF IInv, LocalInv
  <2>3. QED
    BY <2>1, <2>2 DEF IInv, PendingIsInFlight
<1>9. \A i \in DOMAIN toServer' : \A q \in Requesters :
        toServer'[i].id = id[q] =>
          pc'[q] = "waiting" /\ toServer'[i].kind = kind[q] /\ chan[q] = <<>>
  BY <1>1, <1>2, <1>3, <1>4, <1>6, <1>8, WireIDs DEF KindInv
<1>10. \A q \in Requesters : pc'[q] = "sending" => pc[q] = "sending"
  BY <1>1, WireIDs
<1>11. QED
  BY <1>1, <1>5, <1>7, <1>9, <1>10 DEF KindInv, Update

LEMMA SendSub ==
  ASSUME IInv, KindInv, SubInv, NEW r \in Requesters, Send(r)
  PROVE  SubInv'
<1> SUFFICES ASSUME ~overlap' PROVE SubInv'
  BY DEF SubInv
<1> DEFINE m == [id |-> id[r], of |-> r, kind |-> kind[r]]
<1>1. /\ pc[r] = "sending" /\ pc' = [pc EXCEPT ![r] = "waiting"]
      /\ toServer' = toServer \/ toServer' = Append(toServer, m)
      /\ UNCHANGED <<id, kind, chan, handlers, overlap, subscribed, toClient>>
  BY DEF Send, Goto, client, server
<1>2. \A i \in DOMAIN toServer' :
        \/ i \in DOMAIN toServer /\ toServer'[i] = toServer[i]
        \/ toServer'[i] = m
  BY <1>1, SentRequest
<1>3. m.id = id[r] /\ m.kind = kind[r] /\ m.of = r
  OBVIOUS
<1> HIDE DEF m
<1>4. Subscribing' = Subscribing
  BY <1>1, WireIDs DEF Subscribing, Callers
<1>5. Agree' = Agree /\ \A c : Done(c)' = Done(c) /\ \A x : Right(x, c)' = Right(x, c)
  <2>1. Agree' = Agree /\ \A c : Done(c)' = Done(c)
    BY <1>1 DEF Agree, Done
  <2>2. QED
    BY <2>1 DEF Right
<1>6. m.kind # "call" => r \in Subscribing /\ Agree
  BY <1>1, <1>3 DEF KindInv, SubInv, Subscribing, Callers
<1>7. \A i \in DOMAIN toServer' : toServer'[i].kind # "call" =>
        /\ toServer'[i].of \in Subscribing /\ id[toServer'[i].of] = toServer'[i].id
        /\ Agree
  BY <1>1, <1>2, <1>3, <1>6 DEF SubInv
<1>8. \A s \in Subscribing : /\ pc'[s] = "sending" => pc[s] = "sending"
                            /\ pc'[s] = "answered" => pc[s] = "answered"
  BY <1>1, WireIDs DEF Subscribing, Callers
<1>9. QED
  BY <1>1, <1>4, <1>5, <1>7, <1>8 DEF SubInv, Update
-----------------------------------------------------------------------------
(* The end of a request takes its ID away, so nothing is looked for any more. *)
LEMMA ForgetKind ==
  ASSUME IInv, KindInv, NEW r \in Requesters, Forget(r),
         NEW l \in {"idle", "checking", "answered"}, Goto(r, l),
         UNCHANGED <<kind, wire>>
  PROVE  KindInv'
<1>1. /\ id' = [id EXCEPT ![r] = 0] /\ chan' = [chan EXCEPT ![r] = <<>>]
      /\ pc' = [pc EXCEPT ![r] = l] /\ UNCHANGED <<kind, toServer, toClient>>
  BY DEF Forget, Goto, wire
<1>2. \A i \in DOMAIN toServer : toServer[i].id # 0
  BY WireIDs
<1>3. \A i \in DOMAIN toServer : \A q \in Requesters :
        toServer[i].id = id'[q] =>
          pc'[q] = "waiting" /\ toServer[i].kind = kind[q] /\ chan'[q] = <<>>
  BY <1>1, <1>2, WireIDs DEF KindInv
<1>4. \A q \in Requesters : pc'[q] = "sending" =>
        pc[q] = "sending" /\ id'[q] = id[q] /\ chan'[q] = chan[q]
  BY <1>1, WireIDs
<1>5. QED
  BY <1>1, <1>3, <1>4 DEF KindInv, Update

LEMMA FailSub ==
  ASSUME IInv, KindInv, SubInv, NEW r \in InFlight, Fail(r)
  PROVE  SubInv'
<1> SUFFICES ASSUME ~overlap' PROVE SubInv'
  BY DEF SubInv
<1> DEFINE l == IF r = Loop THEN "checking" ELSE "idle"
<1>1. /\ id' = [id EXCEPT ![r] = 0] /\ chan' = [chan EXCEPT ![r] = <<>>]
      /\ pc' = [pc EXCEPT ![r] = l]
      /\ UNCHANGED <<kind, toServer, toClient, handlers, subscribed>>
      /\ ~overlap /\ kind[r] = "call"
  BY DEF Fail, Forget, Goto, wire, server
<1>2. r \in Requesters /\ r \notin Subscribing
  BY <1>1 DEF InFlight, Subscribing
<1>3. Subscribing' = Subscribing
  BY <1>1, <1>2, WireIDs DEF Subscribing, Callers
<1>4. \A s \in Subscribing : id'[s] = id[s] /\ pc'[s] = pc[s] /\ chan'[s] = chan[s]
  BY <1>1, <1>2, WireIDs DEF Subscribing, Callers
<1>5. Agree' = Agree /\ \A c : Done(c)' = Done(c) /\ \A x : Right(x, c)' = Right(x, c)
  <2>1. Agree' = Agree /\ \A c : Done(c)' = Done(c)
    BY <1>1 DEF Agree, Done
  <2>2. QED
    BY <2>1 DEF Right
<1>6. QED
  BY <1>1, <1>3, <1>4, <1>5 DEF SubInv, Update

(* The answer a subscriber takes says what the server did. *)
LEMMA AnsweredSub ==
  ASSUME IInv, KindInv, SubInv, NEW r \in Requesters, Answered(r)
  PROVE  SubInv'
<1> SUFFICES ASSUME ~overlap' PROVE SubInv'
  BY DEF SubInv
<1> DEFINE l == IF Head(chan[r]).ok THEN "answered" ELSE IF r = Loop THEN "checking" ELSE "idle"
<1>1. /\ pc[r] = "waiting" /\ chan[r] # <<>>
      /\ id' = [id EXCEPT ![r] = 0] /\ chan' = [chan EXCEPT ![r] = <<>>]
      /\ pc' = [pc EXCEPT ![r] = l]
      /\ UNCHANGED <<kind, toServer, toClient, handlers, subscribed>>
      /\ ~overlap
  BY DEF Answered, Forget, Goto, wire, server
<1>2. Agree' = Agree /\ \A c : Done(c)' = Done(c) /\ \A x : Right(x, c)' = Right(x, c)
  <2>1. Agree' = Agree /\ \A c : Done(c)' = Done(c)
    BY <1>1 DEF Agree, Done
  <2>2. QED
    BY <2>1 DEF Right
<1>3. CASE r \notin Subscribing
  <2>1. kind[r] = "call" \/ r = Loop
    BY <1>1, <1>3 DEF Subscribing, Callers
  <2>2. Subscribing' = Subscribing
    BY <1>1, <1>3, <2>1, WireIDs DEF Subscribing, Callers
  <2>3. \A s \in Subscribing : id'[s] = id[s] /\ pc'[s] = pc[s] /\ chan'[s] = chan[s]
    BY <1>1, <1>3, WireIDs DEF Subscribing, Callers
  <2>4. QED
    BY <1>1, <1>2, <2>2, <2>3 DEF SubInv, Update
<1>4. CASE r \in Subscribing
  <2>1. Subscribing = {r}
    BY <1>1, <1>4 DEF SubInv
  <2>2. 1 \in DOMAIN chan[r] /\ Head(chan[r]) = chan[r][1]
    BY <1>1, WireIDs
  <2>3. Right(Head(chan[r]), r)
    BY <1>1, <1>4, <2>2 DEF SubInv
  <2>4. \A i \in DOMAIN toServer : toServer[i].kind = "call"
    <3> SUFFICES ASSUME NEW i \in DOMAIN toServer, toServer[i].kind # "call" PROVE FALSE
      OBVIOUS
    <3>1. toServer[i].of = r /\ id[r] = toServer[i].id
      BY <1>1, <2>1 DEF SubInv
    <3>2. QED
      BY <1>1, <3>1 DEF KindInv
  <2>5. CASE Head(chan[r]).ok
    <3>1. Subscribing' = {r} /\ pc'[r] = "answered" /\ Done(r)
      BY <1>1, <1>4, <2>1, <2>3, <2>5, WireIDs DEF Subscribing, Callers, Right
    <3>2. DOMAIN chan'[r] = {} /\ id'[r] = 0
      BY <1>1, WireIDs
    <3>3. \A j \in DOMAIN toClient : toClient[j] # Update => toClient[j].id # id'[r]
      BY <3>2, WireIDs
    <3>4. QED
      BY <1>1, <1>2, <2>4, <3>1, <3>2, <3>3 DEF SubInv, Update
  <2>6. CASE ~Head(chan[r]).ok
    <3>1. Subscribing' = {} /\ Agree
      BY <1>1, <1>4, <2>1, <2>3, <2>6, WireIDs DEF Subscribing, Callers, Right
    <3>2. QED
      BY <1>1, <1>2, <2>4, <3>1 DEF SubInv
  <2>7. QED
    BY <2>5, <2>6
<1>5. QED
  BY <1>3, <1>4

(* What the client does with the answer makes the two sides agree. *)
LEMMA FinishSub ==
  ASSUME IInv, KindInv, SubInv, NEW r \in Requesters, Finish(r)
  PROVE  KindInv' /\ SubInv'
<1> DEFINE l == IF r = Loop THEN "checking" ELSE "idle"
<1>1. /\ pc[r] = "answered" /\ pc' = [pc EXCEPT ![r] = l]
      /\ handlers' = CASE kind[r] = "subscribe" -> handlers + 1
                       [] kind[r] = "unsubscribe" -> 0
                       [] OTHER -> handlers
      /\ UNCHANGED <<id, chan, kind, toServer, toClient, overlap, subscribed>>
  BY DEF Finish, Goto, wire, server
<1>2. \A q \in Requesters : /\ pc[q] = "waiting" => pc'[q] = "waiting"
                            /\ pc'[q] = "sending" => pc[q] = "sending"
  BY <1>1, WireIDs
<1>3. KindInv'
  BY <1>1, <1>2 DEF KindInv, Update
<1>4. CASE overlap
  BY <1>1, <1>3, <1>4 DEF SubInv
<1>5. CASE ~overlap /\ r \notin Subscribing
  <2>1. kind[r] = "call"
    BY <1>1, <1>5 DEF Subscribing, Callers, KindInv
  <2>2. handlers' = handlers
    BY <1>1, <2>1
  <2>3. Subscribing' = Subscribing /\ \A s \in Subscribing : pc'[s] = pc[s]
    BY <1>1, <1>5, <2>1, WireIDs DEF Subscribing, Callers
  <2>4. Agree' = Agree /\ \A c : Done(c)' = Done(c) /\ \A x : Right(x, c)' = Right(x, c)
    <3>1. Agree' = Agree /\ \A c : Done(c)' = Done(c)
      BY <1>1, <2>2 DEF Agree, Done
    <3>2. QED
      BY <3>1 DEF Right
  <2>5. QED
    BY <1>1, <1>3, <2>3, <2>4 DEF SubInv, Update
<1>6. CASE ~overlap /\ r \in Subscribing
  <2>1. Subscribing = {r} /\ Done(r)
    BY <1>1, <1>6 DEF SubInv
  <2>2. Subscribing' = {} 
    BY <1>1, <2>1, WireIDs DEF Subscribing, Callers
  <2>3. handlers \in Nat /\ kind[r] \in {"subscribe", "unsubscribe"}
    BY <1>6, WireIDs DEF IInv, TypeOK, Subscribing, Kinds
  <2>4. Agree'
    BY <1>1, <2>1, <2>3 DEF Agree, Done
  <2>5. \A i \in DOMAIN toServer : toServer[i].kind = "call"
    <3> SUFFICES ASSUME NEW i \in DOMAIN toServer, toServer[i].kind # "call" PROVE FALSE
      OBVIOUS
    <3>1. toServer[i].of = r /\ id[r] = toServer[i].id
      BY <1>6, <2>1 DEF SubInv
    <3>2. QED
      BY <1>1, <3>1 DEF KindInv
  <2>6. QED
    BY <1>1, <1>3, <2>2, <2>4, <2>5 DEF SubInv
<1>7. QED
  BY <1>4, <1>5, <1>6
-----------------------------------------------------------------------------
(* A step that moves the loop, drops requests or passes responses on leaves  *)
(* what is known of the rest.                                                *)
LEMMA QuietSub ==
  ASSUME IInv, KindInv, SubInv,
         UNCHANGED <<id, kind, chan, overlap, handlers, subscribed>>,
         \A c \in Callers : pc'[c] = pc[c],
         \/ pc'[Loop] = pc[Loop]
         \/ pc[Loop] # "waiting" /\ pc'[Loop] # "sending",
         toServer' = toServer \/ toServer' = <<>>,
         \A j \in DOMAIN toClient' : \/ toClient'[j] = Update
                                     \/ \E k \in DOMAIN toClient : toClient'[j] = toClient[k]
  PROVE  KindInv' /\ SubInv'
<1>1. \A i \in DOMAIN toServer' : i \in DOMAIN toServer /\ toServer'[i] = toServer[i]
  OBVIOUS
<1>2. \A r \in Requesters :
        /\ pc[r] = "waiting" => pc'[r] = "waiting"
        /\ pc'[r] = "sending" => pc[r] = "sending"
  BY DEF Callers
<1>3. Update' = Update
  BY DEF Update
<1>4. KindInv'
  <2>1. kind'[Loop] = "call"
    BY DEF KindInv
  <2>2. \A i \in DOMAIN toServer' : \A r \in Requesters :
          toServer'[i].id = id'[r] =>
            pc'[r] = "waiting" /\ toServer'[i].kind = kind'[r] /\ chan'[r] = <<>>
    BY <1>1, <1>2 DEF KindInv
  <2>3. \A i, j \in DOMAIN toServer' : toServer'[i].id = toServer'[j].id => i = j
    BY <1>1 DEF KindInv
  <2>4. \A i \in DOMAIN toServer' : \A j \in DOMAIN toClient' :
          toClient'[j] # Update => toClient'[j].id # toServer'[i].id
    BY <1>1 DEF KindInv
  <2>5. \A r \in Requesters : pc'[r] = "sending" =>
          /\ chan'[r] = <<>>
          /\ \A j \in DOMAIN toClient' : toClient'[j] # Update => toClient'[j].id # id'[r]
    BY <1>2 DEF KindInv
  <2>6. QED
    BY <1>3, <2>1, <2>2, <2>3, <2>4, <2>5 DEF KindInv
<1>5. Subscribing' = Subscribing /\ \A s \in Subscribing : pc'[s] = pc[s]
  BY DEF Subscribing
<1>6. Agree' = Agree /\ \A c : Done(c)' = Done(c) /\ \A x : Right(x, c)' = Right(x, c)
  <2>1. Agree' = Agree /\ \A c : Done(c)' = Done(c)
    BY DEF Agree, Done
  <2>2. QED
    BY <2>1 DEF Right
<1>7. CASE ~overlap
  <2>1. \A s \in Subscribing : \A j \in DOMAIN toClient' :
          toClient'[j] # Update /\ toClient'[j].id = id[s] => Right(toClient'[j], s)
    BY <1>7 DEF SubInv
  <2>2. \A i \in DOMAIN toServer' : toServer'[i].kind # "call" =>
          /\ toServer'[i].of \in Subscribing /\ id[toServer'[i].of] = toServer'[i].id
          /\ Agree
    BY <1>1, <1>7 DEF SubInv
  <2>3. QED
    BY <1>3, <1>4, <1>5, <1>6, <1>7, <2>1, <2>2 DEF SubInv
<1>8. QED
  BY <1>4, <1>7 DEF SubInv

(* A response that is taken from the wire says in its channel what it said   *)
(* there.                                                                    *)
LEMMA ReceiveSub ==
  ASSUME IInv, KindInv, SubInv, Receive
  PROVE  KindInv' /\ SubInv'
<1> USE MSAssumption
<1> DEFINE m == Head(toClient)
<1>1. toClient \in Seq(Response \union {Update}) /\ toClient # <<>>
  BY DEF IInv, TypeOK, ServerTypeOK, Receive
<1>2. m = toClient[1] /\ 1 \in DOMAIN toClient
  BY <1>1
<1>3. \A j \in DOMAIN toClient' : j + 1 \in DOMAIN toClient /\ toClient'[j] = toClient[j + 1]
  BY <1>1 DEF Receive
<1>4. /\ UNCHANGED <<id, kind, overlap, handlers, subscribed, toServer>>
      /\ pc[Loop] = "receiving"
      /\ pc' = [pc EXCEPT ![Loop] = "checking"] \/ pc' = [pc EXCEPT ![Loop] = "reading"]
  BY DEF Receive, Deliver, HandleResourceUpdate, Goto, server
<1>5. \A c \in Callers : pc'[c] = pc[c]
  BY <1>4, WireIDs DEF Callers
<1>6. pc'[Loop] # "sending" /\ pc'[Loop] # "waiting"
  BY <1>4, WireIDs
<1>7. CASE chan' = chan
  BY <1>3, <1>4, <1>5, <1>6, <1>7, QuietSub
<1>8. CASE chan' # chan
  <2>1. m # Update /\ Deliver(m)
    BY <1>8 DEF Receive, HandleResourceUpdate
  <2>2. m.id \in DOMAIN pending /\ chan' = [chan EXCEPT ![pending[m.id]] = <<m>>]
    BY <2>1, <1>8 DEF Deliver
  <2>3. PICK r \in InFlight : m.id = id[r] /\ pending[m.id] = r
    BY <2>2 DEF IInv, PendingIsInFlight
  <2> HIDE DEF m
  <2>4. chan' = [chan EXCEPT ![r] = <<m>>] /\ r \in Requesters
    BY <2>2, <2>3 DEF InFlight
  <2>5. pc[r] # "sending" /\ \A i \in DOMAIN toServer : toServer[i].id # id[r]
    BY <1>2, <2>1, <2>3, <2>4 DEF KindInv
  <2>6. \A j \in DOMAIN toClient' : \E k \in DOMAIN toClient : toClient'[j] = toClient[k]
    BY <1>3
  <2>7. /\ \A q \in Requesters \ {r} : chan'[q] = chan[q]
        /\ \A i \in DOMAIN chan'[r] : chan'[r][i] = m
    BY <2>4, WireIDs
  <2>8. \A q \in Requesters : pc'[q] = "sending" => pc[q] = "sending"
    BY <1>5, <1>6 DEF Callers
  <2>9. \A q \in Requesters : pc[q] = "waiting" => pc'[q] = "waiting"
    BY <1>4, <1>5 DEF Callers
  <2>10. KindInv'
    <3>1. \A i \in DOMAIN toServer' : \A q \in Requesters :
            toServer'[i].id = id'[q] =>
              pc'[q] = "waiting" /\ toServer'[i].kind = kind'[q] /\ chan'[q] = <<>>
      BY <1>4, <2>5, <2>7, <2>9 DEF KindInv
    <3>2. \A q \in Requesters : pc'[q] = "sending" =>
            /\ chan'[q] = <<>>
            /\ \A j \in DOMAIN toClient' : toClient'[j] # Update => toClient'[j].id # id'[q]
      BY <1>4, <2>5, <2>6, <2>7, <2>8 DEF KindInv
    <3>3. \A i \in DOMAIN toServer' : \A j \in DOMAIN toClient' :
            toClient'[j] # Update => toClient'[j].id # toServer'[i].id
      BY <1>4, <2>6 DEF KindInv
    <3>4. QED
      BY <1>4, <3>1, <3>2, <3>3 DEF KindInv, Update
  <2>11. Subscribing' = Subscribing /\ \A s \in Subscribing : pc'[s] = pc[s]
    BY <1>4, <1>5 DEF Subscribing
  <2>12. Agree' = Agree /\ \A c : Done(c)' = Done(c) /\ \A x : Right(x, c)' = Right(x, c)
    <3>1. Agree' = Agree /\ \A c : Done(c)' = Done(c)
      BY <1>4 DEF Agree, Done
    <3>2. QED
      BY <3>1 DEF Right
  <2>13. CASE ~overlap
    <3>1. \A s \in Subscribing : \A j \in DOMAIN chan'[s] : Right(chan'[s][j], s)
      BY <2>13, <1>2, <2>1, <2>3, <2>7 DEF SubInv, Subscribing, Callers
    <3>2. \A s \in Subscribing : \A j \in DOMAIN toClient' :
            toClient'[j] # Update /\ toClient'[j].id = id[s] => Right(toClient'[j], s)
      BY <2>13, <2>6 DEF SubInv
    <3>3. QED
      BY <1>4, <2>10, <2>11, <2>12, <2>13, <3>1, <3>2 DEF SubInv, Update
  <2>14. QED
    BY <1>4, <2>10, <2>13 DEF SubInv
<1>9. QED
  BY <1>7, <1>8

(* The server's answer says what it has done. *)
LEMMA ServeSub ==
  ASSUME IInv, KindInv, SubInv, Serve, UNCHANGED <<client, local, overlap>>
  PROVE  KindInv' /\ SubInv'
<1> DEFINE q == Head(toServer)
<1>1. /\ toServer \in Seq(Request) /\ toServer # <<>>
      /\ toClient \in Seq(Response \union {Update})
  BY DEF IInv, TypeOK, ServerTypeOK, Serve
<1>2. q \in Request /\ q = toServer[1] /\ 1 \in DOMAIN toServer
  BY <1>1
<1>3. PICK ok \in BOOLEAN :
        /\ q.kind = "unsubscribe" => ok
        /\ toClient' = Append(toClient, [id |-> q.id, of |-> q.of, ok |-> ok])
        /\ subscribed' = CASE q.kind = "subscribe" -> subscribed \/ ok
                           [] q.kind = "unsubscribe" -> FALSE
                           [] OTHER -> subscribed
  BY DEF Serve
<1> DEFINE m == [id |-> q.id, of |-> q.of, ok |-> ok]
<1>4. m.id = q.id /\ m.ok = ok /\ toClient' = Append(toClient, m)
  BY <1>3
<1>5. m \in Response
  BY <1>2, WireIDs DEF Response, Request
<1>6. \A i \in DOMAIN toServer' : i + 1 \in DOMAIN toServer /\ toServer'[i] = toServer[i + 1]
                                  /\ i + 1 # 1
  <2>1. toServer' = Tail(toServer)
    BY DEF Serve
  <2>2. QED
    BY <1>1, <2>1
<1>7. UNCHANGED <<id, kind, chan, pc, handlers, overlap>>
  BY DEF client, local
<1> HIDE DEF m, q
<1>8. \A j \in DOMAIN toClient' : \/ toClient'[j] = m
                                  \/ j \in DOMAIN toClient /\ toClient'[j] = toClient[j]
  BY <1>1, <1>4, <1>5
<1>9. \A i \in DOMAIN toServer' : toServer'[i].id # q.id
  BY <1>2, <1>6 DEF KindInv
<1>10. \A j \in DOMAIN toClient : toClient[j] # Update => toClient[j].id # q.id
  BY <1>2 DEF KindInv
<1>11. KindInv'
  <2>1. \A i, j \in DOMAIN toServer' : toServer'[i].id = toServer'[j].id => i = j
    <3> SUFFICES ASSUME NEW i \in DOMAIN toServer', NEW j \in DOMAIN toServer',
                        toServer'[i].id = toServer'[j].id
                 PROVE  i = j
      OBVIOUS
    <3>1. i + 1 = j + 1
      BY <1>6 DEF KindInv
    <3>2. DOMAIN toServer' = 1 .. Len(toServer')
      BY <1>1 DEF Serve
    <3>3. QED
      BY <3>1, <3>2
  <2>2. \A i \in DOMAIN toServer' : \A j \in DOMAIN toClient' :
          toClient'[j] # Update => toClient'[j].id # toServer'[i].id
    BY <1>4, <1>6, <1>8, <1>9 DEF KindInv
  <2>3. \A r \in Requesters : pc[r] = "sending" => id[r] # q.id
    BY <1>2 DEF KindInv
  <2>4. \A r \in Requesters : pc'[r] = "sending" =>
          /\ chan'[r] = <<>>
          /\ \A j \in DOMAIN toClient' : toClient'[j] # Update => toClient'[j].id # id'[r]
    BY <1>4, <1>7, <1>8, <2>3 DEF KindInv
  <2>5. \A i \in DOMAIN toServer' : \A r \in Requesters :
          toServer'[i].id = id'[r] =>
            pc'[r] = "waiting" /\ toServer'[i].kind = kind'[r] /\ chan'[r] = <<>>
    BY <1>6, <1>7 DEF KindInv
  <2>6. kind'[Loop] = "call"
    BY <1>7 DEF KindInv
  <2>7. QED
    BY <2>1, <2>2, <2>4, <2>5, <2>6 DEF KindInv, Update
<1>12. Subscribing' = Subscribing
  BY <1>7 DEF Subscribing
<1>13. CASE overlap
  BY <1>7, <1>11, <1>13 DEF SubInv
<1>14. CASE ~overlap /\ q.kind = "call"
  <2>1. subscribed' = subscribed
    BY <1>3, <1>14
  <2>2. Agree' = Agree /\ \A c : Done(c)' = Done(c) /\ \A x : Right(x, c)' = Right(x, c)
    <3>1. Agree' = Agree /\ \A c : Done(c)' = Done(c)
      BY <1>7, <2>1 DEF Agree, Done
    <3>2. QED
      BY <3>1 DEF Right
  <2>3. \A s \in Subscribing : id[s] # q.id
    BY <1>2, <1>14 DEF KindInv, Subscribing, Callers
  <2>4. \A s \in Subscribing : \A j \in DOMAIN toClient' :
          toClient'[j] # Update /\ toClient'[j].id = id[s] => Right(toClient'[j], s)
    BY <1>4, <1>8, <1>14, <2>3 DEF SubInv
  <2>5. \A i \in DOMAIN toServer' : toServer'[i].kind # "call" =>
          /\ toServer'[i].of \in Subscribing /\ id[toServer'[i].of] = toServer'[i].id
          /\ Agree
    BY <1>6, <1>14 DEF SubInv
  <2>6. QED
    BY <1>7, <1>11, <1>12, <1>14, <2>2, <2>4, <2>5 DEF SubInv, Update
<1>15. CASE ~overlap /\ q.kind # "call"
  <2>1. PICK s \in Subscribing : id[s] = q.id /\ Agree
    BY <1>2, <1>15 DEF SubInv
  <2>2. Subscribing = {s} /\ s \in Requesters
    BY <1>15, <2>1 DEF SubInv, Subscribing, Callers
  <2>3. pc[s] = "waiting" /\ q.kind = kind[s] /\ chan[s] = <<>>
    BY <1>2, <2>1, <2>2 DEF KindInv
  <2>4. \A i \in DOMAIN toServer' : toServer'[i].kind = "call"
    <3> SUFFICES ASSUME NEW i \in DOMAIN toServer', toServer'[i].kind # "call" PROVE FALSE
      OBVIOUS
    <3>1. toServer'[i].of = s /\ id[s] = toServer'[i].id
      BY <1>6, <1>15, <2>2 DEF SubInv
    <3>2. QED
      BY <1>9, <2>1, <3>1
  <2>5. q.kind \in {"subscribe", "unsubscribe"}
    BY <1>2, <1>15 DEF Request, Kinds
  <2>6. ASSUME NEW x, x = m PROVE Right(x, s)'
    <3>1. kind'[s] = q.kind /\ handlers' = handlers /\ x.ok = ok
      BY <1>4, <1>7, <2>3, <2>6
    <3>2. CASE ok
      <4>1. Done(s)'
        BY <1>3, <2>5, <3>1, <3>2 DEF Done
      <4>2. QED
        BY <3>1, <3>2, <4>1 DEF Right
    <3>3. CASE ~ok
      <4>1. subscribed' <=> subscribed
        BY <1>3, <2>5, <3>3
      <4>2. Agree'
        BY <2>1, <3>1, <4>1 DEF Agree
      <4>3. QED
        BY <3>1, <3>3, <4>2 DEF Right
    <3>4. QED
      BY <3>2, <3>3
  <2>7. \A j \in DOMAIN toClient' :
          toClient'[j] # Update /\ toClient'[j].id = id[s] => toClient'[j] = m
    BY <1>8, <1>10, <2>1
  <2>8. \A j \in DOMAIN chan'[s] : FALSE
    BY <1>7, <2>3
  <2>9. (\A j \in DOMAIN toClient :
           toClient[j] # Update /\ toClient[j].id = id[s] => Right(toClient[j], s))'
    BY <1>7, <2>6, <2>7 DEF Update
  <2>10. QED
    BY <1>7, <1>11, <1>12, <1>15, <2>2, <2>3, <2>4, <2>8, <2>9 DEF SubInv, Update
<1>16. QED
  BY <1>13, <1>14, <1>15

LEMMA RequestSub ==
  ASSUME IInv, KindInv, SubInv, NEW r \in Requesters, RequestStep(r)
  PROVE  KindInv' /\ SubInv'
<1>1. CASE \E k \in (IF r = Loop THEN {"call"} ELSE Kinds) : Register(r, k)
  BY <1>1, RegisterKind, RegisterSub DEF Kinds
<1>2. CASE Send(r)
  BY <1>2, SendKind, SendSub
<1>3. CASE SendFails(r) \/ ContextEnds(r)
  <2>1. r \in InFlight /\ Fail(r)
    BY <1>3 DEF SendFails, ContextEnds, InFlight
  <2>2. KindInv'
    BY <2>1, ForgetKind DEF Fail
  <2>3. QED
    BY <2>1, <2>2, FailSub
<1>4. CASE Answered(r)
  BY <1>4, ForgetKind, AnsweredSub DEF Answered
<1>5. CASE Finish(r)
  BY <1>5, FinishSub
<1>6. QED
  BY <1>1, <1>2, <1>3, <1>4, <1>5 DEF RequestStep

LEMMA StepSub == IInv /\ KindInv /\ SubInv /\ [Next]_vars => KindInv' /\ SubInv'
<1> SUFFICES ASSUME IInv, KindInv, SubInv, [Next]_vars PROVE KindInv' /\ SubInv'
  OBVIOUS
<1> USE MSAssumption
<1>1. CASE \E r \in Requesters : RequestStep(r)
  BY <1>1, RequestSub
<1>2. CASE Receive
  BY <1>2, ReceiveSub
<1>3. CASE CheckContext \/ LoopEnds \/ Close
  <2>1. UNCHANGED <<id, kind, chan, overlap, handlers, subscribed, toServer, toClient>>
    BY <1>3 DEF CheckContext, LoopEnds, Close, client, local, server, wire
  <2>2. /\ \A c \in Callers : pc'[c] = pc[c]
        /\ pc'[Loop] = pc[Loop] \/ (pc[Loop] # "waiting" /\ pc'[Loop] # "sending")
    BY <1>3, WireIDs DEF CheckContext, LoopEnds, Close, Goto, local, Callers
  <2>3. QED
    BY <2>1, <2>2, QuietSub
<1>4. CASE (ServerStep \/ (closed /\ EndOfInput)) /\ UNCHANGED <<client, local, overlap>>
  <2>1. CASE Serve
    BY <1>4, <2>1, ServeSub
  <2>2. CASE NotifyResourceUpdated \/ Stop
    <3>1. UNCHANGED <<id, kind, chan, pc, overlap, handlers, subscribed>>
      BY <1>4, <2>2 DEF NotifyResourceUpdated, Stop, client, local
    <3>2. toServer' = toServer \/ toServer' = <<>>
      BY <2>2 DEF NotifyResourceUpdated, Stop
    <3>3. toClient' = toClient \/ toClient' = Append(toClient, Update)
      BY <2>2 DEF NotifyResourceUpdated, Stop
    <3>4. \A j \in DOMAIN toClient' : \/ toClient'[j] = Update
                                     \/ \E k \in DOMAIN toClient : toClient'[j] = toClient[k]
      <4>1. toClient \in Seq(Response \union {Update})
        BY DEF IInv, TypeOK, ServerTypeOK
      <4>2. QED
        BY <3>3, <4>1
    <3>5. QED
      BY <3>1, <3>2, <3>4, QuietSub
  <2>3. QED
    BY <1>4, <2>1, <2>2 DEF ServerStep, EndOfInput
<1>5. CASE UNCHANGED vars
  <2>1. UNCHANGED <<id, kind, chan, pc, overlap, handlers, subscribed, toServer, toClient>>
    BY <1>5 DEF vars, client, local, server, wire
  <2>2. QED
    BY <2>1, QuietSub
<1>6. QED
  BY <1>1, <1>2, <1>3, <1>4, <1>5 DEF Next

(* When no subscription is on its way, the server has one exactly when the   *)
(* client has handlers for it: with subscriptions made one after another and *)
(* each brought to its end, whatever deadlines, updates and other requests   *)
(* come between.                                                             *)
THEOREM SubscriptionsCorrect == Spec => []SubscriptionsAgree
<1>1. Init => IInv /\ KindInv /\ SubInv
  BY InitInv, InitSub
<1>2. (IInv /\ KindInv /\ SubInv) /\ [Next]_vars => (IInv /\ KindInv /\ SubInv)'
  BY StepInv, StepSub
<1>3. IInv /\ KindInv /\ SubInv => SubscriptionsAgree
  BY DEF SubInv, SubscriptionsAgree, Agree
<1>4. QED
  BY <1>1, <1>2, <1>3, PTL DEF Spec
=============================================================================
