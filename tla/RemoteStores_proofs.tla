------------------------ MODULE RemoteStores_proofs ------------------------
(***************************************************************************)
(* The stores that a server keeps, for any clients, any states whose       *)
(* identifiers are sequences of words and any number of pages; the memory  *)
(* manager, for any finite set of readers and any capacity; and the vector *)
(* stores, for any applications, batches, lists of IDs and filters.        *)
(***************************************************************************)
EXTENDS RemoteStores, MemoryManager, VectorStores, FiniteSetTheorems, SequenceTheorems, TLAPS
-----------------------------------------------------------------------------
(* The stores on a server.  Keys of the three kinds begin with different     *)
(* words, and lists of two agents have two keys; the commands of a state    *)
(* whose keys are its own disturb no other state.                           *)
CacheKeys == {CacheKey(k) : k \in Items}
StateKeys == {StateKey(x) : x \in States}
ListKeys  == {ListKey(x.agent) : x \in States}
RowKeys   == {RowKey(x) : x \in States}
AllKeys   == CacheKeys \cup StateKeys \cup ListKeys \cup RowKeys

StateCmds(x) == {Command("SET", {StateKey(x)}, x), Command("DEL", {StateKey(x)}, x),
                 Command("SADD", {ListKey(x.agent)}, x.session),
                 Command("SREM", {ListKey(x.agent)}, x.session)}
RowCmds(x)   == {Command("SET", {RowKey(x)}, x), Command("DEL", {RowKey(x)}, x)}
CacheCmds(k) == {Command("SET", {CacheKey(k)}, k), Command("DEL", {CacheKey(k)}, k)}
ClearCmds    == {Command("DEL", S, {}) : S \in SUBSET CacheKeys}
Cmds == (UNION {StateCmds(x) : x \in States}) \cup (UNION {RowCmds(x) : x \in States})
          \cup (UNION {CacheCmds(k) : k \in Items}) \cup ClearCmds

Words == STRING \cup {"state:", "sessions", ":"}

LEMMA Identifiers == \A x \in States : x.agent \in Seq(Words) /\ x.session \in Seq(Words)
<1>1. \A q \in Seq(STRING) : q \in Seq(Words)
  BY DEF Words
<1>2. QED
  BY <1>1, RemoteAssumption

LEMMA FirstWords ==
  /\ \A x \in States : /\ StateKey(x)[1] = "state:" /\ ListKey(x.agent)[1] = "state:"
                       /\ RowKey(x)[1] = "row" /\ RowKey(x)[2] = x.agent /\ RowKey(x)[3] = x.session
  /\ \A k \in Items : CacheKey(k)[1] = "cache:"
<1>1. ASSUME NEW x \in States
      PROVE  StateKey(x)[1] = "state:" /\ ListKey(x.agent)[1] = "state:"
  <2>1. x.agent \in Seq(Words) /\ x.session \in Seq(Words)
    BY Identifiers
  <2>2. ListKey(x.agent)[1] = "state:"
    BY <2>1 DEF ListKey
  <2>3. StateKey(x)[1] = "state:"
    <3>a. PICK w : w = <<"state:">>
      BY Zenon
    <3>b. PICK v : v = <<":">>
      BY Zenon
    <3>c. w \in Seq(Words) /\ v \in Seq(Words)
      <4>1. <<"state:">> \in Seq(Words) /\ <<":">> \in Seq(Words)
        BY DEF Words
      <4>2. QED
        BY <4>1, <3>a, <3>b, Zenon
    <3>d. Len(w) = 1 /\ w[1] = "state:"
      BY <3>a
    <3> DEFINE A == w \o x.agent
               B == A \o v
    <3>1. A \in Seq(Words) /\ Len(A) >= 1 /\ A[1] = "state:"
      BY <2>1, <3>c, <3>d, ConcatProperties
    <3>2. B \in Seq(Words) /\ Len(B) >= 1 /\ B[1] = A[1]
      <4> HIDE DEF A
      <4>1. QED
        BY <3>c, <3>1, ConcatProperties
    <3>3. (B \o x.session)[1] = B[1]
      <4>1. B \in Seq(Words) /\ Len(B) >= 1
        BY <3>2
      <4> HIDE DEF B
      <4>2. QED
        BY <2>1, <4>1, ConcatProperties
    <3>4. QED
      BY <3>a, <3>b, <3>1, <3>2, <3>3 DEF StateKey
  <2>4. QED
    BY <2>2, <2>3
<1>2. QED
  BY <1>1 DEF RowKey, CacheKey

(* Lists of different agents have different keys. *)
LEMMA ListsApart ==
  ASSUME NEW x \in States, NEW y \in States, ListKey(x.agent) = ListKey(y.agent)
  PROVE  x.agent = y.agent
<1> DEFINE p == <<"state:", "sessions", ":">>
<1>1. x.agent \in Seq(Words) /\ y.agent \in Seq(Words) /\ p \in Seq(Words) /\ Len(p) = 3
  BY Identifiers DEF Words
<1>2. p \o x.agent = p \o y.agent
  BY DEF ListKey
<1>3. Len(x.agent) = Len(y.agent)
  BY <1>1, <1>2, ConcatProperties
<1>4. ASSUME NEW i \in 1 .. Len(x.agent)
      PROVE  x.agent[i] = y.agent[i]
  <2>1. (p \o x.agent)[3 + i] = x.agent[i] /\ (p \o y.agent)[3 + i] = y.agent[i]
    BY <1>1, <1>3
  <2>2. QED
    BY <2>1, <1>2
<1>5. QED
  BY <1>1, <1>3, <1>4, SeqEqual

LEMMA StatesApart ==
  ASSUME NEW x \in States, NEW y \in States, x # y
  PROVE  x.agent # y.agent \/ x.session # y.session
<1>1. x = [agent |-> x.agent, session |-> x.session] /\ y = [agent |-> y.agent, session |-> y.session]
  <2>1. x \in [agent : Seq(STRING), session : Seq(STRING)] /\ y \in [agent : Seq(STRING), session : Seq(STRING)]
    BY RemoteAssumption
  <2>2. QED
    BY <2>1
<1>2. QED
  BY <1>1

(* What each command does to a key. *)
LEMMA KeyEffect ==
  ASSUME NEW cmd \in Cmds, Executes(cmd), NEW k, NEW m
  PROVE  LET lists(M) == k \in DOMAIN M /\ m \in M[k]
         IN /\ k \notin cmd.keys => /\ k \in DOMAIN strings' <=> k \in DOMAIN strings
                                    /\ lists(members') <=> lists(members)
            /\ cmd.do \in {"SADD", "SREM"} => /\ DOMAIN strings' = DOMAIN strings
                                              /\ m # cmd.arg => (lists(members') <=> lists(members))
            /\ cmd.do = "SET" /\ k \in cmd.keys => k \in DOMAIN strings'
            /\ cmd.do = "DEL" /\ k \in cmd.keys => k \notin DOMAIN strings' /\ k \notin DOMAIN members'
            /\ cmd.do = "SADD" /\ k \in cmd.keys /\ ~WrongType(cmd) /\ m = cmd.arg => lists(members')
            /\ cmd.do = "SREM" /\ k \in cmd.keys /\ ~WrongType(cmd) /\ m = cmd.arg => ~lists(members')
            /\ cmd.do = "SADD" /\ lists(members) => lists(members')
            /\ cmd.do = "SREM" /\ ~lists(members) => ~lists(members')
<1>1. cmd.do \in {"SET", "DEL", "SADD", "SREM"}
  BY DEF Cmds, StateCmds, RowCmds, CacheCmds, ClearCmds, Command
<1>2. CASE Write(cmd)
  BY <1>2 DEF Write, Restrict
<1>3. CASE Unset(cmd)
  BY <1>3 DEF Unset, Restrict
<1>4. CASE WrongType(cmd) /\ UNCHANGED <<strings, members>>
  BY <1>4 DEF WrongType
<1>5. CASE Enlist(cmd)
  <2> DEFINE set(j)  == IF j \in DOMAIN members THEN members[j] ELSE {}
             after   == [j \in DOMAIN members \union cmd.keys |->
                           IF j \notin cmd.keys THEN members[j]
                           ELSE IF cmd.do = "SADD" THEN set(j) \union {cmd.arg}
                                                   ELSE set(j) \ {cmd.arg}]
  <2>1. /\ cmd.do \in {"SADD", "SREM"} /\ ~WrongType(cmd) /\ strings' = strings
        /\ members' = [j \in {j \in DOMAIN after : after[j] # {}} |-> after[j]]
    BY <1>5 DEF Enlist, Restrict
  <2>2. DOMAIN after = DOMAIN members \union cmd.keys
    OBVIOUS
  <2>3. (k \in DOMAIN members' /\ m \in members'[k]) <=> (k \in DOMAIN after /\ m \in after[k])
    <3>1. k \in DOMAIN members' <=> k \in DOMAIN after /\ after[k] # {}
      BY <2>1
    <3>2. k \in DOMAIN members' => members'[k] = after[k]
      BY <2>1
    <3>3. QED
      BY <3>1, <3>2
  <2>4. k \in DOMAIN after =>
          after[k] = IF k \notin cmd.keys THEN members[k]
                     ELSE IF cmd.do = "SADD" THEN set(k) \union {cmd.arg} ELSE set(k) \ {cmd.arg}
    OBVIOUS
  <2> HIDE DEF after
  <2>5. QED
    BY <2>1, <2>2, <2>3, <2>4
<1>6. QED
  BY <1>1, <1>2, <1>3, <1>4, <1>5 DEF Executes

(* A command that is not one of the state's leaves it as it is. *)
LEMMA Undisturbed ==
  ASSUME NEW x \in States, Alone(x), NEW cmd \in Cmds, Executes(cmd),
         cmd \notin StateCmds(x)
  PROVE  (LoadRedis(x)' <=> LoadRedis(x)) /\ (ListRedis(x)' <=> ListRedis(x))
<1>1. (LoadRedis(x)' <=> StateKey(x) \in DOMAIN strings')
      /\ (ListRedis(x)' <=> ListKey(x.agent) \in DOMAIN members' /\ x.session \in members'[ListKey(x.agent)])
  BY DEF LoadRedis, ListRedis
<1>2. /\ StateKey(x) \notin cmd.keys => (LoadRedis(x)' <=> LoadRedis(x))
      /\ ListKey(x.agent) \notin cmd.keys => (ListRedis(x)' <=> ListRedis(x))
      /\ cmd.do \in {"SADD", "SREM"} => (LoadRedis(x)' <=> LoadRedis(x))
      /\ cmd.do \in {"SADD", "SREM"} /\ x.session # cmd.arg => (ListRedis(x)' <=> ListRedis(x))
  BY <1>1, KeyEffect DEF LoadRedis, ListRedis
<1>3. ASSUME NEW y \in States, cmd \in StateCmds(y)
      PROVE  (LoadRedis(x)' <=> LoadRedis(x)) /\ (ListRedis(x)' <=> ListRedis(x))
  <2>1. y # x
    BY <1>3
  <2>2. StateKey(y) # StateKey(x) /\ StateKey(y) # ListKey(x.agent) /\ ListKey(y.agent) # StateKey(x)
    BY <2>1 DEF Alone
  <2>3. CASE cmd \in {Command("SET", {StateKey(y)}, y), Command("DEL", {StateKey(y)}, y)}
    <3>1. cmd.keys = {StateKey(y)}
      BY <2>3 DEF Command
    <3>2. QED
      BY <1>2, <2>2, <3>1
  <2>4. CASE cmd \in {Command("SADD", {ListKey(y.agent)}, y.session), Command("SREM", {ListKey(y.agent)}, y.session)}
    <3>1. cmd.keys = {ListKey(y.agent)} /\ cmd.arg = y.session /\ cmd.do \in {"SADD", "SREM"}
      BY <2>4 DEF Command
    <3>2. CASE ListKey(y.agent) = ListKey(x.agent)
      <4>1. y.session # x.session
        BY <2>1, <3>2, ListsApart, StatesApart
      <4>2. QED
        BY <1>2, <3>1, <4>1
    <3>3. CASE ListKey(y.agent) # ListKey(x.agent)
      BY <1>2, <3>1, <3>3
    <3>4. QED
      BY <3>2, <3>3
  <2>5. QED
    BY <1>3, <2>3, <2>4 DEF StateCmds
<1>4. ASSUME cmd.keys \subseteq RowKeys \cup CacheKeys
      PROVE  (LoadRedis(x)' <=> LoadRedis(x)) /\ (ListRedis(x)' <=> ListRedis(x))
  <2>1. \A k \in cmd.keys : k[1] \in {"row", "cache:"}
    BY <1>4, FirstWords DEF RowKeys, CacheKeys
  <2>2. StateKey(x) \notin cmd.keys /\ ListKey(x.agent) \notin cmd.keys
    BY <2>1, FirstWords
  <2>3. QED
    BY <1>2, <2>2
<1>5. cmd \in UNION {RowCmds(y) : y \in States} => cmd.keys \subseteq RowKeys
  BY DEF RowCmds, RowKeys, Command
<1>6. cmd \in UNION {CacheCmds(k) : k \in Items} => cmd.keys \subseteq CacheKeys
  BY DEF CacheCmds, CacheKeys, Command
<1>7. cmd \in ClearCmds => cmd.keys \subseteq CacheKeys
  BY DEF ClearCmds, Command
<1>8. QED
  BY <1>3, <1>4, <1>5, <1>6, <1>7 DEF Cmds

(* The commands of the state itself. *)
LEMMA Disturbed ==
  ASSUME NEW x \in States, Alone(x), NEW cmd \in StateCmds(x), Executes(cmd)
  PROVE  /\ cmd.do = "SET" => LoadRedis(x)' /\ (ListRedis(x)' <=> ListRedis(x))
         /\ cmd.do = "DEL" => ~LoadRedis(x)' /\ (ListRedis(x)' <=> ListRedis(x))
         /\ cmd.do = "SADD" => (LoadRedis(x)' <=> LoadRedis(x)) /\ (ListRedis(x)' <=> ListRedis(x) \/ ~WrongType(cmd))
         /\ cmd.do = "SREM" => (LoadRedis(x)' <=> LoadRedis(x)) /\ (ListRedis(x)' <=> ListRedis(x) /\ WrongType(cmd))
<1>1. (LoadRedis(x)' <=> StateKey(x) \in DOMAIN strings')
      /\ (ListRedis(x)' <=> ListKey(x.agent) \in DOMAIN members' /\ x.session \in members'[ListKey(x.agent)])
  BY DEF LoadRedis, ListRedis
<1>2. cmd \in Cmds /\ StateKey(x) # ListKey(x.agent)
  BY DEF Cmds, Alone
<1>3. CASE cmd.do \in {"SET", "DEL"}
  <2>1. cmd.keys = {StateKey(x)}
    BY <1>3 DEF StateCmds, Command
  <2>2. QED
    BY <1>1, <1>2, <1>3, <2>1, KeyEffect DEF LoadRedis, ListRedis
<1>4. CASE cmd.do \in {"SADD", "SREM"}
  <2>1. cmd.keys = {ListKey(x.agent)} /\ cmd.arg = x.session
    BY <1>4 DEF StateCmds, Command
  <2>2. WrongType(cmd) => UNCHANGED <<strings, members>>
    BY <1>4 DEF Executes, Write, Unset, Enlist
  <2>3. QED
    BY <1>1, <1>2, <1>4, <2>1, <2>2, KeyEffect DEF LoadRedis, ListRedis
<1>5. cmd.do \in {"SET", "DEL", "SADD", "SREM"}
  BY DEF StateCmds, Command
<1>6. QED
  BY <1>3, <1>4, <1>5

LEMMA CmdsApart ==
  ASSUME NEW x \in States
  PROVE  /\ \A y \in States \ {x} : StateCmds(x) \cap StateCmds(y) = {}
         /\ \A k \in Items : StateCmds(x) \cap CacheCmds(k) = {}
         /\ StateCmds(x) \cap ClearCmds = {}
<1>1. ASSUME NEW y \in States \ {x}, NEW cmd \in StateCmds(x), cmd \in StateCmds(y)
      PROVE  FALSE
  <2>1. CASE cmd.do \in {"SET", "DEL"}
    BY <1>1, <2>1 DEF StateCmds, Command
  <2>2. CASE cmd.do \in {"SADD", "SREM"}
    <3>1. cmd.keys = {ListKey(x.agent)} /\ cmd.keys = {ListKey(y.agent)} /\ x.session = y.session
      BY <1>1, <2>2 DEF StateCmds, Command
    <3>2. QED
      BY <3>1, ListsApart, StatesApart
  <2>3. QED
    BY <2>1, <2>2 DEF StateCmds, Command
<1>2. ASSUME NEW cmd \in StateCmds(x), cmd.keys \subseteq CacheKeys
      PROVE  FALSE
  <2>1. PICK k \in cmd.keys : k[1] = "state:"
    BY FirstWords DEF StateCmds, Command
  <2>2. QED
    BY <1>2, <2>1, FirstWords DEF CacheKeys
<1>3. \A k \in Items : \A cmd \in CacheCmds(k) : cmd.keys \subseteq CacheKeys
  BY DEF CacheCmds, CacheKeys, Command
<1>4. \A cmd \in ClearCmds : cmd.keys \subseteq CacheKeys
  BY DEF ClearCmds, Command
<1>5. QED
  BY <1>1, <1>2, <1>3, <1>4

Dos  == {"none", "save", "delete", "set", "unset", "clear", "count"}
Ons  == States \cup Items \cup {{}}
CallRecords == [do : Dos, on : Ons, todo : Seq(Cmds), reply : {"none", "ok", "error"},
                met : BOOLEAN, more : BOOLEAN, at : {"idle", "open", "done", "failed"},
                owed : SUBSET AllKeys, kept : SUBSET AllKeys, count : Nat, pages : Nat, calls : Nat]

RemoteTypeOK ==
  /\ server \in {"none", "single", "cluster", "postgres"}
  /\ DOMAIN strings \subseteq AllKeys /\ DOMAIN members \subseteq AllKeys
  /\ IsFiniteSet(DOMAIN strings) /\ IsFiniteSet(DOMAIN members)
  /\ call \in [Clients -> CallRecords]
  /\ late \subseteq Cmds
  /\ torn \in [States -> BOOLEAN]

(* What a call has left to send. *)
Enlisting(do, x) == Command(IF do = "save" THEN "SADD" ELSE "SREM", {ListKey(x.agent)}, x.session)
Left(do, x) == IF server = "postgres" THEN {<<cmd>> : cmd \in RowCmds(x)}
               ELSE {IF do = "save" THEN SaveRedis(x) ELSE DeleteRedis(x), <<Enlisting(do, x)>>}

Plan(c) ==
  /\ server = "none" => call[c].at = "idle"
  /\ call[c].at # "open" => call[c].todo = <<>> /\ call[c].reply = "none"
  /\ call[c].todo = <<>> => call[c].reply = "none"
  /\ call[c].at = "done" => ~call[c].more
  /\ call[c].at = "open" =>
       \/ Writes(c) /\ call[c].on \in States /\ ~call[c].more /\ call[c].todo \in Left(call[c].do, call[c].on)
       \/ /\ call[c].do \in {"set", "unset"} /\ call[c].on \in Items /\ ~call[c].more
          /\ \E cmd \in CacheCmds(call[c].on) : call[c].todo = <<cmd>>
       \/ /\ call[c].do = "clear"
          /\ \/ call[c].todo = <<>> /\ call[c].more
             \/ \E cmd \in ClearCmds : call[c].todo = <<cmd>>
       \/ call[c].do = "count" /\ call[c].todo = <<>> /\ call[c].more

PlanInv == /\ \A c \in Clients : Plan(c)
           /\ server = "none" => DOMAIN strings = {} /\ DOMAIN members = {} /\ late = {}

(* A call that writes a state and met no opposite one: what its commands    *)
(* have done holds, once they have been answered, and while they wait for   *)
(* their answers.                                                          *)
Unmet(c)  == Underway(c) /\ Writes(c) /\ ~call[c].met /\ Others(c, call[c].on) = {}
First(c)  == Len(call[c].todo) = 1 \/ call[c].reply = "ok"
Second(c) == Len(call[c].todo) = 1 /\ call[c].reply = "ok"
ProgressInv ==
  server # "postgres" =>
    \A c \in Clients : Unmet(c) /\ Alone(call[c].on) =>
      /\ First(c) => (LoadRedis(call[c].on) <=> call[c].do = "save")
      /\ Second(c) => (ListRedis(call[c].on) <=> call[c].do = "save")

(* A scan of a single server: what it keeps in mind is there, and what it    *)
(* no longer owes it has counted, or deletes.                               *)
Pending(c) == IF call[c].todo = <<>> THEN {} ELSE Head(call[c].todo).keys
ScanInv ==
  \A c \in Clients :
    /\ call[c].kept \subseteq Stored
    /\ call[c].at \in {"open", "done"} /\ server = "single" =>
         /\ call[c].do \in {"clear", "count"} /\ ~call[c].more => call[c].owed = {}
         /\ call[c].do = "clear" =>
              /\ call[c].kept \subseteq call[c].owed \cup Pending(c)
              /\ call[c].reply # "none" => call[c].kept \cap Pending(c) = {}
         /\ call[c].do = "count" =>
              call[c].count >= Cardinality({k \in call[c].kept \ call[c].owed : ~LooksLikeList(k)})

RemoteInv == RemoteTypeOK /\ PlanInv /\ ProgressInv /\ StatesAgree /\ ScanInv

(* In Postgres, Load and List look for the same row. *)
LEMMA RowsAgree ==
  ASSUME RemoteTypeOK, NEW x \in States
  PROVE  LoadPostgres(x) <=> ListPostgres(x)
<1>1. RowKey(x) \in DOMAIN strings => ListPostgres(x)
  BY FirstWords DEF ListPostgres
<1>2. ASSUME NEW k \in DOMAIN strings, k[1] = "row", k[2] = x.agent, k[3] = x.session
      PROVE  k = RowKey(x)
  <2>1. PICK y \in States : k = RowKey(y)
    BY <1>2, FirstWords DEF RemoteTypeOK, AllKeys, CacheKeys, StateKeys, ListKeys, RowKeys
  <2>2. y.agent = x.agent /\ y.session = x.session
    BY <1>2, <2>1, FirstWords
  <2>3. QED
    BY <2>1, <2>2 DEF RowKey
<1>3. QED
  BY <1>1, <1>2 DEF LoadPostgres, ListPostgres

LEMMA NextRowsAgree ==
  RemoteTypeOK' => \A x \in States : LoadPostgres(x)' <=> ListPostgres(x)'
<1>1. RemoteTypeOK => \A x \in States : LoadPostgres(x) <=> ListPostgres(x)
  BY RowsAgree
<1>2. (RemoteTypeOK => \A x \in States : LoadPostgres(x) <=> ListPostgres(x))'
  BY <1>1, PTL
<1>3. QED
  BY <1>2

(* What is next for a call. *)
LEMMA NextCommand ==
  ASSUME RemoteTypeOK, PlanInv, NEW c \in Clients, Underway(c), call[c].todo # <<>>
  PROVE  /\ Head(call[c].todo) \in Cmds
         /\ Len(call[c].todo) = 1 \/ (Len(call[c].todo) = 2 /\ Writes(c) /\ server # "postgres")
         /\ Writes(c) => call[c].on \in States
         /\ Writes(c) /\ server # "postgres" =>
              /\ Head(call[c].todo) \in StateCmds(call[c].on)
              /\ Len(call[c].todo) = 2 => Head(call[c].todo).do = IF call[c].do = "save" THEN "SET" ELSE "DEL"
              /\ Len(call[c].todo) = 1 => Head(call[c].todo).do = IF call[c].do = "save" THEN "SADD" ELSE "SREM"
         /\ ~Writes(c) => \/ Head(call[c].todo) \in ClearCmds /\ call[c].do = "clear"
                          \/ \E k \in Items : Head(call[c].todo) \in CacheCmds(k)
<1>1. Plan(c)
  BY DEF PlanInv
<1>2. CASE Writes(c) /\ call[c].on \in States /\ call[c].todo \in Left(call[c].do, call[c].on) /\ server = "postgres"
  BY <1>2 DEF Left, Cmds
<1>3. CASE Writes(c) /\ call[c].on \in States /\ call[c].todo \in Left(call[c].do, call[c].on) /\ server # "postgres"
  <2>1. Head(call[c].todo) \in StateCmds(call[c].on) /\ Len(call[c].todo) \in {1, 2}
    BY <1>3 DEF Left, Writes, SaveRedis, DeleteRedis, Enlisting, StateCmds
  <2>2. /\ Len(call[c].todo) = 2 => Head(call[c].todo).do = IF call[c].do = "save" THEN "SET" ELSE "DEL"
        /\ Len(call[c].todo) = 1 => Head(call[c].todo).do = IF call[c].do = "save" THEN "SADD" ELSE "SREM"
    BY <1>3 DEF Left, Writes, SaveRedis, DeleteRedis, Enlisting, Command
  <2>3. QED
    BY <1>3, <2>1, <2>2 DEF Cmds
<1>4. CASE ~Writes(c)
  <2>1. \/ \E cmd \in CacheCmds(call[c].on) : call[c].todo = <<cmd>> /\ call[c].on \in Items
        \/ \E cmd \in ClearCmds : call[c].todo = <<cmd>> /\ call[c].do = "clear"
    BY <1>1, <1>4 DEF Plan, Underway
  <2>2. ASSUME NEW cmd \in CacheCmds(call[c].on), call[c].todo = <<cmd>>, call[c].on \in Items
        PROVE  Head(call[c].todo) = cmd /\ Len(call[c].todo) = 1 /\ cmd \in Cmds
    BY <2>2 DEF Cmds
  <2>3. ASSUME NEW cmd \in ClearCmds, call[c].todo = <<cmd>>
        PROVE  Head(call[c].todo) = cmd /\ Len(call[c].todo) = 1 /\ cmd \in Cmds
    BY <2>3 DEF Cmds
  <2>4. QED
    BY <1>4, <2>1, <2>2, <2>3
<1>5. QED
  BY <1>1, <1>2, <1>3, <1>4 DEF Plan, Underway, Writes

(* The keys stored after a command are of the same kinds, and finitely many. *)
LEMMA StoredKeys ==
  ASSUME RemoteTypeOK, NEW cmd \in Cmds, Executes(cmd)
  PROVE  /\ DOMAIN strings' \subseteq AllKeys /\ DOMAIN members' \subseteq AllKeys
         /\ IsFiniteSet(DOMAIN strings') /\ IsFiniteSet(DOMAIN members')
<1>1. cmd.do = "DEL" \/ \E k \in AllKeys : cmd.keys = {k}
  <2>1. \A x \in States : \A e \in StateCmds(x) : \E k \in StateKeys \cup ListKeys : e.keys = {k}
    BY DEF StateCmds, StateKeys, ListKeys, Command
  <2>2. \A x \in States : \A e \in RowCmds(x) : \E k \in RowKeys : e.keys = {k}
    BY DEF RowCmds, RowKeys, Command
  <2>3. \A j \in Items : \A e \in CacheCmds(j) : \E k \in CacheKeys : e.keys = {k}
    BY DEF CacheCmds, CacheKeys, Command
  <2>4. \A e \in ClearCmds : e.do = "DEL"
    BY DEF ClearCmds, Command
  <2>5. QED
    BY <2>1, <2>2, <2>3, <2>4 DEF Cmds, AllKeys
<1>2. /\ cmd.do = "DEL" \/ DOMAIN strings' \subseteq DOMAIN strings \cup cmd.keys
      /\ cmd.do = "DEL" \/ DOMAIN members' \subseteq DOMAIN members \cup cmd.keys
      /\ cmd.do = "DEL" => DOMAIN strings' \subseteq DOMAIN strings /\ DOMAIN members' \subseteq DOMAIN members
  BY DEF Executes, Write, Unset, Enlist, WrongType, Restrict
<1>3. CASE cmd.do = "DEL"
  BY <1>2, <1>3, FS_Subset DEF RemoteTypeOK
<1>4. ASSUME NEW k \in AllKeys, cmd.keys = {k}, cmd.do # "DEL"
      PROVE  /\ DOMAIN strings' \subseteq AllKeys /\ DOMAIN members' \subseteq AllKeys
             /\ IsFiniteSet(DOMAIN strings') /\ IsFiniteSet(DOMAIN members')
  <2>1. IsFiniteSet(DOMAIN strings \cup {k}) /\ IsFiniteSet(DOMAIN members \cup {k})
    BY FS_AddElement DEF RemoteTypeOK
  <2>2. QED
    BY <1>2, <1>4, <2>1, FS_Subset DEF RemoteTypeOK
<1>5. QED
  BY <1>1, <1>3, <1>4

(* What other calls make of a command. *)
LEMMA Stirred ==
  ASSUME RemoteTypeOK, NEW cmd, NEW d \in Clients
  PROVE  /\ Stirs(cmd, d) \in CallRecords
         /\ Stirs(cmd, d).do = call[d].do /\ Stirs(cmd, d).on = call[d].on /\ Stirs(cmd, d).todo = call[d].todo
         /\ Stirs(cmd, d).reply = call[d].reply /\ Stirs(cmd, d).met = call[d].met
         /\ Stirs(cmd, d).more = call[d].more /\ Stirs(cmd, d).at = call[d].at
         /\ Stirs(cmd, d).count = call[d].count
         /\ Stirs(cmd, d).owed = call[d].owed \ (Stored \ (DOMAIN strings' \union DOMAIN members'))
         /\ Stirs(cmd, d).kept \subseteq call[d].kept \ (Stored \ (DOMAIN strings' \union DOMAIN members'))
<1>1. call[d] \in CallRecords
  BY DEF RemoteTypeOK
<1>a. PICK gone : gone = Stored \ (DOMAIN strings' \union DOMAIN members')
  BY Zenon
<1>b. PICK o : o = call[d].owed \ gone
  BY Zenon
<1>c. PICK k : k = call[d].kept \ (gone \union IF cmd.do = "SET" /\ call[d].do = "clear" THEN cmd.keys ELSE {})
  BY Zenon
<1>2. Stirs(cmd, d) = [call[d] EXCEPT !.owed = o, !.kept = k]
  BY <1>1, <1>a, <1>b, <1>c DEF Stirs, CallRecords
<1>3. o \in SUBSET AllKeys /\ k \in SUBSET AllKeys /\ k \subseteq call[d].kept \ gone
  BY <1>1, <1>b, <1>c DEF CallRecords
<1>d. PICK r : r = Stirs(cmd, d)
  BY Zenon
<1>4. r = [call[d] EXCEPT !.owed = o, !.kept = k]
  BY <1>2, <1>d
<1>5. r \in CallRecords
  BY <1>1, <1>3, <1>4 DEF CallRecords
<1>6. /\ r.do = call[d].do /\ r.on = call[d].on /\ r.todo = call[d].todo
      /\ r.reply = call[d].reply /\ r.met = call[d].met
      /\ r.more = call[d].more /\ r.at = call[d].at
      /\ r.count = call[d].count /\ r.owed = o /\ r.kept = k
  BY <1>1, <1>4 DEF CallRecords
<1>7. QED
  BY <1>3, <1>5, <1>6, <1>a, <1>b, <1>d

Gone == Stored \ (DOMAIN strings' \union DOMAIN members')

LEMMA Performed ==
  ASSUME RemoteInv, NEW c \in Clients, Perform(c)
  PROVE  LET cmd == Head(call[c].todo)
         IN /\ Underway(c) /\ call[c].todo # <<>> /\ Executes(cmd)
            /\ UNCHANGED <<server, late, torn>>
            /\ call' \in [Clients -> CallRecords]
            /\ \A d \in Clients :
                 /\ call'[d].do = call[d].do /\ call'[d].on = call[d].on /\ call'[d].todo = call[d].todo
                 /\ call'[d].met = call[d].met /\ call'[d].more = call[d].more /\ call'[d].at = call[d].at
                 /\ call'[d].count = call[d].count
                 /\ call'[d].owed = call[d].owed \ Gone /\ call'[d].kept \subseteq call[d].kept \ Gone
                 /\ d # c => call'[d].reply = call[d].reply
            /\ call'[c].reply = IF WrongType(cmd) THEN "error" ELSE "ok"
<1>c. PICK cmd : cmd = Head(call[c].todo)
  BY Zenon
<1>d. PICK S : S = [d \in Clients |-> Stirs(cmd, d)]
  BY Zenon
<1>e. PICK v : v = IF WrongType(cmd) THEN "error" ELSE "ok"
  BY Zenon
<1>1. /\ Underway(c) /\ call[c].todo # <<>> /\ Executes(cmd) /\ UNCHANGED <<server, late, torn>>
      /\ call' = [S EXCEPT ![c].reply = v]
  BY <1>c, <1>d, <1>e, Zenon DEF Perform
<1>2. \A d \in Clients :
         /\ S[d] \in CallRecords
         /\ S[d].do = call[d].do /\ S[d].on = call[d].on /\ S[d].todo = call[d].todo
         /\ S[d].reply = call[d].reply /\ S[d].met = call[d].met
         /\ S[d].more = call[d].more /\ S[d].at = call[d].at
         /\ S[d].count = call[d].count
         /\ S[d].owed = call[d].owed \ Gone /\ S[d].kept \subseteq call[d].kept \ Gone
  BY <1>d, Stirred DEF RemoteInv, Gone
<1>3. DOMAIN S = Clients
  BY <1>d
<1>4. call' = [S EXCEPT ![c] = [S[c] EXCEPT !.reply = v]]
  BY <1>1, <1>2, <1>3 DEF CallRecords
<1>f. PICK r : r = [S[c] EXCEPT !.reply = v]
  BY Zenon
<1>5. /\ r \in CallRecords /\ r.do = S[c].do /\ r.on = S[c].on /\ r.todo = S[c].todo /\ r.met = S[c].met
      /\ r.more = S[c].more /\ r.at = S[c].at /\ r.count = S[c].count /\ r.owed = S[c].owed
      /\ r.kept = S[c].kept /\ r.reply = v
  <2>1. S[c] \in CallRecords /\ v \in {"none", "ok", "error"}
    BY <1>2, <1>e
  <2>2. QED
    BY <2>1, <1>f DEF CallRecords
<1>6. call'[c] = r /\ DOMAIN call' = Clients /\ \A d \in Clients \ {c} : call'[d] = S[d]
  BY <1>3, <1>4, <1>f
<1>7. call' = [d \in Clients |-> call'[d]]
  BY <1>3, <1>4
<1>8. call' \in [Clients -> CallRecords]
  BY <1>2, <1>5, <1>6, <1>7
<1>9. \A d \in Clients :
         /\ call'[d].do = call[d].do /\ call'[d].on = call[d].on /\ call'[d].todo = call[d].todo
         /\ call'[d].met = call[d].met /\ call'[d].more = call[d].more /\ call'[d].at = call[d].at
         /\ call'[d].count = call[d].count
         /\ call'[d].owed = call[d].owed \ Gone /\ call'[d].kept \subseteq call[d].kept \ Gone
         /\ d # c => call'[d].reply = call[d].reply
  BY <1>2, <1>5, <1>6
<1>10. QED
  BY <1>1, <1>5, <1>6, <1>8, <1>9, <1>c, <1>e

(* Which command a call sends, for a state that it does not write. *)
LEMMA OthersCommands ==
  ASSUME RemoteTypeOK, PlanInv, NEW c \in Clients, Underway(c), call[c].todo # <<>>, server # "postgres",
         NEW x \in States, ~(Writes(c) /\ call[c].on = x)
  PROVE  Head(call[c].todo) \notin StateCmds(x)
<1>1. CASE Writes(c)
  <2>1. call[c].on \in States \ {x} /\ Head(call[c].todo) \in StateCmds(call[c].on)
    BY <1>1, NextCommand
  <2>2. QED
    BY <2>1, CmdsApart
<1>2. CASE ~Writes(c)
  BY <1>2, NextCommand, CmdsApart
<1>3. QED
  BY <1>1, <1>2

LEMMA PerformProgress ==
  ASSUME RemoteInv, NEW c \in Clients, Perform(c)
  PROVE  ProgressInv'
<1>c. PICK cmd : cmd = Head(call[c].todo)
  BY Zenon
<1>1. /\ Underway(c) /\ call[c].todo # <<>> /\ Executes(cmd) /\ server' = server
      /\ \A d \in Clients :
           /\ call'[d].do = call[d].do /\ call'[d].on = call[d].on /\ call'[d].todo = call[d].todo
           /\ call'[d].met = call[d].met /\ call'[d].at = call[d].at
           /\ d # c => call'[d].reply = call[d].reply
      /\ call'[c].reply = IF WrongType(cmd) THEN "error" ELSE "ok"
  BY Performed, <1>c
<1>2. RemoteTypeOK /\ PlanInv /\ ProgressInv /\ cmd \in Cmds
  BY <1>1, <1>c, NextCommand DEF RemoteInv
<1> SUFFICES ASSUME server # "postgres", NEW d \in Clients, Unmet(d)', NEW x, x = call[d].on, Alone(x)
             PROVE  /\ First(d)' => (LoadRedis(x)' <=> call'[d].do = "save")
                    /\ Second(d)' => (ListRedis(x)' <=> call'[d].do = "save")
  BY <1>1, Zenon DEF ProgressInv, LoadRedis, ListRedis, Alone
<1>3. /\ Underway(d) /\ Writes(d) /\ ~call[d].met /\ Others(d, x) = {} /\ call'[d].on = x /\ Alone(x)
      /\ call[d].do \in {"save", "delete"} /\ call'[d].do = call[d].do
  BY <1>1 DEF Unmet, Underway, Writes, Others
<1>4. x \in States
  BY <1>2, <1>3 DEF PlanInv, Plan, Underway, Writes
<1>5. /\ First(d) => (LoadRedis(x) <=> call[d].do = "save")
      /\ Second(d) => (ListRedis(x) <=> call[d].do = "save")
  BY <1>2, <1>3 DEF ProgressInv, Unmet
<1>6. CASE d = c
  <2>1. /\ cmd \in StateCmds(x) /\ Len(call[c].todo) \in {1, 2}
        /\ Len(call[c].todo) = 2 => cmd.do = IF call[c].do = "save" THEN "SET" ELSE "DEL"
        /\ Len(call[c].todo) = 1 => cmd.do = IF call[c].do = "save" THEN "SADD" ELSE "SREM"
    BY <1>1, <1>2, <1>3, <1>6, <1>c, NextCommand
  <2>2. LoadRedis(x)' <=> call[d].do = "save"
    BY <1>1, <1>3, <1>4, <1>5, <1>6, <2>1, Disturbed DEF First
  <2>3. Second(d)' => (ListRedis(x)' <=> call[d].do = "save")
    BY <1>1, <1>3, <1>4, <1>5, <1>6, <2>1, Disturbed DEF Second
  <2>4. QED
    BY <1>3, <2>2, <2>3
<1>7. CASE d # c
  <2>1. (First(d)' <=> First(d)) /\ (Second(d)' <=> Second(d))
    BY <1>1, <1>7 DEF First, Second
  <2>2. CASE Writes(c) /\ call[c].on = x
    <3>1. call[c].do = call[d].do
      BY <1>1, <1>3, <1>7, <2>2 DEF Others
    <3>2. cmd \in StateCmds(x) /\ cmd.do \in IF call[d].do = "save" THEN {"SET", "SADD"} ELSE {"DEL", "SREM"}
      BY <1>1, <1>2, <1>c, <2>2, <3>1, NextCommand
    <3>3. QED
      BY <1>1, <1>3, <1>4, <1>5, <2>1, <3>2, Disturbed
  <2>3. CASE ~(Writes(c) /\ call[c].on = x)
    <3>1. cmd \notin StateCmds(x)
      BY <1>1, <1>2, <1>4, <1>c, <2>3, OthersCommands
    <3>2. QED
      BY <1>1, <1>2, <1>3, <1>4, <1>5, <2>1, <3>1, Undisturbed
  <2>4. QED
    BY <2>2, <2>3
<1>8. QED
  BY <1>6, <1>7

(* Whom a command does not concern, it leaves in agreement. *)
LEMMA StaysAgreed ==
  ASSUME RemoteTypeOK, RemoteTypeOK', UNCHANGED server, NEW x \in States, Alone(x),
         NEW cmd \in Cmds, Executes(cmd), server = "postgres" \/ cmd \notin StateCmds(x),
         Loads(x) <=> Lists(x)
  PROVE  Loads(x)' <=> Lists(x)'
<1>1. CASE server = "postgres"
  BY <1>1, NextRowsAgree DEF Loads, Lists
<1>2. CASE server # "postgres"
  BY <1>2, Undisturbed DEF Loads, Lists
<1>3. QED
  BY <1>1, <1>2

LEMMA ClearSends ==
  ASSUME PlanInv, NEW c \in Clients, Underway(c), call[c].todo # <<>>, call[c].do = "clear"
  PROVE  Head(call[c].todo) \in ClearCmds /\ Len(call[c].todo) = 1
<1>1. PICK cmd \in ClearCmds : call[c].todo = <<cmd>>
  BY DEF PlanInv, Plan, Underway, Writes
<1>2. QED
  BY <1>1

(* A command is executed, and the scans hear of it. *)
LEMMA ScanStep ==
  ASSUME RemoteTypeOK, PlanInv, ScanInv, NEW cmd \in Cmds, Executes(cmd), server' = server,
         call' \in [Clients -> CallRecords],
         \A d \in Clients :
           /\ call'[d].do = call[d].do /\ call'[d].todo = call[d].todo
           /\ call'[d].more = call[d].more /\ call'[d].at = call[d].at
           /\ call'[d].count = call[d].count
           /\ call'[d].owed = call[d].owed \ Gone /\ call'[d].kept \subseteq call[d].kept \ Gone
           /\ call'[d].reply = call[d].reply
              \/ (call[d].do = "clear" => Pending(d) = cmd.keys /\ cmd.do = "DEL")
  PROVE  ScanInv'
<1> SUFFICES ASSUME NEW d \in Clients
             PROVE  /\ call'[d].kept \subseteq Stored'
                    /\ call'[d].at \in {"open", "done"} /\ server = "single" =>
                         /\ call'[d].do \in {"clear", "count"} /\ ~call'[d].more => call'[d].owed = {}
                         /\ call'[d].do = "clear" =>
                              /\ call'[d].kept \subseteq call'[d].owed \cup Pending(d)'
                              /\ call'[d].reply # "none" => call'[d].kept \cap Pending(d)' = {}
                         /\ call'[d].do = "count" =>
                              call'[d].count >= Cardinality({k \in call'[d].kept \ call'[d].owed : ~LooksLikeList(k)})
  BY DEF ScanInv
<1>3. /\ call[d].kept \subseteq Stored
      /\ call[d].at \in {"open", "done"} /\ server = "single" =>
           /\ call[d].do \in {"clear", "count"} /\ ~call[d].more => call[d].owed = {}
           /\ call[d].do = "clear" =>
                /\ call[d].kept \subseteq call[d].owed \cup Pending(d)
                /\ call[d].reply # "none" => call[d].kept \cap Pending(d) = {}
           /\ call[d].do = "count" =>
                call[d].count >= Cardinality({k \in call[d].kept \ call[d].owed : ~LooksLikeList(k)})
  BY DEF ScanInv
<1>4. Gone = Stored \ Stored' /\ call'[d].kept \subseteq Stored'
  BY <1>3 DEF Gone, Stored
<1>5. Pending(d)' = Pending(d)
  BY DEF Pending
<1>6. ASSUME server = "single", call[d].at \in {"open", "done"}, call[d].do = "clear"
      PROVE  /\ call'[d].kept \subseteq call'[d].owed \cup Pending(d)
             /\ call'[d].reply # "none" => call'[d].kept \cap Pending(d) = {}
  <2>1. call'[d].kept \subseteq call'[d].owed \cup Pending(d)
    BY <1>3, <1>6
  <2>2. CASE Pending(d) = cmd.keys /\ cmd.do = "DEL"
    <3>1. \A k \in cmd.keys : k \notin DOMAIN strings' /\ k \notin DOMAIN members'
      BY <2>2, KeyEffect
    <3>2. cmd.keys \cap Stored' = {}
      BY <3>1 DEF Stored
    <3>3. QED
      BY <1>4, <2>1, <2>2, <3>2
  <2>3. CASE call'[d].reply = call[d].reply
    BY <1>3, <1>6, <2>1, <2>3
  <2>4. QED
    BY <1>6, <2>2, <2>3
<1>7. ASSUME server = "single", call[d].at \in {"open", "done"}, call[d].do = "count"
      PROVE  call'[d].count >= Cardinality({k \in call'[d].kept \ call'[d].owed : ~LooksLikeList(k)})
  <2>1. {k \in call'[d].kept \ call'[d].owed : ~LooksLikeList(k)}
          \subseteq {k \in call[d].kept \ call[d].owed : ~LooksLikeList(k)}
    OBVIOUS
  <2>2. IsFiniteSet({k \in call[d].kept \ call[d].owed : ~LooksLikeList(k)})
    <3>1. IsFiniteSet(Stored)
      BY FS_Union DEF RemoteTypeOK, Stored
    <3>2. {k \in call[d].kept \ call[d].owed : ~LooksLikeList(k)} \subseteq Stored
      BY <1>3
    <3>3. QED
      BY <3>1, <3>2, FS_Subset
  <2>3. /\ Cardinality({k \in call'[d].kept \ call'[d].owed : ~LooksLikeList(k)})
             <= Cardinality({k \in call[d].kept \ call[d].owed : ~LooksLikeList(k)})
        /\ Cardinality({k \in call[d].kept \ call[d].owed : ~LooksLikeList(k)}) \in Nat
        /\ Cardinality({k \in call'[d].kept \ call'[d].owed : ~LooksLikeList(k)}) \in Nat
    BY <2>1, <2>2, FS_Subset, FS_CardinalityType
  <2>4. call[d].count \in Nat /\ call'[d].count = call[d].count
    BY DEF RemoteTypeOK, CallRecords
  <2>5. QED
    BY <1>3, <1>7, <2>3, <2>4
<1>8. QED
  BY <1>3, <1>4, <1>5, <1>6, <1>7

LEMMA PerformScan ==
  ASSUME RemoteInv, NEW c \in Clients, Perform(c)
  PROVE  ScanInv'
<1>c. PICK cmd : cmd = Head(call[c].todo)
  BY Zenon
<1>1. /\ Underway(c) /\ call[c].todo # <<>> /\ Executes(cmd) /\ server' = server
      /\ call' \in [Clients -> CallRecords]
      /\ \A d \in Clients :
           /\ call'[d].do = call[d].do /\ call'[d].todo = call[d].todo
           /\ call'[d].more = call[d].more /\ call'[d].at = call[d].at
           /\ call'[d].count = call[d].count
           /\ call'[d].owed = call[d].owed \ Gone /\ call'[d].kept \subseteq call[d].kept \ Gone
           /\ d # c => call'[d].reply = call[d].reply
  BY Performed, <1>c
<1>2. RemoteTypeOK /\ PlanInv /\ ScanInv /\ cmd \in Cmds
  BY <1>1, <1>c, NextCommand DEF RemoteInv
<1>3. call[c].do = "clear" => Pending(c) = cmd.keys /\ cmd.do = "DEL"
  BY <1>1, <1>2, <1>c, ClearSends DEF Pending, ClearCmds, Command
<1>4. QED
  BY <1>1, <1>2, <1>3, ScanStep

LEMMA PerformStep ==
  ASSUME RemoteInv, NEW c \in Clients, Perform(c)
  PROVE  RemoteInv'
<1>c. PICK cmd : cmd = Head(call[c].todo)
  BY Zenon
<1>1. /\ Underway(c) /\ call[c].todo # <<>> /\ Executes(cmd) /\ UNCHANGED <<server, late, torn>>
      /\ call' \in [Clients -> CallRecords]
      /\ \A d \in Clients :
           /\ call'[d].do = call[d].do /\ call'[d].on = call[d].on /\ call'[d].todo = call[d].todo
           /\ call'[d].more = call[d].more /\ call'[d].at = call[d].at
           /\ d # c => call'[d].reply = call[d].reply
  BY Performed, <1>c
<1>2. RemoteTypeOK /\ PlanInv /\ StatesAgree /\ cmd \in Cmds
  BY <1>1, <1>c, NextCommand DEF RemoteInv
<1>3. RemoteTypeOK'
  BY <1>1, <1>2, StoredKeys DEF RemoteTypeOK
<1>4. PlanInv'
  <2>1. server # "none" /\ call[c].at = "open"
    BY <1>1, <1>2 DEF PlanInv, Plan, Underway
  <2>2. ASSUME NEW d \in Clients
        PROVE  Plan(d)'
    <3>1. Plan(d) /\ (d = c => call[d].todo # <<>> /\ call[d].at = "open")
      BY <1>1, <1>2, <2>1 DEF PlanInv
    <3>2. Left(call[d].do, call[d].on)' = Left(call[d].do, call[d].on)
      BY <1>1 DEF Left
    <3>3. QED
      BY <1>1, <2>1, <3>1, <3>2 DEF Plan, Writes
  <2>3. QED
    BY <1>1, <2>1, <2>2 DEF PlanInv
<1>5. StatesAgree'
  <2> SUFFICES ASSUME NEW x \in States, Alone(x), ~torn[x],
                      ~(\E d \in Clients : Underway(d) /\ Writes(d) /\ call[d].on = x)
               PROVE  Loads(x)' <=> Lists(x)'
    BY <1>1 DEF StatesAgree, Underway, Writes, Alone
  <2>1. Loads(x) <=> Lists(x)
    BY <1>2 DEF StatesAgree
  <2>2. server = "postgres" \/ cmd \notin StateCmds(x)
    BY <1>1, <1>2, <1>c, OthersCommands
  <2>3. QED
    BY <1>1, <1>2, <1>3, <2>1, <2>2, StaysAgreed
<1>6. ProgressInv' /\ ScanInv'
  BY PerformProgress, PerformScan
<1>7. QED
  BY <1>3, <1>4, <1>5, <1>6 DEF RemoteInv

(* A step of a call that writes no state, or begins to. *)
LEMMA OneCall ==
  ASSUME RemoteInv, NEW c \in Clients, UNCHANGED <<server, strings, members, torn>>,
         \A d \in Clients \ {c} : call'[d] = call[d],
         ~(Underway(c) /\ Writes(c)), server # "postgres" /\ Unmet(c)' => ~First(c)'
  PROVE  ProgressInv' /\ StatesAgree'
<1>1. ProgressInv'
  <2> SUFFICES ASSUME server # "postgres", NEW d \in Clients, Unmet(d)', NEW x, x = call'[d].on, Alone(x)
               PROVE  /\ First(d)' => (LoadRedis(x)' <=> call'[d].do = "save")
                      /\ Second(d)' => (ListRedis(x)' <=> call'[d].do = "save")
    BY Zenon DEF ProgressInv, LoadRedis, ListRedis, Alone
  <2>1. CASE d = c
    BY <2>1 DEF First, Second
  <2>2. CASE d # c
    <3>1. call'[d] = call[d] /\ Unmet(d)
      BY <2>2 DEF Unmet, Underway, Writes, Others
    <3>2. /\ First(d) => (LoadRedis(x) <=> call[d].do = "save")
          /\ Second(d) => (ListRedis(x) <=> call[d].do = "save")
      BY <3>1 DEF RemoteInv, ProgressInv
    <3>3. QED
      BY <3>1, <3>2 DEF First, Second, LoadRedis, ListRedis
  <2>3. QED
    BY <2>1, <2>2
<1>2. StatesAgree'
  <2> SUFFICES ASSUME NEW x \in States, Alone(x), ~torn[x],
                      ~(\E d \in Clients : Underway(d) /\ Writes(d) /\ call[d].on = x)'
               PROVE  Loads(x)' <=> Lists(x)'
    BY DEF StatesAgree, Alone
  <2>1. ~(\E d \in Clients : Underway(d) /\ Writes(d) /\ call[d].on = x)
    BY DEF Underway, Writes
  <2>2. Loads(x) <=> Lists(x)
    BY <2>1 DEF RemoteInv, StatesAgree
  <2>3. QED
    BY <2>2 DEF Loads, Lists, LoadRedis, ListRedis, LoadPostgres, ListPostgres
<1>3. QED
  BY <1>1, <1>2

LEMMA BeginStep ==
  ASSUME RemoteInv, NEW c \in Clients, NEW new \in CallRecords, Begin(c, new),
         new.reply = "none", new.count = 0,
         \/ /\ new.do \in {"save", "delete"} /\ new.on \in States /\ ~new.more /\ new.kept = {}
            /\ new.todo \in Left(new.do, new.on) /\ (server # "postgres" => Len(new.todo) = 2)
         \/ /\ new.do \in {"set", "unset"} /\ new.on \in Items /\ ~new.more /\ new.kept = {}
            /\ \E cmd \in CacheCmds(new.on) : new.todo = <<cmd>>
         \/ new.do \in {"clear", "count"} /\ new.todo = <<>> /\ new.more
            /\ new.kept \subseteq Stored /\ new.owed = new.kept
  PROVE  RemoteInv'
<1>a. PICK n : n = call[c].calls + 1
  BY Zenon
<1>b. PICK r : r = [new EXCEPT !.at = "open", !.calls = n]
  BY Zenon
<1>1. /\ server # "none" /\ ~Underway(c) /\ UNCHANGED <<server, strings, members, late, torn>>
      /\ call' = [call EXCEPT ![c] = r]
  BY <1>a, <1>b, Zenon DEF Begin
<1>2. RemoteTypeOK /\ PlanInv /\ ScanInv /\ n \in Nat
  BY <1>a DEF RemoteInv, RemoteTypeOK, CallRecords
<1>3. /\ r \in CallRecords /\ r.at = "open" /\ r.do = new.do /\ r.on = new.on /\ r.todo = new.todo
      /\ r.reply = "none" /\ r.more = new.more /\ r.owed = new.owed /\ r.kept = new.kept /\ r.count = 0
  BY <1>2, <1>b DEF CallRecords
<1>4. call'[c] = r /\ (\A d \in Clients \ {c} : call'[d] = call[d]) /\ call' \in [Clients -> CallRecords]
  BY <1>1, <1>2, <1>3 DEF RemoteTypeOK
<1>5. RemoteTypeOK'
  BY <1>1, <1>2, <1>4 DEF RemoteTypeOK
<1>6. PlanInv'
  <2>1. ASSUME NEW d \in Clients \ {c}
        PROVE  Plan(d)'
    <3>1. Plan(d) /\ Left(call[d].do, call[d].on)' = Left(call[d].do, call[d].on)
      BY <1>1, <1>2, <1>4 DEF PlanInv, Left
    <3>2. QED
      BY <1>1, <1>4, <3>1 DEF Plan, Writes
  <2>2. Plan(c)'
    <3>1. Left(new.do, new.on)' = Left(new.do, new.on)
      BY <1>1 DEF Left
    <3>2. Left(call[c].do, call[c].on)' = Left(new.do, new.on)
      BY <1>1, <1>3, <1>4, <3>1 DEF Left
    <3>3. QED
      BY <1>1, <1>3, <1>4, <3>2 DEF Plan, Writes
  <2>3. QED
    BY <1>1, <2>1, <2>2 DEF PlanInv
<1>7. ProgressInv' /\ StatesAgree'
  <2>1. server # "postgres" /\ Unmet(c)' => ~First(c)'
    <3>1. Unmet(c)' => r.do \in {"save", "delete"}
      BY <1>4 DEF Unmet, Writes
    <3>2. r.do \in {"save", "delete"} /\ server # "postgres" => Len(r.todo) = 2
      BY <1>3
    <3>3. First(c)' <=> Len(r.todo) = 1 \/ r.reply = "ok"
      BY <1>4 DEF First
    <3>4. ASSUME server # "postgres", Unmet(c)'
          PROVE  ~First(c)'
      <4>1. Len(r.todo) = 2 /\ r.reply = "none"
        BY <1>3, <3>1, <3>2, <3>4, Zenon
      <4>2. ~(Len(r.todo) = 1 \/ r.reply = "ok")
        BY <4>1
      <4>3. QED
        BY <3>3, <4>2, Zenon
    <3>5. QED
      BY <3>4, Zenon
  <2>2. QED
    BY <1>1, <1>4, <2>1, OneCall
<1>8. ScanInv'
  <2>1. Stored' = Stored
    BY <1>1 DEF Stored
  <2>2. {k \in call'[c].kept \ call'[c].owed : ~LooksLikeList(k)} = {} \/ call'[c].do # "count"
    BY <1>3, <1>4
  <2>3. call'[c].do = "count" =>
          call'[c].count >= Cardinality({k \in call'[c].kept \ call'[c].owed : ~LooksLikeList(k)})
    <3>1. Cardinality({}) = 0
      BY FS_EmptySet
    <3>2. call'[c].count = 0
      BY <1>3, <1>4
    <3>3. call'[c].do = "count" => Cardinality({k \in call'[c].kept \ call'[c].owed : ~LooksLikeList(k)}) = 0
      BY <2>2, <3>1
    <3>4. QED
      BY <3>2, <3>3
  <2>4. \A d \in Clients \ {c} : Pending(d)' = Pending(d)
    BY <1>4 DEF Pending
  <2>5. ASSUME NEW d \in Clients \ {c}
        PROVE  call'[d] = call[d] /\ Pending(d)' = Pending(d)
    BY <1>4, <2>4
  <2>6. QED
    BY <1>1, <1>2, <1>3, <1>4, <2>1, <2>3, <2>5 DEF ScanInv
<1>9. QED
  BY <1>5, <1>6, <1>7, <1>8 DEF RemoteInv

(* The commands of a call that begins. *)
LEMMA CommandsOf ==
  /\ \A x \in States : \A do \in {"save", "delete"} :
       /\ Commands(do, x) \in Left(do, x) /\ Commands(do, x) \in Seq(Cmds)
       /\ server # "postgres" => Len(Commands(do, x)) = 2
  /\ \A k \in Items : \A do \in {"set", "unset"} :
       Commands(do, k) \in Seq(Cmds) /\ \E cmd \in CacheCmds(k) : Commands(do, k) = <<cmd>>
<1>1. ASSUME NEW x \in States
      PROVE  StateCmds(x) \subseteq Cmds /\ RowCmds(x) \subseteq Cmds
  BY DEF Cmds
<1>2. ASSUME NEW k \in Items
      PROVE  CacheCmds(k) \subseteq Cmds
  BY DEF Cmds
<1>3. ASSUME NEW x \in States, NEW do \in {"save", "delete"}
      PROVE  /\ Commands(do, x) \in Left(do, x) /\ Commands(do, x) \in Seq(Cmds)
             /\ server # "postgres" => Len(Commands(do, x)) = 2
  <2>1. CASE server = "postgres"
    <3>1. \E cmd \in RowCmds(x) : Commands(do, x) = <<cmd>>
      BY <2>1 DEF Commands, SavePostgres, DeletePostgres, RowCmds
    <3>2. QED
      BY <1>1, <2>1, <3>1 DEF Left
  <2>2. CASE server # "postgres"
    <3>1. Commands(do, x) = IF do = "save" THEN SaveRedis(x) ELSE DeleteRedis(x)
      BY <2>2 DEF Commands
    <3>2. \E a, b \in StateCmds(x) : Commands(do, x) = <<a, b>>
      BY <3>1 DEF SaveRedis, DeleteRedis, StateCmds
    <3>3. Commands(do, x) \in Seq(Cmds) /\ Len(Commands(do, x)) = 2
      BY <1>1, <3>2
    <3>4. QED
      BY <2>2, <3>1, <3>3 DEF Left
  <2>3. QED
    BY <2>1, <2>2
<1>4. ASSUME NEW k \in Items, NEW do \in {"set", "unset"}
      PROVE  Commands(do, k) \in Seq(Cmds) /\ \E cmd \in CacheCmds(k) : Commands(do, k) = <<cmd>>
  <2>1. \E cmd \in CacheCmds(k) : Commands(do, k) = <<cmd>>
    BY DEF Commands, SetCached, DeleteCached, CacheCmds
  <2>2. QED
    BY <1>2, <2>1
<1>5. QED
  BY <1>3, <1>4

LEMMA BeginsStep ==
  ASSUME RemoteInv, NEW c \in Clients,
         \/ \E x \in States : BeginWrite(c, "save", x) \/ BeginWrite(c, "delete", x)
         \/ \E k \in Items : BeginCache(c, "set", k) \/ BeginCache(c, "unset", k)
         \/ BeginScan(c, "clear") \/ BeginScan(c, "count")
  PROVE  RemoteInv'
<1>1. ASSUME NEW x \in States, NEW do \in {"save", "delete"}, BeginWrite(c, do, x)
      PROVE  RemoteInv'
  <2>c. PICK q : q = Commands(do, x)
    BY Zenon
  <2>d. PICK new : new = [NoCall EXCEPT !.do = do, !.on = x, !.todo = q]
    BY Zenon
  <2>1. q \in Left(do, x) /\ q \in Seq(Cmds) /\ (server # "postgres" => Len(q) = 2)
    BY <2>c, CommandsOf
  <2>2. new \in CallRecords /\ new.do = do /\ new.on = x /\ new.todo = q /\ new.reply = "none" /\ new.count = 0
        /\ new.more = FALSE /\ new.kept = {}
    BY <2>1, <2>d DEF NoCall, CallRecords, Dos, Ons
  <2>3. Begin(c, new)
    BY <1>1, <2>c, <2>d DEF BeginWrite
  <2>4. QED
    BY <2>1, <2>2, <2>3, BeginStep
<1>2. ASSUME NEW k \in Items, NEW do \in {"set", "unset"}, BeginCache(c, do, k)
      PROVE  RemoteInv'
  <2>c. PICK q : q = Commands(do, k)
    BY Zenon
  <2>d. PICK new : new = [NoCall EXCEPT !.do = do, !.on = k, !.todo = q]
    BY Zenon
  <2>1. q \in Seq(Cmds) /\ \E cmd \in CacheCmds(k) : q = <<cmd>>
    BY <2>c, CommandsOf
  <2>2. new \in CallRecords /\ new.do = do /\ new.on = k /\ new.todo = q /\ new.reply = "none" /\ new.count = 0
        /\ new.more = FALSE /\ new.kept = {}
    <3>1. k \in Ons /\ do \in Dos
      BY DEF Ons, Dos
    <3>2. QED
      BY <2>1, <2>d, <3>1 DEF NoCall, CallRecords
  <2>3. Begin(c, new)
    BY <1>2, <2>c, <2>d DEF BeginCache
  <2>4. QED
    BY <2>1, <2>2, <2>3, BeginStep
<1>3. ASSUME NEW do \in {"clear", "count"}, BeginScan(c, do)
      PROVE  RemoteInv'
  <2>c. PICK M : M = Matching(do)
    BY Zenon
  <2>d. PICK new : new = [NoCall EXCEPT !.do = do, !.more = TRUE, !.owed = M, !.kept = M]
    BY Zenon
  <2>1. M \subseteq Stored /\ M \subseteq AllKeys
    BY <2>c DEF Matching, Stored, RemoteInv, RemoteTypeOK
  <2>2. new \in CallRecords /\ new.do = do /\ new.todo = <<>> /\ new.reply = "none" /\ new.count = 0
        /\ new.more = TRUE /\ new.kept = M /\ new.owed = M
    <3>1. do \in Dos /\ {} \in Ons
      BY DEF Ons, Dos
    <3>2. new = [do |-> do, on |-> {}, todo |-> <<>>, reply |-> "none", met |-> FALSE, more |-> TRUE,
                 at |-> "idle", owed |-> M, kept |-> M, count |-> 0, pages |-> 0, calls |-> 0]
      BY <2>d DEF NoCall
    <3>3. <<>> \in Seq(Cmds)
      OBVIOUS
    <3>4. QED
      BY <2>1, <3>1, <3>2, <3>3 DEF CallRecords
  <2>3. Begin(c, new)
    BY <1>3, <2>c, <2>d DEF BeginScan
  <2>4. QED
    BY <2>1, <2>2, <2>3, BeginStep
<1>4. QED
  BY <1>1, <1>2, <1>3

LEMMA StoredFinite == ASSUME RemoteTypeOK PROVE IsFiniteSet(Stored) /\ Stored \subseteq AllKeys
<1>1. IsFiniteSet(DOMAIN strings \union DOMAIN members)
  BY FS_Union DEF RemoteTypeOK
<1>2. QED
  BY <1>1 DEF Stored, RemoteTypeOK

(* A page of Clear or Count. *)
LEMMA PageStep ==
  ASSUME RemoteInv, NEW c \in Clients, NEW more \in BOOLEAN, NEW shown \in SUBSET Matching(call[c].do),
         NEW new \in CallRecords, Page(c, shown, more, new),
         new.do = call[c].do, new.on = call[c].on, new.reply = call[c].reply, new.kept = call[c].kept,
         new.owed = call[c].owed,
         \/ /\ call[c].do = "clear" /\ new.todo = IF shown = {} THEN <<>> ELSE <<Command("DEL", shown, {})>>
         \/ /\ call[c].do = "count" /\ new.todo = <<>>
            /\ new.count = call[c].count + Cardinality({k \in shown : ~LooksLikeList(k)})
  PROVE  RemoteInv'
<1>a. PICK at : at = IF more \/ new.todo # <<>> THEN "open" ELSE "done"
  BY Zenon
<1>b. PICK o : o = call[c].owed \ shown
  BY Zenon
<1>c. PICK n : n = new.pages + 1
  BY Zenon
<1>d. PICK r : r = [new EXCEPT !.pages = n, !.owed = o, !.more = more, !.at = at]
  BY Zenon
<1>1. /\ Underway(c) /\ call[c].more /\ call[c].todo = <<>> /\ (more \/ MayBeLast(c, shown))
      /\ UNCHANGED <<server, strings, members, late, torn>>
      /\ call' = [call EXCEPT ![c] = r]
  <2>1. [new EXCEPT !.pages = @ + 1, !.owed = @ \ shown, !.more = more,
                    !.at = IF more \/ new.todo # <<>> THEN "open" ELSE "done"] = r
    BY <1>a, <1>b, <1>c, <1>d DEF CallRecords
  <2>2. QED
    BY <2>1, Zenon DEF Page
<1>2. RemoteTypeOK /\ PlanInv /\ ScanInv /\ server # "none" /\ call[c].reply = "none" /\ ~Writes(c)
      /\ call[c].at = "open"
  BY <1>1 DEF RemoteInv, PlanInv, Plan, Underway, Writes
<1>3. /\ r \in CallRecords /\ r.at = at /\ r.do = call[c].do /\ r.on = call[c].on /\ r.todo = new.todo
      /\ r.reply = "none" /\ r.more = more /\ r.owed = o /\ r.kept = call[c].kept /\ r.count = new.count
  <2>1. o \in SUBSET AllKeys /\ n \in Nat /\ at \in {"open", "done"}
    BY <1>2, <1>a, <1>b, <1>c DEF RemoteTypeOK, CallRecords
  <2>2. QED
    BY <1>2, <1>d, <2>1 DEF CallRecords
<1>4. call'[c] = r /\ (\A d \in Clients \ {c} : call'[d] = call[d]) /\ call' \in [Clients -> CallRecords]
  BY <1>1, <1>2, <1>3 DEF RemoteTypeOK
<1>5. RemoteTypeOK'
  BY <1>1, <1>2, <1>4 DEF RemoteTypeOK
<1>6. PlanInv'
  <2>1. ASSUME NEW d \in Clients \ {c}
        PROVE  Plan(d)'
    <3>1. Plan(d) /\ Left(call[d].do, call[d].on)' = Left(call[d].do, call[d].on)
      BY <1>1, <1>2, <1>4 DEF PlanInv, Left
    <3>2. QED
      BY <1>1, <1>4, <3>1 DEF Plan, Writes
  <2>2. CASE call[c].do = "clear"
    <3>1. shown \subseteq CacheKeys
      BY <1>2, <2>2, StoredFinite, FirstWords DEF Matching, AllKeys, StateKeys, ListKeys, RowKeys
    <3>2. Command("DEL", shown, {}) \in ClearCmds
      BY <3>1 DEF ClearCmds
    <3>3. new.todo = <<>> \/ \E cmd \in ClearCmds : new.todo = <<cmd>>
      BY <2>2, <3>2
    <3>4. Plan(c)'
      BY <1>1, <1>2, <1>3, <1>4, <1>a, <2>2, <3>3 DEF Plan, Writes
    <3>5. QED
      BY <1>1, <1>2, <2>1, <3>4 DEF PlanInv
  <2>3. CASE call[c].do = "count"
    <3>1. Plan(c)'
      BY <1>1, <1>2, <1>3, <1>4, <1>a, <2>3 DEF Plan, Writes
    <3>2. QED
      BY <1>1, <1>2, <2>1, <3>1 DEF PlanInv
  <2>4. QED
    BY <2>2, <2>3
<1>7. ProgressInv' /\ StatesAgree'
  <2>1. ~Unmet(c)'
    BY <1>2, <1>3, <1>4 DEF Unmet, Writes
  <2>2. QED
    BY <1>1, <1>2, <1>4, <2>1, OneCall
<1>8. ScanInv'
  <2>1. Stored' = Stored
    BY <1>1 DEF Stored
  <2>2. ASSUME NEW d \in Clients \ {c}
        PROVE  call'[d] = call[d] /\ Pending(d)' = Pending(d)
    BY <1>4 DEF Pending
  <2>3. /\ call[c].kept \subseteq Stored
        /\ server = "single" =>
             /\ call[c].do = "clear" => call[c].kept \subseteq call[c].owed
             /\ call[c].do = "count" =>
                  call[c].count >= Cardinality({k \in call[c].kept \ call[c].owed : ~LooksLikeList(k)})
    BY <1>1, <1>2 DEF ScanInv, Pending
  <2>4. server = "single" /\ ~more => o = {}
    BY <1>1, <1>b DEF MayBeLast
  <2>5. call[c].do = "clear" => Pending(c)' = shown
    <3>1. Head(<<Command("DEL", shown, {})>>).keys = shown /\ <<Command("DEL", shown, {})>> # <<>>
      BY DEF Command
    <3>2. QED
      BY <1>3, <1>4, <3>1 DEF Pending
  <2>6. ASSUME server = "single", call[c].do = "count"
        PROVE  new.count >= Cardinality({k \in call[c].kept \ o : ~LooksLikeList(k)})
    <3> DEFINE A == {k \in call[c].kept \ call[c].owed : ~LooksLikeList(k)}
               B == {k \in shown : ~LooksLikeList(k)}
               C == {k \in call[c].kept \ o : ~LooksLikeList(k)}
    <3>1. A \subseteq Stored /\ B \subseteq Stored /\ C \subseteq A \cup B
      BY <2>3, <1>b DEF Matching
    <3>2. IsFiniteSet(A) /\ IsFiniteSet(B)
      BY <3>1, <1>2, StoredFinite, FS_Subset
    <3> HIDE DEF A, B, C
    <3>3. IsFiniteSet(A \cup B) /\ IsFiniteSet(A \cap B)
          /\ Cardinality(A \cup B) = Cardinality(A) + Cardinality(B) - Cardinality(A \cap B)
      BY <3>2, FS_Union, FS_Subset
    <3>4. Cardinality(C) <= Cardinality(A \cup B) /\ IsFiniteSet(C)
      BY <3>1, <3>3, FS_Subset
    <3>5. /\ Cardinality(A) \in Nat /\ Cardinality(B) \in Nat /\ Cardinality(C) \in Nat
          /\ Cardinality(A \cap B) \in Nat /\ Cardinality(A \cup B) \in Nat
      BY <3>2, <3>3, <3>4, FS_CardinalityType
    <3>6. call[c].count >= Cardinality(A) /\ new.count = call[c].count + Cardinality(B) /\ call[c].count \in Nat
      BY <1>2, <2>3, <2>6 DEF A, B, RemoteTypeOK, CallRecords
    <3>7. new.count >= Cardinality(C)
      BY <3>3, <3>4, <3>5, <3>6
    <3>8. QED
      BY <3>7 DEF C
  <2>7. /\ call'[c].kept \subseteq Stored'
        /\ call'[c].at \in {"open", "done"} /\ server' = "single" =>
             /\ call'[c].do \in {"clear", "count"} /\ ~call'[c].more => call'[c].owed = {}
             /\ call'[c].do = "clear" =>
                  /\ call'[c].kept \subseteq call'[c].owed \cup Pending(c)'
                  /\ call'[c].reply # "none" => call'[c].kept \cap Pending(c)' = {}
             /\ call'[c].do = "count" =>
                  call'[c].count >= Cardinality({k \in call'[c].kept \ call'[c].owed : ~LooksLikeList(k)})
    BY <1>1, <1>3, <1>4, <1>b, <2>1, <2>3, <2>4, <2>5, <2>6
  <2>8. ASSUME NEW d \in Clients \ {c}
        PROVE  /\ call'[d].kept \subseteq Stored'
               /\ call'[d].at \in {"open", "done"} /\ server' = "single" =>
                    /\ call'[d].do \in {"clear", "count"} /\ ~call'[d].more => call'[d].owed = {}
                    /\ call'[d].do = "clear" =>
                         /\ call'[d].kept \subseteq call'[d].owed \cup Pending(d)'
                         /\ call'[d].reply # "none" => call'[d].kept \cap Pending(d)' = {}
                    /\ call'[d].do = "count" =>
                         call'[d].count >= Cardinality({k \in call'[d].kept \ call'[d].owed : ~LooksLikeList(k)})
    <3>1. call'[d] = call[d] /\ Pending(d)' = Pending(d) /\ Stored' = Stored /\ server' = server
      BY <1>1, <2>1, <2>2
    <3>2. QED
      BY <1>2, <3>1 DEF ScanInv
  <2>9. QED
    BY <2>7, <2>8, Zenon DEF ScanInv
<1>9. QED
  BY <1>5, <1>6, <1>7, <1>8 DEF RemoteInv

LEMMA PagesStep ==
  ASSUME RemoteInv, NEW c \in Clients, NEW more \in BOOLEAN, NEW shown \in SUBSET Matching(call[c].do),
         ClearPage(c, shown, more) \/ CountPage(c, shown, more)
  PROVE  RemoteInv'
<1>1. call[c] \in CallRecords
  BY DEF RemoteInv, RemoteTypeOK
<1>2. CASE ClearPage(c, shown, more)
  <2>a. PICK q : q = IF shown = {} THEN <<>> ELSE <<Command("DEL", shown, {})>>
    BY Zenon
  <2>b. PICK new : new = [call[c] EXCEPT !.todo = q]
    BY Zenon
  <2>1. call[c].do = "clear" /\ Page(c, shown, more, new)
    BY <1>2, <2>a, <2>b DEF ClearPage
  <2>2. q \in Seq(Cmds)
    <3>1. shown \subseteq CacheKeys
      BY <2>1, StoredFinite, FirstWords DEF Matching, AllKeys, StateKeys, ListKeys, RowKeys, RemoteInv
    <3>2. Command("DEL", shown, {}) \in Cmds
      BY <3>1 DEF ClearCmds, Cmds
    <3>3. QED
      BY <2>a, <3>2
  <2>3. /\ new \in CallRecords /\ new.do = call[c].do /\ new.on = call[c].on /\ new.reply = call[c].reply
        /\ new.kept = call[c].kept /\ new.owed = call[c].owed /\ new.todo = q
    BY <1>1, <2>2, <2>b DEF CallRecords
  <2>4. QED
    BY <2>1, <2>3, <2>a, PageStep
<1>3. CASE CountPage(c, shown, more)
  <2>a. PICK n : n = call[c].count + Cardinality({k \in shown : ~LooksLikeList(k)})
    BY Zenon
  <2>b. PICK new : new = [call[c] EXCEPT !.count = n]
    BY Zenon
  <2>1. call[c].do = "count" /\ Page(c, shown, more, new) /\ call[c].todo = <<>>
    BY <1>1, <1>3, <2>a, <2>b DEF CountPage, Page, CallRecords
  <2>2. n \in Nat
    <3>1. {k \in shown : ~LooksLikeList(k)} \subseteq Stored
      BY DEF Matching
    <3>2. Cardinality({k \in shown : ~LooksLikeList(k)}) \in Nat
      BY <3>1, StoredFinite, FS_Subset, FS_CardinalityType DEF RemoteInv
    <3>3. QED
      BY <1>1, <2>a, <3>2 DEF CallRecords
  <2>3. /\ new \in CallRecords /\ new.do = call[c].do /\ new.on = call[c].on /\ new.reply = call[c].reply
        /\ new.kept = call[c].kept /\ new.owed = call[c].owed /\ new.todo = call[c].todo /\ new.count = n
    BY <1>1, <2>2, <2>b DEF CallRecords
  <2>4. QED
    BY <2>1, <2>3, <2>a, PageStep
<1>4. QED
  BY <1>2, <1>3

(* A call of Save or Delete ends. *)
LEMMA EndsWriting ==
  ASSUME RemoteInv, NEW c \in Clients, Underway(c), Writes(c), NEW at \in {"done", "failed"}, Ends(c, at),
         at = "done" => Second(c) \/ (server = "postgres"),
         UNCHANGED <<server, strings, members>>, late' \subseteq late \cup Cmds
  PROVE  RemoteInv'
<1>x. PICK x : x = call[c].on
  BY Zenon
<1>y. PICK m : m = Others(c, x)
  BY Zenon
<1>1. /\ torn' = [torn EXCEPT ![x] = at = "failed" \/ call[c].met \/ m # {}]
      /\ call' = [d \in Clients |->
                    IF d = c THEN [call[c] EXCEPT !.at = at, !.todo = <<>>, !.reply = "none"]
                    ELSE [call[d] EXCEPT !.met = @ \/ d \in m]]
  BY <1>x, <1>y DEF Ends
<1>2. RemoteTypeOK /\ PlanInv /\ ProgressInv /\ StatesAgree /\ ScanInv /\ x \in States
      /\ server # "none" /\ call[c].at = "open" /\ call[c].do \in {"save", "delete"}
  BY <1>x DEF RemoteInv, PlanInv, Plan, Underway, Writes
<1>3. /\ call'[c] \in CallRecords /\ call'[c].at = at /\ call'[c].todo = <<>> /\ call'[c].reply = "none"
      /\ call'[c].do = call[c].do /\ call'[c].kept = call[c].kept /\ call'[c].more = call[c].more
  <2>a. PICK r : r = [call[c] EXCEPT !.at = at, !.todo = <<>>, !.reply = "none"]
    BY Zenon
  <2>b. call[c] \in CallRecords /\ <<>> \in Seq(Cmds)
    BY <1>2 DEF RemoteTypeOK
  <2>1. r \in CallRecords /\ r.at = at /\ r.todo = <<>> /\ r.reply = "none" /\ r.do = call[c].do
        /\ r.kept = call[c].kept /\ r.more = call[c].more
    BY <2>a, <2>b DEF CallRecords
  <2>2. call'[c] = r
    BY <1>1, <2>a
  <2>3. QED
    BY <2>1, <2>2
<1>4. ASSUME NEW d \in Clients \ {c}
      PROVE  /\ call'[d] \in CallRecords /\ (call'[d].met <=> call[d].met \/ d \in m)
             /\ call'[d].at = call[d].at /\ call'[d].do = call[d].do /\ call'[d].on = call[d].on
             /\ call'[d].todo = call[d].todo /\ call'[d].reply = call[d].reply /\ call'[d].more = call[d].more
             /\ call'[d].owed = call[d].owed /\ call'[d].kept = call[d].kept /\ call'[d].count = call[d].count
  <2>a. PICK v \in BOOLEAN : v <=> call[d].met \/ d \in m
    BY <1>2 DEF RemoteTypeOK, CallRecords
  <2>b. PICK r : r = [call[d] EXCEPT !.met = v]
    BY Zenon
  <2>c. call[d] \in CallRecords
    BY <1>2 DEF RemoteTypeOK
  <2>d. (call[d].met \/ d \in m) = v
    BY <2>a, <2>c DEF CallRecords
  <2>1. call'[d] = r
    <3>1. call'[d] = [call[d] EXCEPT !.met = @ \/ d \in m]
      BY <1>1
    <3>2. [call[d] EXCEPT !.met = @ \/ d \in m] = [call[d] EXCEPT !.met = v]
      BY <2>c, <2>d DEF CallRecords
    <3>3. QED
      BY <3>1, <3>2, <2>b
  <2>2. r \in CallRecords /\ r.met = v
        /\ r.at = call[d].at /\ r.do = call[d].do /\ r.on = call[d].on
        /\ r.todo = call[d].todo /\ r.reply = call[d].reply /\ r.more = call[d].more
        /\ r.owed = call[d].owed /\ r.kept = call[d].kept /\ r.count = call[d].count
    BY <2>a, <2>b, <2>c DEF CallRecords
  <2>3. QED
    BY <2>1, <2>2, <2>a
<1>5. RemoteTypeOK'
  <2>1. call' \in [Clients -> CallRecords]
    BY <1>1, <1>3, <1>4
  <2>2. torn' \in [States -> BOOLEAN]
    BY <1>1, <1>2 DEF RemoteTypeOK
  <2>3. QED
    BY <1>2, <2>1, <2>2 DEF RemoteTypeOK
<1>6. PlanInv'
  <2>1. ASSUME NEW d \in Clients \ {c}
        PROVE  Plan(d)'
    <3>1. Plan(d) /\ Left(call[d].do, call[d].on)' = Left(call[d].do, call[d].on)
      BY <1>2, <1>4 DEF PlanInv, Left
    <3>2. QED
      BY <1>2, <1>4, <3>1 DEF Plan, Writes
  <2>2. Plan(c)'
    <3>1. ~call[c].more
      BY <1>2 DEF PlanInv, Plan, Underway, Writes
    <3>2. QED
      BY <1>2, <1>3, <3>1 DEF Plan
  <2>3. QED
    BY <1>2, <2>1, <2>2 DEF PlanInv
<1>7. ProgressInv'
  <2> SUFFICES ASSUME server # "postgres", NEW d \in Clients, Unmet(d)', NEW y, y = call'[d].on, Alone(y)
               PROVE  /\ First(d)' => (LoadRedis(y)' <=> call'[d].do = "save")
                      /\ Second(d)' => (ListRedis(y)' <=> call'[d].do = "save")
    BY Zenon DEF ProgressInv, LoadRedis, ListRedis, Alone
  <2>1. d # c
    BY <1>3 DEF Unmet, Underway
  <2>2. Underway(d) /\ Writes(d) /\ ~call[d].met /\ d \notin m /\ y = call[d].on /\ Others(d, y)' = {}
    BY <1>4, <2>1 DEF Unmet, Underway, Writes
  <2>3. c \notin Others(d, y)
    BY <1>x, <1>y, <2>1, <2>2 DEF Others
  <2>4. \A e \in Clients \ {c} : e \in Others(d, y) => e \in Others(d, y)'
    BY <1>4, <2>1 DEF Others, Underway, Writes
  <2>5. Others(d, y) = {}
    <3>1. Others(d, y) \subseteq Clients
      BY DEF Others
    <3>2. QED
      BY <2>2, <2>3, <2>4, <3>1
  <2>6. Unmet(d)
    BY <2>2, <2>5 DEF Unmet
  <2>7. /\ First(d) => (LoadRedis(y) <=> call[d].do = "save")
        /\ Second(d) => (ListRedis(y) <=> call[d].do = "save")
    BY <1>2, <2>2, <2>6 DEF ProgressInv
  <2>8. QED
    BY <1>4, <2>1, <2>7 DEF First, Second, LoadRedis, ListRedis
<1>8. StatesAgree'
  <2> SUFFICES ASSUME NEW y \in States, Alone(y), ~torn'[y],
                      ~(\E d \in Clients : Underway(d) /\ Writes(d) /\ call[d].on = y)'
               PROVE  Loads(y)' <=> Lists(y)'
    BY DEF StatesAgree, Alone
  <2>1. CASE server = "postgres"
    BY <1>5, <2>1, NextRowsAgree DEF Loads, Lists
  <2>2. CASE server # "postgres" /\ y = x
    <3>1. at = "done" /\ ~call[c].met /\ m = {}
      BY <1>1, <1>2, <2>2 DEF RemoteTypeOK
    <3>2. Unmet(c) /\ First(c) /\ Second(c)
      BY <1>x, <1>y, <2>2, <3>1 DEF Unmet, First, Second
    <3>3. LoadRedis(x) <=> ListRedis(x)
      BY <1>2, <1>x, <2>2, <3>2 DEF ProgressInv
    <3>4. QED
      BY <2>2, <3>3 DEF Loads, Lists, LoadRedis, ListRedis
  <2>3. CASE server # "postgres" /\ y # x
    <3>1. ~torn[y] /\ ~(\E d \in Clients : Underway(d) /\ Writes(d) /\ call[d].on = y)
      BY <1>1, <1>2, <1>4, <1>x, <2>3 DEF RemoteTypeOK, Underway, Writes
    <3>2. Loads(y) <=> Lists(y)
      BY <1>2, <3>1 DEF StatesAgree
    <3>3. QED
      BY <2>3, <3>2 DEF Loads, Lists, LoadRedis, ListRedis
  <2>4. QED
    BY <2>1, <2>2, <2>3
<1>9. ScanInv'
  <2>1. Stored' = Stored
    BY DEF Stored
  <2>2. call[c].kept \subseteq Stored /\ call'[c].do \notin {"clear", "count"}
    BY <1>2, <1>3 DEF ScanInv
  <2>3. ASSUME NEW d \in Clients \ {c}
        PROVE  /\ call'[d].kept \subseteq Stored'
               /\ call'[d].at \in {"open", "done"} /\ server' = "single" =>
                    /\ call'[d].do \in {"clear", "count"} /\ ~call'[d].more => call'[d].owed = {}
                    /\ call'[d].do = "clear" =>
                         /\ call'[d].kept \subseteq call'[d].owed \cup Pending(d)'
                         /\ call'[d].reply # "none" => call'[d].kept \cap Pending(d)' = {}
                    /\ call'[d].do = "count" =>
                         call'[d].count >= Cardinality({k \in call'[d].kept \ call'[d].owed : ~LooksLikeList(k)})
    <3>1. Pending(d)' = Pending(d)
      BY <1>4 DEF Pending
    <3>2. QED
      BY <1>2, <1>4, <2>1, <3>1 DEF ScanInv
  <2>4. QED
    BY <1>3, <2>1, <2>2, <2>3 DEF ScanInv
<1>10. QED
  BY <1>5, <1>6, <1>7, <1>8, <1>9 DEF RemoteInv

(* A call of the cache, or of Count, gets an answer, or ends. *)
LEMMA QuietStep ==
  ASSUME RemoteInv, NEW c \in Clients, Underway(c), ~Writes(c), NEW at \in {"open", "done", "failed"},
         NEW r, r = [call[c] EXCEPT !.at = at, !.todo = <<>>, !.reply = "none"], call' = [call EXCEPT ![c] = r],
         UNCHANGED <<server, strings, members, torn>>, late' \subseteq late \cup Cmds,
         at = "open" => call[c].more /\ call[c].do = "clear",
         at # "failed" => call[c].reply = "ok", at = "done" => ~call[c].more
  PROVE  RemoteInv'
<1>1. RemoteTypeOK /\ PlanInv /\ ScanInv /\ server # "none" /\ call[c].at = "open"
  BY DEF RemoteInv, PlanInv, Plan, Underway
<1>2. /\ r \in CallRecords /\ r.at = at /\ r.do = call[c].do /\ r.on = call[c].on /\ r.todo = <<>>
      /\ r.reply = "none" /\ r.more = call[c].more /\ r.owed = call[c].owed /\ r.kept = call[c].kept
      /\ r.count = call[c].count
  <2>1. call[c] \in CallRecords /\ <<>> \in Seq(Cmds)
    BY <1>1 DEF RemoteTypeOK
  <2>2. QED
    BY <2>1 DEF CallRecords
<1>3. call'[c] = r /\ (\A d \in Clients \ {c} : call'[d] = call[d]) /\ call' \in [Clients -> CallRecords]
  BY <1>1, <1>2 DEF RemoteTypeOK
<1>4. RemoteTypeOK'
  BY <1>1, <1>3 DEF RemoteTypeOK
<1>5. PlanInv'
  <2>1. ASSUME NEW d \in Clients \ {c}
        PROVE  Plan(d)'
    <3>1. Plan(d) /\ Left(call[d].do, call[d].on)' = Left(call[d].do, call[d].on)
      BY <1>1, <1>3 DEF PlanInv, Left
    <3>2. QED
      BY <1>1, <1>3, <3>1 DEF Plan, Writes
  <2>2. Plan(c)'
    BY <1>1, <1>2, <1>3 DEF Plan
  <2>3. QED
    BY <1>1, <2>1, <2>2 DEF PlanInv
<1>6. ProgressInv' /\ StatesAgree'
  <2>1. ~Unmet(c)'
    BY <1>2, <1>3 DEF Unmet, Writes
  <2>2. QED
    BY <1>3, <2>1, OneCall
<1>7. ScanInv'
  <2>1. Stored' = Stored /\ Pending(c)' = {}
    BY <1>2, <1>3 DEF Stored, Pending
  <2>2. /\ call[c].kept \subseteq Stored
        /\ server = "single" =>
             /\ call[c].do \in {"clear", "count"} /\ ~call[c].more => call[c].owed = {}
             /\ call[c].do = "clear" /\ at # "failed" => call[c].kept \subseteq call[c].owed
             /\ call[c].do = "count" =>
                  call[c].count >= Cardinality({k \in call[c].kept \ call[c].owed : ~LooksLikeList(k)})
    BY <1>1 DEF ScanInv
  <2>3. /\ call'[c].kept \subseteq Stored'
        /\ call'[c].at \in {"open", "done"} /\ server' = "single" =>
             /\ call'[c].do \in {"clear", "count"} /\ ~call'[c].more => call'[c].owed = {}
             /\ call'[c].do = "clear" =>
                  /\ call'[c].kept \subseteq call'[c].owed \cup Pending(c)'
                  /\ call'[c].reply # "none" => call'[c].kept \cap Pending(c)' = {}
             /\ call'[c].do = "count" =>
                  call'[c].count >= Cardinality({k \in call'[c].kept \ call'[c].owed : ~LooksLikeList(k)})
    BY <1>2, <1>3, <2>1, <2>2
  <2>4. ASSUME NEW d \in Clients \ {c}
        PROVE  /\ call'[d].kept \subseteq Stored'
               /\ call'[d].at \in {"open", "done"} /\ server' = "single" =>
                    /\ call'[d].do \in {"clear", "count"} /\ ~call'[d].more => call'[d].owed = {}
                    /\ call'[d].do = "clear" =>
                         /\ call'[d].kept \subseteq call'[d].owed \cup Pending(d)'
                         /\ call'[d].reply # "none" => call'[d].kept \cap Pending(d)' = {}
                    /\ call'[d].do = "count" =>
                         call'[d].count >= Cardinality({k \in call'[d].kept \ call'[d].owed : ~LooksLikeList(k)})
    <3>1. Pending(d)' = Pending(d) /\ call'[d] = call[d]
      BY <1>3 DEF Pending
    <3>2. QED
      BY <1>1, <2>1, <3>1 DEF ScanInv
  <2>5. QED
    BY <2>3, <2>4, Zenon DEF ScanInv
<1>8. QED
  BY <1>4, <1>5, <1>6, <1>7 DEF RemoteInv

LEMMA EndsQuietly ==
  ASSUME RemoteInv, NEW c \in Clients, Underway(c), ~Writes(c), NEW at \in {"done", "failed"}, Ends(c, at),
         at = "done" => call[c].reply = "ok" /\ ~call[c].more,
         UNCHANGED <<server, strings, members>>, late' \subseteq late \cup Cmds
  PROVE  RemoteInv'
<1>r. PICK r : r = [call[c] EXCEPT !.at = at, !.todo = <<>>, !.reply = "none"]
  BY Zenon
<1>1. call \in [Clients -> CallRecords]
  BY DEF RemoteInv, RemoteTypeOK
<1>2. call' = [call EXCEPT ![c].at = at, ![c].todo = <<>>, ![c].reply = "none"] /\ torn' = torn
  BY DEF Ends
<1>3. [call EXCEPT ![c].at = at, ![c].todo = <<>>, ![c].reply = "none"] = [call EXCEPT ![c] = r]
  BY <1>1, <1>r DEF CallRecords
<1>4. QED
  BY <1>2, <1>3, <1>r, QuietStep

(* The first of the two commands of Save or Delete has been answered. *)
LEMMA FirstAnswered ==
  ASSUME RemoteInv, NEW c \in Clients, Underway(c), Writes(c), call[c].reply = "ok", Len(call[c].todo) # 1,
         call' = [call EXCEPT ![c].todo = Tail(@), ![c].reply = "none"],
         UNCHANGED <<server, strings, members, torn, late>>
  PROVE  RemoteInv'
<1>1. RemoteTypeOK /\ PlanInv /\ ScanInv /\ ProgressInv /\ StatesAgree /\ server # "none" /\ call[c].at = "open"
  BY DEF RemoteInv, PlanInv, Plan, Underway
<1>q. PICK q : q = Tail(call[c].todo)
  BY Zenon
<1>r. PICK r : r = [call[c] EXCEPT !.todo = q, !.reply = "none"]
  BY Zenon
<1>2. server # "postgres" /\ q \in Left(call[c].do, call[c].on) /\ Len(q) = 1 /\ q \in Seq(Cmds)
      /\ call[c].on \in States /\ ~call[c].more
  <2>1. call[c].on \in States /\ ~call[c].more /\ call[c].todo \in Left(call[c].do, call[c].on)
        /\ call[c].do \in {"save", "delete"}
    BY <1>1 DEF PlanInv, Plan, Writes
  <2>2. server # "postgres"
    BY <2>1 DEF Left
  <2>3. call[c].todo = IF call[c].do = "save" THEN SaveRedis(call[c].on) ELSE DeleteRedis(call[c].on)
    BY <2>1, <2>2 DEF Left
  <2>4. q = <<Enlisting(call[c].do, call[c].on)>>
    BY <1>q, <2>1, <2>3 DEF SaveRedis, DeleteRedis, Enlisting
  <2>5. Enlisting(call[c].do, call[c].on) \in StateCmds(call[c].on)
    BY <2>1 DEF Enlisting, StateCmds
  <2>6. Enlisting(call[c].do, call[c].on) \in Cmds
    BY <2>1, <2>5 DEF Cmds
  <2>7. QED
    BY <2>1, <2>2, <2>4, <2>6 DEF Left
<1>3. call' = [call EXCEPT ![c] = r]
  BY <1>1, <1>q, <1>r DEF RemoteTypeOK, CallRecords
<1>4. /\ r \in CallRecords /\ r.at = "open" /\ r.do = call[c].do /\ r.on = call[c].on /\ r.todo = q
      /\ r.reply = "none" /\ r.more = call[c].more /\ r.owed = call[c].owed /\ r.kept = call[c].kept
      /\ r.met = call[c].met
  <2>1. call[c] \in CallRecords
    BY <1>1 DEF RemoteTypeOK
  <2>2. QED
    BY <1>1, <1>2, <1>r, <2>1 DEF CallRecords
<1>5. call'[c] = r /\ (\A d \in Clients \ {c} : call'[d] = call[d]) /\ call' \in [Clients -> CallRecords]
  BY <1>1, <1>3, <1>4 DEF RemoteTypeOK
<1>6. RemoteTypeOK'
  BY <1>1, <1>5 DEF RemoteTypeOK
<1>7. PlanInv'
  <2>1. ASSUME NEW d \in Clients \ {c}
        PROVE  Plan(d)'
    <3>1. Plan(d) /\ Left(call[d].do, call[d].on)' = Left(call[d].do, call[d].on)
      BY <1>1, <1>5 DEF PlanInv, Left
    <3>2. QED
      BY <1>1, <1>5, <3>1 DEF Plan, Writes
  <2>2. Left(call[c].do, call[c].on)' = Left(call[c].do, call[c].on)
    BY <1>4, <1>5 DEF Left
  <2>3. Plan(c)'
    <3>1. q # <<>>
      BY <1>2
    <3>2. call'[c].todo \in Left(call[c].do, call[c].on)' /\ Writes(c)' /\ call'[c].on \in States /\ ~call'[c].more
      BY <1>2, <1>4, <1>5, <2>2 DEF Writes
    <3>3. QED
      BY <1>1, <1>4, <1>5, <3>1, <3>2 DEF Plan
  <2>4. QED
    BY <1>1, <2>1, <2>3 DEF PlanInv
<1>8. ProgressInv'
  <2> SUFFICES ASSUME server # "postgres", NEW d \in Clients, Unmet(d)', NEW y, y = call'[d].on, Alone(y)
               PROVE  /\ First(d)' => (LoadRedis(y)' <=> call'[d].do = "save")
                      /\ Second(d)' => (ListRedis(y)' <=> call'[d].do = "save")
    BY Zenon DEF ProgressInv, LoadRedis, ListRedis, Alone
  <2>1. Unmet(d) /\ y = call[d].on /\ call'[d].do = call[d].do
    BY <1>4, <1>5 DEF Unmet, Underway, Writes, Others
  <2>2. /\ First(d) => (LoadRedis(y) <=> call[d].do = "save")
        /\ Second(d) => (ListRedis(y) <=> call[d].do = "save")
    BY <1>1, <2>1 DEF ProgressInv
  <2>3. (First(d)' => First(d)) /\ (Second(d)' => Second(d))
    BY <1>4, <1>5 DEF First, Second
  <2>4. QED
    BY <2>1, <2>2, <2>3 DEF LoadRedis, ListRedis
<1>9. StatesAgree'
  <2>1. \A y \in States : (\E d \in Clients : Underway(d) /\ Writes(d) /\ call[d].on = y)
                          <=> (\E d \in Clients : Underway(d)' /\ Writes(d)' /\ call'[d].on = y)
    BY <1>1, <1>4, <1>5 DEF Underway, Writes
  <2>2. \A y \in States : (Loads(y)' <=> Loads(y)) /\ (Lists(y)' <=> Lists(y))
    BY DEF Loads, Lists, LoadRedis, ListRedis, LoadPostgres, ListPostgres
  <2>3. QED
    BY <1>1, <2>1, <2>2 DEF StatesAgree, Alone
<1>10. ScanInv'
  <2>1. Stored' = Stored
    BY DEF Stored
  <2>2. call[c].kept \subseteq Stored /\ call'[c].do \notin {"clear", "count"}
    BY <1>1, <1>4, <1>5 DEF ScanInv, Writes
  <2>3. ASSUME NEW d \in Clients \ {c}
        PROVE  call'[d] = call[d] /\ Pending(d)' = Pending(d)
    BY <1>5 DEF Pending
  <2>4. QED
    BY <1>1, <1>4, <1>5, <2>1, <2>2, <2>3 DEF ScanInv
<1>11. QED
  BY <1>6, <1>7, <1>8, <1>9, <1>10 DEF RemoteInv

LEMMA AnsweredStep ==
  ASSUME RemoteInv, NEW c \in Clients, Answered(c)
  PROVE  RemoteInv'
<1>1. /\ Underway(c) /\ call[c].reply = "ok" /\ UNCHANGED <<server, strings, members, late>>
      /\ \/ Len(call[c].todo) = 1 /\ ~call[c].more /\ Ends(c, "done")
         \/ /\ ~(Len(call[c].todo) = 1 /\ ~call[c].more) /\ torn' = torn
            /\ call' = [call EXCEPT ![c].todo = Tail(@), ![c].reply = "none"]
  BY DEF Answered
<1>2. RemoteTypeOK /\ PlanInv /\ call[c].at = "open" /\ Plan(c) /\ call[c].todo # <<>> /\ late' \subseteq late \cup Cmds
  BY <1>1 DEF RemoteInv, PlanInv, Plan, Underway
<1>3. CASE Len(call[c].todo) = 1 /\ ~call[c].more /\ Ends(c, "done")
  <2>1. CASE Writes(c)
    BY <1>1, <1>2, <1>3, <2>1, EndsWriting DEF Second
  <2>2. CASE ~Writes(c)
    BY <1>1, <1>2, <1>3, <2>2, EndsQuietly
  <2>3. QED
    BY <2>1, <2>2
<1>4. CASE /\ ~(Len(call[c].todo) = 1 /\ ~call[c].more) /\ torn' = torn
           /\ call' = [call EXCEPT ![c].todo = Tail(@), ![c].reply = "none"]
  <2>1. CASE Writes(c)
    <3>1. ~call[c].more
      BY <1>2, <2>1 DEF Plan, Writes
    <3>2. Len(call[c].todo) # 1
      BY <1>4, <3>1
    <3>3. QED
      BY <1>1, <1>4, <2>1, <3>2, FirstAnswered
  <2>2. CASE ~Writes(c)
    <3>1. Len(call[c].todo) = 1
      BY <1>1, <1>2, <2>2, NextCommand
    <3>2. call[c].more
      BY <1>4, <3>1
    <3>3. call[c].do = "clear"
      BY <1>2, <2>2, <3>2 DEF Plan
    <3>r. PICK r : r = [call[c] EXCEPT !.at = "open", !.todo = <<>>, !.reply = "none"]
      BY Zenon
    <3>4. call \in [Clients -> CallRecords]
      BY <1>2 DEF RemoteTypeOK
    <3>5. Tail(call[c].todo) = <<>>
      <4>1. PICK cmd \in ClearCmds : call[c].todo = <<cmd>>
        BY <1>2, <2>2, <3>3 DEF Plan
      <4>2. QED
        BY <4>1
    <3>6. r = [call[c] EXCEPT !.todo = Tail(@), !.reply = "none"]
      BY <1>2, <3>4, <3>5, <3>r DEF CallRecords
    <3>7. call' = [call EXCEPT ![c] = r]
      BY <1>4, <3>4, <3>6 DEF CallRecords
    <3>8. QED
      BY <1>1, <1>2, <1>4, <2>2, <3>2, <3>3, <3>7, <3>r, QuietStep
  <2>3. QED
    BY <2>1, <2>2
<1>5. QED
  BY <1>1, <1>3, <1>4

LEMMA FailStep ==
  ASSUME RemoteInv, NEW c \in Clients, Fail(c)
  PROVE  RemoteInv'
<1>1. Underway(c) /\ Ends(c, "failed") /\ UNCHANGED <<server, strings, members>>
  BY DEF Fail
<1>2. late' \subseteq late \cup Cmds
  BY <1>1, NextCommand DEF Fail, RemoteInv
<1>3. CASE Writes(c)
  BY <1>1, <1>2, <1>3, EndsWriting
<1>4. CASE ~Writes(c)
  BY <1>1, <1>2, <1>4, EndsQuietly
<1>5. QED
  BY <1>3, <1>4

(* A command that comes late. *)
LEMMA StragglesStep ==
  ASSUME RemoteInv, NEW cmd \in late, Straggles(cmd)
  PROVE  RemoteInv'
<1> DEFINE on(x) == cmd.keys \cap {StateKey(x), RowKey(x), ListKey(x.agent)} # {}
<1>1. /\ late' \subseteq late /\ Executes(cmd) /\ server' = server
      /\ call' = [d \in Clients |-> [Stirs(cmd, d) EXCEPT
              !.met = @ \/ (Underway(d) /\ Writes(d) /\ on(call[d].on))]]
      /\ torn' = [x \in States |-> torn[x] \/ on(x)]
  BY DEF Straggles
<1>2. RemoteTypeOK /\ PlanInv /\ ScanInv /\ ProgressInv /\ StatesAgree /\ cmd \in Cmds /\ server # "none"
  BY DEF RemoteInv, RemoteTypeOK, PlanInv
<1>3. ASSUME NEW x \in States, cmd \in StateCmds(x)
      PROVE  on(x)
  BY <1>3 DEF StateCmds, Command
<1> HIDE DEF on
<1>4. ASSUME NEW d \in Clients
      PROVE  /\ call'[d] \in CallRecords
             /\ call'[d].do = call[d].do /\ call'[d].on = call[d].on /\ call'[d].todo = call[d].todo
             /\ call'[d].more = call[d].more /\ call'[d].at = call[d].at
             /\ call'[d].count = call[d].count /\ call'[d].reply = call[d].reply
             /\ call'[d].owed = call[d].owed \ Gone /\ call'[d].kept \subseteq call[d].kept \ Gone
             /\ ~call'[d].met => ~call[d].met /\ ~(Underway(d) /\ Writes(d) /\ on(call[d].on))
  <2>s. PICK s : s = Stirs(cmd, d)
    BY Zenon
  <2>1. /\ s \in CallRecords /\ s.do = call[d].do /\ s.on = call[d].on /\ s.todo = call[d].todo
        /\ s.reply = call[d].reply /\ s.met = call[d].met /\ s.more = call[d].more /\ s.at = call[d].at
        /\ s.count = call[d].count /\ s.owed = call[d].owed \ Gone /\ s.kept \subseteq call[d].kept \ Gone
    BY <1>2, <2>s, Stirred DEF Gone
  <2>2. s.met \in BOOLEAN
    BY <2>1 DEF CallRecords
  <2>v. PICK v \in BOOLEAN : v <=> s.met \/ (Underway(d) /\ Writes(d) /\ on(call[d].on))
    OBVIOUS
  <2>3. (s.met \/ (Underway(d) /\ Writes(d) /\ on(call[d].on))) = v
    BY <2>v, <2>2, Zenon
  <2>4. call'[d] = [s EXCEPT !.met = v]
    <3>1. call'[d] = [s EXCEPT !.met = @ \/ (Underway(d) /\ Writes(d) /\ on(call[d].on))]
      BY <1>1, <2>s
    <3>2. [s EXCEPT !.met = @ \/ (Underway(d) /\ Writes(d) /\ on(call[d].on))] = [s EXCEPT !.met = v]
      BY <2>1, <2>3 DEF CallRecords
    <3>3. QED
      BY <3>1, <3>2
  <2>r. PICK r : r = [s EXCEPT !.met = v]
    BY Zenon
  <2>5. /\ r \in CallRecords /\ r.do = s.do /\ r.on = s.on /\ r.todo = s.todo
        /\ r.reply = s.reply /\ r.met = v /\ r.more = s.more /\ r.at = s.at
        /\ r.count = s.count /\ r.owed = s.owed /\ r.kept = s.kept
    BY <2>1, <2>v, <2>r DEF CallRecords
  <2>6. call'[d] = r
    BY <2>4, <2>r
  <2>7. QED
    BY <2>1, <2>5, <2>6, <2>v
<1>5. call' \in [Clients -> CallRecords]
  BY <1>1, <1>4
<1>6. RemoteTypeOK'
  <2>1. torn' \in [States -> BOOLEAN]
    BY <1>1
  <2>2. QED
    BY <1>1, <1>2, <1>5, <2>1, StoredKeys DEF RemoteTypeOK
<1>7. PlanInv'
  <2>1. ASSUME NEW d \in Clients
        PROVE  Plan(d)'
    <3>1. Plan(d)
      BY <1>2 DEF PlanInv
    <3>2. Left(call[d].do, call[d].on)' = Left(call[d].do, call[d].on)
      BY <1>1, <1>4 DEF Left
    <3>3. QED
      BY <1>1, <1>2, <1>4, <3>1, <3>2 DEF Plan, Writes
  <2>2. QED
    BY <1>1, <1>2, <2>1 DEF PlanInv
<1>8. ProgressInv'
  <2> SUFFICES ASSUME server # "postgres", NEW d \in Clients, Unmet(d)', NEW y, y = call'[d].on, Alone(y)
               PROVE  /\ First(d)' => (LoadRedis(y)' <=> call'[d].do = "save")
                      /\ Second(d)' => (ListRedis(y)' <=> call'[d].do = "save")
    BY <1>1, Zenon DEF ProgressInv, LoadRedis, ListRedis, Alone
  <2>1. Underway(d) /\ Writes(d) /\ y = call[d].on /\ ~call[d].met /\ ~on(y) /\ Others(d, y)' = {}
    BY <1>4 DEF Unmet, Underway, Writes
  <2>2. Others(d, y)' = Others(d, y)
    BY <1>4 DEF Others, Underway, Writes
  <2>3. Unmet(d) /\ y \in States
    BY <1>2, <2>1, <2>2 DEF Unmet, PlanInv, Plan, Underway, Writes
  <2>4. /\ First(d) => (LoadRedis(y) <=> call[d].do = "save")
        /\ Second(d) => (ListRedis(y) <=> call[d].do = "save")
    BY <1>2, <2>1, <2>3 DEF ProgressInv
  <2>5. (LoadRedis(y)' <=> LoadRedis(y)) /\ (ListRedis(y)' <=> ListRedis(y))
    BY <1>1, <1>2, <1>3, <2>1, <2>3, Undisturbed
  <2>6. (First(d)' <=> First(d)) /\ (Second(d)' <=> Second(d))
    BY <1>4 DEF First, Second
  <2>7. QED
    BY <1>4, <2>4, <2>5, <2>6
<1>9. StatesAgree'
  <2> SUFFICES ASSUME NEW y \in States, Alone(y), ~torn'[y],
                      ~(\E d \in Clients : Underway(d) /\ Writes(d) /\ call[d].on = y)'
               PROVE  Loads(y)' <=> Lists(y)'
    BY DEF StatesAgree, Alone
  <2>1. ~torn[y] /\ ~on(y) /\ ~(\E d \in Clients : Underway(d) /\ Writes(d) /\ call[d].on = y)
    BY <1>1, <1>4 DEF Underway, Writes
  <2>2. Loads(y) <=> Lists(y)
    BY <1>2, <2>1 DEF StatesAgree
  <2>3. cmd \notin StateCmds(y)
    BY <1>3, <2>1
  <2>4. QED
    BY <1>1, <1>2, <1>6, <2>2, <2>3, StaysAgreed
<1>10. ScanInv'
  BY <1>1, <1>2, <1>4, <1>5, ScanStep
<1>11. QED
  BY <1>6, <1>7, <1>8, <1>9, <1>10 DEF RemoteInv

LEMMA ConnectStep ==
  ASSUME RemoteInv, Connect
  PROVE  RemoteInv'
<1>1. /\ server = "none" /\ server' \in {"single", "cluster", "postgres"}
      /\ UNCHANGED <<strings, members, call, late, torn>>
  BY DEF Connect, ConnectRedisState, ConnectRedisCache, ConnectPostgres
<1>2. /\ RemoteTypeOK /\ ScanInv /\ DOMAIN strings = {} /\ DOMAIN members = {} /\ late = {}
      /\ \A c \in Clients : call[c].at = "idle" /\ call[c].todo = <<>> /\ call[c].reply = "none"
  BY <1>1 DEF RemoteInv, PlanInv, Plan
<1>3. RemoteTypeOK'
  BY <1>1, <1>2 DEF RemoteTypeOK
<1>4. PlanInv'
  BY <1>1, <1>2 DEF PlanInv, Plan
<1>5. \A d \in Clients : ~Unmet(d)'
  BY <1>1, <1>2 DEF Unmet, Underway
<1>6. ProgressInv'
  BY <1>5 DEF ProgressInv
<1>7. StatesAgree'
  <2> SUFFICES ASSUME NEW y \in States
               PROVE  Loads(y)' <=> Lists(y)'
    BY Zenon DEF StatesAgree
  <2>1. QED
    BY <1>1, <1>2 DEF Loads, Lists, LoadRedis, ListRedis, LoadPostgres, ListPostgres
<1>8. ScanInv'
  <2>1. \A d \in Clients : call'[d].kept \subseteq Stored' /\ call'[d].at \notin {"open", "done"}
    BY <1>1, <1>2 DEF ScanInv, Stored
  <2>2. QED
    BY <2>1 DEF ScanInv
<1>9. QED
  BY <1>3, <1>4, <1>6, <1>7, <1>8 DEF RemoteInv

LEMMA InitRemoteInv == RemoteInit => RemoteInv
<1> SUFFICES ASSUME RemoteInit
             PROVE  RemoteInv
  OBVIOUS
<1>1. /\ server = "none" /\ strings = <<>> /\ members = <<>> /\ late = {}
      /\ call = [c \in Clients |-> NoCall] /\ torn = [x \in States |-> FALSE]
  BY DEF RemoteInit
<1>2. DOMAIN strings = {} /\ DOMAIN members = {}
  BY <1>1
<1>3. NoCall \in CallRecords
  <2>1. <<>> \in Seq(Cmds)
    OBVIOUS
  <2>2. QED
    BY <2>1 DEF NoCall, CallRecords, Dos, Ons
<1>4. RemoteTypeOK
  <2>1. IsFiniteSet({})
    BY FS_EmptySet
  <2>2. QED
    BY <1>1, <1>2, <1>3, <2>1 DEF RemoteTypeOK
<1>5. \A c \in Clients : call[c] = NoCall
  BY <1>1
<1>6. PlanInv
  BY <1>1, <1>2, <1>5 DEF PlanInv, Plan, NoCall
<1>7. ProgressInv
  BY <1>5 DEF ProgressInv, Unmet, Underway, NoCall
<1>8. StatesAgree
  BY <1>1, <1>2 DEF StatesAgree, Loads, Lists, LoadRedis, ListRedis
<1>9. ScanInv
  BY <1>5 DEF ScanInv, NoCall
<1>10. QED
  BY <1>4, <1>6, <1>7, <1>8, <1>9 DEF RemoteInv

LEMMA NextRemoteInv == RemoteInv /\ [RemoteNext]_remoteVars => RemoteInv'
<1> SUFFICES ASSUME RemoteInv, [RemoteNext]_remoteVars
             PROVE  RemoteInv'
  OBVIOUS
<1>1. CASE Connect
  BY <1>1, ConnectStep
<1>2. ASSUME NEW c \in Clients,
             \/ \E x \in States : BeginWrite(c, "save", x) \/ BeginWrite(c, "delete", x)
             \/ \E k \in Items : BeginCache(c, "set", k) \/ BeginCache(c, "unset", k)
             \/ BeginScan(c, "clear") \/ BeginScan(c, "count")
      PROVE  RemoteInv'
  BY <1>2, BeginsStep
<1>3. ASSUME NEW c \in Clients, Perform(c) \/ Answered(c) \/ Fail(c)
      PROVE  RemoteInv'
  BY <1>3, PerformStep, AnsweredStep, FailStep
<1>4. ASSUME NEW c \in Clients, NEW more \in BOOLEAN, NEW shown \in SUBSET Matching(call[c].do),
             ClearPage(c, shown, more) \/ CountPage(c, shown, more)
      PROVE  RemoteInv'
  BY <1>4, PagesStep
<1>5. ASSUME NEW cmd \in late, Straggles(cmd)
      PROVE  RemoteInv'
  BY <1>5, StragglesStep
<1>6. CASE UNCHANGED remoteVars
  <2>1. UNCHANGED <<server, strings, members, call, late, torn>>
    BY <1>6 DEF remoteVars
  <2>2. RemoteTypeOK'
    BY <2>1 DEF RemoteInv, RemoteTypeOK
  <2>3. PlanInv'
    BY <2>1 DEF RemoteInv, PlanInv, Plan, Writes, Left
  <2>4. ProgressInv'
    BY <2>1 DEF RemoteInv, ProgressInv, Unmet, Underway, Writes, Others, First, Second, LoadRedis, ListRedis
  <2>5. StatesAgree'
    BY <2>1 DEF RemoteInv, StatesAgree, Underway, Writes, Loads, Lists, LoadRedis, ListRedis,
                LoadPostgres, ListPostgres
  <2>6. ScanInv'
    BY <2>1 DEF RemoteInv, ScanInv, Stored, Pending
  <2>7. QED
    BY <2>2, <2>3, <2>4, <2>5, <2>6 DEF RemoteInv
<1>7. QED
  BY <1>1, <1>2, <1>3, <1>4, <1>5, <1>6 DEF RemoteNext

(* What the invariant says of scans that have ended. *)
LEMMA ScansEnd == RemoteInv => RemoteAgrees
<1> SUFFICES ASSUME RemoteInv
             PROVE  RemoteAgrees
  OBVIOUS
<1>1. RemoteTypeOK /\ PlanInv /\ StatesAgree /\ ScanInv
  BY DEF RemoteInv
<1>2. ASSUME NEW c \in Clients, call[c].at = "done", server = "single"
      PROVE  /\ call[c].do = "clear" => call[c].kept \cap Stored = {}
             /\ call[c].do = "count" =>
                  call[c].count >= Cardinality({k \in call[c].kept : ~LooksLikeList(k)})
  <2>1. Pending(c) = {} /\ ~call[c].more
    BY <1>1, <1>2 DEF PlanInv, Plan, Pending
  <2>2. call[c].do = "clear" => call[c].kept = {}
    BY <1>1, <1>2, <2>1 DEF ScanInv
  <2>3. call[c].do = "count" => call[c].owed = {}
    BY <1>1, <1>2, <2>1 DEF ScanInv
  <2>4. call[c].owed = {} => {k \in call[c].kept \ call[c].owed : ~LooksLikeList(k)}
                             = {k \in call[c].kept : ~LooksLikeList(k)}
    OBVIOUS
  <2>5. QED
    BY <1>1, <1>2, <2>2, <2>3, <2>4 DEF ScanInv
<1>3. QED
  BY <1>1, <1>2 DEF RemoteAgrees, ScansAreDone

(* Whatever clients there are, whatever states and keys they write, however  *)
(* many pages a scan takes: what List shows and what Load finds agree once a *)
(* Save or Delete has succeeded that met none of the other kind, and Clear   *)
(* and Count on a single server have dealt with every key that was there    *)
(* all the time.                                                            *)
THEOREM RemoteCorrect == RemoteSpec => []RemoteAgrees
<1>1. RemoteInit => RemoteInv
  BY InitRemoteInv
<1>2. RemoteInv /\ [RemoteNext]_remoteVars => RemoteInv'
  BY NextRemoteInv
<1>3. RemoteInv => RemoteAgrees
  BY ScansEnd
<1>4. QED
  BY <1>1, <1>2, <1>3, PTL DEF RemoteSpec

-----------------------------------------------------------------------------
(* The memory manager.  An ID in working memory is one of this process, and *)
(* one in the vector store is the last one's that wrote it; who recalls     *)
(* owes a count to the entries that it has not counted yet.                 *)
Tiers     == {"working", "short", "long"}
Memories  == Nat \X Nat
Matches   == [what : Memories, id : Nat, embedded : {FALSE}]
ReaderRecords == [at : {"idle", "recalled", "counting", "found"}, then : {"idle", "found"},
                  todo : SUBSET Nat, one : Nat, seen : Nat,
                  target : {<<>>} \cup Matches, calls : Nat]
WrittenBy(m, p, c) == m[1] <= p /\ (m[1] = p => m[2] <= c)

MemTypeOK ==
  /\ process \in Nat \ {0} /\ counter \in Nat
  /\ DOMAIN working \subseteq 1 .. counter
  /\ \A i \in DOMAIN working :
       /\ working[i] \in [what : Memories, embedded : BOOLEAN, tier : Tiers, count : Nat]
       /\ working[i].what = Me(i)
  /\ DOMAIN vectors \subseteq Nat
  /\ \A i \in DOMAIN vectors :
       /\ vectors[i] \in [what : Memories, tier : Tiers]
       /\ vectors[i].what[2] = i /\ WrittenBy(vectors[i].what, process, counter)
  /\ DOMAIN fate \subseteq Memories /\ \A m \in DOMAIN fate : WrittenBy(m, process, counter)
  /\ DOMAIN working \subseteq DOMAIN recalls
  /\ \A i \in DOMAIN recalls : recalls[i] \in Nat
  /\ reader \in [Readers -> ReaderRecords]
  /\ stopped \in BOOLEAN

(* What a reader has to do is in working memory while it holds the lock, and *)
(* what Promote found came without an embedding.                            *)
ReaderInv ==
  \A r \in Readers :
    /\ reader[r].at \notin {"recalled", "counting"} => reader[r].todo = {}
    /\ reader[r].todo \subseteq DOMAIN working
    /\ reader[r].at = "found" \/ reader[r].then = "found" => reader[r].target \in Matches
    /\ reader[r].at = "counting" =>
         /\ reader[r].one \in DOMAIN working \ reader[r].todo
         /\ reader[r].one \notin clashed =>
              /\ reader[r].seen = working[reader[r].one].count
              /\ \A q \in Readers \ {r} : ~(reader[q].at = "counting" /\ reader[q].one = reader[r].one)

Owes(q, i) == i \in reader[q].todo \/ (reader[q].at = "counting" /\ reader[q].one = i)
Owing(i)   == {q \in Readers : Owes(q, i)}

CountInv ==
  \A i \in DOMAIN working \ clashed : working[i].count + Cardinality(Owing(i)) = recalls[i]

MemInv == MemTypeOK /\ MemoriesStay /\ CapacityHolds /\ ReaderInv /\ CountInv

(* Where a memory is. *)
LEMMA Whereabouts ==
  ASSUME MemTypeOK, NEW m \in Memories
  PROVE  /\ Has(working, m) <=> m[1] = process /\ m[2] \in DOMAIN working
         /\ Has(vectors, m) <=> m[2] \in DOMAIN vectors /\ vectors[m[2]].what = m
<1>1. m = <<m[1], m[2]>>
  BY DEF Memories
<1>2. \A i : Me(i)[1] = process /\ Me(i)[2] = i
  BY DEF Me
<1>3. ASSUME NEW i \in DOMAIN working, working[i].what = m
      PROVE  m[1] = process /\ m[2] \in DOMAIN working
  BY <1>2, <1>3 DEF MemTypeOK
<1>4. ASSUME m[1] = process, m[2] \in DOMAIN working
      PROVE  working[m[2]].what = m
  BY <1>1, <1>4 DEF MemTypeOK, Me
<1>5. ASSUME NEW i \in DOMAIN vectors, vectors[i].what = m
      PROVE  m[2] = i
  BY <1>5 DEF MemTypeOK
<1>6. QED
  BY <1>3, <1>4, <1>5 DEF Has

(* The same of the next state. *)
LEMMA NextWhereabouts ==
  MemTypeOK' => \A m \in Memories :
     /\ Has(working', m) <=> m[1] = process' /\ m[2] \in DOMAIN working'
     /\ Has(vectors', m) <=> m[2] \in DOMAIN vectors' /\ vectors'[m[2]].what = m
<1>1. MemTypeOK => \A m \in Memories :
     /\ Has(working, m) <=> m[1] = process /\ m[2] \in DOMAIN working
     /\ Has(vectors, m) <=> m[2] \in DOMAIN vectors /\ vectors[m[2]].what = m
  BY Whereabouts
<1>2. (MemTypeOK => \A m \in Memories :
     /\ Has(working, m) <=> m[1] = process /\ m[2] \in DOMAIN working
     /\ Has(vectors, m) <=> m[2] \in DOMAIN vectors /\ vectors[m[2]].what = m)'
  BY <1>1, PTL
<1>3. QED
  BY <1>2

LEMMA WorkingFinite ==
  ASSUME MemTypeOK
  PROVE  IsFiniteSet(DOMAIN working) /\ Cardinality(DOMAIN working) \in Nat
<1>1. IsFiniteSet(1 .. counter)
  BY FS_Interval DEF MemTypeOK
<1>2. QED
  BY <1>1, FS_Subset, FS_CardinalityType DEF MemTypeOK

LEMMA NobodyReads ==
  ASSUME MemTypeOK, ReaderInv, Unlocked
  PROVE  \A r \in Readers : reader[r].todo = {} /\ reader[r].at # "counting"
  BY DEF ReaderInv, Unlocked, Reading

LEMMA NobodyOwes ==
  ASSUME MemTypeOK, ReaderInv, Unlocked, NEW i
  PROVE  Owing(i) = {} /\ Cardinality(Owing(i)) = 0
<1>1. Owing(i) = {}
  BY NobodyReads DEF Owing, Owes
<1>2. QED
  BY <1>1, FS_EmptySet

LEMMA Least ==
  ASSUME NEW a \in Nat, NEW b \in Nat
  PROVE  Min({a, b}) = IF a <= b THEN a ELSE b
<1>1. \E x \in {a, b} : \A y \in {a, b} : x =< y
  OBVIOUS
<1>2. Min({a, b}) \in {a, b} /\ \A y \in {a, b} : Min({a, b}) =< y
  BY <1>1 DEF Min
<1>3. QED
  BY <1>2

(* What Store does to working memory and to the vector store: some entries  *)
(* have moved, and of those that have not at most some are in both.         *)
Consolidated(w, moved, put) ==
  /\ moved \subseteq put /\ put \subseteq DOMAIN w
  /\ DOMAIN working' = DOMAIN w \ moved
  /\ \A i \in DOMAIN working' :
       /\ working'[i] \in [what : Memories, embedded : BOOLEAN, tier : Tiers, count : Nat]
       /\ working'[i].what = w[i].what /\ working'[i].embedded = w[i].embedded
       /\ working'[i].count = w[i].count
       /\ working'[i].tier = w[i].tier \/ working'[i].tier = "short"
       /\ i \in put => working'[i].tier = "short"
  /\ DOMAIN vectors' = DOMAIN vectors \cup put
  /\ \A i \in DOMAIN vectors' :
       vectors'[i] = IF i \in put THEN [what |-> w[i].what, tier |-> "short"] ELSE vectors[i]

LEMMA Consolidates ==
  ASSUME NEW w, IsFiniteSet(DOMAIN w), Cardinality(DOMAIN w) > Capacity,
         \A i \in DOMAIN w : w[i] \in [what : Memories, embedded : BOOLEAN, tier : Tiers, count : Nat],
         ConsolidateWorking(w)
  PROVE  /\ \E moved, put \in SUBSET DOMAIN w : Consolidated(w, moved, put)
         /\ stopped' \in BOOLEAN
         /\ Cardinality(DOMAIN working') > Capacity /\ ~stopped' =>
              \A i \in DOMAIN working' : ~working'[i].embedded
<1> DEFINE movable == {i \in DOMAIN w : w[i].embedded}
           toMove  == Min({Cardinality(DOMAIN w) - Capacity, Cardinality(movable)})
<1>1. PICK moved, failed \in SUBSET movable, executed \in BOOLEAN :
       /\ moved \intersect failed = {} /\ Cardinality(failed) <= 1
       /\ IF failed = {} THEN Cardinality(moved) = toMove /\ executed
                         ELSE Cardinality(moved) < toMove
       /\ working' = [i \in DOMAIN w \ moved |->
                        IF i \in failed THEN [w[i] EXCEPT !.tier = "short"] ELSE w[i]]
       /\ vectors' = Upserted(Short(w, IF executed THEN moved \union failed ELSE moved))
       /\ stopped' = (failed # {})
  BY Zenon DEF ConsolidateWorking
<1>2. DOMAIN working' = DOMAIN w \ moved
  BY <1>1
<1>3. \A i \in DOMAIN working' :
        /\ working'[i] \in [what : Memories, embedded : BOOLEAN, tier : Tiers, count : Nat]
        /\ working'[i].what = w[i].what /\ working'[i].embedded = w[i].embedded
        /\ working'[i].count = w[i].count
        /\ working'[i].tier = IF i \in failed THEN "short" ELSE w[i].tier
  BY <1>1, <1>2 DEF Tiers
<1>a. moved \subseteq DOMAIN w /\ failed \subseteq DOMAIN w
  BY <1>1
<1>4. \E put \in SUBSET DOMAIN w : Consolidated(w, moved, put)
  <2>1. CASE executed
    <3>1. vectors' = Upserted(Short(w, moved \union failed))
      BY <1>1, <2>1
    <3>a. /\ DOMAIN vectors' = DOMAIN vectors \cup (moved \union failed)
          /\ \A i \in DOMAIN vectors' :
               vectors'[i] = IF i \in (moved \union failed) THEN [what |-> w[i].what, tier |-> "short"] ELSE vectors[i]
      BY <3>1 DEF Upserted, Short
    <3>b. \A i \in DOMAIN working' : i \in (moved \union failed) => working'[i].tier = "short"
      BY <1>2, <1>3, <1>a
    <3>2. Consolidated(w, moved, moved \union failed)
      BY <1>2, <1>3, <1>a, <3>a, <3>b DEF Consolidated
    <3>3. QED
      BY <3>2, <1>a
  <2>2. CASE ~executed
    <3>1. vectors' = Upserted(Short(w, moved))
      BY <1>1, <2>2
    <3>a. /\ DOMAIN vectors' = DOMAIN vectors \cup (moved)
          /\ \A i \in DOMAIN vectors' :
               vectors'[i] = IF i \in moved THEN [what |-> w[i].what, tier |-> "short"] ELSE vectors[i]
      BY <3>1 DEF Upserted, Short
    <3>b. \A i \in DOMAIN working' : i \in moved => working'[i].tier = "short"
      BY <1>2, <1>3, <1>a
    <3>2. Consolidated(w, moved, moved)
      BY <1>2, <1>3, <1>a, <3>a, <3>b DEF Consolidated
    <3>3. QED
      BY <3>2, <1>a
  <2>3. QED
    BY <2>1, <2>2
<1>5. ASSUME Cardinality(DOMAIN working') > Capacity, ~stopped'
      PROVE  \A i \in DOMAIN working' : ~working'[i].embedded
  <2>1. failed = {}
    BY <1>1, <1>5
  <2>2. Cardinality(moved) = toMove
    BY <1>1, <2>1
  <2>3. IsFiniteSet(movable) /\ IsFiniteSet(moved) /\ Cardinality(movable) \in Nat /\ Cardinality(moved) \in Nat
    BY <1>1, FS_Subset, FS_CardinalityType
  <2>4. moved \subseteq DOMAIN w /\ Cardinality(DOMAIN w) \in Nat
    BY <1>1, FS_CardinalityType
  <2>5. Cardinality(DOMAIN w \ moved) = Cardinality(DOMAIN w) - Cardinality(moved)
    <3>1. DOMAIN w \cap moved = moved
      BY <2>4
    <3>2. QED
      BY <2>3, <2>4, <3>1, FS_Difference
  <2>6. Cardinality(DOMAIN w) - Capacity \in Nat
    BY <2>4, MMAssumption
  <2>7. Cardinality(moved) = Cardinality(movable)
    BY <1>2, <1>5, <2>2, <2>3, <2>4, <2>5, <2>6, Least, MMAssumption
  <2>8. moved = movable
    BY <1>1, <2>3, <2>7, FS_Subset
  <2>9. QED
    BY <1>2, <1>3, <2>8
<1>6. stopped' \in BOOLEAN
  BY <1>1
<1>7. QED
  BY <1>1, <1>4, <1>5, <1>6

(* What a Store does, whether it consolidates or not. *)
LEMMA Stores ==
  ASSUME MemInv, NEW e \in BOOLEAN, StoreMemory(e)
  PROVE  LET w == With(working, counter + 1, Entry(e))
         IN /\ DOMAIN w = DOMAIN working \cup {counter + 1}
            /\ \A i \in DOMAIN working : w[i] = working[i]
            /\ w[counter + 1] = Entry(e)
            /\ Entry(e) \in [what : Memories, embedded : BOOLEAN, tier : Tiers, count : Nat]
            /\ \A i \in DOMAIN w : w[i] \in [what : Memories, embedded : BOOLEAN, tier : Tiers, count : Nat]
            /\ \E moved, put \in SUBSET DOMAIN w : Consolidated(w, moved, put)
            /\ stopped' \in BOOLEAN
            /\ Cardinality(DOMAIN working') > Capacity /\ ~stopped' =>
                 \A i \in DOMAIN working' : ~working'[i].embedded
<1> DEFINE w == With(working, counter + 1, Entry(e))
<1>a. counter \in Nat /\ process \in Nat /\ counter + 1 \notin DOMAIN working
  BY DEF MemInv, MemTypeOK
<1>1. DOMAIN w = DOMAIN working \cup {counter + 1}
  BY DEF With
<1>2. w[counter + 1] = Entry(e) /\ \A i \in DOMAIN working : w[i] = working[i]
  BY <1>a DEF With
<1>3. Entry(e) \in [what : Memories, embedded : BOOLEAN, tier : Tiers, count : Nat]
  BY <1>a DEF Entry, Me, Memories, Tiers
<1>4. \A i \in DOMAIN w : w[i] \in [what : Memories, embedded : BOOLEAN, tier : Tiers, count : Nat]
  BY <1>1, <1>2, <1>3 DEF MemInv, MemTypeOK
<1>5. IsFiniteSet(DOMAIN w)
  BY <1>1, WorkingFinite, FS_AddElement DEF MemInv
<1>6. CASE Cardinality(DOMAIN w) > Capacity
  <2>1. ConsolidateWorking(w)
    BY <1>6 DEF StoreMemory
  <2>2. QED
    BY <1>1, <1>2, <1>3, <1>4, <1>5, <1>6, <2>1, Consolidates
<1>7. CASE ~(Cardinality(DOMAIN w) > Capacity)
  <2>1. working' = w /\ vectors' = vectors /\ stopped' = stopped
    BY <1>7 DEF StoreMemory
  <2>2. Consolidated(w, {}, {})
    BY <1>4, <2>1 DEF Consolidated
  <2>4. QED
    BY <1>1, <1>2, <1>3, <1>4, <1>7, <2>1, <2>2 DEF MemInv, MemTypeOK
<1>8. QED
  BY <1>6, <1>7

(* The consequences of a Store for what is where; id is the new memory's.   *)
LEMMA Placed ==
  ASSUME MemInv, NEW e \in BOOLEAN, StoreMemory(e)
  PROVE  /\ process' = process /\ counter' = counter + 1 /\ reader' = reader /\ clashed' = clashed
         /\ MemTypeOK'
         /\ \A i \in DOMAIN working' : i \in DOMAIN working =>
              /\ working'[i].count = working[i].count
              /\ working'[i].tier = working[i].tier \/ working'[i].tier = "short"
         /\ \A i \in DOMAIN working' : i \notin DOMAIN working =>
              i = counter + 1 /\ working'[i].count = 0
         /\ DOMAIN vectors \subseteq DOMAIN vectors'
         /\ \A i \in DOMAIN vectors' :
              \/ vectors'[i].what = Me(i) /\ i \in DOMAIN working \cup {counter + 1}
                 /\ (i \in DOMAIN working' => working'[i].tier = "short")
              \/ i \in DOMAIN vectors /\ vectors'[i] = vectors[i]
         /\ \A i \in DOMAIN working \cup {counter + 1} :
              i \in DOMAIN working' \/ (i \in DOMAIN vectors' /\ vectors'[i].what = Me(i))
<1> DEFINE w == With(working, counter + 1, Entry(e))
<1>a. /\ DOMAIN w = DOMAIN working \cup {counter + 1}
      /\ \A i \in DOMAIN working : w[i] = working[i]
      /\ w[counter + 1] = Entry(e)
      /\ Entry(e) \in [what : Memories, embedded : BOOLEAN, tier : Tiers, count : Nat]
      /\ \A i \in DOMAIN w : w[i] \in [what : Memories, embedded : BOOLEAN, tier : Tiers, count : Nat]
      /\ \E moved, put \in SUBSET DOMAIN w : Consolidated(w, moved, put)
      /\ stopped' \in BOOLEAN
  BY Stores
<1>b. PICK moved, put \in SUBSET DOMAIN w : Consolidated(w, moved, put)
  BY <1>a
<1>c. /\ process' = process /\ counter' = counter + 1 /\ reader' = reader /\ clashed' = clashed
      /\ DOMAIN fate' = DOMAIN fate \cup {Me(counter + 1)}
      /\ recalls' = With(recalls, counter + 1, 0)
  BY DEF StoreMemory
<1>d. /\ moved \subseteq put /\ put \subseteq DOMAIN w
      /\ DOMAIN working' = DOMAIN w \ moved
      /\ \A i \in DOMAIN working' :
           /\ working'[i] \in [what : Memories, embedded : BOOLEAN, tier : Tiers, count : Nat]
           /\ working'[i].what = w[i].what
           /\ working'[i].count = w[i].count
           /\ working'[i].tier = w[i].tier \/ working'[i].tier = "short"
           /\ i \in put => working'[i].tier = "short"
      /\ DOMAIN vectors' = DOMAIN vectors \cup put
      /\ \A i \in DOMAIN vectors' :
           vectors'[i] = IF i \in put THEN [what |-> w[i].what, tier |-> "short"] ELSE vectors[i]
  BY <1>b DEF Consolidated
<1>e. counter \in Nat /\ process \in Nat \ {0} /\ counter + 1 \notin DOMAIN working
      /\ DOMAIN working \subseteq 1 .. counter
  BY DEF MemInv, MemTypeOK
<1>f. \A i \in DOMAIN w : i \in 1 .. counter + 1 /\ w[i].what = <<process, i>>
  BY <1>a, <1>e DEF MemInv, MemTypeOK, Me, Entry
<1>g. \A i \in DOMAIN vectors' :
        \/ i \in put /\ vectors'[i].what = <<process, i>> /\ vectors'[i].tier = "short"
           /\ vectors'[i] \in [what : Memories, tier : Tiers]
        \/ i \notin put /\ i \in DOMAIN vectors /\ vectors'[i] = vectors[i]
  <2>1. ASSUME NEW i \in DOMAIN vectors', i \in put
        PROVE  /\ vectors'[i].what = <<process, i>> /\ vectors'[i].tier = "short"
               /\ vectors'[i] \in [what : Memories, tier : Tiers]
    <3>1. vectors'[i] = [what |-> w[i].what, tier |-> "short"] /\ i \in DOMAIN w
      BY <2>1, <1>d
    <3>2. w[i].what \in Memories /\ w[i].what = <<process, i>>
      BY <3>1, <1>a, <1>f
    <3>3. QED
      BY <3>1, <3>2 DEF Tiers
  <2>2. QED
    BY <2>1, <1>d
<1>1. MemTypeOK'
  <2>1. process' \in Nat \ {0} /\ counter' \in Nat /\ DOMAIN working' \subseteq 1 .. counter'
    BY <1>a, <1>c, <1>d, <1>e, <1>f
  <2>2. \A i \in DOMAIN working' :
          /\ working'[i] \in [what : Memories, embedded : BOOLEAN, tier : Tiers, count : Nat]
          /\ working'[i].what = Me(i)'
    BY <1>c, <1>d, <1>f DEF Me
  <2>3. /\ DOMAIN vectors' \subseteq Nat
        /\ \A i \in DOMAIN vectors' :
             /\ vectors'[i] \in [what : Memories, tier : Tiers]
             /\ vectors'[i].what[2] = i /\ WrittenBy(vectors'[i].what, process', counter')
    <3>1. ASSUME NEW i \in DOMAIN vectors', i \in put
          PROVE  /\ i \in Nat /\ vectors'[i] \in [what : Memories, tier : Tiers]
                 /\ vectors'[i].what[2] = i /\ WrittenBy(vectors'[i].what, process', counter')
      <4>1. vectors'[i].what = <<process, i>> /\ i \in 1 .. counter + 1
        BY <3>1, <1>f, <1>g
      <4>2. QED
        BY <3>1, <4>1, <1>c, <1>e, <1>g DEF WrittenBy
    <3>2. ASSUME NEW i \in DOMAIN vectors', i \notin put
          PROVE  /\ i \in Nat /\ vectors'[i] \in [what : Memories, tier : Tiers]
                 /\ vectors'[i].what[2] = i /\ WrittenBy(vectors'[i].what, process', counter')
      <4>1. i \in DOMAIN vectors /\ vectors'[i] = vectors[i]
        BY <3>2, <1>g
      <4>2. i \in Nat /\ vectors[i] \in [what : Memories, tier : Tiers] /\ vectors[i].what[2] = i
            /\ WrittenBy(vectors[i].what, process, counter)
        BY <4>1 DEF MemInv, MemTypeOK
      <4>3. vectors[i].what[1] \in Nat
        BY <4>2 DEF Memories
      <4>4. QED
        BY <4>1, <4>2, <4>3, <1>c, <1>e DEF WrittenBy
    <3>3. QED
      BY <3>1, <3>2
  <2>4. DOMAIN fate' \subseteq Memories /\ \A m \in DOMAIN fate' : WrittenBy(m, process', counter')
    <3>1. Me(counter + 1) \in Memories /\ WrittenBy(Me(counter + 1), process', counter')
      BY <1>c, <1>e DEF Me, Memories, WrittenBy
    <3>2. \A m \in DOMAIN fate : m \in Memories /\ WrittenBy(m, process', counter')
      BY <1>c, <1>e DEF MemInv, MemTypeOK, WrittenBy, Memories
    <3>3. QED
      BY <3>1, <3>2, <1>c
  <2>5. DOMAIN working' \subseteq DOMAIN recalls' /\ \A i \in DOMAIN recalls' : recalls'[i] \in Nat
    BY <1>a, <1>c, <1>d DEF With, MemInv, MemTypeOK
  <2>6. QED
    BY <1>a, <1>c, <2>1, <2>2, <2>3, <2>4, <2>5 DEF MemInv, MemTypeOK
<1>2. \A i \in DOMAIN working' :
        /\ i \in DOMAIN working =>
             /\ working'[i].count = working[i].count
             /\ working'[i].tier = working[i].tier \/ working'[i].tier = "short"
        /\ i \notin DOMAIN working => i = counter + 1 /\ working'[i].count = 0
  BY <1>a, <1>d DEF Entry
<1>3. DOMAIN vectors \subseteq DOMAIN vectors'
  BY <1>d
<1>4. \A i \in DOMAIN vectors' :
         \/ vectors'[i].what = Me(i) /\ i \in DOMAIN working \cup {counter + 1}
            /\ (i \in DOMAIN working' => working'[i].tier = "short")
         \/ i \in DOMAIN vectors /\ vectors'[i] = vectors[i]
  BY <1>a, <1>d, <1>g DEF Me
<1>5. \A i \in DOMAIN working \cup {counter + 1} :
         i \in DOMAIN working' \/ (i \in DOMAIN vectors' /\ vectors'[i].what = Me(i))
  BY <1>a, <1>d, <1>f, <1>g DEF Me
<1>6. QED
  BY <1>1, <1>2, <1>3, <1>4, <1>5, <1>c

LEMMA StoreStep ==
  ASSUME MemInv, NEW e \in BOOLEAN, StoreMemory(e)
  PROVE  MemInv'
<1>1. /\ process' = process /\ counter' = counter + 1 /\ reader' = reader /\ clashed' = clashed
      /\ MemTypeOK'
      /\ \A i \in DOMAIN working' : i \in DOMAIN working =>
           /\ working'[i].count = working[i].count
           /\ working'[i].tier = working[i].tier \/ working'[i].tier = "short"
      /\ \A i \in DOMAIN working' : i \notin DOMAIN working =>
           i = counter + 1 /\ working'[i].count = 0
      /\ DOMAIN vectors \subseteq DOMAIN vectors'
      /\ \A i \in DOMAIN vectors' :
           \/ vectors'[i].what = Me(i) /\ i \in DOMAIN working \cup {counter + 1}
              /\ (i \in DOMAIN working' => working'[i].tier = "short")
           \/ i \in DOMAIN vectors /\ vectors'[i] = vectors[i]
      /\ \A i \in DOMAIN working \cup {counter + 1} :
           i \in DOMAIN working' \/ (i \in DOMAIN vectors' /\ vectors'[i].what = Me(i))
  BY Placed
<1>2. MemTypeOK /\ counter \in Nat /\ process \in Nat /\ counter + 1 \notin DOMAIN working
  BY DEF MemInv, MemTypeOK
<1>3. \A m \in Memories :
        /\ Has(working, m) <=> m[1] = process /\ m[2] \in DOMAIN working
        /\ Has(vectors, m) <=> m[2] \in DOMAIN vectors /\ vectors[m[2]].what = m
        /\ Has(working', m) <=> m[1] = process /\ m[2] \in DOMAIN working'
        /\ Has(vectors', m) <=> m[2] \in DOMAIN vectors' /\ vectors'[m[2]].what = m
  BY <1>1, <1>2, Whereabouts, NextWhereabouts
<1>4. MemoriesStay'
  <2> SUFFICES ASSUME NEW m \in DOMAIN fate'
               PROVE  fate'[m] = "kept" <=> Has(working', m) \/ Has(vectors', m)
    BY DEF MemoriesStay
  <2>1. DOMAIN fate' = DOMAIN fate \cup {Me(counter + 1)} /\ m \in Memories
    BY <1>1 DEF StoreMemory, MemTypeOK
  <2>2. fate'[m] = IF m = Me(counter + 1) THEN "kept"
                   ELSE IF fate[m] = "kept" /\ m[1] # process /\ Has(vectors, m) /\ ~Has(vectors', m)
                     THEN "mistaken" ELSE fate[m]
    BY DEF StoreMemory
  <2>3. m = <<m[1], m[2]>>
    BY <2>1 DEF Memories
  <2>4. CASE m = Me(counter + 1)
    <3>1. m[1] = process /\ m[2] = counter + 1
      BY <2>4 DEF Me
    <3>2. QED
      BY <1>1, <1>3, <2>1, <2>2, <2>4, <3>1
  <2>5. CASE m # Me(counter + 1) /\ m[1] = process
    <3>1. m[2] # counter + 1 /\ Me(m[2]) = m
      BY <2>3, <2>5 DEF Me
    <3>2. fate'[m] = fate[m] /\ m \in DOMAIN fate
      BY <2>1, <2>2, <2>5
    <3>3. fate[m] = "kept" <=> Has(working, m) \/ Has(vectors, m)
      BY <3>2 DEF MemInv, MemoriesStay
    <3>4. Has(working, m) => Has(working', m) \/ Has(vectors', m)
      BY <1>1, <1>3, <2>1, <2>5, <3>1
    <3>5. Has(vectors, m) => Has(vectors', m)
      <4>1. SUFFICES ASSUME m[2] \in DOMAIN vectors, vectors[m[2]].what = m
                     PROVE  m[2] \in DOMAIN vectors' /\ vectors'[m[2]].what = m
        BY <1>3, <2>1
      <4>2. m[2] \in DOMAIN vectors'
        BY <1>1, <4>1
      <4>3. vectors'[m[2]].what = Me(m[2]) \/ vectors'[m[2]] = vectors[m[2]]
        BY <1>1, <4>2
      <4>4. QED
        BY <3>1, <4>1, <4>2, <4>3
    <3>6. Has(working', m) => Has(working, m)
      BY <1>1, <1>3, <2>1, <2>5, <3>1
    <3>7. Has(vectors', m) => Has(working, m) \/ Has(vectors, m)
      BY <1>1, <1>3, <2>1, <2>5, <3>1
    <3>8. QED
      BY <3>2, <3>3, <3>4, <3>5, <3>6, <3>7
  <2>6. CASE m[1] # process
    <3>1. m # Me(counter + 1) /\ m \in DOMAIN fate /\ Me(m[2]) # m
      BY <2>1, <2>6 DEF Me
    <3>2. ~Has(working, m) /\ ~Has(working', m)
      BY <1>3, <2>1, <2>6
    <3>3. fate[m] = "kept" <=> Has(vectors, m)
      BY <3>1, <3>2 DEF MemInv, MemoriesStay
    <3>4. Has(vectors', m) => Has(vectors, m)
      BY <1>1, <1>3, <2>1, <3>1
    <3>5. QED
      BY <2>2, <2>6, <3>1, <3>2, <3>3, <3>4
  <2>7. QED
    BY <2>4, <2>5, <2>6
<1>5. CapacityHolds'
  <2>1. Cardinality(DOMAIN working') > Capacity /\ ~stopped' => \A i \in DOMAIN working' : ~working'[i].embedded
    BY Stores
  <2>2. ASSUME NEW i \in DOMAIN working', Has(vectors', working'[i].what)
        PROVE  working'[i].tier = "short"
    <3>1. working'[i].what = Me(i) /\ Me(i) \in Memories /\ Me(i)[2] = i /\ Me(i)[1] = process
      <4>1. working'[i].what = Me(i)' /\ Me(i)' = Me(i)
        BY <1>1 DEF MemTypeOK, Me
      <4>2. i \in Nat
        BY <1>1 DEF MemTypeOK
      <4>3. QED
        BY <4>1, <4>2, <1>2 DEF Me, Memories
    <3>2. i \in DOMAIN vectors' /\ vectors'[i].what = Me(i)
      BY <1>3, <2>2, <3>1
    <3>3. CASE vectors'[i].what = Me(i) /\ i \in DOMAIN working \cup {counter + 1}
              /\ (i \in DOMAIN working' => working'[i].tier = "short")
      BY <3>3, <2>2
    <3>4. CASE i \in DOMAIN vectors /\ vectors'[i] = vectors[i]
      <4>1. Has(vectors, Me(i)) /\ vectors[i].what = Me(i)
        BY <1>3, <3>1, <3>2, <3>4
      <4>2. i # counter + 1
        BY <1>2, <3>1, <3>4, <4>1 DEF MemTypeOK, WrittenBy
      <4>3. i \in DOMAIN working /\ working[i].what = Me(i)
        BY <1>1, <1>2, <2>2, <4>2 DEF MemTypeOK
      <4>4. working[i].tier = "short"
        BY <4>1, <4>3 DEF MemInv, CapacityHolds
      <4>5. QED
        BY <1>1, <2>2, <4>3, <4>4
    <3>5. QED
      BY <1>1, <3>2, <3>3, <3>4
  <2>3. QED
    BY <2>1, <2>2 DEF CapacityHolds
<1>6. ReaderInv' /\ CountInv'
  <2>1. Unlocked /\ ReaderInv
    BY DEF StoreMemory, MemInv
  <2>2. \A r \in Readers : reader[r].todo = {} /\ reader[r].at # "counting"
    BY <1>2, <2>1, NobodyReads
  <2>3. ReaderInv'
    BY <1>1, <2>1, <2>2 DEF ReaderInv
  <2>4. ASSUME NEW i \in DOMAIN working' \ clashed'
        PROVE  working'[i].count + Cardinality(Owing(i)') = recalls'[i]
    <3>1. Owing(i)' = Owing(i)
      BY <1>1 DEF Owing, Owes
    <3>2. Cardinality(Owing(i)) = 0
      BY <1>2, <2>1, NobodyOwes
    <3>3. recalls'[i] = IF i = counter + 1 THEN 0 ELSE recalls[i]
      BY <1>1, <1>2 DEF StoreMemory, With, MemTypeOK
    <3>4. CASE i \in DOMAIN working
      <4>1. working[i].count + Cardinality(Owing(i)) = recalls[i]
        BY <1>1, <2>4, <3>4 DEF MemInv, CountInv
      <4>2. QED
        BY <1>1, <1>2, <3>1, <3>3, <3>4, <4>1, <2>4
    <3>5. CASE i \notin DOMAIN working
      <4>1. i = counter + 1 /\ working'[i].count = 0
        BY <1>1, <2>4, <3>5
      <4>2. QED
        BY <3>1, <3>2, <3>3, <4>1
    <3>6. QED
      BY <3>4, <3>5
  <2>5. QED
    BY <2>3, <2>4 DEF CountInv
<1>7. QED
  BY <1>1, <1>4, <1>5, <1>6 DEF MemInv

(* Steps that need the lock, and that only take memories away.              *)
LEMMA NobodyIsDisturbed ==
  ASSUME MemInv, Unlocked, MemTypeOK', UNCHANGED <<reader, recalls, clashed>>,
         DOMAIN working' \subseteq DOMAIN working,
         \A i \in DOMAIN working' : working'[i] = working[i]
  PROVE  ReaderInv' /\ CountInv'
<1>1. MemTypeOK /\ ReaderInv
  BY DEF MemInv
<1>2. \A r \in Readers : reader[r].todo = {} /\ reader[r].at # "counting"
  BY <1>1, NobodyReads
<1>3. ReaderInv'
  BY <1>1, <1>2 DEF ReaderInv
<1>4. \A i : Owing(i)' = Owing(i)
  BY DEF Owing, Owes
<1>5. CountInv'
  BY <1>4 DEF MemInv, CountInv
<1>6. QED
  BY <1>3, <1>5

LEMMA FewerInWorking ==
  ASSUME MemInv, UNCHANGED stopped,
         DOMAIN working' \subseteq DOMAIN working, \A i \in DOMAIN working' : working'[i] = working[i],
         DOMAIN vectors' \subseteq DOMAIN vectors, \A i \in DOMAIN vectors' : vectors'[i] = vectors[i]
  PROVE  CapacityHolds'
<1>1. Cardinality(DOMAIN working') \in Nat /\ Cardinality(DOMAIN working) \in Nat
      /\ Cardinality(DOMAIN working') <= Cardinality(DOMAIN working)
  BY WorkingFinite, FS_Subset, FS_CardinalityType DEF MemInv
<1>2. \A i \in DOMAIN working' : Has(vectors', working'[i].what) => Has(vectors, working[i].what)
  BY DEF Has
<1>3. QED
  BY <1>1, <1>2, MMAssumption DEF MemInv, CapacityHolds

LEMMA ForgetStep ==
  ASSUME MemInv, NEW id \in DOMAIN working \cup DOMAIN vectors, Forget(id)
  PROVE  MemInv'
<1>1. /\ Unlocked /\ UNCHANGED <<process, counter, reader, recalls, clashed, stopped>>
      /\ DOMAIN working' = DOMAIN working \ {id}
      /\ \A i \in DOMAIN working' : working'[i] = working[i]
      /\ DOMAIN vectors' \subseteq DOMAIN vectors /\ DOMAIN vectors \ {id} \subseteq DOMAIN vectors'
      /\ \A i \in DOMAIN vectors' : vectors'[i] = vectors[i]
      /\ Fates("forgotten", {id})
  BY DEF Forget, But
<1>2. MemTypeOK
  BY DEF MemInv
<1>3. DOMAIN fate' = DOMAIN fate
  BY <1>1 DEF Fates
<1>4. MemTypeOK'
  BY <1>1, <1>2, <1>3 DEF MemTypeOK, Me
<1>5. \A m \in Memories :
        /\ Has(working, m) <=> m[1] = process /\ m[2] \in DOMAIN working
        /\ Has(vectors, m) <=> m[2] \in DOMAIN vectors /\ vectors[m[2]].what = m
        /\ Has(working', m) <=> m[1] = process /\ m[2] \in DOMAIN working'
        /\ Has(vectors', m) <=> m[2] \in DOMAIN vectors' /\ vectors'[m[2]].what = m
  BY <1>1, <1>2, <1>4, Whereabouts, NextWhereabouts
<1>6. MemoriesStay'
  <2> SUFFICES ASSUME NEW m \in DOMAIN fate
               PROVE  fate'[m] = "kept" <=> Has(working', m) \/ Has(vectors', m)
    BY <1>3 DEF MemoriesStay
  <2>1. m \in Memories /\ (fate[m] = "kept" <=> Has(working, m) \/ Has(vectors, m))
    BY <1>2 DEF MemTypeOK, MemInv, MemoriesStay
  <2>2. Has(working', m) => Has(working, m)
    BY <1>1, <1>5, <2>1
  <2>3. Has(vectors', m) => Has(vectors, m)
    BY <1>1, <1>5, <2>1
  <2>4. m[2] # id => (Has(working, m) => Has(working', m)) /\ (Has(vectors, m) => Has(vectors', m))
    BY <1>1, <1>5, <2>1
  <2>5. fate'[m] = IF fate[m] # "kept" \/ m[2] \notin {id} \/ Has(working', m) \/ Has(vectors', m) THEN fate[m]
                   ELSE IF m[1] = process THEN "forgotten" ELSE "mistaken"
    BY <1>1 DEF Fates
  <2>6. QED
    BY <2>1, <2>2, <2>3, <2>4, <2>5
<1>7. CapacityHolds'
  BY <1>1, FewerInWorking
<1>8. ReaderInv' /\ CountInv'
  BY <1>1, <1>4, NobodyIsDisturbed
<1>9. QED
  BY <1>4, <1>6, <1>7, <1>8 DEF MemInv

LEMMA ClearStep ==
  ASSUME MemInv, ClearMemories
  PROVE  MemInv'
<1>1. /\ Unlocked /\ UNCHANGED <<process, counter, vectors, reader, recalls, clashed, stopped>>
      /\ DOMAIN working' = {} /\ working' = <<>>
      /\ fate' = [m \in DOMAIN fate |-> IF Has(working, m) /\ ~Has(vectors, m) THEN "forgotten" ELSE fate[m]]
  BY DEF ClearMemories
<1>2. MemTypeOK'
  BY <1>1 DEF MemInv, MemTypeOK, Me
<1>3. \A m : Has(vectors', m) = Has(vectors, m) /\ ~Has(working', m)
  BY <1>1 DEF Has
<1>4. MemoriesStay'
  BY <1>1, <1>3 DEF MemInv, MemoriesStay
<1>5. CapacityHolds'
  BY <1>1, FewerInWorking
<1>6. ReaderInv' /\ CountInv'
  BY <1>1, <1>2, NobodyIsDisturbed
<1>7. QED
  BY <1>2, <1>4, <1>5, <1>6 DEF MemInv

LEMMA RestartStep ==
  ASSUME MemInv, Restart
  PROVE  MemInv'
<1>1. /\ process' = process + 1 /\ counter' = 0 /\ vectors' = vectors
      /\ reader' = [r \in Readers |-> [NoReader EXCEPT !.calls = reader[r].calls]]
      /\ DOMAIN working' = {} /\ working' = <<>> /\ recalls' = <<>> /\ DOMAIN recalls' = {}
      /\ clashed' = {} /\ stopped' = FALSE
      /\ fate' = [m \in DOMAIN fate |-> IF Has(working, m) /\ ~Has(vectors, m) THEN "lost" ELSE fate[m]]
  BY DEF Restart
<1>2. MemTypeOK /\ process \in Nat \ {0} /\ counter \in Nat
  BY DEF MemInv, MemTypeOK
<1>3. \A m \in Memories : WrittenBy(m, process, counter) => WrittenBy(m, process', counter')
  BY <1>1, <1>2 DEF WrittenBy, Memories
<1>4. reader' \in [Readers -> ReaderRecords]
      /\ \A r \in Readers : reader'[r].at = "idle" /\ reader'[r].then = "idle" /\ reader'[r].todo = {}
  BY <1>1, <1>2 DEF MemTypeOK, NoReader, ReaderRecords
<1>5. MemTypeOK'
  <2>1. \A i \in DOMAIN vectors' :
          /\ vectors'[i] \in [what : Memories, tier : Tiers]
          /\ vectors'[i].what[2] = i /\ WrittenBy(vectors'[i].what, process', counter')
    BY <1>1, <1>2, <1>3 DEF MemTypeOK
  <2>2. DOMAIN fate' = DOMAIN fate /\ \A m \in DOMAIN fate : m \in Memories /\ WrittenBy(m, process', counter')
    BY <1>1, <1>2, <1>3 DEF MemTypeOK
  <2>3. DOMAIN vectors' \subseteq Nat /\ process' \in Nat \ {0} /\ counter' \in Nat
    BY <1>1, <1>2 DEF MemTypeOK
  <2>4. QED
    BY <1>1, <1>4, <2>1, <2>2, <2>3 DEF MemTypeOK
<1>6. \A m : Has(vectors', m) = Has(vectors, m) /\ ~Has(working', m)
  BY <1>1 DEF Has
<1>7. MemoriesStay'
  BY <1>1, <1>6 DEF MemInv, MemoriesStay
<1>8. CapacityHolds'
  BY <1>1 DEF CapacityHolds
<1>9. ReaderInv' /\ CountInv'
  BY <1>1, <1>4 DEF ReaderInv, CountInv
<1>10. QED
  BY <1>5, <1>7, <1>8, <1>9 DEF MemInv

(* The readers. *)
LEMMA ReadsStep ==
  ASSUME MemInv, NEW r \in Readers, NEW at \in {"idle", "found"}, NEW goal \in {<<>>} \cup Matches,
         at = "found" => goal \in Matches, NEW R \in SUBSET DOMAIN working,
         Reads(r, at, goal, R)
  PROVE  MemInv'
<1> DEFINE new == [NoReader EXCEPT !.at = "recalled", !.then = at, !.todo = R,
                                   !.target = goal, !.calls = reader[r].calls + 1]
<1>1. /\ reader[r].at = "idle" /\ reader' = [reader EXCEPT ![r] = new]
      /\ recalls' = [i \in DOMAIN recalls |-> IF i \in R THEN recalls[i] + 1 ELSE recalls[i]]
      /\ UNCHANGED <<process, counter, working, vectors, fate, clashed, stopped>>
  BY DEF Reads
<1>2. MemTypeOK /\ ReaderInv /\ CountInv
  BY DEF MemInv
<1>3. new \in ReaderRecords /\ new.at = "recalled" /\ new.then = at /\ new.todo = R /\ new.target = goal
  <2>1. R \subseteq Nat /\ reader[r].calls + 1 \in Nat
    BY <1>2 DEF MemTypeOK, ReaderRecords
  <2>2. QED
    BY <2>1 DEF NoReader, ReaderRecords
<1>c. PICK n : n = new
  BY Zenon
<1>4. /\ reader'[r] = n /\ n \in ReaderRecords /\ n.at = "recalled" /\ n.then = at /\ n.todo = R
      /\ n.target = goal
      /\ \A q \in Readers \ {r} : reader'[q] = reader[q]
      /\ reader' \in [Readers -> ReaderRecords]
  BY <1>1, <1>2, <1>3, <1>c DEF MemTypeOK
<1>5. MemTypeOK'
  BY <1>1, <1>2, <1>4 DEF MemTypeOK, Me
<1>6. MemoriesStay' /\ CapacityHolds'
  BY <1>1 DEF MemInv, MemoriesStay, CapacityHolds, Has
<1>7. ReaderInv'
  BY <1>1, <1>2, <1>4 DEF ReaderInv
<1>8. ASSUME NEW i \in DOMAIN working \ clashed
      PROVE  working[i].count + Cardinality(Owing(i)') = recalls'[i]
  <2>1. working[i].count + Cardinality(Owing(i)) = recalls[i] /\ i \in DOMAIN recalls
        /\ working[i].count \in Nat /\ recalls[i] \in Nat
    BY <1>2 DEF CountInv, MemTypeOK
  <2>2. ~Owes(r, i)
    BY <1>1, <1>2 DEF Owes, ReaderInv
  <2>3. IsFiniteSet(Owing(i)) /\ Cardinality(Owing(i)) \in Nat
    BY MMAssumption, FS_Subset, FS_CardinalityType DEF Owing
  <2>4. CASE i \in R
    <3>1. Owing(i)' = Owing(i) \cup {r} /\ r \notin Owing(i)
      BY <1>4, <2>2, <2>4 DEF Owing, Owes
    <3>2. Cardinality(Owing(i)') = Cardinality(Owing(i)) + 1
      BY <2>3, <3>1, FS_AddElement
    <3>3. QED
      BY <1>1, <2>1, <2>3, <2>4, <3>2
  <2>5. CASE i \notin R
    <3>1. Owing(i)' = Owing(i)
      BY <1>4, <2>2, <2>5 DEF Owing, Owes
    <3>2. QED
      BY <1>1, <2>1, <2>5, <3>1
  <2>6. QED
    BY <2>4, <2>5
<1>9. CountInv'
  BY <1>1, <1>8 DEF CountInv
<1>10. QED
  BY <1>5, <1>6, <1>7, <1>9 DEF MemInv

LEMMA ReadCountStep ==
  ASSUME MemInv, NEW r \in Readers, ReadCount(r)
  PROVE  MemInv'
<1>1. PICK i \in reader[r].todo :
    /\ reader[r].at = "recalled"
    /\ reader' = [reader EXCEPT ![r].at = "counting", ![r].todo = @ \ {i}, ![r].one = i,
                                ![r].seen = working[i].count]
    /\ clashed' = IF \E q \in Readers : reader[q].at = "counting" /\ reader[q].one = i
                  THEN clashed \union {i} ELSE clashed
    /\ UNCHANGED <<process, counter, working, vectors, fate, recalls, stopped>>
  BY DEF ReadCount
<1>2. MemTypeOK /\ ReaderInv /\ CountInv
  BY DEF MemInv
<1>a. i \in DOMAIN working /\ working[i].count \in Nat /\ i \in Nat
  BY <1>1, <1>2 DEF ReaderInv, MemTypeOK
<1>b. PICK c : c = working[i].count
  BY Zenon
<1>d. PICK R : R = reader[r].todo \ {i}
  BY Zenon
<1>3. reader' = [reader EXCEPT ![r] = [reader[r] EXCEPT !.at = "counting", !.todo = R, !.one = i, !.seen = c]]
  BY <1>1, <1>2, <1>b, <1>d DEF MemTypeOK, ReaderRecords
<1>c. PICK n : n = [reader[r] EXCEPT !.at = "counting", !.todo = R, !.one = i, !.seen = c]
  BY Zenon
<1>4. /\ reader'[r] = n /\ n \in ReaderRecords /\ n.at = "counting" /\ n.todo = reader[r].todo \ {i}
      /\ n.one = i /\ n.seen = working[i].count /\ n.then = reader[r].then
      /\ n.target = reader[r].target
      /\ \A q \in Readers \ {r} : reader'[q] = reader[q]
      /\ reader' \in [Readers -> ReaderRecords]
  <2>1. reader[r] \in ReaderRecords /\ R \in SUBSET Nat /\ c \in Nat
    BY <1>2, <1>a, <1>b, <1>d DEF MemTypeOK, ReaderRecords
  <2>2. /\ n \in ReaderRecords /\ n.at = "counting" /\ n.todo = R /\ n.one = i /\ n.seen = c
        /\ n.then = reader[r].then /\ n.target = reader[r].target
    BY <2>1, <1>a, <1>c DEF ReaderRecords
  <2>3. QED
    BY <1>2, <1>3, <1>b, <1>c, <1>d, <2>2 DEF MemTypeOK
<1>5. MemTypeOK'
  BY <1>1, <1>2, <1>4 DEF MemTypeOK, Me
<1>6. MemoriesStay' /\ CapacityHolds'
  BY <1>1 DEF MemInv, MemoriesStay, CapacityHolds, Has
<1>e. clashed \subseteq clashed'
      /\ (i \notin clashed' => \A q \in Readers : ~(reader[q].at = "counting" /\ reader[q].one = i))
  BY <1>1
<1>7. ReaderInv'
  BY <1>1, <1>2, <1>4, <1>a, <1>e DEF ReaderInv
<1>8. \A j : Owing(j)' = Owing(j)
  BY <1>1, <1>4 DEF Owing, Owes
<1>9. CountInv'
  BY <1>1, <1>2, <1>8, <1>e DEF CountInv
<1>10. QED
  BY <1>5, <1>6, <1>7, <1>9 DEF MemInv

LEMMA WriteCountStep ==
  ASSUME MemInv, NEW r \in Readers, WriteCount(r)
  PROVE  MemInv'
<1>1. /\ reader[r].at = "counting"
      /\ working' = [working EXCEPT ![reader[r].one].count = reader[r].seen + 1]
      /\ reader' = [reader EXCEPT ![r].at = "recalled"]
      /\ UNCHANGED <<process, counter, vectors, fate, recalls, clashed, stopped>>
  BY DEF WriteCount
<1>2. MemTypeOK /\ ReaderInv /\ CountInv
  BY DEF MemInv
<1>a. PICK i : i = reader[r].one
  BY Zenon
<1>b. PICK c : c = reader[r].seen + 1
  BY Zenon
<1>3. /\ i \in DOMAIN working \ reader[r].todo /\ c \in Nat
      /\ i \notin clashed =>
           /\ c = working[i].count + 1
           /\ \A q \in Readers \ {r} : ~(reader[q].at = "counting" /\ reader[q].one = i)
  BY <1>1, <1>2, <1>a, <1>b DEF ReaderInv, MemTypeOK, ReaderRecords
<1>4. /\ DOMAIN working' = DOMAIN working
      /\ working'[i] = [working[i] EXCEPT !.count = c]
      /\ \A j \in DOMAIN working \ {i} : working'[j] = working[j]
  BY <1>1, <1>3, <1>a, <1>b
<1>5. /\ working'[i] \in [what : Memories, embedded : BOOLEAN, tier : Tiers, count : Nat]
      /\ working'[i].what = working[i].what /\ working'[i].embedded = working[i].embedded
      /\ working'[i].tier = working[i].tier /\ working'[i].count = c
  BY <1>2, <1>3, <1>4 DEF MemTypeOK
<1>6. \A j \in DOMAIN working' :
        /\ working'[j] \in [what : Memories, embedded : BOOLEAN, tier : Tiers, count : Nat]
        /\ working'[j].what = working[j].what /\ working'[j].embedded = working[j].embedded
        /\ working'[j].tier = working[j].tier
  BY <1>2, <1>4, <1>5 DEF MemTypeOK
<1>7. /\ reader' \in [Readers -> ReaderRecords]
      /\ reader'[r].at = "recalled" /\ reader'[r].todo = reader[r].todo
      /\ reader'[r].then = reader[r].then /\ reader'[r].target = reader[r].target
      /\ \A q \in Readers \ {r} : reader'[q] = reader[q]
  <2>c. PICK n : n = [reader[r] EXCEPT !.at = "recalled"]
    BY Zenon
  <2>1. n \in ReaderRecords /\ n.at = "recalled" /\ n.todo = reader[r].todo
        /\ n.then = reader[r].then /\ n.target = reader[r].target
    <3>1. reader[r] \in ReaderRecords
      BY <1>2 DEF MemTypeOK
    <3>2. QED
      BY <3>1, <2>c DEF ReaderRecords
  <2>2. QED
    BY <1>1, <1>2, <2>c, <2>1 DEF MemTypeOK
<1>8. MemTypeOK'
  BY <1>1, <1>2, <1>4, <1>6, <1>7 DEF MemTypeOK, Me
<1>9. MemoriesStay' /\ CapacityHolds'
  <2>1. \A m : Has(working', m) = Has(working, m) /\ Has(vectors', m) = Has(vectors, m)
    BY <1>1, <1>4, <1>6 DEF Has
  <2>2. QED
    BY <1>1, <1>4, <1>6, <2>1 DEF MemInv, MemoriesStay, CapacityHolds
<1>10. ReaderInv'
  BY <1>1, <1>2, <1>3, <1>4, <1>7 DEF ReaderInv
<1>11. ASSUME NEW j \in DOMAIN working \ clashed
       PROVE  working'[j].count + Cardinality(Owing(j)') = recalls[j]
  <2>1. working[j].count + Cardinality(Owing(j)) = recalls[j] /\ working[j].count \in Nat
    BY <1>2 DEF CountInv, MemTypeOK
  <2>2. IsFiniteSet(Owing(j)) /\ Cardinality(Owing(j)) \in Nat
    BY MMAssumption, FS_Subset, FS_CardinalityType DEF Owing
  <2>3. CASE j = i
    <3>1. Owing(j)' = Owing(j) \ {r} /\ r \in Owing(j)
      BY <1>1, <1>3, <1>7, <1>a, <2>3 DEF Owing, Owes
    <3>2. Cardinality(Owing(j)') = Cardinality(Owing(j)) - 1
      BY <2>2, <3>1, FS_RemoveElement
    <3>3. working'[j].count = working[j].count + 1
      BY <1>3, <1>5, <2>3
    <3>4. QED
      BY <2>1, <2>2, <3>2, <3>3
  <2>4. CASE j # i
    <3>1. Owing(j)' = Owing(j)
      BY <1>1, <1>7, <1>a, <2>4 DEF Owing, Owes
    <3>2. QED
      BY <1>4, <2>1, <2>4, <3>1
  <2>5. QED
    BY <2>3, <2>4
<1>12. CountInv'
  BY <1>1, <1>4, <1>11 DEF CountInv
<1>13. QED
  BY <1>8, <1>9, <1>10, <1>12 DEF MemInv

(* Returns and Promote: nothing is left to count, and Promote writes nothing. *)
LEMMA LeavesStep ==
  ASSUME MemInv, NEW r \in Readers, Returns(r) \/ Promote(r)
  PROVE  MemInv'
<1>1. MemTypeOK /\ ReaderInv /\ CountInv
  BY DEF MemInv
<1>2. /\ UNCHANGED <<process, counter, working, vectors, fate, recalls, clashed, stopped>>
      /\ reader[r].at # "counting" /\ reader[r].todo = {}
      /\ reader' \in [Readers -> ReaderRecords]
      /\ reader'[r].at \in {"idle", "found"} /\ reader'[r].then = "idle" /\ reader'[r].todo = {}
      /\ reader'[r].at = "found" => reader'[r].target \in Matches
      /\ \A q \in Readers \ {r} : reader'[q] = reader[q]
  <2>1. reader[r] \in ReaderRecords /\ reader[r].calls \in Nat
    BY <1>1 DEF MemTypeOK, ReaderRecords
  <2>2. CASE Returns(r)
    <3>c. PICK n : n = [NoReader EXCEPT !.at = reader[r].then, !.calls = reader[r].calls,
                                        !.target = reader[r].target]
      BY Zenon
    <3>1. /\ reader' = [reader EXCEPT ![r] = n] /\ reader[r].at = "recalled" /\ reader[r].todo = {}
          /\ UNCHANGED <<process, counter, working, vectors, fate, recalls, clashed, stopped>>
      BY <2>2, <3>c DEF Returns
    <3>2. n \in ReaderRecords /\ n.at = reader[r].then /\ n.then = "idle" /\ n.todo = {}
          /\ n.target = reader[r].target
      BY <2>1, <3>c DEF NoReader, ReaderRecords
    <3>3. reader[r].then = "found" => reader[r].target \in Matches
      BY <1>1 DEF ReaderInv
    <3>4. QED
      BY <1>1, <2>1, <3>1, <3>2, <3>3 DEF MemTypeOK, ReaderRecords
  <2>3. CASE Promote(r)
    <3>c. PICK n : n = [NoReader EXCEPT !.calls = reader[r].calls]
      BY Zenon
    <3>1. /\ reader' = [reader EXCEPT ![r] = n] /\ reader[r].at = "found"
          /\ UNCHANGED <<process, counter, working, fate, recalls, clashed, stopped>>
      BY <2>3, <3>c DEF Promote
    <3>2. n \in ReaderRecords /\ n.at = "idle" /\ n.then = "idle" /\ n.todo = {}
      BY <2>1, <3>c DEF NoReader, ReaderRecords
    <3>3. ~reader[r].target.embedded
      BY <1>1, <3>1 DEF ReaderInv, Matches
    <3>4. vectors' = vectors
      BY <2>3, <3>3 DEF Promote
    <3>5. reader[r].todo = {}
      BY <1>1, <3>1 DEF ReaderInv
    <3>6. QED
      BY <1>1, <3>1, <3>2, <3>4, <3>5 DEF MemTypeOK
  <2>4. QED
    BY <2>2, <2>3
<1>3. MemTypeOK'
  BY <1>1, <1>2 DEF MemTypeOK, Me
<1>4. MemoriesStay' /\ CapacityHolds'
  BY <1>2 DEF MemInv, MemoriesStay, CapacityHolds, Has
<1>5. ReaderInv'
  BY <1>1, <1>2 DEF ReaderInv
<1>6. \A j : Owing(j)' = Owing(j)
  BY <1>2 DEF Owing, Owes
<1>7. CountInv'
  BY <1>1, <1>2, <1>6 DEF CountInv
<1>8. QED
  BY <1>3, <1>4, <1>5, <1>7 DEF MemInv

LEMMA ReaderStepKeeps ==
  ASSUME MemInv, NEW r \in Readers, ReaderStep(r)
  PROVE  MemInv'
<1>1. CASE RecallWorking(r)
  BY <1>1, ReadsStep DEF RecallWorking
<1>2. ASSUME NEW tier \in {"short", "long"}, RecallTier(r, tier)
      PROVE  MemInv'
  <2>1. PICK R \in SUBSET InTier(tier) : Reads(r, "idle", <<>>, R \intersect DOMAIN working)
    BY <1>2 DEF RecallTier
  <2>2. R \intersect DOMAIN working \in SUBSET DOMAIN working
    OBVIOUS
  <2>3. QED
    BY <2>1, <2>2, ReadsStep
<1>3. ASSUME NEW i \in DOMAIN vectors, PromoteLooks(r, i)
      PROVE  MemInv'
  <2>1. Reads(r, "found", Recalled(i), InTier("short") \intersect DOMAIN working)
    BY <1>3 DEF PromoteLooks
  <2>2. Recalled(i) \in Matches
    BY DEF Recalled, Matches, MemInv, MemTypeOK
  <2>3. InTier("short") \intersect DOMAIN working \in SUBSET DOMAIN working
    OBVIOUS
  <2>4. QED
    BY <2>1, <2>2, <2>3, ReadsStep
<1>4. CASE ReadCount(r)
  BY <1>4, ReadCountStep
<1>5. CASE WriteCount(r)
  BY <1>5, WriteCountStep
<1>6. CASE Returns(r) \/ Promote(r)
  BY <1>6, LeavesStep
<1>7. QED
  BY <1>1, <1>2, <1>3, <1>4, <1>5, <1>6 DEF ReaderStep

(* Whatever readers and stores do, and however the vector store fails: a    *)
(* memory is kept exactly while it is somewhere, working memory is over its *)
(* capacity only with what cannot move or after an error, and accesses that *)
(* no two readers counted at once are counted (memory.go: Store, Forget,    *)
(* Clear, Recall, Promote).                                                 *)
THEOREM MemoriesCorrect == MemSpec => []MemoriesHold
<1>1. MemInit => MemInv
  <2> SUFFICES ASSUME MemInit PROVE MemInv
    OBVIOUS
  <2>1. /\ process = 1 /\ counter = 0 /\ DOMAIN working = {} /\ DOMAIN vectors = {}
        /\ DOMAIN fate = {} /\ DOMAIN recalls = {} /\ clashed = {} /\ stopped = FALSE
        /\ reader = [r \in Readers |-> NoReader]
    BY DEF MemInit
  <2>2. NoReader \in ReaderRecords /\ NoReader.at = "idle" /\ NoReader.then = "idle" /\ NoReader.todo = {}
    BY DEF NoReader, ReaderRecords
  <2>3. MemTypeOK
    <3>1. reader \in [Readers -> ReaderRecords]
      BY <2>1, <2>2
    <3>2. stopped \in BOOLEAN
      BY <2>1
    <3>3. /\ DOMAIN working \subseteq 1 .. counter /\ DOMAIN vectors \subseteq Nat
          /\ DOMAIN fate \subseteq Memories /\ DOMAIN working \subseteq DOMAIN recalls
          /\ process \in Nat \ {0} /\ counter \in Nat
      BY <2>1
    <3>4. /\ \A i \in DOMAIN working : FALSE
          /\ \A i \in DOMAIN vectors : FALSE
          /\ \A m \in DOMAIN fate : FALSE
          /\ \A i \in DOMAIN recalls : FALSE
      BY <2>1
    <3>5. QED
      BY <3>1, <3>2, <3>3, <3>4 DEF MemTypeOK
  <2>4. MemoriesStay /\ CapacityHolds /\ CountInv
    BY <2>1 DEF MemoriesStay, CapacityHolds, CountInv
  <2>5. ReaderInv
    BY <2>1, <2>2 DEF ReaderInv
  <2>6. QED
    BY <2>3, <2>4, <2>5 DEF MemInv
<1>2. MemInv /\ [MemNext]_memVars => MemInv'
  <2> SUFFICES ASSUME MemInv, [MemNext]_memVars
               PROVE  MemInv'
    OBVIOUS
  <2>1. ASSUME NEW e \in BOOLEAN, StoreReasoningTrace(e) \/ StorePlan(e) \/ StorePlanStep(e)
                                  \/ StoreReflection(e) \/ CreateEpisodicMemory(e)
        PROVE  MemInv'
    BY <2>1, StoreStep DEF StoreReasoningTrace, StorePlan, StorePlanStep, StoreReflection, CreateEpisodicMemory
  <2>2. ASSUME NEW i \in DOMAIN working \union DOMAIN vectors, Forget(i)
        PROVE  MemInv'
    BY <2>2, ForgetStep
  <2>3. CASE ClearMemories
    BY <2>3, ClearStep
  <2>4. CASE Restart
    BY <2>4, RestartStep
  <2>5. ASSUME NEW r \in Readers, ReaderStep(r)
        PROVE  MemInv'
    BY <2>5, ReaderStepKeeps
  <2>6. CASE UNCHANGED memVars
    BY <2>6 DEF memVars, MemInv, MemTypeOK, MemoriesStay, CapacityHolds, ReaderInv, CountInv, Has, Owing, Owes, Me
  <2>7. QED
    BY <2>1, <2>2, <2>3, <2>4, <2>5, <2>6 DEF MemNext
<1>3. MemInv => MemoriesHold
  <2> SUFFICES ASSUME MemInv PROVE MemoriesHold
    OBVIOUS
  <2>1. ASSUME Unlocked, NEW i \in DOMAIN working \ clashed
        PROVE  working[i].count = recalls[i]
    <3>1. working[i].count + Cardinality(Owing(i)) = recalls[i] /\ working[i].count \in Nat
      BY DEF MemInv, CountInv, MemTypeOK
    <3>2. Cardinality(Owing(i)) = 0
      BY <2>1, NobodyOwes DEF MemInv
    <3>3. QED
      BY <3>1, <3>2
  <2>2. QED
    BY <2>1 DEF MemInv, MemoriesHold, AccessesCount
<1>4. QED
  BY <1>1, <1>2, <1>3, PTL DEF MemSpec

-----------------------------------------------------------------------------
(* Vector stores.  What holds of an ID that a call claims, in a store of    *)
(* kind k with vectors s: after a success the promise; while Weaviate       *)
(* deletes one by one, that the ID is still to do, had an error or is gone. *)
Promise(t, i, s, k) ==
  IF t.do = "delete" THEN i \notin DOMAIN s
  ELSE /\ i \in DOMAIN s
       /\ \/ s[i] = t.of[Latest(Places(t.of, i))]
          \/ k = "chroma" /\ (i \in t.had \/ Cardinality(Places(t.of, i)) > 1)

Claimed(t, s, k) ==
  \A i \in t.claim :
    /\ t.at = "done" => Promise(t, i, s, k)
    /\ t.at = "open" => i \in IdsOf(t.todo) \/ i \in t.errs \/ i \notin DOMAIN s

ClaimInv == \A p \in Apps : Claimed(task[p], stored, kind)

TaskOK(t) ==
  /\ t = [do |-> t.do, of |-> t.of, todo |-> t.todo, errs |-> t.errs, had |-> t.had,
          claim |-> t.claim, at |-> t.at, calls |-> t.calls]
  /\ t.todo \in Seq(STRING)
  /\ t.at = "open" => t.do = "delete" /\ t.todo # <<>>

VectorTypeOK ==
  /\ kind \in Kinds
  /\ exists \in BOOLEAN
  /\ kind = "memory" => exists
  /\ opener \in [Apps -> {"new", "open", "failed", "absent", "unsized"}]
  /\ task = [p \in Apps |-> task[p]]
  /\ \A p \in Apps : TaskOK(task[p])

VectorInv == VectorTypeOK /\ OpenIsThere /\ ClaimInv

LEMMA InitVectorInv == VectorInit => VectorInv
<1> SUFFICES ASSUME VectorInit PROVE VectorInv
  OBVIOUS
<1>1. /\ task = [p \in Apps |-> NoTask] /\ opener = [p \in Apps |-> "new"]
      /\ kind \in Kinds /\ exists \in IF kind = "memory" THEN {TRUE} ELSE BOOLEAN
  BY DEF VectorInit
<1>2. \A p \in Apps : task[p] = NoTask
  BY <1>1
<1>3. NoTask.todo = <<>> /\ NoTask.at = "idle" /\ NoTask.claim = {} /\ <<>> \in Seq(STRING)
  BY DEF NoTask, Task
<1>4. TaskOK(NoTask)
  BY <1>3 DEF TaskOK, NoTask, Task
<1>5. VectorTypeOK
  BY <1>1, <1>2, <1>4 DEF VectorTypeOK
<1>6. ClaimInv
  BY <1>2, <1>3 DEF ClaimInv, Claimed
<1>7. OpenIsThere
  BY <1>1 DEF OpenIsThere
<1> QED
  BY <1>5, <1>6, <1>7 DEF VectorInv

-----------------------------------------------------------------------------
(* New. *)
LEMMA OpenVectors ==
  ASSUME VectorInv, NEW p \in Apps, OpenStore(p) PROVE VectorInv'
<1>1. UNCHANGED <<kind, stored, task>>
  BY DEF OpenStore
<1>2. ClaimInv'
  BY <1>1 DEF VectorInv, ClaimInv, Claimed, Promise
<1>3. \E at \in {"new", "open", "failed", "absent", "unsized"} :
        /\ Opened(p, at)
        /\ exists \/ exists' = exists \/ exists' = TRUE
        /\ exists => exists'
        /\ exists' \in BOOLEAN
        /\ at = "open" /\ kind # "pinecone" => exists'
  BY DEF OpenStore, NewMemory, NewPgVector, NewPinecone, NewChroma, NewWeaviate, NewQdrant, LookFor,
         CreateChroma, CreateWeaviate, CreateQdrant, Creates, Opened, VectorInv, VectorTypeOK
<1>4. VectorTypeOK'
  BY <1>1, <1>3 DEF VectorInv, VectorTypeOK, Opened, TaskOK
<1>5. OpenIsThere'
  BY <1>1, <1>3 DEF VectorInv, VectorTypeOK, Opened, OpenIsThere
<1> QED
  BY <1>2, <1>4, <1>5 DEF VectorInv

-----------------------------------------------------------------------------
(* What an Upsert puts, and what its success means. *)
UpsertMeans(b, o) ==
  /\ o.puts \subseteq DOMAIN b
  /\ o.ok => \/ o.puts = DOMAIN b
             \/ kind = "chroma" /\ {b[n].id : n \in o.puts} = Named(b) \ DOMAIN stored

LEMMA OutcomesMean ==
  ASSUME kind \in Kinds, NEW b, NEW o \in Outcomes(b) PROVE UpsertMeans(b, o)
<1>1. \A puts, ok : Outcome(puts, ok).puts = puts /\ Outcome(puts, ok).ok = ok
  BY DEF Outcome
<1>2. UpsertMeans(b, Whole(b)) /\ UpsertMeans(b, Nothing)
  <2>1. Whole(b).puts = DOMAIN b
    BY DEF Whole, Outcome
  <2>2. Nothing.puts = {} /\ Nothing.ok = FALSE
    BY DEF Nothing, Outcome
  <2> QED
    BY <2>1, <2>2 DEF UpsertMeans
<1>3. CASE kind = "memory"
  <2>1. o \in UpsertMemory(b)
    BY <1>3 DEF Outcomes
  <2>2. \A P \in SUBSET DOMAIN b : UpsertMeans(b, Outcome(P, FALSE))
    BY <1>1 DEF UpsertMeans
  <2> QED
    BY <1>2, <2>1, <2>2 DEF UpsertMemory
<1>4. CASE kind = "pgvector"
  BY <1>2, <1>4 DEF Outcomes, UpsertPgVector
<1>5. CASE kind = "chroma"
  <2>1. o \in UpsertChroma(b)
    BY <1>5 DEF Outcomes
  <2>2. \/ o = Nothing
        \/ \E P \in SUBSET {n \in DOMAIN b : b[n].id \notin DOMAIN stored} :
             {b[n].id : n \in P} = Named(b) \ DOMAIN stored /\ o = Outcome(P, TRUE)
    BY <2>1 DEF UpsertChroma
  <2> QED
    BY <1>1, <1>2, <1>5, <2>2 DEF UpsertMeans
<1>6. CASE kind = "qdrant"
  BY <1>2, <1>6 DEF Outcomes, UpsertQdrant
<1>7. CASE kind = "weaviate"
  <2>1. o \in UpsertWeaviate(b)
    BY <1>7 DEF Outcomes
  <2>2. o = Nothing \/ \E lost : o = Outcome(Accepted(b, lost), Accepted(b, lost) = DOMAIN b)
    BY <2>1 DEF UpsertWeaviate
  <2>3. \A lost : Accepted(b, lost) \subseteq DOMAIN b
    BY DEF Accepted
  <2>4. ASSUME NEW lost, o = Outcome(Accepted(b, lost), Accepted(b, lost) = DOMAIN b)
        PROVE UpsertMeans(b, o)
    <3>1. o.puts = Accepted(b, lost) /\ (o.ok <=> Accepted(b, lost) = DOMAIN b)
      BY <2>4 DEF Outcome
    <3> QED
      BY <2>3, <3>1 DEF UpsertMeans
  <2> QED
    BY <1>2, <2>2, <2>4
<1>8. CASE kind = "pinecone"
  BY <1>2, <1>8 DEF Outcomes, UpsertPinecone
<1> QED
  BY <1>3, <1>4, <1>5, <1>6, <1>7, <1>8, VectorAssumption

LEMMA LossyMeans ==
  ASSUME kind \in Kinds, NEW b, NEW o \in Lossy(Outcomes(b)) PROVE UpsertMeans(b, o)
<1>1. UpsertMeans(b, Nothing)
  BY DEF UpsertMeans, Nothing, Outcome
<1>2. ASSUME NEW u \in Outcomes(b), o = [u EXCEPT !.ok = FALSE] PROVE UpsertMeans(b, o)
  <2>1. \E P, k : u = Outcome(P, k)
    BY VectorAssumption DEF Outcomes, UpsertMemory, UpsertPgVector, UpsertChroma, UpsertQdrant,
       UpsertWeaviate, UpsertPinecone, Whole, Nothing
  <2>2. o.puts = u.puts /\ o.ok = FALSE
    BY <1>2, <2>1 DEF Outcome
  <2> QED
    BY <2>2, OutcomesMean DEF UpsertMeans
<1> QED
  BY <1>1, <1>2, OutcomesMean DEF Lossy

LEMMA PutsKeep ==
  ASSUME NEW b, NEW puts, puts \subseteq DOMAIN b, NEW i, i \notin Named(b),
         stored' = PutVectors(b, puts)
  PROVE /\ i \in DOMAIN stored' <=> i \in DOMAIN stored
        /\ i \in DOMAIN stored => stored'[i] = stored[i]
<1>1. Places(b, i) = {} /\ i \notin {b[n].id : n \in puts}
  BY DEF Places, Named
<1> QED
  BY <1>1 DEF PutVectors

LEMMA PutsPut ==
  ASSUME NEW b, NEW puts, puts \subseteq DOMAIN b, NEW i, i \in {b[n].id : n \in puts},
         stored' = PutVectors(b, puts)
  PROVE i \in DOMAIN stored' /\ stored'[i] = b[Latest(Places(b, i) \intersect puts)]
<1>1. Places(b, i) \intersect puts # {}
  BY DEF Places
<1> QED
  BY <1>1 DEF PutVectors

(* A call that names IDs takes them from the claims of others. *)
LEMMA CallsTypes ==
  ASSUME VectorTypeOK, NEW p \in Apps, NEW named, NEW t, TaskOK(t), Calls(p, named, t)
  PROVE /\ task' = [q \in Apps |-> task'[q]]
        /\ \A q \in Apps : TaskOK(task'[q])
        /\ \A q \in Apps : q # p => /\ task'[q].claim = task[q].claim \ named
                                    /\ task'[q].do = task[q].do /\ task'[q].of = task[q].of
                                    /\ task'[q].todo = task[q].todo /\ task'[q].errs = task[q].errs
                                    /\ task'[q].had = task[q].had /\ task'[q].at = task[q].at
        /\ task'[p].claim = named /\ task'[p].do = t.do /\ task'[p].of = t.of
        /\ task'[p].todo = t.todo /\ task'[p].errs = t.errs /\ task'[p].had = t.had
        /\ task'[p].at = t.at
<1>1. task' = [q \in Apps |-> IF q = p THEN [t EXCEPT !.claim = named, !.calls = task[p].calls + 1]
                              ELSE [task[q] EXCEPT !.claim = @ \ named]]
  BY DEF Calls
<1>2. task'[p] = [t EXCEPT !.claim = named, !.calls = task[p].calls + 1]
  BY <1>1
<1>3. t = [do |-> t.do, of |-> t.of, todo |-> t.todo, errs |-> t.errs, had |-> t.had,
           claim |-> t.claim, at |-> t.at, calls |-> t.calls]
  BY DEF TaskOK
<1>4. task'[p] = [do |-> t.do, of |-> t.of, todo |-> t.todo, errs |-> t.errs, had |-> t.had,
                  claim |-> named, at |-> t.at, calls |-> task[p].calls + 1]
  BY <1>2, <1>3
<1>5. TaskOK(task'[p])
  BY <1>4 DEF TaskOK
<1>6. ASSUME NEW q \in Apps, q # p
      PROVE task'[q] = [do |-> task[q].do, of |-> task[q].of, todo |-> task[q].todo,
                        errs |-> task[q].errs, had |-> task[q].had,
                        claim |-> task[q].claim \ named, at |-> task[q].at,
                        calls |-> task[q].calls]
  <2>1. task'[q] = [task[q] EXCEPT !.claim = @ \ named]
    BY <1>1, <1>6
  <2>2. task[q] = [do |-> task[q].do, of |-> task[q].of, todo |-> task[q].todo,
                   errs |-> task[q].errs, had |-> task[q].had, claim |-> task[q].claim,
                   at |-> task[q].at, calls |-> task[q].calls]
    BY DEF VectorTypeOK, TaskOK
  <2> QED
    BY <2>1, <2>2
<1>7. ASSUME NEW q \in Apps, q # p PROVE TaskOK(task'[q])
  <2>1. task[q].todo \in Seq(STRING) /\ (task[q].at = "open" => task[q].do = "delete" /\ task[q].todo # <<>>)
    BY DEF VectorTypeOK, TaskOK
  <2>2. /\ task'[q].todo = task[q].todo /\ task'[q].at = task[q].at /\ task'[q].do = task[q].do
        /\ task'[q] = [do |-> task'[q].do, of |-> task'[q].of, todo |-> task'[q].todo,
                       errs |-> task'[q].errs, had |-> task'[q].had, claim |-> task'[q].claim,
                       at |-> task'[q].at, calls |-> task'[q].calls]
    <3>1. task'[q] = [do |-> task[q].do, of |-> task[q].of, todo |-> task[q].todo,
                      errs |-> task[q].errs, had |-> task[q].had,
                      claim |-> task[q].claim \ named, at |-> task[q].at,
                      calls |-> task[q].calls]
      BY <1>6, <1>7
    <3> QED
      BY <3>1
  <2> QED
    BY <2>1, <2>2 DEF TaskOK
<1>8. task' = [q \in Apps |-> task'[q]]
  BY <1>1
<1>9. \A q \in Apps : TaskOK(task'[q])
  BY <1>5, <1>7
<1>10. /\ task'[p].claim = named /\ task'[p].do = t.do /\ task'[p].of = t.of
       /\ task'[p].todo = t.todo /\ task'[p].errs = t.errs /\ task'[p].had = t.had
       /\ task'[p].at = t.at
  BY <1>4
<1>11. \A q \in Apps : q # p => /\ task'[q].claim = task[q].claim \ named
                                /\ task'[q].do = task[q].do /\ task'[q].of = task[q].of
                                /\ task'[q].todo = task[q].todo /\ task'[q].errs = task[q].errs
                                /\ task'[q].had = task[q].had /\ task'[q].at = task[q].at
  <2> SUFFICES ASSUME NEW q \in Apps, q # p
               PROVE /\ task'[q].claim = task[q].claim \ named
                     /\ task'[q].do = task[q].do /\ task'[q].of = task[q].of
                     /\ task'[q].todo = task[q].todo /\ task'[q].errs = task[q].errs
                     /\ task'[q].had = task[q].had /\ task'[q].at = task[q].at
    OBVIOUS
  <2>1. task'[q] = [do |-> task[q].do, of |-> task[q].of, todo |-> task[q].todo,
                    errs |-> task[q].errs, had |-> task[q].had,
                    claim |-> task[q].claim \ named, at |-> task[q].at,
                    calls |-> task[q].calls]
    BY <1>6
  <2> QED
    BY <2>1
<1> QED
  BY <1>8, <1>9, <1>10, <1>11

(* Claims of others, when nothing happens to the IDs they still name. *)
LEMMA ClaimKept ==
  ASSUME NEW t, NEW u, Claimed(t, stored, kind), u.claim \subseteq t.claim,
         u.do = t.do, u.of = t.of, u.todo = t.todo, u.errs = t.errs, u.had = t.had, u.at = t.at,
         \A i \in u.claim : /\ i \in DOMAIN stored' <=> i \in DOMAIN stored
                            /\ i \in DOMAIN stored => stored'[i] = stored[i]
  PROVE Claimed(u, stored', kind)
BY DEF Claimed, Promise

LEMMA UpsertVectors ==
  ASSUME VectorInv, NEW p \in Apps, NEW b \in Batches, Upsert(p, b) PROVE VectorInv'
<1>1. UNCHANGED <<kind, exists, opener>>
  BY DEF Upsert
<1>2. PICK o \in Lossy(Outcomes(b)) :
        /\ stored' = PutVectors(b, o.puts)
        /\ Calls(p, Named(b), Task("upsert", b, <<>>, DOMAIN stored, Settled(o.ok)))
  BY DEF Upsert
<1>3. UpsertMeans(b, o)
  BY LossyMeans DEF VectorInv, VectorTypeOK
<1> DEFINE t == Task("upsert", b, <<>>, DOMAIN stored, Settled(o.ok))
<1>4. /\ t = [do |-> "upsert", of |-> b, todo |-> <<>>, errs |-> {}, had |-> DOMAIN stored,
              claim |-> {}, at |-> Settled(o.ok), calls |-> 0]
      /\ Settled(o.ok) # "open"
  BY DEF Task, Settled
<1> HIDE DEF t
<1>5. TaskOK(t)
  <2>1. <<>> \in Seq(STRING)
    OBVIOUS
  <2> QED
    BY <1>4, <2>1 DEF TaskOK
<1>6. /\ task' = [q \in Apps |-> task'[q]]
      /\ \A q \in Apps : TaskOK(task'[q])
      /\ \A q \in Apps : q # p => /\ task'[q].claim = task[q].claim \ Named(b)
                                  /\ task'[q].do = task[q].do /\ task'[q].of = task[q].of
                                  /\ task'[q].todo = task[q].todo /\ task'[q].errs = task[q].errs
                                  /\ task'[q].had = task[q].had /\ task'[q].at = task[q].at
      /\ task'[p].claim = Named(b) /\ task'[p].do = "upsert" /\ task'[p].of = b
      /\ task'[p].had = DOMAIN stored /\ task'[p].at = Settled(o.ok)
  <2> HIDE DEF t
  <2>1. Calls(p, Named(b), t)
    BY <1>2 DEF t
  <2> QED
    BY <1>4, <1>5, <2>1, CallsTypes DEF VectorInv
<1> HIDE DEF t
<1>7. VectorTypeOK' /\ OpenIsThere'
  BY <1>1, <1>6 DEF VectorInv, VectorTypeOK, OpenIsThere
<1>8. ASSUME NEW q \in Apps, q # p PROVE Claimed(task'[q], stored', kind)
  <2>1. \A i \in task'[q].claim : i \notin Named(b)
    BY <1>6, <1>8
  <2>2. \A i \in task'[q].claim : /\ i \in DOMAIN stored' <=> i \in DOMAIN stored
                                  /\ i \in DOMAIN stored => stored'[i] = stored[i]
    BY <1>2, <1>3, <2>1, PutsKeep DEF UpsertMeans
  <2>3. Claimed(task[q], stored, kind)
    BY DEF VectorInv, ClaimInv
  <2> QED
    BY <1>1, <1>6, <1>8, <2>2, <2>3, ClaimKept
<1>9. ASSUME NEW i \in Named(b), o.ok
      PROVE /\ i \in DOMAIN stored'
            /\ \/ stored'[i] = b[Latest(Places(b, i))]
               \/ kind = "chroma" /\ (i \in DOMAIN stored \/ Cardinality(Places(b, i)) > 1)
  <2>1. CASE o.puts = DOMAIN b
    <3>1. Places(b, i) \intersect o.puts = Places(b, i) /\ i \in {b[n].id : n \in o.puts}
      BY <1>9, <2>1 DEF Places, Named
    <3> QED
      BY <1>2, <1>3, <3>1, PutsPut DEF UpsertMeans
  <2>2. CASE i \in DOMAIN stored /\ kind = "chroma"
    BY <1>2, <2>2 DEF PutVectors
  <2>3. CASE i \notin DOMAIN stored /\ kind = "chroma" /\ {b[n].id : n \in o.puts} = Named(b) \ DOMAIN stored
    <3>1. i \in {b[n].id : n \in o.puts}
      BY <1>9, <2>3
    <3>2. PICK n \in o.puts : b[n].id = i
      BY <3>1
    <3>3. n \in Places(b, i)
      BY <1>3, <3>2 DEF UpsertMeans, Places
    <3>4. IsFiniteSet(Places(b, i)) /\ Cardinality(Places(b, i)) \in Nat
      <4>1. IsFiniteSet(DOMAIN b) /\ Places(b, i) \subseteq DOMAIN b
        BY VectorAssumption DEF Places
      <4> QED
        BY <4>1, FS_Subset, FS_CardinalityType
    <3>5. i \in DOMAIN stored' /\ stored'[i] = b[Latest(Places(b, i) \intersect o.puts)]
      BY <1>2, <3>2, <3>3 DEF PutVectors
    <3>6. CASE Cardinality(Places(b, i)) > 1
      BY <2>3, <3>5, <3>6
    <3>7. CASE Cardinality(Places(b, i)) = 1
      <4>1. PICK m : Places(b, i) = {m}
        BY <3>4, <3>7, FS_Singleton
      <4>2. Places(b, i) \intersect o.puts = Places(b, i)
        BY <3>2, <3>3, <4>1
      <4> QED
        BY <3>5, <4>2
    <3>8. Cardinality(Places(b, i)) # 0
      BY <3>3, <3>4, FS_EmptySet
    <3> QED
      BY <3>4, <3>6, <3>7, <3>8
  <2> QED
    BY <1>3, <1>9, <2>1, <2>2, <2>3 DEF UpsertMeans
<1>10. Claimed(task'[p], stored', kind)
  <2>1. task'[p].at = "done" => o.ok
    BY <1>6 DEF Settled
  <2>2. task'[p].at # "open"
    BY <1>4, <1>6
  <2> QED
    BY <1>1, <1>6, <1>9, <2>1, <2>2 DEF Claimed, Promise
<1> QED
  BY <1>1, <1>7, <1>8, <1>10 DEF VectorInv, ClaimInv

-----------------------------------------------------------------------------
(* Delete. *)
DeleteMeans(ids, o) == o.puts \subseteq IdsOf(ids) /\ (o.ok => o.puts = IdsOf(ids))

LEMMA DeletionsMean ==
  ASSUME kind \in Kinds, kind # "weaviate", NEW ids, NEW o \in Lossy(Deletions(ids))
  PROVE DeleteMeans(ids, o)
<1> DEFINE all == Outcome(IdsOf(ids), TRUE)
<1>1. all.puts = IdsOf(ids) /\ Nothing.puts = {} /\ Nothing.ok = FALSE
  BY DEF Nothing, Outcome
<1>2. Deletions(ids) \subseteq {all, Nothing}
  <2>1. kind \in {"memory", "pgvector", "chroma", "qdrant", "pinecone"}
    BY VectorAssumption
  <2> QED
    BY <2>1 DEF Deletions, DeleteMemory, DeletePgVector, DeleteChroma, DeleteQdrant, DeletePinecone
<1>3. DeleteMeans(ids, all) /\ DeleteMeans(ids, Nothing)
  BY <1>1 DEF DeleteMeans
<1>4. /\ [all EXCEPT !.ok = FALSE].puts = IdsOf(ids) /\ [all EXCEPT !.ok = FALSE].ok = FALSE
      /\ [Nothing EXCEPT !.ok = FALSE].puts = {} /\ [Nothing EXCEPT !.ok = FALSE].ok = FALSE
  BY DEF Nothing, Outcome
<1>5. DeleteMeans(ids, [all EXCEPT !.ok = FALSE]) /\ DeleteMeans(ids, [Nothing EXCEPT !.ok = FALSE])
  BY <1>4 DEF DeleteMeans
<1> HIDE DEF all
<1> QED
  BY <1>2, <1>3, <1>5 DEF Lossy

LEMMA DeleteVectorsStep ==
  ASSUME VectorInv, NEW p \in Apps, NEW ids \in IdLists, DeleteVectors(p, ids) PROVE VectorInv'
<1>1. UNCHANGED <<kind, exists, opener>>
  BY DEF DeleteVectors
<1>2. PICK o \in Lossy(Deletions(ids)) :
        /\ stored' = Dropped(o.puts)
        /\ Calls(p, IdsOf(ids), Task("delete", ids, <<>>, {}, Settled(o.ok)))
  BY DEF DeleteVectors
<1>3. DeleteMeans(ids, o)
  BY DeletionsMean DEF VectorInv, VectorTypeOK, DeleteVectors
<1> DEFINE t == Task("delete", ids, <<>>, {}, Settled(o.ok))
<1>4. /\ t = [do |-> "delete", of |-> ids, todo |-> <<>>, errs |-> {}, had |-> {},
              claim |-> {}, at |-> Settled(o.ok), calls |-> 0]
      /\ Settled(o.ok) # "open"
  BY DEF Task, Settled
<1> HIDE DEF t
<1>5. TaskOK(t)
  <2>1. <<>> \in Seq(STRING)
    OBVIOUS
  <2> QED
    BY <1>4, <2>1 DEF TaskOK
<1>6. /\ task' = [q \in Apps |-> task'[q]]
      /\ \A q \in Apps : TaskOK(task'[q])
      /\ \A q \in Apps : q # p => /\ task'[q].claim = task[q].claim \ IdsOf(ids)
                                  /\ task'[q].do = task[q].do /\ task'[q].of = task[q].of
                                  /\ task'[q].todo = task[q].todo /\ task'[q].errs = task[q].errs
                                  /\ task'[q].had = task[q].had /\ task'[q].at = task[q].at
      /\ task'[p].claim = IdsOf(ids) /\ task'[p].do = "delete" /\ task'[p].at = Settled(o.ok)
  <2> HIDE DEF t
  <2>1. Calls(p, IdsOf(ids), t)
    BY <1>2 DEF t
  <2> QED
    BY <1>4, <1>5, <2>1, CallsTypes DEF VectorInv
<1> HIDE DEF t
<1>7. VectorTypeOK' /\ OpenIsThere'
  BY <1>1, <1>6 DEF VectorInv, VectorTypeOK, OpenIsThere
<1>8. ASSUME NEW q \in Apps, q # p PROVE Claimed(task'[q], stored', kind)
  <2>1. \A i \in task'[q].claim : i \notin o.puts
    BY <1>3, <1>6, <1>8 DEF DeleteMeans
  <2>2. \A i \in task'[q].claim : /\ i \in DOMAIN stored' <=> i \in DOMAIN stored
                                  /\ i \in DOMAIN stored => stored'[i] = stored[i]
    BY <1>2, <2>1 DEF Dropped
  <2>3. Claimed(task[q], stored, kind)
    BY DEF VectorInv, ClaimInv
  <2> QED
    BY <1>6, <1>8, <2>2, <2>3, ClaimKept
<1>9. Claimed(task'[p], stored', kind)
  <2>1. task'[p].at = "done" => o.ok
    BY <1>6 DEF Settled
  <2>2. task'[p].at # "open"
    BY <1>4, <1>6
  <2>3. o.ok => \A i \in IdsOf(ids) : i \notin DOMAIN stored'
    BY <1>2, <1>3 DEF DeleteMeans, Dropped
  <2> QED
    BY <1>6, <2>1, <2>2, <2>3 DEF Claimed, Promise
<1> QED
  BY <1>1, <1>7, <1>8, <1>9 DEF VectorInv, ClaimInv

LEMMA DeleteWeaviateStep ==
  ASSUME VectorInv, NEW p \in Apps, NEW ids \in IdLists, DeleteWeaviate(p, ids) PROVE VectorInv'
<1>1. UNCHANGED <<kind, exists, opener, stored>>
  BY DEF DeleteWeaviate
<1> DEFINE t == Task("delete", ids, ids, {}, "open")
<1>2. t = [do |-> "delete", of |-> ids, todo |-> ids, errs |-> {}, had |-> {},
           claim |-> {}, at |-> "open", calls |-> 0]
  BY DEF Task
<1>3. TaskOK(t)
  <2>1. ids \in Seq(STRING) /\ ids # <<>>
    BY VectorAssumption
  <2> QED
    BY <1>2, <2>1 DEF TaskOK
<1>4. /\ task' = [q \in Apps |-> task'[q]]
      /\ \A q \in Apps : TaskOK(task'[q])
      /\ \A q \in Apps : q # p => /\ task'[q].claim = task[q].claim \ IdsOf(ids)
                                  /\ task'[q].do = task[q].do /\ task'[q].of = task[q].of
                                  /\ task'[q].todo = task[q].todo /\ task'[q].errs = task[q].errs
                                  /\ task'[q].had = task[q].had /\ task'[q].at = task[q].at
      /\ task'[p].claim = IdsOf(ids) /\ task'[p].todo = ids /\ task'[p].at = "open"
  <2> HIDE DEF t
  <2>1. Calls(p, IdsOf(ids), t)
    BY DEF t, DeleteWeaviate
  <2> QED
    BY <1>2, <1>3, <2>1, CallsTypes DEF VectorInv
<1> HIDE DEF t
<1>5. VectorTypeOK' /\ OpenIsThere'
  BY <1>1, <1>4 DEF VectorInv, VectorTypeOK, OpenIsThere
<1>6. ASSUME NEW q \in Apps, q # p PROVE Claimed(task'[q], stored', kind)
  <2>1. Claimed(task[q], stored, kind)
    BY DEF VectorInv, ClaimInv
  <2> QED
    BY <1>1, <1>4, <1>6, <2>1, ClaimKept
<1>7. Claimed(task'[p], stored', kind)
  BY <1>4 DEF Claimed
<1> QED
  BY <1>1, <1>5, <1>6, <1>7 DEF VectorInv, ClaimInv

(* Weaviate's next ID. *)
LEMMA DeleteNextStep ==
  ASSUME VectorInv, NEW p \in Apps, DeleteNext(p) PROVE VectorInv'
<1>1. UNCHANGED <<kind, exists, opener>>
  BY DEF DeleteNext
<1> DEFINE h == Head(task[p].todo)
           rest == Tail(task[p].todo)
<1>2. PICK gone \in BOOLEAN, ok \in BOOLEAN :
        /\ ok => gone
        /\ stored' = IF gone THEN Dropped({h}) ELSE stored
        /\ task' = [q \in Apps |->
             IF q # p THEN [task[q] EXCEPT !.claim = @ \ {h}]
             ELSE [task[p] EXCEPT !.todo = rest, !.errs = LastErr(p, ok),
                     !.at = IF rest # <<>> THEN "open" ELSE Settled(LastErr(p, ok) = {})]]
  BY DEF DeleteNext
<1>3. task[p].at = "open" /\ TaskOK(task[p]) /\ Claimed(task[p], stored, kind)
  BY DEF DeleteNext, VectorInv, VectorTypeOK, ClaimInv
<1>4. /\ task[p].todo \in Seq(STRING) /\ task[p].todo # <<>> /\ task[p].do = "delete"
  BY <1>3 DEF TaskOK
<1>5. /\ rest \in Seq(STRING)
      /\ \A i \in IdsOf(task[p].todo) : i = h \/ i \in IdsOf(rest)
  <2> DEFINE l == task[p].todo
  <2>1. Len(l) \in Nat /\ Len(l) >= 1 /\ DOMAIN l = 1 .. Len(l)
    BY <1>4
  <2>2. rest \in Seq(STRING) /\ Len(rest) = Len(l) - 1 /\ h = l[1]
    <3>1. rest \in Seq(STRING) /\ Len(rest) = Len(l) - 1
      BY <1>4, HeadTailProperties
    <3>2. h = l[1]
      BY <1>4
    <3> QED
      BY <3>1, <3>2
  <2>3. \A n \in 1 .. Len(rest) : rest[n] = l[n + 1]
    BY <1>4, HeadTailProperties
  <2>4. ASSUME NEW n \in DOMAIN l, n # 1 PROVE l[n] \in IdsOf(rest)
    <3>1. n - 1 \in 1 .. Len(rest) /\ (n - 1) + 1 = n
      BY <2>1, <2>2, <2>4
    <3>2. DOMAIN rest = 1 .. Len(rest)
      BY <2>2
    <3> QED
      BY <2>3, <3>1, <3>2 DEF IdsOf
  <2> QED
    BY <2>2, <2>4 DEF IdsOf
<1> HIDE DEF h, rest
<1>6. PICK errs : errs = LastErr(p, ok)
  OBVIOUS
<1>7. PICK at : /\ at = IF rest # <<>> THEN "open" ELSE Settled(LastErr(p, ok) = {})
                /\ at = "open" => rest # <<>>
                /\ at = "done" => rest = <<>> /\ errs = {}
  <2>1. CASE rest # <<>>
    BY <2>1
  <2>2. CASE rest = <<>> /\ errs = {}
    BY <1>6, <2>2 DEF Settled
  <2>3. CASE rest = <<>> /\ errs # {}
    BY <1>6, <2>3 DEF Settled
  <2> QED
    BY <2>1, <2>2, <2>3
<1>8. task'[p] = [do |-> task[p].do, of |-> task[p].of, todo |-> rest, errs |-> errs,
                  had |-> task[p].had, claim |-> task[p].claim, at |-> at, calls |-> task[p].calls]
  <2>1. task'[p] = [task[p] EXCEPT !.todo = rest, !.errs = errs, !.at = at]
    BY <1>2, <1>6, <1>7
  <2>2. PICK do, of, had, claim, calls, todo, e, a :
          /\ task[p] = [do |-> do, of |-> of, todo |-> todo, errs |-> e, had |-> had,
                        claim |-> claim, at |-> a, calls |-> calls]
    BY <1>3 DEF TaskOK
  <2> QED
    BY <2>1, <2>2
<1>9. TaskOK(task'[p])
  BY <1>4, <1>5, <1>7, <1>8 DEF TaskOK
<1>10. ASSUME NEW q \in Apps, q # p
       PROVE /\ task'[q] = [do |-> task[q].do, of |-> task[q].of, todo |-> task[q].todo,
                            errs |-> task[q].errs, had |-> task[q].had,
                            claim |-> task[q].claim \ {h}, at |-> task[q].at,
                            calls |-> task[q].calls]
             /\ TaskOK(task'[q])
             /\ Claimed(task'[q], stored', kind)
  <2>1. task'[q] = [task[q] EXCEPT !.claim = @ \ {h}]
    BY <1>2, <1>10
  <2>2. TaskOK(task[q]) /\ Claimed(task[q], stored, kind)
    BY DEF VectorInv, VectorTypeOK, ClaimInv
  <2>3. task'[q] = [do |-> task[q].do, of |-> task[q].of, todo |-> task[q].todo,
                    errs |-> task[q].errs, had |-> task[q].had,
                    claim |-> task[q].claim \ {h}, at |-> task[q].at, calls |-> task[q].calls]
    BY <2>1, <2>2 DEF TaskOK
  <2>4. TaskOK(task'[q])
    <3>1. task[q].todo \in Seq(STRING) /\ (task[q].at = "open" => task[q].do = "delete" /\ task[q].todo # <<>>)
      BY <2>2 DEF TaskOK
    <3> QED
      BY <2>3, <3>1 DEF TaskOK
  <2>5. /\ task'[q].claim \subseteq task[q].claim /\ h \notin task'[q].claim
        /\ task'[q].do = task[q].do /\ task'[q].of = task[q].of /\ task'[q].todo = task[q].todo
        /\ task'[q].errs = task[q].errs /\ task'[q].had = task[q].had /\ task'[q].at = task[q].at
    BY <2>3
  <2>6. \A i \in task'[q].claim : /\ i \in DOMAIN stored' <=> i \in DOMAIN stored
                                  /\ i \in DOMAIN stored => stored'[i] = stored[i]
    BY <1>2, <2>5 DEF Dropped
  <2> QED
    BY <2>2, <2>3, <2>4, <2>5, <2>6, ClaimKept
<1>11. VectorTypeOK' /\ OpenIsThere'
  <2>1. task' = [q \in Apps |-> task'[q]]
    BY <1>2
  <2> QED
    BY <1>1, <1>9, <1>10, <2>1 DEF VectorInv, VectorTypeOK, OpenIsThere
<1>12. ASSUME NEW i \in task[p].claim
       PROVE i \in IdsOf(rest) \/ i \in errs \/ i \notin DOMAIN stored'
  <2>1. (i = h \/ i \in IdsOf(rest)) \/ i \in task[p].errs \/ i \notin DOMAIN stored
    BY <1>3, <1>5 DEF Claimed
  <2>2. i \in task[p].errs => i \in errs
    BY <1>6 DEF LastErr
  <2>3. i \notin DOMAIN stored => i \notin DOMAIN stored'
    BY <1>2 DEF Dropped
  <2>4. i = h => i \in errs \/ i \notin DOMAIN stored'
    BY <1>2, <1>6 DEF LastErr, Dropped, h
  <2> QED
    BY <2>1, <2>2, <2>3, <2>4
<1>13. Claimed(task'[p], stored', kind)
  <2>1. /\ task'[p].claim = task[p].claim /\ task'[p].do = "delete" /\ task'[p].at = at
        /\ task'[p].todo = rest /\ task'[p].errs = errs
    BY <1>4, <1>8
  <2>2. at = "done" => errs = {} /\ IdsOf(rest) = {}
    BY <1>6, <1>7 DEF IdsOf
  <2> QED
    BY <1>12, <2>1, <2>2 DEF Claimed, Promise
<1> QED
  BY <1>1, <1>10, <1>11, <1>13 DEF VectorInv, ClaimInv

LEMMA ClearMemoryStep ==
  ASSUME VectorInv, ClearMemory PROVE VectorInv'
<1>1. /\ UNCHANGED <<kind, exists, opener>> /\ stored' = <<>>
      /\ task' = [q \in Apps |-> [task[q] EXCEPT !.claim = {}]]
  BY DEF ClearMemory
<1>2. ASSUME NEW q \in Apps PROVE task'[q].claim = {} /\ TaskOK(task'[q])
  <2>1. task'[q] = [task[q] EXCEPT !.claim = {}] /\ TaskOK(task[q])
    BY <1>1 DEF VectorInv, VectorTypeOK
  <2>2. task'[q] = [do |-> task[q].do, of |-> task[q].of, todo |-> task[q].todo,
                    errs |-> task[q].errs, had |-> task[q].had, claim |-> {},
                    at |-> task[q].at, calls |-> task[q].calls]
    BY <2>1 DEF TaskOK
  <2>3. task[q].todo \in Seq(STRING) /\ (task[q].at = "open" => task[q].do = "delete" /\ task[q].todo # <<>>)
    BY <2>1 DEF TaskOK
  <2> QED
    BY <2>2, <2>3 DEF TaskOK
<1>3. task' = [q \in Apps |-> task'[q]]
  BY <1>1
<1>4. VectorTypeOK' /\ OpenIsThere'
  BY <1>1, <1>2, <1>3 DEF VectorInv, VectorTypeOK, OpenIsThere
<1>5. ClaimInv'
  BY <1>2 DEF ClaimInv, Claimed
<1> QED
  BY <1>4, <1>5 DEF VectorInv

LEMMA VectorInvStep == VectorInv /\ [VectorNext]_vectorVars => VectorInv'
<1> SUFFICES ASSUME VectorInv, [VectorNext]_vectorVars PROVE VectorInv'
  OBVIOUS
<1>1. CASE UNCHANGED vectorVars
  BY <1>1 DEF vectorVars, VectorInv, VectorTypeOK, TaskOK, OpenIsThere, ClaimInv, Claimed, Promise
<1>2. CASE VectorNext
  <2>1. ASSUME NEW p \in Apps, OpenStore(p) PROVE VectorInv'
    BY <2>1, OpenVectors
  <2>2. ASSUME NEW p \in Apps, NEW b \in Batches, Upsert(p, b) PROVE VectorInv'
    BY <2>2, UpsertVectors
  <2>3. ASSUME NEW p \in Apps, NEW ids \in IdLists, DeleteVectors(p, ids) PROVE VectorInv'
    BY <2>3, DeleteVectorsStep
  <2>4. ASSUME NEW p \in Apps, NEW ids \in IdLists, DeleteWeaviate(p, ids) PROVE VectorInv'
    BY <2>4, DeleteWeaviateStep
  <2>5. ASSUME NEW p \in Apps, DeleteNext(p) PROVE VectorInv'
    BY <2>5, DeleteNextStep
  <2> QED
    BY <1>2, <2>1, <2>2, <2>3, <2>4, <2>5, ClearMemoryStep DEF VectorNext
<1> QED
  BY <1>1, <1>2

-----------------------------------------------------------------------------
(* What claims mean, and what filters let through. *)
LEMMA ClaimedIsWhole == VectorInv => SuccessIsWhole
BY DEF VectorInv, ClaimInv, Claimed, Promise, SuccessIsWhole

(* Comparisons of every store. *)
LEMMA AgreeMean ==
  ASSUME NEW m, NEW v
  PROVE /\ Same(m, v) => Said(m, v)
        /\ SaidPg(m, v) => Said(m, v)
        /\ Keyword(m, v) => Said(m, v)
        /\ SaidString(m, v) => Said(m, v)
BY DEF Same, Said, SaidPg, Keyword, SaidString

LEMMA FiltersMean == kind \in Kinds => FiltersHold
<1> SUFFICES ASSUME kind \in Kinds, NEW f \in Filters, NEW found \in Results(f) \ {None}
             PROVE /\ \/ found \subseteq Where(f, Said)
                      \/ kind = "weaviate" /\ Cardinality(DOMAIN f) > 1
                      \/ kind = "pinecone" /\ ~Convertible(f)
                   /\ (\A k \in DOMAIN f : f[k].type = "string") => Where(f, Same) \subseteq found
  BY DEF FiltersHold
<1> DEFINE Strings == \A k \in DOMAIN f : f[k].type = "string"
<1>1. Where(f, Same) \subseteq Where(f, Said)
  BY DEF Where, Same, Said
<1>2. Where(f, SaidPg) \subseteq Where(f, Said)
  BY DEF Where, SaidPg
<1>3. Where(f, Keyword) \subseteq Where(f, Said)
  BY DEF Where, Keyword
<1>4. Where(f, SaidString) \subseteq Where(f, Said)
  BY DEF Where, SaidString
<1>5. Strings => Where(f, Same) \subseteq Where(f, SaidPg)
  BY DEF Where, Same, SaidPg, Said
<1>6. Strings => Where(f, Same) \subseteq Where(f, Keyword)
  BY DEF Where, Same, Keyword, Said
<1>7. Strings => Where(f, Same) \subseteq Where(f, SaidString)
  BY DEF Where, Same, SaidString, Said
<1>8. Strings => Convertible(f)
  BY DEF Convertible
<1>9. CASE kind = "memory"
  BY <1>1, <1>9 DEF Results, QueryMemory
<1>10. CASE kind = "pgvector"
  BY <1>2, <1>5, <1>10 DEF Results, QueryPgVector
<1>11. CASE kind = "chroma"
  <2>1. found = Where(f, Same)
    BY <1>11 DEF Results, QueryChroma
  <2> QED
    BY <1>1, <2>1
<1>12. CASE kind = "qdrant"
  <2>1. found = Where(f, Keyword)
    BY <1>12 DEF Results, QueryQdrant
  <2> QED
    BY <1>3, <1>6, <2>1
<1>13. CASE kind = "weaviate"
  <2>1. found \in QueryWeaviate(f)
    BY <1>13 DEF Results
  <2>2. CASE DOMAIN f = {}
    BY <1>4, <1>7, <2>1, <2>2 DEF QueryWeaviate
  <2>3. CASE DOMAIN f # {}
    <3>1. PICK k \in DOMAIN f : found = Where(Only(f, k), SaidString)
      BY <2>1, <2>3 DEF QueryWeaviate
    <3>2. DOMAIN Only(f, k) = {k} /\ Only(f, k)[k] = f[k]
      BY DEF Only
    <3>3. Strings => Where(f, SaidString) \subseteq found
      BY <3>1, <3>2 DEF Where
    <3>4. IsFiniteSet(DOMAIN f) /\ Cardinality(DOMAIN f) \in Nat
      BY VectorAssumption, FS_CardinalityType
    <3>5. Cardinality(DOMAIN f) # 0
      BY <2>3, <3>4, FS_EmptySet
    <3>6. CASE Cardinality(DOMAIN f) = 1
      <4>1. DOMAIN f = {k}
        BY <3>4, <3>6, FS_Singleton
      <4>2. found \subseteq Where(f, SaidString)
        BY <3>1, <3>2, <4>1 DEF Where
      <4> QED
        BY <1>4, <1>7, <3>3, <4>2
    <3> QED
      BY <1>7, <1>13, <3>3, <3>4, <3>5, <3>6
  <2> QED
    BY <2>2, <2>3
<1>14. CASE kind = "pinecone"
  <2>1. found \in QueryPinecone(f)
    BY <1>14 DEF Results
  <2>2. found = Where(f, Same) \/ ~Convertible(f)
    BY <2>1 DEF QueryPinecone
  <2> QED
    BY <1>1, <1>8, <1>14, <2>2
<1> QED
  BY <1>9, <1>10, <1>11, <1>12, <1>13, <1>14, VectorAssumption

(* A store whose New has succeeded exists, an Upsert or Delete that has     *)
(* succeeded did what it promises for every ID that no other call has named *)
(* since, and a filter lets through what says the same as it (excepted are  *)
(* what Chroma keeps, and Weaviate's and Pinecone's filters).               *)
THEOREM VectorsCorrect == VectorSpec => []VectorsHold
<1>1. VectorSpec => []VectorInv
  BY InitVectorInv, VectorInvStep, PTL DEF VectorSpec
<1>2. VectorInv => VectorsHold
  BY ClaimedIsWhole, FiltersMean DEF VectorInv, VectorTypeOK, VectorsHold
<1> QED
  BY <1>1, <1>2, PTL
=============================================================================
