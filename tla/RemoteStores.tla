----------------------------- MODULE RemoteStores -----------------------------
(***************************************************************************)
(* The stores that a server keeps: RedisStateStore, PostgresStateStore and *)
(* RedisCacheStore of integrations.  A method is a list of commands; the   *)
(* server executes each at once, and those of other clients between them.  *)
(* Of a command executed the reply may be lost: then the client library    *)
(* sends it again, or the method fails, and what it has sent may still be  *)
(* executed later.                                                         *)
(*                                                                         *)
(* Identifiers are sequences of words, because two of them side by side    *)
(* may make the key that two others make.                                  *)
(***************************************************************************)
EXTENDS Naturals, FiniteSets, Sequences, Functions

CONSTANTS Clients,
          States,     \* the states applications save: agent and session
          Items,      \* the keys under which they cache
          MaxRemoteCalls,   \* bound: calls of a client
          MaxPages    \* bound: pages of a scan

ASSUME RemoteAssumption == States \subseteq [agent : Seq(STRING), session : Seq(STRING)]

VARIABLES server,     \* what New has connected to: "none", "single", "cluster" or "postgres"
          strings,    \* keys that hold a string (in Postgres: rows), and what it says
          members,    \* keys that hold a set, and its members
          call,       \* the call that each client makes, or made last
          late,       \* commands of failed calls that the server has yet to execute
          torn        \* states whose last Save or Delete failed or met an opposite one

remoteVars == <<server, strings, members, call, late, torn>>

StateKey(x) == <<"state:">> \o x.agent \o <<":">> \o x.session
ListKey(ag) == <<"state:", "sessions", ":">> \o ag
RowKey(x)   == <<"row", x.agent, x.session>>
CacheKey(k) == <<"cache:", k>>

Stored == DOMAIN strings \union DOMAIN members

-----------------------------------------------------------------------------
(* The commands of the methods that write. *)
Command(do, keys, arg) == [do |-> do, keys |-> keys, arg |-> arg]

SaveRedis(x) == <<Command("SET", {StateKey(x)}, x),
                  Command("SADD", {ListKey(x.agent)}, x.session)>>

(* A variant that leaves the session on the list. *)
DeleteStateOnly(x) == <<Command("DEL", {StateKey(x)}, x)>>

DeleteRedis(x) == <<Command("DEL", {StateKey(x)}, x),
                    Command("SREM", {ListKey(x.agent)}, x.session)>>

SavePostgres(x)   == <<Command("SET", {RowKey(x)}, x)>>
DeletePostgres(x) == <<Command("DEL", {RowKey(x)}, x)>>

SetCached(k)    == <<Command("SET", {CacheKey(k)}, k)>>
DeleteCached(k) == <<Command("DEL", {CacheKey(k)}, k)>>

Commands(do, x) ==
  CASE do = "save"   -> IF server = "postgres" THEN SavePostgres(x) ELSE SaveRedis(x)
    [] do = "delete" -> IF server = "postgres" THEN DeletePostgres(x) ELSE DeleteRedis(x)
    [] do = "set"    -> SetCached(x)
    [] do = "unset"  -> DeleteCached(x)

(* A set command meets a key that holds a string. *)
WrongType(cmd) == cmd.do \in {"SADD", "SREM"} /\ cmd.keys \intersect DOMAIN strings # {}

(* What the server does. *)
Write(cmd) ==
  /\ cmd.do = "SET"
  /\ strings' = [k \in DOMAIN strings \union cmd.keys |->
                   IF k \in cmd.keys THEN cmd.arg ELSE strings[k]]
  /\ members' = Restrict(members, DOMAIN members \ cmd.keys)

Unset(cmd) ==
  /\ cmd.do = "DEL"
  /\ strings' = Restrict(strings, DOMAIN strings \ cmd.keys)
  /\ members' = Restrict(members, DOMAIN members \ cmd.keys)

Enlist(cmd) ==
  /\ cmd.do \in {"SADD", "SREM"} /\ ~WrongType(cmd)
  /\ LET set(k)  == IF k \in DOMAIN members THEN members[k] ELSE {}
         after   == [k \in DOMAIN members \union cmd.keys |->
                       IF k \notin cmd.keys THEN members[k]
                       ELSE IF cmd.do = "SADD" THEN set(k) \union {cmd.arg}
                                               ELSE set(k) \ {cmd.arg}]
     IN members' = Restrict(after, {k \in DOMAIN after : after[k] # {}})
  /\ UNCHANGED strings

Executes(cmd) ==
  Write(cmd) \/ Unset(cmd) \/ Enlist(cmd) \/ (WrongType(cmd) /\ UNCHANGED <<strings, members>>)

-----------------------------------------------------------------------------
(* A call: what it does and on what; its commands not yet answered, and the *)
(* reply on its way; whether an opposite call met it.  Of a scan: whether   *)
(* the cursor says that more is to come; the keys                           *)
(* that it owes, which have been there since it began and which it has not  *)
(* shown; those that have been there (Clear: as they were) since it began;  *)
(* how many it has counted, and its pages.                                  *)
NoCall == [do |-> "none", on |-> {}, todo |-> <<>>, reply |-> "none", met |-> FALSE,
           more |-> FALSE, at |-> "idle", owed |-> {}, kept |-> {}, count |-> 0, pages |-> 0, calls |-> 0]

Underway(c)   == call[c].at = "open"
Writes(c) == call[c].do \in {"save", "delete"}

(* New: with several addresses a client of a cluster, with one, or with     *)
(* sentinels, of one server.                                                *)
ConnectRedisState == server' \in {"single", "cluster"}
ConnectRedisCache == server' \in {"single", "cluster"}

(* New of PostgresStateStore: the table is created unless it exists; the    *)
(* store works without the indexes.                                         *)
ConnectPostgres == server' = "postgres"

Connect ==
  /\ server = "none"
  /\ ConnectRedisState \/ ConnectRedisCache \/ ConnectPostgres
  /\ UNCHANGED <<strings, members, call, late, torn>>

RemoteInit ==
  /\ server = "none"
  /\ strings = <<>> /\ members = <<>>
  /\ call = [c \in Clients |-> NoCall]
  /\ late = {}
  /\ torn = [x \in States |-> FALSE]

Begin(c, new) ==
  /\ server # "none"
  /\ ~Underway(c) /\ call[c].calls < MaxRemoteCalls
  /\ call' = [call EXCEPT ![c] = [new EXCEPT !.at = "open", !.calls = call[c].calls + 1]]
  /\ UNCHANGED <<server, strings, members, late, torn>>

(* Save or Delete of a state. *)
BeginWrite(c, do, x) == Begin(c, [NoCall EXCEPT !.do = do, !.on = x, !.todo = Commands(do, x)])

(* Set or Delete of the cache. *)
BeginCache(c, do, k) ==
  /\ server # "postgres"
  /\ Begin(c, [NoCall EXCEPT !.do = do, !.on = k, !.todo = Commands(do, k)])

(* Clear of the cache and Count of the states scan the keys of a prefix. *)
Matching(do) == {k \in Stored : k[1] = IF do = "clear" THEN "cache:" ELSE "state:"}

BeginScan(c, do) ==
  /\ server # "postgres"
  /\ Begin(c, [NoCall EXCEPT !.do = do, !.more = TRUE, !.owed = Matching(do), !.kept = Matching(do)])

-----------------------------------------------------------------------------
(* A command is executed.  Scans hear of the keys that go and come.  Calls  *)
(* that write the same state on opposite ends meet.                         *)
Stirs(cmd, d) ==
  LET gone == Stored \ (DOMAIN strings' \union DOMAIN members')
      set  == IF cmd.do = "SET" /\ call[d].do = "clear" THEN cmd.keys ELSE {}
  IN [call[d] EXCEPT !.owed = @ \ gone, !.kept = @ \ (gone \union set)]

Perform(c) ==
  /\ Underway(c) /\ call[c].todo # <<>>
  /\ LET cmd == Head(call[c].todo)
     IN /\ Executes(cmd)
        /\ call' = [[d \in Clients |-> Stirs(cmd, d)] EXCEPT
                      ![c].reply = IF WrongType(cmd) THEN "error" ELSE "ok"]
  /\ UNCHANGED <<server, late, torn>>

Others(c, x) == {d \in Clients \ {c} : Underway(d) /\ Writes(d) /\ call[d].on = x
                                         /\ call[d].do # call[c].do}

(* The call ends, well or not; those it leaves behind have met it. *)
Ends(c, at) ==
  LET x == call[c].on
  IN IF Writes(c)
       THEN /\ torn' = [torn EXCEPT ![x] = at = "failed" \/ call[c].met \/ Others(c, x) # {}]
            /\ call' = [d \in Clients |->
                          IF d = c THEN [call[c] EXCEPT !.at = at, !.todo = <<>>, !.reply = "none"]
                          ELSE [call[d] EXCEPT !.met = @ \/ d \in Others(c, x)]]
       ELSE /\ call' = [call EXCEPT ![c].at = at, ![c].todo = <<>>, ![c].reply = "none"]
            /\ UNCHANGED torn

(* The reply to the last command arrives, or to one with others after it. *)
Answered(c) ==
  /\ Underway(c) /\ call[c].reply = "ok"
  /\ IF Len(call[c].todo) = 1 /\ ~call[c].more
       THEN Ends(c, "done")
       ELSE /\ call' = [call EXCEPT ![c].todo = Tail(@), ![c].reply = "none"]
            /\ UNCHANGED torn
  /\ UNCHANGED <<server, strings, members, late>>

(* An error, no reply in time, or no connection. *)
Fail(c) ==
  /\ Underway(c)
  /\ Ends(c, "failed")
  /\ late' \in IF call[c].todo = <<>> THEN {late} ELSE {late, late \union {Head(call[c].todo)}}
  /\ UNCHANGED <<server, strings, members>>

(* The server comes to execute the command of a call that has failed. *)
Straggles(cmd) ==
  LET on(x) == cmd.keys \intersect {StateKey(x), RowKey(x), ListKey(x.agent)} # {}
  IN /\ cmd \in late
     /\ late' = late \ {cmd}
     /\ Executes(cmd)
     /\ call' = [d \in Clients |-> [Stirs(cmd, d) EXCEPT 
              !.met = @ \/ (Underway(d) /\ Writes(d) /\ on(call[d].on))]]
     /\ torn' = [x \in States |-> torn[x] \/ on(x)]
     /\ UNCHANGED server

-----------------------------------------------------------------------------
(* A page of a scan shows some of the keys that are there, the same again   *)
(* perhaps.  On a single server the cursor is 0 only when no key is owed;   *)
(* in a cluster the client asks whichever node comes, and the cursor says   *)
(* nothing of the others.                                                   *)
MayBeLast(c, shown) == server = "cluster" \/ call[c].owed \subseteq shown

Page(c, shown, more, new) ==
  /\ Underway(c) /\ call[c].more /\ call[c].todo = <<>>
  /\ call[c].pages < MaxPages
  /\ more \/ MayBeLast(c, shown)
  /\ call' = [call EXCEPT ![c] = [new EXCEPT !.pages = @ + 1, !.owed = @ \ shown, !.more = more,
                                            !.at = IF more \/ new.todo # <<>> THEN "open" ELSE "done"]]
  /\ UNCHANGED <<server, strings, members, late, torn>>

(* A variant that is over after a page that shows nothing. *)
ClearUntilEmpty(c, shown, more) ==
  /\ call[c].do = "clear"
  /\ IF shown = {}
       THEN /\ Underway(c) /\ call[c].more /\ call[c].todo = <<>>
            /\ call' = [call EXCEPT ![c].at = "done", ![c].more = FALSE]
            /\ UNCHANGED <<server, strings, members, late, torn>>
       ELSE Page(c, shown, more, [call[c] EXCEPT !.todo = <<Command("DEL", shown, {})>>])

(* Clear: the keys of a page are deleted before the next page. *)
ClearPage(c, shown, more) ==
  /\ call[c].do = "clear"
  /\ Page(c, shown, more,
          [call[c] EXCEPT !.todo = IF shown = {} THEN <<>> ELSE <<Command("DEL", shown, {})>>])

(* Count: all keys but those that look like a list of sessions. *)
LooksLikeList(k) == \E i \in 1 .. Len(k) - 1 : k[i] = "sessions" /\ k[i + 1] = ":"
CountPage(c, shown, more) ==
  /\ call[c].do = "count"
  /\ Page(c, shown, more,
          [call[c] EXCEPT !.count = @ + Cardinality({k \in shown : ~LooksLikeList(k)})])

RemoteNext ==
  \/ Connect
  \/ \E c \in Clients :
       \/ \E x \in States : BeginWrite(c, "save", x) \/ BeginWrite(c, "delete", x)
       \/ \E k \in Items : BeginCache(c, "set", k) \/ BeginCache(c, "unset", k)
       \/ BeginScan(c, "clear") \/ BeginScan(c, "count")
       \/ Perform(c) \/ Answered(c) \/ Fail(c)
       \/ \E more \in BOOLEAN, shown \in SUBSET Matching(call[c].do) :
            ClearPage(c, shown, more) \/ CountPage(c, shown, more)
  \/ \E cmd \in late : Straggles(cmd)

RemoteSpec == RemoteInit /\ [][RemoteNext]_remoteVars

-----------------------------------------------------------------------------
(* Load finds the state, and whose it is; List shows its session. *)
LoadRedis(x)    == StateKey(x) \in DOMAIN strings
LoadPostgres(x) == RowKey(x) \in DOMAIN strings
ListRedis(x)    == ListKey(x.agent) \in DOMAIN members /\ x.session \in members[ListKey(x.agent)]
ListPostgres(x) == \E k \in DOMAIN strings : k[1] = "row" /\ k[2] = x.agent /\ k[3] = x.session

Loads(x) == IF server = "postgres" THEN LoadPostgres(x) ELSE LoadRedis(x)
Lists(x) == IF server = "postgres" THEN ListPostgres(x) ELSE ListRedis(x)

(* No other state, and no list, is kept under the keys of x. *)
Alone(x) == /\ \A y \in States \ {x} : StateKey(y) # StateKey(x)
            /\ \A y \in States : /\ ListKey(y.agent) # StateKey(x)
                                 /\ StateKey(y) # ListKey(x.agent)

(* What List shows and what Load finds agree, whatever failed, arrived late *)
(* or overlapped before, once a Save or Delete of the state has succeeded   *)
(* that met none of the other kind; unless other identifiers make its keys. *)
StatesAgree ==
  \A x \in States :
    Alone(x) /\ ~torn[x] /\ ~(\E c \in Clients : Underway(c) /\ Writes(c) /\ call[c].on = x)
      => (Loads(x) <=> Lists(x))

(* After Clear has succeeded, nothing is left of what was in the cache when *)
(* it began, but what was set since; Count has counted every key that was   *)
(* there all the time, but those that look like a list of sessions, as the  *)
(* states of an agent named like the lists do.  Of a cluster they promise   *)
(* nothing.                                                                *)
ScansAreDone ==
  \A c \in Clients : call[c].at = "done" /\ server = "single" =>
    /\ call[c].do = "clear" => call[c].kept \intersect Stored = {}
    /\ call[c].do = "count" =>
         call[c].count >= Cardinality({k \in call[c].kept : ~LooksLikeList(k)})

RemoteAgrees == StatesAgree /\ ScansAreDone
=============================================================================
