--------------------------- MODULE SessionProofs ---------------------------
(***************************************************************************)
(* Machine-checked proofs about Session, for any number of handlers, keys  *)
(* and databases, any native commands and transactions of any length: only *)
(* execute and row_write change data, and what the handlers report (the    *)
(* guidance, the row counts, the counts of keys) is what the properties of *)
(* Session say, however native commands of other handlers have left the    *)
(* connection.                                                             *)
(***************************************************************************)
EXTENDS Session, Induction, FiniteSetTheorems, TLAPS

Mutating == {"execute", "insert", "delete"}

HandlerStates ==
    [request: Requests \cup {NoRequest}, pc: Working \cup {"idle"}, error: {"none", "wrongtype"}]

\* The connection is one, and a handler that may not change data has a
\* harmless command.
Inv ==
    /\ redis = Connection(redis.data, redis.current, redis.multi, redis.aborted, redis.queue)
    /\ handler \in [Handlers -> HandlerStates]
    /\ \A h \in Handlers :
         handler[h].request.op \notin Mutating => Harmless(handler[h].request.command)

\* The commands that are sent, and the states of the connection.
Sent ==
    [verb: NativeVerbs \cup {"none", "DBSIZE", "INFO", "SCAN", "SET NX", "DEL", "TYPE"},
     key: Keys \cup {NoKey}, database: Databases]

Connections ==
    [data: [Databases -> [Keys -> Types \cup {Absent}]], current: Databases, multi: BOOLEAN,
     aborted: BOOLEAN, queue: Seq(Sent)]

\* The connection is in the database of the target, and will be after EXEC.
AtHome(s) ==
    /\ s.current = Database
    /\ \A i \in 1..Len(s.queue) : s.queue[i].verb # "SELECT"

\* A handler that explains a failure explains a WRONGTYPE, of a key that
\* still has the wrong type unless the record says it changed.
Guiding(h) ==
    handler[h].pc = "guide" =>
      /\ handler[h].error = "wrongtype"
      /\ handler[h].request.command.key \in Keys
      /\ h \in raced \/ ~Fits(handler[h].request.command.verb, TypeSeen(redis, h))

Viewing(h) ==
    handler[h].pc \in {"info 1", "info 2", "info 3"} => handler[h].request.op = "workspace_view"

SessionInv ==
    /\ redis \in Connections
    /\ ~selected => AtHome(redis)
    /\ \A h \in Handlers : Guiding(h) /\ Viewing(h)

Answers == GuidanceFits /\ RowWriteReported /\ AnswersDescribeDatabase

-----------------------------------------------------------------------------
(* The transaction: EXEC runs a recursive function over the queue           *)

\* g is the sequence of connections that the first n queued commands make.
Runs(s, n, g) == g = [i \in 0..n |-> IF i = 0 THEN s ELSE RunNow(g[i - 1], s.queue[i])]

\* There is one, for a queue of any length.
LEMMA RunExists == \A s : \A n \in Nat : \E g : Runs(s, n, g)
<1> SUFFICES ASSUME NEW s PROVE \A n \in Nat : \E g : Runs(s, n, g)
  OBVIOUS
<1> DEFINE S == {n \in Nat : \E g : Runs(s, n, g)}
<1>1. 0 \in S
  <2> DEFINE g == [i \in 0..0 |-> s]
  <2>1. g = [i \in 0..0 |-> IF i = 0 THEN s ELSE RunNow(g[i - 1], s.queue[i])]
    OBVIOUS
  <2> QED BY <2>1 DEF Runs
<1>2. ASSUME NEW n \in Nat, n \in S PROVE n + 1 \in S
  <2>1. PICK g : Runs(s, n, g)
    BY <1>2
  <2> DEFINE k == [i \in 0..(n + 1) |-> IF i = 0 THEN s ELSE RunNow(g[i - 1], s.queue[i])]
  <2>2. \A i \in 0..n : g[i] = IF i = 0 THEN s ELSE RunNow(g[i - 1], s.queue[i])
    BY <2>1 DEF Runs
  <2>3. \A i \in 0..n : k[i] = g[i]
    BY <2>2
  <2>4. ASSUME NEW i \in 0..(n + 1)
        PROVE  k[i] = IF i = 0 THEN s ELSE RunNow(k[i - 1], s.queue[i])
    <3>1. k[i] = IF i = 0 THEN s ELSE RunNow(g[i - 1], s.queue[i])
      OBVIOUS
    <3>2. i # 0 => i - 1 \in 0..n
      OBVIOUS
    <3> HIDE DEF k
    <3>3. i # 0 => k[i - 1] = g[i - 1]
      BY <2>3, <3>2
    <3> QED BY <3>1, <3>3
  <2>5. k = [i \in 0..(n + 1) |-> IF i = 0 THEN s ELSE RunNow(k[i - 1], s.queue[i])]
    <3>1. k = [i \in 0..(n + 1) |-> k[i]]
      OBVIOUS
    <3> HIDE DEF k
    <3>2. [i \in 0..(n + 1) |-> k[i]]
            = [i \in 0..(n + 1) |-> IF i = 0 THEN s ELSE RunNow(k[i - 1], s.queue[i])]
      BY <2>4
    <3> QED BY <3>1, <3>2
  <2> HIDE DEF k
  <2> QED BY <2>5 DEF Runs
<1> HIDE DEF S
<1>3. Nat \subseteq S
  BY <1>1, <1>2, NatSetInduction
<1> QED BY <1>3 DEF S

\* EXEC ends in the last connection of that sequence.
LEMMA RunQueueIs ==
  \A s : Len(s.queue) \in Nat =>
    \E g : Runs(s, Len(s.queue), g) /\ RunQueue(s) = g[Len(s.queue)]
<1> SUFFICES ASSUME NEW s, Len(s.queue) \in Nat
             PROVE  \E g : Runs(s, Len(s.queue), g) /\ RunQueue(s) = g[Len(s.queue)]
  OBVIOUS
<1> DEFINE g == CHOOSE g : g = [i \in 0..Len(s.queue) |->
                                  IF i = 0 THEN s ELSE RunNow(g[i - 1], s.queue[i])]
<1>1. RunQueue(s) = g[Len(s.queue)]
  BY DEF RunQueue
<1>2. \E f : f = [i \in 0..Len(s.queue) |-> IF i = 0 THEN s ELSE RunNow(f[i - 1], s.queue[i])]
  BY RunExists DEF Runs
<1>3. g = [i \in 0..Len(s.queue) |-> IF i = 0 THEN s ELSE RunNow(g[i - 1], s.queue[i])]
  BY <1>2, Zenon
<1> HIDE DEF g
<1> QED BY <1>1, <1>3 DEF Runs

\* What every command of the transaction preserves, EXEC preserves.
LEMMA RunQueueIn ==
  ASSUME NEW s, Len(s.queue) \in Nat, NEW S, s \in S,
         \A t \in S, i \in 1..Len(s.queue) : RunNow(t, s.queue[i]) \in S
  PROVE  RunQueue(s) \in S
<1>1. PICK g : Runs(s, Len(s.queue), g) /\ RunQueue(s) = g[Len(s.queue)]
  BY RunQueueIs
<1>2. \A i \in 0..Len(s.queue) : g[i] = IF i = 0 THEN s ELSE RunNow(g[i - 1], s.queue[i])
  BY <1>1 DEF Runs
<1> DEFINE T == {n \in Nat : n <= Len(s.queue) => g[n] \in S}
<1>3. 0 \in T
  BY <1>2
<1>4. ASSUME NEW n \in Nat, n \in T PROVE n + 1 \in T
  <2> SUFFICES ASSUME n + 1 <= Len(s.queue) PROVE g[n + 1] \in S
    OBVIOUS
  <2>1. g[n] \in S
    BY <1>4
  <2>2. n + 1 \in 1..Len(s.queue) /\ n + 1 \in 0..Len(s.queue) /\ n + 1 # 0 /\ (n + 1) - 1 = n
    OBVIOUS
  <2>3. g[n + 1] = RunNow(g[n], s.queue[n + 1])
    BY <1>2, <2>2
  <2> QED BY <2>1, <2>2, <2>3
<1> HIDE DEF T
<1>5. Nat \subseteq T
  BY <1>3, <1>4, NatSetInduction
<1>6. Len(s.queue) \in T
  BY <1>5
<1> QED BY <1>1, <1>6 DEF T

-----------------------------------------------------------------------------
(* Commands                                                                 *)

CommandlessOps == {"validate"} \cup TableOps \cup FixedSchemaOps \cup ListOps

RequestKind(q) ==
    \/ \E op \in {"execute", "execute_read_only"}, c \in NativeCommands : q = Request(op, c, "none")
    \/ \E k \in Keys : q = Request("insert", Command("SET NX", k, Database), "keys")
    \/ \E k \in Keys : q = Request("delete", Command("DEL", k, Database), "keys")
    \/ \E op \in CommandlessOps \cup {"list_schema", "workspace_view", "browse_table"} :
       \E t : \E v \in {"DBSIZE", "INFO", "SCAN", "none"} : q = Request(op, Keyless(v), t)

\* The requests, by the commands they name.
LEMMA RequestKinds ==
  ASSUME NEW q \in Requests
  PROVE  RequestKind(q)
<1> USE DEF RequestKind
<1>1. CASE \/ q \in {Request("execute", c, "none") : c \in NativeCommands}
           \/ q \in {Request("execute_read_only", c, "none") : c \in NativeCommands}
  BY <1>1, Zenon
<1>2. CASE q \in {Request("insert", Command("SET NX", k, Database), "keys") : k \in Keys}
  BY <1>2, Zenon
<1>3. CASE q \in {Request("delete", Command("DEL", k, Database), "keys") : k \in Keys}
  BY <1>3, Zenon
<1>4. CASE q = Request("validate", Keyless("none"), "none")
  <2>1. "validate" \in CommandlessOps
    BY DEF CommandlessOps
  <2> QED BY <1>4, <2>1, Zenon
<1>5. CASE q = Request("list_schema", Keyless("DBSIZE"), "none")
  BY <1>5, Zenon
<1>6. CASE q \in {Request("workspace_view", Keyless("INFO"), t) :
                    t \in {"database", "table", "schema"}}
  BY <1>6, Zenon
<1>7. CASE q \in {Request("browse_table", Keyless("SCAN"), t) : t \in {"keys", "other"}}
  BY <1>7, Zenon
<1>8. CASE \/ q \in {Request(op, Keyless("none"), "keys") :
                       op \in TableOps \cup FixedSchemaOps \cup ListOps}
           \/ q \in {Request(op, Keyless("none"), "other") : op \in TableOps}
  <2>1. TableOps \cup FixedSchemaOps \cup ListOps \subseteq CommandlessOps
    BY DEF CommandlessOps
  <2> QED BY <1>8, <2>1, Zenon
<1> QED BY <1>1, <1>2, <1>3, <1>4, <1>5, <1>6, <1>7, <1>8, Zenon DEF Requests

\* Row writes name a key and their own command.
LEMMA RequestShape ==
  ASSUME NEW q \in Requests \cup {NoRequest}
  PROVE  /\ q.command \in Sent
         /\ q.op = "insert" => q.command.verb = "SET NX" /\ q.command.key \in Keys
         /\ q.op = "delete" => q.command.verb = "DEL" /\ q.command.key \in Keys
<1> DEFINE Shape == /\ q.command \in Sent
                    /\ q.op = "insert" => q.command.verb = "SET NX" /\ q.command.key \in Keys
                    /\ q.op = "delete" => q.command.verb = "DEL" /\ q.command.key \in Keys
<1> SUFFICES Shape
  OBVIOUS
<1> USE SessionAssumption
<1>1. ASSUME NEW op \in {"execute", "execute_read_only"}, NEW c \in NativeCommands,
             q = Request(op, c, "none")
      PROVE  Shape
  <2>1. q.op = op /\ q.command = c
    BY <1>1 DEF Request
  <2>2. c \in Sent
    BY DEF NativeCommands, Sent
  <2> QED BY <2>1, <2>2
<1>2. ASSUME NEW k \in Keys, q = Request("insert", Command("SET NX", k, Database), "keys")
      PROVE  Shape
  BY <1>2 DEF Request, Command, Sent
<1>3. ASSUME NEW k \in Keys, q = Request("delete", Command("DEL", k, Database), "keys")
      PROVE  Shape
  BY <1>3 DEF Request, Command, Sent
<1>4. ASSUME NEW op \in CommandlessOps \cup {"list_schema", "workspace_view", "browse_table"},
             NEW t, NEW v \in {"DBSIZE", "INFO", "SCAN", "none"}, q = Request(op, Keyless(v), t)
      PROVE  Shape
  <2>1. q.op = op /\ q.command = Keyless(v)
    BY <1>4 DEF Request
  <2>2. op \notin {"insert", "delete"}
    BY DEF CommandlessOps, TableOps, FixedSchemaOps, ListOps
  <2>3. Keyless(v) \in Sent
    BY DEF Keyless, Command, Sent
  <2> QED BY <2>1, <2>2, <2>3
<1>5. CASE q = NoRequest
  BY <1>5 DEF NoRequest, Request, Keyless, Command, Sent
<1>6. CASE q \in Requests
  <2> HIDE DEF Shape
  <2>1. RequestKind(q)
    BY <1>6, RequestKinds
  <2> QED BY <1>1, <1>2, <1>3, <1>4, <2>1 DEF RequestKind
<1> QED BY <1>5, <1>6

\* The requests that reach Redis and are not to change data name harmless
\* commands: the allowlist of execute_read_only has no other.
LEMMA RequestHarmless ==
  ASSUME NEW q \in Requests, Immediate(q) = "none", q.op \notin Mutating
  PROVE  Harmless(q.command)
<1>1. ASSUME NEW op \in {"execute", "execute_read_only"}, NEW c, q = Request(op, c, "none")
      PROVE  Harmless(q.command)
  <2>1. q.op = op
    BY <1>1 DEF Request
  <2>2. q.op = "execute_read_only"
    BY <2>1 DEF Mutating
  <2>3. IsReadOnly(q.command.verb)
    BY <2>2 DEF Immediate, ListOps, TableOps, FixedSchemaOps
  <2> QED BY <2>3 DEF IsReadOnly, READ_ONLY_COMMANDS, Harmless, Writes
<1>2. ASSUME NEW op \in {"insert", "delete"}, NEW c, NEW t, q = Request(op, c, t)
      PROVE  Harmless(q.command)
  <2>1. q.op = op
    BY <1>2 DEF Request
  <2> QED BY <2>1 DEF Mutating
<1>3. ASSUME NEW op, NEW t, NEW v \in {"DBSIZE", "INFO", "SCAN", "none"},
             q = Request(op, Keyless(v), t)
      PROVE  Harmless(q.command)
  <2>1. q.command.verb = v
    BY <1>3 DEF Request, Keyless, Command
  <2> QED BY <2>1 DEF Harmless, Writes
<1>4. RequestKind(q)
  BY RequestKinds
<1> QED BY <1>1, <1>2, <1>3, <1>4 DEF RequestKind

\* A harmless command leaves everything but the queue of a transaction.
LEMMA HarmlessKeeps ==
  ASSUME redis = Connection(redis.data, redis.current, redis.multi, redis.aborted, redis.queue),
         NEW c, Harmless(c)
  PROVE  /\ After(redis, c).data = redis.data
         /\ After(redis, c).current = redis.current
         /\ After(redis, c).multi = redis.multi
         /\ \/ After(redis, c).queue = redis.queue
            \/ redis.multi /\ After(redis, c).queue = Append(redis.queue, c)
<1>1. CASE redis.multi
  <2>1. After(redis, c) \in {redis, [redis EXCEPT !.queue = Append(@, c)]}
    BY <1>1 DEF After, Harmless
  <2> QED BY <1>1, <2>1 DEF Connection
<1>2. CASE ~redis.multi
  <2>1. After(redis, c) = RunNow(redis, c)
    BY <1>2 DEF After, Harmless
  <2>2. RunNow(redis, c) = redis
    BY DEF RunNow, Harmless
  <2> QED BY <2>1, <2>2
<1> QED BY <1>1, <1>2

\* Whatever the command, the connection stays a record of its five parts.
LEMMA AfterShape ==
  ASSUME redis = Connection(redis.data, redis.current, redis.multi, redis.aborted, redis.queue), NEW c
  PROVE  After(redis, c) = Connection(After(redis, c).data, After(redis, c).current,
                                      After(redis, c).multi, After(redis, c).aborted,
                                      After(redis, c).queue)
<1>1. CASE c.verb = "MULTI"
  BY <1>1 DEF After, Connection
<1>2. CASE c.verb = "EXEC"
  BY <1>2 DEF After, EndTransaction, Connection
<1>3. CASE c.verb = "DISCARD"
  BY <1>3 DEF After, EndTransaction, Connection
<1>4. CASE c.verb \notin {"MULTI", "EXEC", "DISCARD"} /\ redis.multi
  <2>1. After(redis, c) \in {redis, [redis EXCEPT !.queue = Append(@, c)]}
    BY <1>4 DEF After
  <2> QED BY <2>1 DEF Connection
<1>5. CASE c.verb \notin {"MULTI", "EXEC", "DISCARD"} /\ ~redis.multi
  <2>1. After(redis, c) = RunNow(redis, c)
    BY <1>5 DEF After
  <2>2. RunNow(redis, c) \in {redis, [redis EXCEPT !.current = c.database],
                              [redis EXCEPT !.data[redis.current][c.key] = TypeAfter(c.verb, @)]}
    BY DEF RunNow
  <2>3. CASE RunNow(redis, c) = redis
    BY <2>1, <2>3
  <2>4. CASE RunNow(redis, c) = [redis EXCEPT !.current = c.database]
    BY <2>1, <2>4 DEF Connection
  <2>5. CASE RunNow(redis, c) =
             [redis EXCEPT !.data[redis.current][c.key] = TypeAfter(c.verb, @)]
    BY <2>1, <2>5 DEF Connection
  <2> QED BY <2>2, <2>3, <2>4, <2>5
<1> QED BY <1>1, <1>2, <1>3, <1>4, <1>5

\* A single command keeps the connection well formed, and only SELECT moves it.
LEMMA RunNowType ==
  ASSUME NEW s \in Connections, NEW c, c.database \in Databases
  PROVE  /\ RunNow(s, c) \in Connections
         /\ RunNow(s, c).queue = s.queue /\ RunNow(s, c).multi = s.multi
         /\ c.verb # "SELECT" => RunNow(s, c).current = s.current
<1>1. CASE c.verb = "SELECT"
  <2>1. RunNow(s, c) = [s EXCEPT !.current = c.database]
    BY <1>1 DEF RunNow, Writes
  <2> QED BY <1>1, <2>1 DEF Connections
<1>2. CASE c.verb # "SELECT" /\ c.verb \in Writes
  <2> DEFINE f == s.data[s.current]
             g == [f EXCEPT ![c.key] = TypeAfter(c.verb, f[c.key])]
  <2>1. RunNow(s, c) = [s EXCEPT !.data = [@ EXCEPT ![s.current] = g]]
    BY <1>2 DEF RunNow
  <2>2. f \in [Keys -> Types \cup {Absent}]
    BY DEF Connections
  <2>3. c.key \in Keys => TypeAfter(c.verb, f[c.key]) \in Types \cup {Absent}
    BY <2>2 DEF TypeAfter, Types, Absent
  <2>4. g \in [Keys -> Types \cup {Absent}]
    BY <2>2, <2>3
  <2> HIDE DEF g
  <2> QED BY <2>1, <2>4 DEF Connections
<1>3. CASE c.verb # "SELECT" /\ c.verb \notin Writes
  <2>1. RunNow(s, c) = s
    BY <1>3 DEF RunNow
  <2> QED BY <2>1
<1> QED BY <1>1, <1>2, <1>3

\* So does any command with what it sets off, EXEC included.
LEMMA AfterType ==
  ASSUME NEW s \in Connections, NEW c \in Sent
  PROVE  /\ After(s, c) \in Connections
         /\ c.verb # "SELECT" /\ AtHome(s) => AtHome(After(s, c))
<1>0. c.database \in Databases
  BY DEF Sent
<1>q. s.queue \in Seq(Sent) /\ Len(s.queue) \in Nat
  BY DEF Connections
<1>1. CASE c.verb = "MULTI"
  <2>1. After(s, c) = [s EXCEPT !.multi = TRUE]
    BY <1>1 DEF After
  <2> QED BY <2>1 DEF Connections, AtHome
<1>2. CASE c.verb = "EXEC"
  <2>1. After(s, c) \in {EndTransaction(s), EndTransaction(RunQueue(s))}
    BY <1>2 DEF After
  <2> DEFINE S == {t \in Connections : AtHome(s) => t.current = Database}
  <2>2. s \in S
    BY DEF AtHome
  <2>3. ASSUME NEW t \in S, NEW i \in 1..Len(s.queue) PROVE RunNow(t, s.queue[i]) \in S
    <3>0. s.queue[i] \in Sent
      BY <1>q
    <3>1. s.queue[i].database \in Databases
      BY <3>0 DEF Sent
    <3>2. AtHome(s) => s.queue[i].verb # "SELECT"
      BY DEF AtHome
    <3> QED BY <3>1, <3>2, RunNowType
  <2> HIDE DEF S
  <2>4. RunQueue(s) \in S
    BY <1>q, <2>2, <2>3, RunQueueIn
  <2>5. ASSUME NEW t \in S
        PROVE  /\ EndTransaction(t) \in Connections
               /\ AtHome(s) => AtHome(EndTransaction(t))
    BY <2>5 DEF S, EndTransaction, Connection, Connections, AtHome
  <2> QED BY <2>1, <2>2, <2>4, <2>5
<1>3. CASE c.verb = "DISCARD"
  <2>1. After(s, c) = EndTransaction(s)
    BY <1>3 DEF After
  <2> QED BY <2>1 DEF EndTransaction, Connection, Connections, AtHome
<1>4. CASE c.verb \notin {"MULTI", "EXEC", "DISCARD"} /\ s.multi
  <2>1. After(s, c) \in {s, [s EXCEPT !.queue = Append(s.queue, c)]}
    BY <1>4 DEF After
  <2>2. Append(s.queue, c) \in Seq(Sent)
    BY <1>q
  <2>3. c.verb # "SELECT" /\ AtHome(s) =>
          \A i \in 1..Len(Append(s.queue, c)) : Append(s.queue, c)[i].verb # "SELECT"
    BY <1>q DEF AtHome
  <2> QED BY <2>1, <2>2, <2>3 DEF Connections, AtHome
<1>5. CASE c.verb \notin {"MULTI", "EXEC", "DISCARD"} /\ ~s.multi
  <2>1. After(s, c) = RunNow(s, c)
    BY <1>5 DEF After
  <2> QED BY <1>0, <2>1, RunNowType DEF AtHome
<1> QED BY <1>1, <1>2, <1>3, <1>4, <1>5

\* A command that is refused changes nothing but the transaction.
LEMMA RefusedIs ==
  ASSUME NEW c,
         redis = Connection(redis.data, redis.current, redis.multi, redis.aborted, redis.queue)
  PROVE  /\ Refused(redis, c) = Connection(redis.data, redis.current, Refused(redis, c).multi,
                                           Refused(redis, c).aborted, Refused(redis, c).queue)
         /\ Harmless(c) => /\ Refused(redis, c).multi = redis.multi
                           /\ Refused(redis, c).queue = redis.queue
         /\ redis \in Connections => Refused(redis, c) \in Connections
         /\ AtHome(redis) => AtHome(Refused(redis, c))
<1>1. CASE c.verb = "EXEC"
  <2>1. Refused(redis, c) = Connection(redis.data, redis.current, FALSE, FALSE, <<>>)
    BY <1>1 DEF Refused, EndTransaction
  <2>2. ~Harmless(c)
    BY <1>1 DEF Harmless
  <2>3. redis \in Connections => Refused(redis, c) \in Connections
    BY <2>1 DEF Connection, Connections
  <2>4. /\ Refused(redis, c).queue = <<>> /\ Refused(redis, c).current = redis.current
        /\ Refused(redis, c) = Connection(redis.data, redis.current, Refused(redis, c).multi,
                                          Refused(redis, c).aborted, Refused(redis, c).queue)
    BY <2>1 DEF Connection
  <2>5. AtHome(redis) => AtHome(Refused(redis, c))
    BY <2>4 DEF AtHome
  <2> QED BY <2>2, <2>3, <2>4, <2>5
<1>2. CASE c.verb # "EXEC"
  <2>1. Refused(redis, c) = [redis EXCEPT !.aborted = redis.aborted \/ redis.multi]
    BY <1>2 DEF Refused
  <2>2. Refused(redis, c) = Connection(redis.data, redis.current, redis.multi,
                                       redis.aborted \/ redis.multi, redis.queue)
    BY <2>1 DEF Connection
  <2> QED BY <2>2 DEF Connection, Connections, AtHome
<1> QED BY <1>1, <1>2

\* A command that fails with WRONGTYPE names a key that has the wrong type,
\* and changes nothing.
LEMMA GuidedType ==
  ASSUME NEW s \in Connections, NEW c \in Sent, ReplyTo(s, c) = "wrongtype"
  PROVE  /\ c.key \in Keys
         /\ ~Fits(c.verb, s.data[s.current][c.key])
         /\ After(s, c) = s
<1>1. ~s.multi /\ c.verb \notin {"MULTI", "EXEC", "DISCARD"} /\ c.key # NoKey
       /\ ~Fits(c.verb, s.data[s.current][c.key])
  BY DEF ReplyTo
<1>2. c.key \in Keys
  BY <1>1 DEF Sent
<1>3. After(s, c) = RunNow(s, c)
  BY <1>1 DEF After
<1>4. c.verb \in {"GET", "GETDEL", "HSET", "HGETALL"}
  BY <1>1 DEF Fits
<1> DEFINE t == s.data[s.current][c.key]
<1>5. TypeAfter(c.verb, t) = t
  BY <1>1, <1>4 DEF TypeAfter, Fits, Absent
<1>6. CASE c.verb \in {"GETDEL", "HSET"}
  <2>1. RunNow(s, c) = [s EXCEPT !.data[s.current][c.key] = TypeAfter(c.verb, @)]
    BY <1>6 DEF RunNow, Writes
  <2>2. s.data \in [Databases -> [Keys -> Types \cup {Absent}]] /\ s.current \in Databases
    BY DEF Connections
  <2>3. [s.data EXCEPT ![s.current][c.key] = t] = s.data
    BY <1>2, <2>2
  <2>4. RunNow(s, c) = [s EXCEPT !.data = [s.data EXCEPT ![s.current][c.key] = t]]
    BY <1>5, <2>1
  <2> QED BY <1>1, <1>2, <1>3, <2>3, <2>4 DEF Connections
<1>7. CASE c.verb \in {"GET", "HGETALL"}
  BY <1>1, <1>2, <1>3, <1>7 DEF RunNow, Writes
<1> QED BY <1>4, <1>6, <1>7

-----------------------------------------------------------------------------
(* Steps                                                                    *)

\* What a handler's step does to the handlers.
LEMMA StepOfHandler ==
  ASSUME NEW h \in Handlers, HandlerStep(h)
  PROVE  \/ handler' = [handler EXCEPT ![h] = Idle]
         \/ /\ handler[h].pc \in {"info 1", "info 2"}
            /\ \E pc \in {"info 2", "info 3"} :
                 handler' = [handler EXCEPT ![h] = Handler(handler[h].request, pc, "none")]
         \/ /\ handler[h].pc = "call" /\ Effect(h) /\ Answer(h) = "wrongtype"
            /\ handler' = [handler EXCEPT ![h] = Handler(handler[h].request, "guide", "wrongtype")]
<1>1. CASE RunCommandGuided(h)
  BY <1>1 DEF RunCommandGuided, Failed, GoesOn, Returns, NeedsGuidance
<1>2. CASE WrongtypeGuidance(h)
  BY <1>2 DEF WrongtypeGuidance
<1>3. CASE ListSchema(h)
  BY <1>3 DEF ListSchema, Returns, ReturnsCount
<1>4. CASE ServerViewSection(h)
  BY <1>4 DEF ServerViewSection, GoesOn, ReturnsCount
<1>5. CASE RunSelect(h)
  BY <1>5 DEF RunSelect, ReturnsCount
<1>6. CASE InsertRow(h) \/ DeleteRow(h)
  BY <1>6 DEF InsertRow, DeleteRow, Returns, ReturnsCount
<1>7. CASE CommandRefused(h) \/ ConnectionLost(h) \/ SessionClosed(h)
  BY <1>7 DEF CommandRefused, ConnectionLost, SessionClosed, FailsWith, Failed, Returns, NeedsGuidance
<1>8. CASE Canceled(h)
  BY <1>8 DEF Canceled, Returns
<1> QED BY <1>1, <1>2, <1>3, <1>4, <1>5, <1>6, <1>7, <1>8 DEF HandlerStep

\* What it does to the connection: its command is executed, refused or never
\* sent, and the connection may be lost with it.
LEMMA StepOnConnection ==
  ASSUME NEW h \in Handlers, HandlerStep(h)
  PROVE  /\ \/ UNCHANGED <<redis, selected>>
            \/ Effect(h)
            \/ redis' = Refused(redis, Pending(h)) /\ selected' = selected
            \/ /\ \E after \in {redis, After(redis, Pending(h))} : redis' = Reconnected(after)
               /\ selected' = FALSE
         /\ History
<1>1. CASE RunCommandGuided(h) \/ WrongtypeGuidance(h)
  BY <1>1 DEF RunCommandGuided, WrongtypeGuidance
<1>2. CASE ListSchema(h) \/ ServerViewSection(h) \/ RunSelect(h)
  BY <1>2 DEF ListSchema, ServerViewSection, RunSelect
<1>3. CASE InsertRow(h) \/ DeleteRow(h)
  BY <1>3 DEF InsertRow, DeleteRow
<1>4. CASE ConnectionLost(h)
  BY <1>4 DEF ConnectionLost
<1>5. CASE CommandRefused(h)
  BY <1>5 DEF CommandRefused
<1>6. CASE Canceled(h) \/ SessionClosed(h)
  BY <1>6 DEF Canceled, SessionClosed
<1> QED BY <1>1, <1>2, <1>3, <1>4, <1>5, <1>6 DEF HandlerStep

\* The command of a handler is a command.
LEMMA PendingSent ==
  ASSUME Inv, NEW h \in Handlers
  PROVE  Pending(h) \in Sent
<1>1. handler[h].request.command \in Sent
  BY RequestShape DEF Inv, HandlerStates
<1> QED BY <1>1, SessionAssumption DEF Pending, Command, Sent

-----------------------------------------------------------------------------
(* The invariants                                                           *)

\* A new session has an idle connection and idle handlers.
LEMMA InvInit == Init => Inv
<1> SUFFICES ASSUME Init PROVE Inv
  OBVIOUS
<1>1. redis = Connection(redis.data, redis.current, redis.multi, redis.aborted, redis.queue)
  BY DEF Init, Connection
<1>2. Idle \in HandlerStates
  BY DEF Idle, Handler, HandlerStates
<1>3. Harmless(Idle.request.command)
  BY DEF Idle, Handler, NoRequest, Request, Keyless, Command, Harmless, Writes
<1> QED BY <1>1, <1>2, <1>3 DEF Init, Inv

\* Every step keeps both parts of Inv.
LEMMA InvNext == Inv /\ [Next]_vars => Inv'
<1> SUFFICES ASSUME Inv, [Next]_vars PROVE Inv'
  OBVIOUS
<1>1. Idle \in HandlerStates /\ Harmless(Idle.request.command)
  BY DEF Idle, Handler, HandlerStates, NoRequest, Request, Keyless, Command, Harmless, Writes
<1>2. ASSUME NEW h \in Handlers, HandlerStep(h) PROVE Inv'
  <2>1. redis' = Connection(redis'.data, redis'.current, redis'.multi, redis'.aborted, redis'.queue)
    <3>1. \/ redis' \in {redis, After(redis, Pending(h)), Refused(redis, Pending(h))}
          \/ \E after : redis' = Reconnected(after)
      BY <1>2, StepOnConnection DEF Effect
    <3>2. CASE redis' = Refused(redis, Pending(h))
      <4>1. redis' = Connection(redis.data, redis.current, redis'.multi, redis'.aborted,
                                redis'.queue)
        BY <3>2, RefusedIs DEF Inv
      <4> QED BY <4>1 DEF Connection
    <3> QED BY <3>1, <3>2, AfterShape DEF Inv, Reconnected, Connection
  <2>2. CASE handler' = [handler EXCEPT ![h] = Idle]
    BY <1>1, <2>1, <2>2 DEF Inv
  <2>3. ASSUME NEW pc \in Working, NEW err \in {"none", "wrongtype"},
               handler' = [handler EXCEPT ![h] = Handler(handler[h].request, pc, err)]
        PROVE  Inv'
    <3>1. /\ Handler(handler[h].request, pc, err) \in HandlerStates
          /\ Handler(handler[h].request, pc, err).request = handler[h].request
      BY DEF Inv, Handler, HandlerStates
    <3> QED BY <2>1, <2>3, <3>1 DEF Inv
  <2> QED BY <1>2, <2>2, <2>3, StepOfHandler DEF Working
<1>3. ASSUME NEW h \in Handlers, NEW q \in Requests, Call(h, q) PROVE Inv'
  <2>1. redis' = redis
    BY <1>3 DEF Call
  <2>2. CASE Immediate(q) # "none"
    BY <1>3, <2>1, <2>2 DEF Call, Inv
  <2>3. CASE Immediate(q) = "none"
    <3>1. PICK pc \in Working : handler' = [handler EXCEPT ![h] = Handler(q, pc, "none")]
      BY <1>3, <2>3 DEF Call, Working
    <3>2. Handler(q, pc, "none") \in HandlerStates /\ Handler(q, pc, "none").request = q
      BY DEF Handler, HandlerStates
    <3>3. q.op \notin Mutating => Harmless(q.command)
      BY <2>3, RequestHarmless
    <3> QED BY <2>1, <3>1, <3>2, <3>3 DEF Inv
  <2> QED BY <2>2, <2>3
<1>4. CASE \E n \in Databases, k \in Keys, t \in Types \cup {Absent} : OtherClient(n, k, t)
  <2>1. PICK n \in Databases, k \in Keys, t \in Types \cup {Absent} : OtherClient(n, k, t)
    BY <1>4
  <2>2. redis' = [redis EXCEPT !.data[n][k] = t] /\ handler' = handler
    BY <2>1 DEF OtherClient
  <2>3. redis' = Connection(redis'.data, redis'.current, redis'.multi, redis'.aborted, redis'.queue)
    BY <2>2 DEF Inv, Connection
  <2> QED BY <2>2, <2>3 DEF Inv
<1>5. CASE Close \/ UNCHANGED vars
  BY <1>5 DEF Close, vars, Inv
<1> QED BY <1>2, <1>3, <1>4, <1>5 DEF Next

\* A new session has sent no SELECT and explains nothing.
LEMMA SessionInvInit == Init => SessionInv
<1> SUFFICES ASSUME Init PROVE SessionInv
  OBVIOUS
<1>1. redis \in Connections /\ AtHome(redis)
  BY SessionAssumption DEF Init, Connection, Connections, AtHome, Types, Absent
<1>2. \A h \in Handlers : handler[h].pc = "idle"
  BY DEF Init, Idle, Handler
<1> QED BY <1>1, <1>2 DEF SessionInv, Guiding, Viewing

\* The record of changed types keeps what is known of a handler at rest.
LEMMA GuidingStays ==
  ASSUME History, NEW h \in Handlers, Guiding(h), handler'[h] = handler[h]
  PROVE  Guiding(h)'
<1> SUFFICES ASSUME handler[h].pc = "guide"
             PROVE  h \in raced' \/ ~Fits(handler[h].request.command.verb, TypeSeen(redis', h))
  BY DEF Guiding, TypeSeen
<1> QED BY DEF History, Guiding

\* A connection on which no SELECT was sent stays at home, through any
\* transaction and any loss of the connection.
LEMMA ConnectionStays ==
  ASSUME Inv, SessionInv, NEW h \in Handlers, HandlerStep(h)
  PROVE  redis' \in Connections /\ (~selected' => AtHome(redis'))
<1>1. Pending(h) \in Sent
  BY PendingSent
<1>2. /\ After(redis, Pending(h)) \in Connections
      /\ Pending(h).verb # "SELECT" /\ AtHome(redis) => AtHome(After(redis, Pending(h)))
  BY <1>1, AfterType DEF SessionInv
<1>3. CASE UNCHANGED <<redis, selected>>
  BY <1>3 DEF SessionInv
<1>4. CASE Effect(h)
  BY <1>2, <1>4 DEF Effect, SessionInv
<1>5. ASSUME NEW after \in {redis, After(redis, Pending(h))}, redis' = Reconnected(after)
      PROVE  redis' \in Connections /\ AtHome(redis')
  <2>1. after \in Connections
    BY <1>2 DEF SessionInv
  <2> QED BY <1>5, <2>1, SessionAssumption DEF Reconnected, Connection, Connections, AtHome
<1>6. CASE redis' = Refused(redis, Pending(h)) /\ selected' = selected
  BY <1>6, RefusedIs DEF Inv, SessionInv
<1> QED BY <1>3, <1>4, <1>5, <1>6, StepOnConnection

\* Every step keeps SessionInv: a handler starts to explain a failure only
\* with a WRONGTYPE, which changed nothing.
LEMMA SessionInvNext == Inv /\ SessionInv /\ [Next]_vars => SessionInv'
<1> SUFFICES ASSUME Inv, SessionInv, [Next]_vars PROVE SessionInv'
  OBVIOUS
<1>1. ASSUME NEW h \in Handlers, HandlerStep(h) PROVE SessionInv'
  <2>1. redis' \in Connections /\ (~selected' => AtHome(redis'))
    BY <1>1, ConnectionStays
  <2>2. History
    BY <1>1, StepOnConnection
  <2>3. ASSUME NEW g \in Handlers, handler'[g] = handler[g] PROVE Guiding(g)' /\ Viewing(g)'
    BY <2>2, <2>3, GuidingStays DEF SessionInv, Viewing
  <2>4. Guiding(h)' /\ Viewing(h)'
    <3>1. CASE handler' = [handler EXCEPT ![h] = Idle]
      <4>1. handler'[h] = Idle
        BY <3>1 DEF Inv
      <4> QED BY <4>1 DEF Guiding, Viewing, Idle, Handler
    <3>2. ASSUME handler[h].pc \in {"info 1", "info 2"}, NEW pc \in {"info 2", "info 3"},
                 handler' = [handler EXCEPT ![h] = Handler(handler[h].request, pc, "none")]
          PROVE  Guiding(h)' /\ Viewing(h)'
      <4>1. handler'[h].pc = pc /\ handler'[h].request = handler[h].request
        BY <3>2 DEF Inv, Handler
      <4> QED BY <3>2, <4>1 DEF Guiding, Viewing, SessionInv
    <3>3. ASSUME handler[h].pc = "call", Effect(h), Answer(h) = "wrongtype",
                 handler' = [handler EXCEPT ![h] = Handler(handler[h].request, "guide", "wrongtype")]
          PROVE  Guiding(h)' /\ Viewing(h)'
      <4>1. /\ handler'[h].pc = "guide" /\ handler'[h].request = handler[h].request
            /\ handler'[h].error = "wrongtype"
        BY <3>3 DEF Inv, Handler
      <4>2. Pending(h) = handler[h].request.command
        BY <3>3 DEF Pending
      <4>3. /\ Pending(h).key \in Keys
            /\ ~Fits(Pending(h).verb, redis.data[redis.current][Pending(h).key])
            /\ redis' = redis
        BY <3>3, PendingSent, GuidedType DEF SessionInv, Answer, Effect
      <4> QED BY <4>1, <4>2, <4>3 DEF Guiding, Viewing, TypeSeen
    <3> QED BY <1>1, <3>1, <3>2, <3>3, StepOfHandler
  <2>5. \A g \in Handlers : g # h => handler'[g] = handler[g]
    BY <1>1, StepOfHandler DEF Inv
  <2> QED BY <2>1, <2>3, <2>4, <2>5 DEF SessionInv
<1>2. ASSUME NEW h \in Handlers, NEW q \in Requests, Call(h, q) PROVE SessionInv'
  <2>1. /\ redis' = redis /\ selected' = selected /\ History
        /\ \/ handler' = handler
           \/ handler' = [handler EXCEPT ![h] =
                            Handler(q, IF q.op = "workspace_view" THEN "info 1" ELSE "call", "none")]
    BY <1>2 DEF Call
  <2>2. ASSUME NEW g \in Handlers, handler'[g] = handler[g] PROVE Guiding(g)' /\ Viewing(g)'
    BY <2>1, <2>2, GuidingStays DEF SessionInv, Viewing
  <2>3. handler'[h] # handler[h] => Guiding(h)' /\ Viewing(h)'
    <3> SUFFICES ASSUME handler'[h] # handler[h] PROVE Guiding(h)' /\ Viewing(h)'
      OBVIOUS
    <3>1. PICK pc \in {"info 1", "call"} :
            /\ handler' = [handler EXCEPT ![h] = Handler(q, pc, "none")]
            /\ pc = "info 1" => q.op = "workspace_view"
      BY <2>1
    <3>2. handler'[h].pc = pc /\ handler'[h].request = q
      BY <3>1 DEF Inv, Handler
    <3> QED BY <3>1, <3>2 DEF Guiding, Viewing
  <2>4. \A g \in Handlers : g # h => handler'[g] = handler[g]
    BY <2>1 DEF Inv
  <2> QED BY <2>1, <2>2, <2>3, <2>4 DEF SessionInv, AtHome
<1>3. ASSUME NEW n \in Databases, NEW k \in Keys, NEW t \in Types \cup {Absent},
             OtherClient(n, k, t)
      PROVE  SessionInv'
  <2>1. redis' = [redis EXCEPT !.data[n][k] = t] /\ UNCHANGED <<handler, selected>> /\ History
    BY <1>3 DEF OtherClient
  <2>2. redis' \in Connections /\ (~selected => AtHome(redis'))
    BY <2>1 DEF Connections, SessionInv, AtHome
  <2> QED BY <2>1, <2>2, GuidingStays DEF SessionInv, Viewing
<1>4. CASE Close
  <2>1. UNCHANGED <<redis, handler, selected>> /\ History
    BY <1>4 DEF Close
  <2> QED BY <2>1, GuidingStays DEF SessionInv, Viewing, AtHome
<1>5. CASE UNCHANGED vars
  BY <1>5 DEF vars, SessionInv, AtHome, Guiding, Viewing, TypeSeen
<1> QED BY <1>1, <1>2, <1>3, <1>4, <1>5 DEF Next

-----------------------------------------------------------------------------
(* Answers                                                                  *)

\* An answer without count or hint.
LEMMA PlainAnswer ==
  ASSUME NEW q, NEW r, answer' = Response(q, r),
         r # "unsupported" \/ q.op # "workspace_view" \/ q.target \notin AdvertisedScopes
  PROVE GuidanceFits' /\ RowWriteReported' /\ AnswersDescribeDatabase'
<1>1. /\ DOMAIN answer' = {"op", "target", "result"} /\ answer'.op = q.op
      /\ answer'.target = q.target /\ answer'.result = r
  BY DEF Response
<1> QED BY <1>1 DEF GuidanceFits, RowWriteReported, AnswersDescribeDatabase, Counted

\* A handler that returns an error, one that goes on, and one that failed.
LEMMA ReturnAnswer ==
  ASSUME NEW h \in Handlers, NEW r, Returns(h, r), r # "unsupported"
  PROVE  Answers'
BY PlainAnswer DEF Returns, Answers

\* A step that answers nothing says nothing wrong,
LEMMA SilentAnswer == answer' = NoAnswer => Answers'
BY PlainAnswer DEF NoAnswer, Answers

\* nor does an answer that is a failure,
LEMMA FailedAnswer ==
  ASSUME NEW h \in Handlers, NEW r, Failed(h, r), r # "unsupported"
  PROVE  Answers'
BY ReturnAnswer, SilentAnswer DEF Failed, GoesOn

\* a command that is refused, or the loss of the connection.
LEMMA FailsWithAnswer ==
  ASSUME SessionInv, NEW h \in Handlers, NEW err \in {"error", "connection"}, FailsWith(h, err)
  PROVE  Answers'
BY ReturnAnswer, FailedAnswer DEF FailsWith, SessionInv, Guiding

\* What the report of a row write says once its command was sent.
WriteReport(op, r, count, truth, queued) ==
  IF queued
  THEN /\ truth = 0 /\ (redis'.aborted \/ QueuedLast(redis', op))
       /\ IF op = "insert" THEN r = "ok" /\ count = 1 ELSE r = "error" /\ count = 0
  ELSE count = truth /\ (r # "ok" => truth = 0)

\* An answer with a count: true, or the command was only queued, or the
\* connection is in another database and the request is one that suffers.
LEMMA CountAnswer ==
  ASSUME NEW h \in Handlers, NEW r, NEW count, NEW truth, ReturnsCount(h, r, count, truth),
         r # "unsupported",
         handler[h].request.op \in {"insert", "delete"} =>
           WriteReport(handler[h].request.op, r, count, truth, Answer(h) = "queued"),
         \/ count = truth \/ Answer(h) = "queued"
         \/ handler[h].request.op # "workspace_view" /\ selected
  PROVE  Answers'
<1> DEFINE q == handler[h].request
           queued == Answer(h) = "queued"
<1>1. answer' = [op |-> q.op, target |-> q.target, result |-> r, count |-> count,
                 truth |-> truth, deferred |-> queued, strayed |-> selected]
  BY DEF ReturnsCount
<1>2. /\ "hint" \notin DOMAIN answer' /\ answer'.op = q.op /\ answer'.result = r
      /\ answer'.count = count /\ answer'.truth = truth
      /\ answer'.deferred = queued /\ answer'.strayed = selected
  BY <1>1
<1> HIDE DEF q, queued
<1>3. Counted({"insert", "delete"})' => q.op \in {"insert", "delete"}
  BY <1>2 DEF Counted
<1>4. Counted({"workspace_view"})' => q.op = "workspace_view"
  BY <1>2 DEF Counted
<1>5. Counted({"list_schema", "browse_table"})' => q.op \in {"list_schema", "browse_table"}
  BY <1>2 DEF Counted
<1>6. GuidanceFits'
  BY <1>2 DEF GuidanceFits
<1>7. RowWriteReported'
  <2> SUFFICES ASSUME q.op \in {"insert", "delete"}
               PROVE  WriteReport(q.op, r, count, truth, queued) => RowWriteReported'
    BY <1>3 DEF RowWriteReported, q, queued
  <2> QED BY <1>2 DEF RowWriteReported, WriteReport, QueuedLast
<1>8. AnswersDescribeDatabase'
  BY <1>2, <1>4, <1>5 DEF AnswersDescribeDatabase, q, queued
<1> QED BY <1>6, <1>7, <1>8 DEF Answers

\* The guidance.
LEMMA GuidanceAnswer ==
  ASSUME Inv, SessionInv, NEW h \in Handlers, WrongtypeGuidance(h)
  PROVE  Answers'
<1> DEFINE q == handler[h].request
           actual == CurrentData[Pending(h).key]
           hint == IF Answer(h) = "ok" /\ TypeReadCommand(actual) # "none" THEN actual ELSE Absent
<1>1. /\ handler[h].pc = "guide"
      /\ answer' = [op |-> q.op, target |-> q.target, result |-> handler[h].error,
                    verb |-> q.command.verb, hint |-> hint, raced |-> h \in raced]
  BY DEF WrongtypeGuidance
<1>2. handler[h].error = "wrongtype" /\ q.command.key \in Keys
      /\ (h \in raced \/ ~Fits(q.command.verb, TypeSeen(redis, h)))
  BY <1>1 DEF SessionInv, Guiding
<1>3. Pending(h).key = q.command.key
  BY <1>1 DEF Pending, Command
<1>4. actual = TypeSeen(redis, h)
  BY <1>3 DEF CurrentData, TypeSeen
<1>5. actual \in Types \cup {Absent}
  BY <1>2, <1>3 DEF SessionInv, Connections, CurrentData
<1> HIDE DEF actual, q
<1>6. hint # Absent => h \in raced \/ FamilyOf(hint) # WrongtypeVerb(q.command.verb)
  <2> SUFFICES ASSUME hint # Absent, h \notin raced
               PROVE  FamilyOf(hint) # WrongtypeVerb(q.command.verb)
    OBVIOUS
  <2>1. hint = actual /\ ~Fits(q.command.verb, actual)
    BY <1>2, <1>4
  <2>2. \/ q.command.verb \in {"GET", "GETDEL"} /\ actual = "hash"
        \/ q.command.verb \in {"HSET", "HGETALL"} /\ actual = "string"
    BY <1>5, <2>1 DEF Fits, Types, Absent
  <2>3. \/ WrongtypeVerb(q.command.verb) = "strings" /\ FamilyOf(actual) = "hashes"
        \/ WrongtypeVerb(q.command.verb) = "hashes" /\ FamilyOf(actual) = "strings"
    BY <2>2 DEF WrongtypeVerb, FamilyOf, StringVerbs, HashVerbs, ListVerbs, SetVerbs, SortedSetVerbs
  <2> QED BY <2>1, <2>3
<1> HIDE DEF hint
<1>7. /\ answer'.hint = hint /\ answer'.raced = (h \in raced) /\ answer'.verb = q.command.verb
      /\ answer'.result = "wrongtype" /\ "count" \notin DOMAIN answer'
  BY <1>1, <1>2
<1>8. GuidanceFits'
  BY <1>6, <1>7 DEF GuidanceFits
<1>9. RowWriteReported' /\ AnswersDescribeDatabase'
  BY <1>7 DEF RowWriteReported, AnswersDescribeDatabase, Counted
<1> QED BY <1>8, <1>9 DEF Answers

\* An insert or delete outside a transaction changes the row it names or none.
LEMMA WriteChanges ==
  ASSUME redis \in Connections, ~redis.multi, NEW h \in Handlers,
         Pending(h).verb \in {"SET NX", "DEL"}, Pending(h).key \in Keys,
         redis' = After(redis, Pending(h))
  PROVE  Changed = IF TypeAfter(Pending(h).verb, CurrentData[Pending(h).key])
                        = CurrentData[Pending(h).key] THEN 0 ELSE 1
<1> DEFINE c == Pending(h)
<1> HIDE DEF c
<1>0. ~redis.multi /\ c.verb \in {"SET NX", "DEL"} /\ c.key \in Keys /\ redis' = After(redis, c)
  BY DEF c
<1> SUFFICES Changed = IF TypeAfter(c.verb, CurrentData[c.key]) = CurrentData[c.key] THEN 0 ELSE 1
  BY DEF c
<1> DEFINE new == TypeAfter(c.verb, CurrentData[c.key])
           C == {k \in Keys : redis'.data[redis.current][k] # CurrentData[k]}
<1>1. redis' = [redis EXCEPT !.data[redis.current][c.key] = new]
  BY <1>0 DEF After, RunNow, Writes, CurrentData
<1>2. /\ redis.data \in [Databases -> [Keys -> Types \cup {Absent}]] /\ redis.current \in Databases
      /\ redis'.data = [redis.data EXCEPT ![redis.current][c.key] = new]
  BY <1>1 DEF Connections
<1> HIDE DEF new
<1>3. \A k \in Keys : redis'.data[redis.current][k] = IF k = c.key THEN new ELSE CurrentData[k]
  <2>1. redis'.data[redis.current] = [CurrentData EXCEPT ![c.key] = new]
    BY <1>2 DEF CurrentData
  <2>2. CurrentData \in [Keys -> Types \cup {Absent}]
    BY <1>2 DEF CurrentData
  <2> QED BY <1>0, <2>1, <2>2
<1>4. CASE new = CurrentData[c.key]
  <2>1. C = {}
    BY <1>3, <1>4
  <2> HIDE DEF C
  <2>2. Cardinality(C) = 0
    BY <2>1, FS_EmptySet
  <2> QED BY <1>4, <2>2 DEF Changed, C, new
<1>5. CASE new # CurrentData[c.key]
  <2>1. C = {c.key}
    BY <1>0, <1>3, <1>5
  <2> HIDE DEF C
  <2>2. Cardinality(C) = 1
    BY <2>1, FS_Singleton
  <2> QED BY <1>5, <2>2 DEF Changed, C, new
<1> QED BY <1>4, <1>5

\* The last of a sequence that grew.
LEMMA AppendLast ==
  ASSUME NEW S, NEW s \in Seq(S), NEW e \in S
  PROVE  Len(Append(s, e)) > 0 /\ Append(s, e)[Len(Append(s, e))] = e
OBVIOUS

\* In a transaction it changes none and is the last of the queue, unless the
\* transaction is aborted.
LEMMA WriteQueues ==
  ASSUME redis \in Connections, redis.multi, NEW c \in Sent, c.verb \in {"SET NX", "DEL"},
         redis' = After(redis, c)
  PROVE  /\ Changed = 0
         /\ redis'.aborted \/ (Len(redis'.queue) > 0 /\ redis'.queue[Len(redis'.queue)] = c)
<1>1. redis' \in {redis, [redis EXCEPT !.queue = Append(@, c)]}
      /\ (~redis.aborted => redis' = [redis EXCEPT !.queue = Append(@, c)])
  BY DEF After
<1>2. redis'.data = redis.data /\ redis'.aborted = redis.aborted
      /\ (~redis.aborted => redis'.queue = Append(redis.queue, c))
  BY <1>1 DEF Connections
<1>3. {k \in Keys : redis'.data[redis.current][k] # CurrentData[k]} = {}
  BY <1>2 DEF CurrentData
<1>4. Changed = 0
  BY <1>3, FS_EmptySet DEF Changed
<1>5. redis.queue \in Seq(Sent)
  BY DEF Connections
<1> DEFINE last == Append(redis.queue, c)
<1>7. Len(last) > 0 /\ last[Len(last)] = c
  BY <1>5, AppendLast
<1> HIDE DEF last
<1>8. ~redis.aborted => redis'.queue = last
  BY <1>2 DEF last
<1> QED BY <1>2, <1>4, <1>7, <1>8

\* Row writes report that.
LEMMA WriteAnswer ==
  ASSUME Inv, SessionInv, NEW h \in Handlers, InsertRow(h) \/ DeleteRow(h)
  PROVE  Answers'
<1> DEFINE c == Pending(h)
           q == handler[h].request
           t == CurrentData[c.key]
           n == IF Answer(h) = "queued" THEN IF q.op = "insert" THEN 1 ELSE 0
                ELSE IF TypeAfter(c.verb, t) = t THEN 0 ELSE 1
           r == IF q.op = "insert" THEN InsertResult(Answer(h)) ELSE DeleteResult(Answer(h))
<1>1. /\ handler[h].pc = "call" /\ redis' = After(redis, c) /\ c = q.command
      /\ q.op = IF InsertRow(h) THEN "insert" ELSE "delete"
  BY DEF InsertRow, DeleteRow, Effect, Pending
<1>2. /\ c.verb = IF q.op = "insert" THEN "SET NX" ELSE "DEL"
      /\ c.key \in Keys
  <2>1. q \in Requests \cup {NoRequest}
    BY DEF Inv, HandlerStates
  <2> QED BY <1>1, <2>1, RequestShape
<1>3. Answer(h) = IF redis.multi THEN "queued"
                  ELSE IF c.verb = "SET NX" /\ t # Absent THEN "nil" ELSE "ok"
  BY <1>2, SessionAssumption DEF Answer, ReplyTo, Fits, CurrentData, c
<1>4. Answer(h) # "queued" => n = IF c.verb = "SET NX" THEN IF t = Absent THEN 1 ELSE 0
                                                       ELSE IF t = Absent THEN 0 ELSE 1
  BY <1>2 DEF TypeAfter, Absent
<1>5. ReturnsCount(h, r, n, Changed)
  <2>1. CASE InsertRow(h)
    <3>1. ReturnsCount(h, r, IF r = "ok" THEN 1 ELSE 0, Changed)
      BY <1>1, <2>1 DEF InsertRow
    <3>2. n = IF r = "ok" THEN 1 ELSE 0
      BY <1>1, <1>2, <1>3, <1>4, <2>1 DEF InsertResult
    <3> HIDE DEF n, r
    <3> QED BY <3>1, <3>2
  <2>2. CASE DeleteRow(h) /\ ~InsertRow(h)
    <3>1. ReturnsCount(h, r, IF r = "ok" /\ t # Absent THEN 1 ELSE 0, Changed)
      BY <1>1, <2>2 DEF DeleteRow
    <3>2. n = IF r = "ok" /\ t # Absent THEN 1 ELSE 0
      BY <1>1, <1>2, <1>3, <1>4, <2>2 DEF DeleteResult
    <3> HIDE DEF n, r
    <3> QED BY <3>1, <3>2
  <2> QED BY <2>1, <2>2
<1>6. redis \in Connections
  BY DEF SessionInv
<1>7. WriteReport(q.op, r, n, Changed, Answer(h) = "queued")
  <2>1. CASE redis.multi
    <3>1. /\ Changed = 0
          /\ redis'.aborted \/ (Len(redis'.queue) > 0 /\ redis'.queue[Len(redis'.queue)] = c)
      <4> HIDE DEF c
      <4>1. c.verb \in {"SET NX", "DEL"}
        BY <1>2
      <4>2. c \in Sent
        BY PendingSent DEF c
      <4> QED BY <1>1, <1>6, <2>1, <4>1, <4>2, WriteQueues
    <3>2. redis'.aborted \/ QueuedLast(redis', q.op)
      <4>1. c.verb = IF q.op = "insert" THEN "SET NX" ELSE "DEL"
        BY <1>2
      <4> DEFINE last == redis'.queue[Len(redis'.queue)]
      <4>2. last = c => last.verb = c.verb
        OBVIOUS
      <4> HIDE DEF c
      <4> QED BY <3>1, <4>1, <4>2, Zenon DEF QueuedLast
    <3> HIDE DEF c
    <3> QED BY <1>1, <1>3, <2>1, <3>1, <3>2 DEF WriteReport, InsertResult, DeleteResult
  <2>2. CASE ~redis.multi
    <3>1. Changed = n
      BY <1>1, <1>2, <1>3, <1>6, <2>2, WriteChanges
    <3>2. r # "ok" => n = 0
      BY <1>2, <1>3, <1>4, <2>2 DEF InsertResult, DeleteResult
    <3>3. Answer(h) # "queued"
      BY <1>3, <2>2
    <3> HIDE DEF n, r
    <3> QED BY <3>1, <3>2, <3>3 DEF WriteReport
  <2> QED BY <2>1, <2>2
<1>8. n = Changed \/ Answer(h) = "queued"
  BY <1>7 DEF WriteReport
<1>9. r # "unsupported"
  BY DEF InsertResult, DeleteResult
<1> HIDE DEF n, r
<1> QED BY <1>5, <1>7, <1>8, <1>9, CountAnswer

\* The counts of keys: DBSIZE and SCAN follow the connection, INFO does not.
LEMMA ReadAnswer ==
  ASSUME SessionInv, NEW h \in Handlers, ListSchema(h) \/ ServerViewSection(h) \/ RunSelect(h)
  PROVE  Answers'
<1>2. ~selected => Size(CurrentData) = Size(redis.data[Database])
  BY DEF SessionInv, AtHome, CurrentData
<1>3. CASE ListSchema(h)
  BY <1>2, <1>3, ReturnAnswer, CountAnswer DEF ListSchema
<1>4. CASE ServerViewSection(h)
  <2>1. handler[h].request.op = "workspace_view"
    BY <1>4 DEF ServerViewSection, SessionInv, Viewing
  <2>2. CASE answer' = NoAnswer
    BY <2>2, SilentAnswer
  <2>3. CASE ReturnsCount(h, "ok", IF Answer(h) = "queued" THEN 0 ELSE KeyspaceCount(redis),
                          Size(redis.data[Database]))
    BY <2>1, <2>3, CountAnswer DEF KeyspaceCount
  <2> QED BY <1>4, <2>2, <2>3 DEF ServerViewSection, GoesOn
<1>5. CASE RunSelect(h)
  <2>1. handler[h].request.op = "browse_table"
    BY <1>5 DEF RunSelect
  <2> QED BY <1>2, <1>5, <2>1, CountAnswer DEF RunSelect
<1> QED BY <1>3, <1>4, <1>5

\* Requests that need no command.
LEMMA ImmediateAnswer ==
  ASSUME NEW h \in Handlers, NEW q \in Requests, Call(h, q)
  PROVE  Answers'
<1>1. Immediate(q) = "unsupported" =>
        q.op # "workspace_view" \/ q.target \notin AdvertisedScopes
  BY DEF Immediate, TableOps, FixedSchemaOps, ListOps
<1> QED BY <1>1, SilentAnswer, PlainAnswer DEF Call, Answers

\* The answers are right in the initial state and after every step.
LEMMA AnswersInit == Init => Answers
<1> SUFFICES ASSUME Init PROVE Answers
  OBVIOUS
<1>1. /\ DOMAIN answer = {"op", "target", "result"}
      /\ answer.op = "none" /\ answer.result = "none"
  BY DEF Init, NoAnswer, Response, NoRequest, Request
<1> QED BY <1>1 DEF Answers, GuidanceFits, RowWriteReported, AnswersDescribeDatabase, Counted

\* Every step keeps Answers,
LEMMA AnswersNext == Inv /\ SessionInv /\ Answers /\ [Next]_vars => Answers'
<1> SUFFICES ASSUME Inv, SessionInv, Answers, [Next]_vars PROVE Answers'
  OBVIOUS
<1>1. ASSUME NEW h \in Handlers, HandlerStep(h) PROVE Answers'
  <2>1. CASE RunCommandGuided(h)
    BY <2>1, ReturnAnswer, FailedAnswer DEF RunCommandGuided
  <2>2. CASE WrongtypeGuidance(h)
    BY <2>2, GuidanceAnswer
  <2>3. CASE ListSchema(h) \/ ServerViewSection(h) \/ RunSelect(h)
    BY <2>3, ReadAnswer
  <2>4. CASE InsertRow(h) \/ DeleteRow(h)
    BY <2>4, WriteAnswer
  <2>5. CASE CommandRefused(h) \/ ConnectionLost(h) \/ SessionClosed(h)
    BY <2>5, FailsWithAnswer DEF CommandRefused, ConnectionLost, SessionClosed
  <2>6. CASE Canceled(h)
    BY <2>6, ReturnAnswer DEF Canceled
  <2> QED BY <1>1, <2>1, <2>2, <2>3, <2>4, <2>5, <2>6 DEF HandlerStep
<1>2. ASSUME NEW h \in Handlers, NEW q \in Requests, Call(h, q) PROVE Answers'
  BY <1>2, ImmediateAnswer
<1>3. CASE Close \/ \E n \in Databases, k \in Keys, t \in Types \cup {Absent} : OtherClient(n, k, t)
  BY <1>3, SilentAnswer DEF Close, OtherClient
<1>4. CASE UNCHANGED vars
  BY <1>4 DEF vars, Answers, GuidanceFits, RowWriteReported, QueuedLast, AnswersDescribeDatabase,
              Counted
<1> QED BY <1>1, <1>2, <1>3, <1>4 DEF Next

\* so every answer is as Answers says.
LEMMA AnswersAlways == Spec => []Answers
BY InvInit, InvNext, SessionInvInit, SessionInvNext, AnswersInit, AnswersNext, PTL DEF Spec

-----------------------------------------------------------------------------
\* No call but execute and row_write changes a key, whatever native commands
\* have made of the connection, and none of them moves it to another database
\* or opens or ends a transaction; it may only be lost and made anew.  What
\* such a call adds to an open transaction changes nothing at EXEC.
THEOREM OnlyWritesChangeData == Spec => ReadOnlyHarmless
<1> DEFINE Kept(h) ==
             /\ redis'.data = redis.data
             /\ \/ redis' = Reconnected(redis)
                \/ /\ redis'.current = redis.current /\ redis'.multi = redis.multi
                   /\ \/ redis'.queue = redis.queue
                      \/ /\ redis.multi /\ Harmless(Pending(h))
                         /\ redis'.queue = Append(redis.queue, Pending(h))
<1>1. ASSUME Inv, [Next]_vars, NEW h \in Handlers,
             handler'[h] # handler[h], handler[h].request.op \notin Mutating
      PROVE  Kept(h)
  <2>1. CASE HandlerStep(h)
    <3>1. Harmless(Pending(h))
      BY <1>1 DEF Inv, Pending, Command, Harmless, Writes
    <3>2. /\ After(redis, Pending(h)).data = redis.data
          /\ After(redis, Pending(h)).current = redis.current
          /\ After(redis, Pending(h)).multi = redis.multi
          /\ \/ After(redis, Pending(h)).queue = redis.queue
             \/ /\ redis.multi
                /\ After(redis, Pending(h)).queue = Append(redis.queue, Pending(h))
      BY <1>1, <3>1, HarmlessKeeps DEF Inv
    <3>3. Reconnected(After(redis, Pending(h))) = Reconnected(redis)
      BY <3>2 DEF Reconnected
    <3>4. Reconnected(redis).data = redis.data
      BY DEF Reconnected, Connection
    <3>5. CASE redis' = redis \/ redis' = After(redis, Pending(h))
      BY <3>1, <3>2, <3>5
    <3>6. CASE redis' = Refused(redis, Pending(h))
      <4>1. redis'.multi = redis.multi /\ redis'.queue = redis.queue
            /\ redis' = Connection(redis.data, redis.current, redis'.multi, redis'.aborted,
                                   redis'.queue)
        BY <1>1, <3>1, <3>6, RefusedIs DEF Inv
      <4> QED BY <4>1 DEF Connection
    <3>7. CASE redis' = Reconnected(redis) \/ redis' = Reconnected(After(redis, Pending(h)))
      BY <3>3, <3>4, <3>7
    <3> QED BY <2>1, <3>5, <3>6, <3>7, StepOnConnection DEF Effect
  <2>2. ASSUME NEW g \in Handlers, g # h, HandlerStep(g) PROVE FALSE
    BY <1>1, <2>2, StepOfHandler DEF Inv
  <2>3. ASSUME NEW g \in Handlers, NEW q \in Requests, Call(g, q) PROVE Kept(h)
    BY <2>3 DEF Call
  <2>4. ASSUME handler' = handler PROVE FALSE
    BY <1>1, <2>4
  <2> QED BY <1>1, <2>1, <2>2, <2>3, <2>4 DEF Next, OtherClient, Close, vars
<1>2. Inv /\ [Next]_vars =>
        [\A h \in Handlers :
           handler'[h] # handler[h] /\ handler[h].request.op \notin {"execute", "insert", "delete"}
           => Kept(h)]_vars
  BY <1>1 DEF Mutating
<1> QED BY <1>2, InvInit, InvNext, PTL DEF Spec, ReadOnlyHarmless

\* attach_wrongtype_guidance explains a WRONGTYPE and nothing else, and names
\* a type that the command does not accept unless the key changed its type
\* between the command and the TYPE that looks at it.
THEOREM GuidanceSound == Spec => []GuidanceFits
<1>1. Answers => GuidanceFits
  BY DEF Answers
<1> QED BY <1>1, AnswersAlways, PTL

\* A row write whose command was executed reports the rows it changed, however
\* many commands of other handlers lie in between.  One that joined the
\* transaction of another handler has changed nothing when it reports, an
\* insert one row and a delete its failure, and still runs at EXEC: it is the
\* last of the queue, unless that transaction is aborted.
THEOREM RowWriteExact == Spec => []RowWriteReported
<1>1. Answers => RowWriteReported
  BY DEF Answers
<1> QED BY <1>1, AnswersAlways, PTL

\* The server view counts the keys of the session's database wherever SELECT
\* has moved the connection, list_schema and browse_table until it does; no
\* advertised view is refused.
THEOREM AnswersOfDatabase == Spec => []AnswersDescribeDatabase
<1>1. Answers => AnswersDescribeDatabase
  BY DEF Answers
<1> QED BY <1>1, AnswersAlways, PTL
=============================================================================
