------------------------------- MODULE Session -------------------------------
(***************************************************************************)
(* The handlers of one RedisService of src/src/redis_service.rs on the     *)
(* connection they share: native commands with their WRONGTYPE guidance,   *)
(* the schema, the server view, the browse and the simple row writes.      *)
(* Native commands leave state in the connection: the selected database    *)
(* and an open transaction.  The mutex makes a command with its reply one  *)
(* step; what happens at the mutex is module RowWrite.                     *)
(*                                                                         *)
(* A key is reduced to its type.  Statements are parsed (Statement) and    *)
(* their replies rendered (Reply) elsewhere.                               *)
(***************************************************************************)
EXTENDS Commands, Integers, FiniteSets

CONSTANTS
    Handlers,
    Databases,  \* logical databases
    Database,   \* the one of the session's target
    Keys,
    NoKey,      \* the key of commands that name none
    NativeVerbs,\* native commands that are typed
    MaxQueue    \* bound on the commands of a transaction

ASSUME SessionAssumption ==
    /\ Database \in Databases
    /\ NoKey \notin Keys
    /\ MaxQueue \in Nat

Types == {"string", "hash"}
Absent == "none"

Command(v, k, n) == [verb |-> v, key |-> k, database |-> n]
Keyless(v) == Command(v, NoKey, Database)

VARIABLES
    redis,    \* the server, as this connection has it: its data, the
              \* selected database, an open transaction, whether a command
              \* was refused in it, and its commands
    closed,   \* RedisService.closed
    handler,  \* the handlers: request, where they are, a failure they explain
    answer,   \* what the last step returned to the host, if it did
    selected, \* history: a SELECT was sent since the last connect
    raced     \* history: handlers whose key changed its type between the
              \* failed command and the TYPE that explains it

vars == <<redis, closed, handler, answer, selected, raced>>

-----------------------------------------------------------------------------
(* Redis (external)                                                         *)

Connection(data, current, multi, aborted, queue) ==
    [data |-> data, current |-> current, multi |-> multi, aborted |-> aborted, queue |-> queue]

\* What a write makes of a key's type.
Writes == {"SET", "SET NX", "HSET", "DEL", "GETDEL"}

TypeAfter(verb, t) ==
    CASE verb = "SET" -> "string"
      [] verb = "SET NX" /\ t = Absent -> "string"
      [] verb = "HSET" /\ t = Absent -> "hash"
      [] verb = "DEL" -> Absent
      [] verb = "GETDEL" /\ t = "string" -> Absent
      [] OTHER -> t

Fits(verb, t) ==
    CASE verb \in {"GET", "GETDEL"} -> t \in {"string", Absent}
      [] verb \in {"HSET", "HGETALL"} -> t \in {"hash", Absent}
      [] OTHER -> TRUE

RunNow(s, c) ==
    CASE c.verb = "SELECT" -> [s EXCEPT !.current = c.database]
      [] c.verb \in Writes -> [s EXCEPT !.data[s.current][c.key] = TypeAfter(c.verb, @)]
      [] OTHER -> s

\* The commands of the transaction, one after the other.
RunQueue(s) ==
    LET run[i \in 0..Len(s.queue)] == IF i = 0 THEN s ELSE RunNow(run[i - 1], s.queue[i])
    IN  run[Len(s.queue)]

EndTransaction(s) == Connection(s.data, s.current, FALSE, FALSE, <<>>)

\* A transaction that is aborted answers QUEUED and keeps nothing; its EXEC
\* runs nothing and fails (EXECABORT).  The nil of an EXEC whose WATCHed key
\* changed is not modelled.
After(s, c) ==
    CASE c.verb = "MULTI" -> [s EXCEPT !.multi = TRUE]
      [] c.verb = "EXEC" -> EndTransaction(IF s.aborted THEN s ELSE RunQueue(s))
      [] c.verb = "DISCARD" -> EndTransaction(s)
      [] OTHER -> IF ~s.multi THEN RunNow(s, c)
                  ELSE IF s.aborted THEN s ELSE [s EXCEPT !.queue = Append(@, c)]

ReplyTo(s, c) ==
    CASE c.verb = "MULTI" -> IF s.multi THEN "error" ELSE "ok"
      [] c.verb = "EXEC" -> IF s.multi /\ ~s.aborted THEN "ok" ELSE "error"
      [] c.verb = "DISCARD" -> IF s.multi THEN "ok" ELSE "error"
      [] OTHER ->
           IF s.multi THEN "queued"
           ELSE IF c.key = NoKey THEN "ok"
           ELSE IF ~Fits(c.verb, s.data[s.current][c.key]) THEN "wrongtype"
           ELSE IF c.verb = "SET NX" /\ s.data[s.current][c.key] # Absent THEN "nil" ELSE "ok"

\* A command that is refused before it runs (READONLY, OOM, NOPERM, a wrong
\* number of arguments) aborts the transaction it was meant for; a refused
\* EXEC ends it.
Refused(s, c) ==
    IF c.verb = "EXEC" THEN EndTransaction(s) ELSE [s EXCEPT !.aborted = @ \/ s.multi]

\* A new connection is in the database of the target's URL.
Reconnected(s) == Connection(s.data, Database, FALSE, FALSE, <<>>)

Size(d) == Cardinality({k \in Keys : d[k] # Absent})

-----------------------------------------------------------------------------
(* Requests                                                                 *)

FixedSchemaOps ==
    {"create_index", "replace_index", "drop_index", "create_foreign_key", "replace_foreign_key",
     "drop_foreign_key", "alter_column", "drop_column", "add_column"}
ListOps ==
    {"list_foreign_keys", "list_referencing_foreign_keys", "list_foreign_keys_all",
     "list_indexes_all"}
TableOps == {"table_info", "list_indexes"}

Request(op, c, target) == [op |-> op, command |-> c, target |-> target]

NativeCommands ==
    {c \in [verb: NativeVerbs, key: Keys \cup {NoKey}, database: Databases] :
       /\ c.key = NoKey <=> c.verb \in {"SELECT", "MULTI", "EXEC", "DISCARD"}
       /\ c.verb # "SELECT" => c.database = Database}

Requests ==
    {Request("execute", c, "none") : c \in NativeCommands}
      \cup {Request("execute_read_only", c, "none") : c \in NativeCommands}
      \cup {Request("validate", Keyless("none"), "none")}
      \cup {Request("list_schema", Keyless("DBSIZE"), "none")}
      \cup {Request("workspace_view", Keyless("INFO"), t) : t \in {"database", "table", "schema"}}
      \cup {Request("browse_table", Keyless("SCAN"), t) : t \in {"keys", "other"}}
      \cup {Request("insert", Command("SET NX", k, Database), "keys") : k \in Keys}
      \cup {Request("delete", Command("DEL", k, Database), "keys") : k \in Keys}
      \cup {Request(op, Keyless("none"), "keys") : op \in TableOps \cup FixedSchemaOps \cup ListOps}
      \cup {Request(op, Keyless("none"), "other") : op \in TableOps}

\* redis_workspace advertises the view for these scopes.
AdvertisedScopes == {"database", "table"}

\* What is answered without a command: statements that are only parsed, the
\* fixed schema, other tables, views and verbs than the known ones.
Immediate(q) ==
    CASE q.op = "validate" \/ q.op \in ListOps -> "ok"
      [] q.op \in TableOps -> IF q.target = "keys" THEN "ok" ELSE "unsupported"
      [] q.op \in FixedSchemaOps -> "unsupported"
      [] q.op = "browse_table" /\ q.target # "keys" -> "unsupported"
      [] q.op = "workspace_view" /\ q.target \notin AdvertisedScopes -> "unsupported"
      [] q.op = "execute_read_only" /\ ~IsReadOnly(q.command.verb) -> "unsupported"
      [] OTHER -> "none"

Handler(q, pc, err) == [request |-> q, pc |-> pc, error |-> err]
NoRequest == Request("none", Keyless("none"), "none")
Idle == Handler(NoRequest, "idle", "none")
Working == {"call", "guide", "info 1", "info 2", "info 3"}

Response(q, r) == [op |-> q.op, target |-> q.target, result |-> r]
NoAnswer == Response(NoRequest, "none")

\* What a key shows the TYPE of a guidance; every action keeps the record of
\* the handlers for which that changed.
TypeSeen(s, h) == s.data[s.current][handler[h].request.command.key]

History ==
    raced' = {h \in Handlers :
                /\ handler[h].pc = "guide" /\ handler'[h].pc = "guide"
                /\ h \in raced \/ TypeSeen(redis, h) # TypeSeen(redis', h)}

\* A request that needs no command is answered at once.
Call(h, q) ==
    /\ handler[h].pc = "idle"
    /\ IF Immediate(q) # "none"
       THEN answer' = Response(q, Immediate(q)) /\ UNCHANGED handler
       ELSE /\ handler' = [handler EXCEPT ![h] =
                             Handler(q, IF q.op = "workspace_view" THEN "info 1" ELSE "call", "none")]
            /\ answer' = NoAnswer
    /\ UNCHANGED <<redis, closed, selected>> /\ History

-----------------------------------------------------------------------------
(* One command and its reply                                                *)

\* The command a handler sends next.
Pending(h) ==
    IF handler[h].pc = "guide" THEN Command("TYPE", handler[h].request.command.key, Database)
                               ELSE handler[h].request.command

Room(c) == redis.multi /\ c.verb \notin {"MULTI", "EXEC", "DISCARD"} => Len(redis.queue) < MaxQueue

Sends(h) ==
    /\ handler[h].pc \in Working /\ ~closed
    /\ Room(Pending(h))

Effect(h) ==
    /\ redis' = After(redis, Pending(h))
    /\ selected' = (selected \/ Pending(h).verb = "SELECT")

Answer(h) == ReplyTo(redis, Pending(h))
CurrentData == redis.data[redis.current]

\* The handler goes on.
GoesOn(h, pc, err) ==
    /\ handler' = [handler EXCEPT ![h] = Handler(@.request, pc, err)]
    /\ answer' = NoAnswer

\* The handler returns an error or nothing to count.
Returns(h, r) ==
    /\ handler' = [handler EXCEPT ![h] = Idle]
    /\ answer' = Response(handler[h].request, r)

\* The handler returns a count (rows_affected, or of keys; 0 with an error).
\* For the record: the true count, whether the command was only queued, and
\* whether a native SELECT had moved the connection.
ReturnsCount(h, r, count, truth) ==
    /\ handler' = [handler EXCEPT ![h] = Idle]
    /\ answer' = [op |-> handler[h].request.op, target |-> handler[h].request.target, result |-> r,
                  count |-> count, truth |-> truth, deferred |-> Answer(h) = "queued",
                  strayed |-> selected]

\* Mutant of NeedsGuidance: any failure of a single-key command is explained.
NeedsGuidanceAlways(q, err) == err # "ok" /\ WrongtypeVerb(q.command.verb) # NoFamily

\* attach_wrongtype_guidance: only a WRONGTYPE of a command with a known key.
NeedsGuidance(q, err) == err = "wrongtype" /\ WrongtypeVerb(q.command.verb) # NoFamily

\* What is left of a native command that failed: TYPE, or the error itself.
Failed(h, err) ==
    IF NeedsGuidance(handler[h].request, err)
    THEN GoesOn(h, "guide", err)
    ELSE Returns(h, err)

IsNative(h) == handler[h].request.op \in {"execute", "execute_read_only"}

RunCommandGuided(h) ==
    /\ handler[h].pc = "call" /\ IsNative(h)
    /\ Sends(h) /\ Effect(h)
    /\ IF Answer(h) \in {"wrongtype", "error"} THEN Failed(h, Answer(h))
                                               ELSE Returns(h, "ok")
    /\ UNCHANGED closed /\ History

\* wrongtype_guidance: a reply that is no readable type adds nothing.
WrongtypeGuidance(h) ==
    LET actual == CurrentData[Pending(h).key]
        known == Answer(h) = "ok" /\ TypeReadCommand(actual) # "none"
    IN  /\ handler[h].pc = "guide"
        /\ Sends(h) /\ Effect(h)
        /\ handler' = [handler EXCEPT ![h] = Idle]
        /\ answer' = [op |-> handler[h].request.op, target |-> handler[h].request.target,
                      result |-> handler[h].error, verb |-> handler[h].request.command.verb,
                      hint |-> IF known THEN actual ELSE Absent, raced |-> h \in raced]
        /\ UNCHANGED closed /\ History

\* DBSIZE must be an integer.
ListSchema(h) ==
    /\ handler[h].pc = "call" /\ handler[h].request.op = "list_schema"
    /\ Sends(h) /\ Effect(h)
    /\ IF Answer(h) = "queued" THEN Returns(h, "error")
       ELSE ReturnsCount(h, "ok", Size(CurrentData), Size(redis.data[Database]))
    /\ UNCHANGED closed /\ History

\* Mutant of KeyspaceCount: the view follows the connection.
KeyspaceCountSelected(s) == Size(s.data[s.current])

\* INFO keyspace lists every database; the view takes the line of its own.
KeyspaceCount(s) == Size(s.data[Database])

\* server_view: INFO server, INFO memory, INFO keyspace.
ServerViewSection(h) ==
    /\ handler[h].pc \in {"info 1", "info 2", "info 3"}
    /\ Sends(h) /\ Effect(h)
    /\ CASE handler[h].pc = "info 1" -> GoesOn(h, "info 2", "none")
         [] handler[h].pc = "info 2" -> GoesOn(h, "info 3", "none")
         [] OTHER -> ReturnsCount(h, "ok", IF Answer(h) = "queued" THEN 0 ELSE KeyspaceCount(redis),
                            Size(redis.data[Database]))
    /\ UNCHANGED closed /\ History

\* run_select, reduced to one SCAN; a reply that is no array lists nothing.
RunSelect(h) ==
    /\ handler[h].pc = "call" /\ handler[h].request.op = "browse_table"
    /\ Sends(h) /\ Effect(h)
    /\ ReturnsCount(h, "ok", IF Answer(h) = "queued" THEN 0 ELSE Size(CurrentData),
              Size(redis.data[Database]))
    /\ UNCHANGED closed /\ History

Changed == Cardinality({k \in Keys : redis'.data[redis.current][k] # CurrentData[k]})

\* Mutant of InsertResult: any reply will do.
InsertResultAny(reply) == "ok"

\* SET key value NX: nil is the one reply that means no; QUEUED means yes.
InsertResult(reply) == IF reply = "nil" THEN "refused" ELSE "ok"

\* Mutant of DeleteResult: any reply will do.
DeleteResultAny(reply) == "ok"

\* DEL: the integer of the reply, and no other reply.
DeleteResult(reply) == IF reply = "queued" THEN "error" ELSE "ok"

InsertRow(h) ==
    /\ handler[h].pc = "call" /\ handler[h].request.op = "insert"
    /\ Sends(h) /\ Effect(h)
    /\ LET r == InsertResult(Answer(h))
       IN  ReturnsCount(h, r, IF r = "ok" THEN 1 ELSE 0, Changed)
    /\ UNCHANGED closed /\ History

DeleteRow(h) ==
    /\ handler[h].pc = "call" /\ handler[h].request.op = "delete"
    /\ Sends(h) /\ Effect(h)
    /\ LET r == DeleteResult(Answer(h))
       IN  ReturnsCount(h, r,
             IF r = "ok" /\ CurrentData[Pending(h).key] # Absent THEN 1 ELSE 0, Changed)
    /\ UNCHANGED closed /\ History

-----------------------------------------------------------------------------
(* What goes wrong                                                          *)

\* A handler that is explaining a failure keeps that failure.
FailsWith(h, err) ==
    IF handler[h].pc = "guide" THEN Returns(h, handler[h].error)
    ELSE IF IsNative(h) THEN Failed(h, err)
    ELSE Returns(h, err)

\* Redis refuses the command, whatever it is.
CommandRefused(h) ==
    /\ Sends(h)
    /\ redis' = Refused(redis, Pending(h))
    /\ FailsWith(h, "error")
    /\ UNCHANGED <<closed, selected>> /\ History

\* The connection is lost with the command executed or not, and the
\* connection manager makes a new one.
ConnectionLost(h) ==
    /\ Sends(h)
    /\ \E after \in {redis, After(redis, Pending(h))} : redis' = Reconnected(after)
    /\ selected' = FALSE
    /\ FailsWith(h, "connection")
    /\ UNCHANGED closed /\ History

\* The future is dropped; its command was executed or never sent.
Canceled(h) ==
    /\ Sends(h)
    /\ Effect(h) \/ UNCHANGED <<redis, selected>>
    /\ Returns(h, "canceled")
    /\ UNCHANGED closed /\ History

\* A closed session sends nothing.
SessionClosed(h) ==
    /\ handler[h].pc \in Working /\ closed
    /\ FailsWith(h, "connection")
    /\ UNCHANGED <<redis, closed, selected>> /\ History

Close ==
    /\ ~closed
    /\ closed' = TRUE
    /\ answer' = NoAnswer
    /\ UNCHANGED <<redis, handler, selected>> /\ History

OtherClient(n, k, t) ==
    /\ redis.data[n][k] # t
    /\ redis' = [redis EXCEPT !.data[n][k] = t]
    /\ answer' = NoAnswer
    /\ UNCHANGED <<closed, handler, selected>> /\ History

-----------------------------------------------------------------------------
Init ==
    /\ redis = Connection([n \in Databases |-> [k \in Keys |-> Absent]], Database, FALSE, FALSE,
                         <<>>)
    /\ closed = FALSE
    /\ handler = [h \in Handlers |-> Idle]
    /\ answer = NoAnswer
    /\ selected = FALSE
    /\ raced = {}

HandlerStep(h) ==
    \/ RunCommandGuided(h) \/ WrongtypeGuidance(h) \/ ListSchema(h) \/ ServerViewSection(h)
    \/ RunSelect(h) \/ InsertRow(h) \/ DeleteRow(h)
    \/ CommandRefused(h) \/ ConnectionLost(h) \/ Canceled(h) \/ SessionClosed(h)

Next ==
    \/ \E h \in Handlers : HandlerStep(h) \/ \E q \in Requests : Call(h, q)
    \/ \E n \in Databases, k \in Keys, t \in Types \cup {Absent} : OtherClient(n, k, t)
    \/ Close

Spec == Init /\ [][Next]_vars

-----------------------------------------------------------------------------
(* Properties                                                               *)

\* A command that neither writes nor changes what the connection is.
Harmless(c) == c.verb \notin Writes \cup {"SELECT", "MULTI", "EXEC", "DISCARD"}

\* Only execute and row_write change data.  Whatever else a host calls, in
\* any order with the native commands of other handlers, changes no key and
\* neither the database nor whether a transaction is open, unless the
\* connection is lost (then it is a fresh one).  It may join the open
\* transaction of another handler, whose EXEC then answers it too; what it
\* adds changes nothing when that runs.
ReadOnlyHarmless ==
    [][\A h \in Handlers :
         handler'[h] # handler[h] /\ handler[h].request.op \notin {"execute", "insert", "delete"}
         => /\ redis'.data = redis.data
            /\ \/ redis' = Reconnected(redis)
               \/ /\ redis'.current = redis.current /\ redis'.multi = redis.multi
                  /\ \/ redis'.queue = redis.queue
                     \/ /\ redis.multi /\ Harmless(Pending(h))
                        /\ redis'.queue = Append(redis.queue, Pending(h))]_vars

\* Guidance is only ever attached to a WRONGTYPE, and, unless the key's type
\* changed before TYPE looked at it, names a type the command does not accept.
GuidanceFits ==
    "hint" \in DOMAIN answer /\ answer.hint # Absent =>
      /\ answer.result = "wrongtype"
      /\ answer.raced \/ FamilyOf(answer.hint) # WrongtypeVerb(answer.verb)

Counted(ops) == answer.op \in ops /\ "count" \in DOMAIN answer

\* The command of a row write is the last of the transaction.
QueuedLast(s, op) ==
    /\ Len(s.queue) > 0
    /\ s.queue[Len(s.queue)].verb = IF op = "insert" THEN "SET NX" ELSE "DEL"

\* A row write whose command was executed reports exactly the rows it
\* changed, and an insert that is refused changed none.  In a transaction that
\* a native MULTI of another handler opened the command is only queued and has
\* changed nothing yet, while its report is final: an insert says one row, a
\* delete fails.  Both are the last command of the queue then, and run at EXEC
\* unless a command of the transaction is refused.
RowWriteReported ==
    Counted({"insert", "delete"}) =>
      IF answer.deferred
      THEN /\ answer.truth = 0
           /\ IF answer.op = "insert" THEN answer.result = "ok" /\ answer.count = 1
                                      ELSE answer.result = "error" /\ answer.count = 0
           /\ redis.aborted \/ QueuedLast(redis, answer.op)
      ELSE answer.count = answer.truth /\ (answer.result # "ok" => answer.truth = 0)

\* The server view counts the keys of the session's database even after a
\* SELECT moved the connection; schema and browse do until then.  None of the
\* advertised view scopes is refused.
AnswersDescribeDatabase ==
    /\ Counted({"workspace_view"}) => answer.deferred \/ answer.count = answer.truth
    /\ Counted({"list_schema", "browse_table"}) =>
         answer.deferred \/ answer.strayed \/ answer.count = answer.truth
    /\ answer.op = "workspace_view" /\ answer.target \in AdvertisedScopes
         => answer.result # "unsupported"
=============================================================================
