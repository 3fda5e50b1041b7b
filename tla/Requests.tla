------------------------------ MODULE Requests ------------------------------
(***************************************************************************)
(* What the host and Redis hand in from outside, read by code without an   *)
(* await: connection forms and targets, INFO replies, row-write requests,  *)
(* and the in-memory double's reading of the same requests.  A behaviour   *)
(* picks an input and takes one step, the call.  Module Conversions adds   *)
(* the computations around the Redis commands.                             *)
(***************************************************************************)
EXTENDS Target, ServerView, Memory

CONSTANT MaxValues  \* bound on the cells of a row write's values

ASSUME InputsAssumption ==
    /\ MaxValues \in Nat
    /\ "text" \in Strings /\ "other" \in Columns
    /\ {"", "text"} \subseteq MemoryKeys

VARIABLES
    case,   \* the call
    answer, \* what it returns
    done

vars == <<case, answer, done>>

Call(result) ==
    /\ ~done
    /\ answer' = result
    /\ done' = TRUE
    /\ UNCHANGED case

Returned(op) == done /\ case.op = op

-----------------------------------------------------------------------------
(* Targets                                                                  *)

HostTexts == {Blank, Padded(Blank), Name("name"), Padded(Name("name")), Name("v6"), Name("[v6]"),
              Name("name:colon")}
PortTexts == {Blank, Name("word"), Padded(Numeral(1))} \cup {Numeral(n) : n \in -1..(PortMax + 1)}
DatabaseTexts ==
    {Blank, Name("word"), Padded(Numeral(1))}
      \cup {Numeral(n) : n \in (-DatabaseMax - 2)..(DatabaseMax + 1)}
CredentialTexts == {Blank, Name("secret"), Padded(Name("secret"))}

Forms == [host: HostTexts, port: PortTexts, user: CredentialTexts, pass: CredentialTexts,
          database: DatabaseTexts]

BuildsTarget == case.op = "form" /\ Call(BuildTarget(case.form))

Urls ==
    {[Url(s, Name("name"), 1, Blank, Blank, p) EXCEPT !.tls = t] :
        s \in {"redis", "rediss"}, p \in DatabaseTexts, t \in {NoTls, "false", "true", "1"}}

Targets == {Labelled(n, u) : n \in 0..2, u \in Urls} \cup {NoUrl(0), NoUrl(1)}

OpensTarget == case.op = "target" /\ Call(Open(case.target))

\* The connection a form describes, blanks around its texts aside.
Described(v) ==
    [host |-> IF Trim(v.host) = Name("v6") THEN Name("[v6]") ELSE Trim(v.host),
     port |-> IF Trim(v.port) = Blank THEN DefaultPort.number ELSE v.port.number,
     user |-> Trim(v.user), pass |-> Trim(v.pass),
     database |-> IF Trim(v.database) = Blank THEN 0 ELSE v.database.number]

DatabaseValid(t) == Trim(t) = Blank \/ t.number \in 0..DatabaseMax

\* A form the host lets through builds a target unless its database is no
\* database number or its host no host, and opening that target, by
\* whatever route the host sends it back, asks for the described server and
\* database.
FormReaches(v, a) ==
    FormValid(v) =>
        /\ a.ok <=> DatabaseValid(v.database) /\ v.host # Name("name:colon")
        /\ a.ok => \A t \in HostRoutes(a.target) : Open(t) = <<Described(v)>>

\* A target opens with or without its label alike, never to another scheme,
\* with TLS or with a database that is none.
TargetOpens(t, a) ==
    t.urls # <<>> =>
        LET u == t.urls[1]
        IN  /\ t.labels < 2 => a = Open(Relabelled(t, 1 - t.labels))
            /\ a # Rejected => /\ u.scheme = "redis" /\ u.tls \in {NoTls, "false"}
                               /\ DatabaseValid(u.path)
                               /\ u.path # Blank => a[1].database = u.path.number

\* What build_target makes of a form and open of a target is the server and
\* the database they describe, and nothing else is ever opened.
TargetsReach ==
    /\ Returned("form") => FormReaches(case.form, answer)
    /\ Returned("target") => TargetOpens(case.target, answer)

-----------------------------------------------------------------------------
(* The server view                                                          *)

ServerLines == {Heading, Line("redis_version", <<1>>), Line("redis_version", <<1, 2, 3, 4>>),
                Line("config_file", <<3>>), Line("used_memory", <<4>>)}
MemoryLines == {<<>>, <<Line("used_memory", <<1>>), Line("maxmemory_policy", <<2>>),
                        Line("tcp_port", <<3>>)>>}
KeyspaceLine(db) ==
    [name |-> db, values |-> [keys |-> db, expires |-> <<1, 2, 3, 4>>, subexpiry |-> <<0>>]]
KeyspaceLines ==
    {s \in BoundedSeq({KeyspaceLine(n) : n \in {<<0>>, <<1>>, <<1, 0>>, <<1, 1>>}}, 3) :
       IsInjective(s)}

CollectsView ==
    case.op = "view" /\ Call(View(case.server, case.memory, case.keyspace, case.database))

\* Every field of a section comes from a line of it, its value cut as cells
\* are, and every allowlisted line has its field.
SectionShown(view, lines, section, fields) ==
    /\ \A f \in DOMAIN view :
         f[1] = section =>
           \E i \in DOMAIN lines : lines[i].field = f[2] /\ view[f] = CapCell(lines[i].value)
    /\ \A i \in DOMAIN lines :
         lines[i].field \in fields => ViewField(section, lines[i].field) \in DOMAIN view

\* The counts are those of the database's line.
KeyspaceShown(view, lines, database) ==
    /\ \A i \in DOMAIN lines : \A f \in SERVER_VIEW_KEYSPACE_FIELDS \cap DOMAIN lines[i].values :
         lines[i].name = database =>
           view[ViewField("keyspace", f)] = CapCell(lines[i].values[f])
    /\ (\A i \in DOMAIN lines : lines[i].name # database) =>
         \A f \in DOMAIN view : f[1] # "keyspace"

ViewShown(view, server, memory, keyspace, database) ==
    /\ DOMAIN view \subseteq
         ({"server"} \X SERVER_VIEW_SERVER_FIELDS) \cup ({"memory"} \X SERVER_VIEW_MEMORY_FIELDS)
           \cup ({"keyspace"} \X SERVER_VIEW_KEYSPACE_FIELDS)
    /\ SectionShown(view, server, "server", SERVER_VIEW_SERVER_FIELDS)
    /\ SectionShown(view, memory, "memory", SERVER_VIEW_MEMORY_FIELDS)
    /\ KeyspaceShown(view, keyspace, database)

\* The view holds allowlisted fields only, each from its own section, and
\* the keyspace counts of the session's database: db1 is not db10, and an
\* empty database, which has no line, has no counts.  No value is longer than
\* MAX_CELL characters, in untruncated_rows either.
ViewExact ==
    Returned("view") =>
        /\ ViewShown(answer, case.server, case.memory, case.keyspace, case.database)
        /\ \A f \in DOMAIN answer : Len(answer[f]) <= MaxCell

-----------------------------------------------------------------------------
(* Row-write requests                                                       *)

StringCell(n, s) == [name |-> n, kind |-> "string", string |-> s]
EmptyCell(n) == [name |-> n, kind |-> "string", string |-> None]
WrongCell(n, s) == [name |-> n, kind |-> "other", string |-> s]

\* Every way a cell can be right or wrong, without equivalent ones.
KeyCells ==
    {StringCell("key", ""), StringCell("key", "text"), WrongCell("key", "text"),
     StringCell("other", "text")}
TextCells == [name: {"key", "value", "type"}, kind: {"string"}, string: {"", "text"}]
ValueCells ==
    TextCells
      \cup {StringCell("type", "string"), StringCell("other", "text"), EmptyCell("value"),
            EmptyCell("type"), WrongCell("key", None), WrongCell("value", "text")}

CellLists(cells, max) == BoundedSeq(cells, max) \cup {None}
IdentitiesAndValues ==
    (CellLists(KeyCells, 1) \X CellLists(ValueCells, MaxValues))
      \cup (CellLists(KeyCells, 2) \X CellLists(ValueCells, 1))
RowWriteOperations == {"delete", "update", "insert", "unknown"}

ParsesRowWrite == case.op = "row_write" /\ Call(ParseRowWrite(case.request))

\* parse_row_write lets exactly the admitted requests through to Redis,
\* whatever the order of their cells, and hands on what they say: no cell is
\* dropped, overridden or read as belonging to another operation.
ValidationExact ==
    Returned("row_write") =>
        /\ answer.result = "accepted" <=> Admitted(case.request)
        /\ answer.result = "accepted" => answer.write = Meaning(case.request)

MemoryStores == [MemoryKeys -> {MemoryAbsent, "", "text"} \cup LongStrings]

WritesMemory ==
    case.op = "memory" /\ Call(MemoryRowWrite(case.request, case.store))

ExecutesMemory ==
    case.op = "memory_execute" /\ Call(MemoryExecute(case.statement, case.store, case.writable))

\* The in-memory double takes the requests the Redis service takes and
\* leaves the rows the keys table promises, its own rules about the identity
\* of an insert, the values of a delete, the column type and the edit of an
\* over-long value aside; its read-only path leaves the store alone.
MemoryAgrees ==
    /\ Returned("memory") /\ ~OwnRules(case.request, case.store) =>
         answer = RedisRowWrite(ForRedis(case.request), case.store)
    /\ Returned("memory_execute") /\ ~case.writable => answer.store = case.store

-----------------------------------------------------------------------------
Picked ==
    \/ \E v \in Forms : case = [op |-> "form", form |-> v]
    \/ \E t \in Targets : case = [op |-> "target", target |-> t]
    \/ \E s \in BoundedSeq(ServerLines, 2), m \in MemoryLines, k \in KeyspaceLines,
          n \in {<<0>>, <<1>>, <<1, 0>>} :
         case = [op |-> "view", server |-> s, memory |-> m, keyspace |-> k, database |-> n]
    \/ \E t \in {"keys", "unknown"}, o \in RowWriteOperations, l \in IdentitiesAndValues :
         case = [op |-> "row_write", request |-> Request(t, o, l[1], l[2])]
    \/ \E t \in {"kv", "keys"}, o \in RowWriteOperations, k \in CellLists(KeyCells, 1),
          v \in CellLists(ValueCells, 2), s \in MemoryStores :
         case = [op |-> "memory", request |-> Request(t, o, k, v), store |-> s]
    \/ \E v \in {"SET", "GET", "DEL", "other"}, k \in MemoryKeys \cup {NoKey}, w \in BOOLEAN,
          s \in MemoryStores :
         case = [op |-> "memory_execute", statement |-> MemoryStatement(v, k, "text"),
                 writable |-> w, store |-> s]

RequestInit ==
    /\ Picked
    /\ answer = <<>>
    /\ done = FALSE

Rest == done /\ UNCHANGED vars

RequestCalls ==
    \/ BuildsTarget \/ OpensTarget \/ CollectsView
    \/ ParsesRowWrite \/ WritesMemory \/ ExecutesMemory

RequestNext == RequestCalls \/ Rest

RequestSpec == RequestInit /\ [][RequestNext]_vars
=============================================================================
