------------------------------ MODULE ServerView ------------------------------
(***************************************************************************)
(* The `server` workspace view of src/src/redis_service.rs: what           *)
(* server_view keeps of the three INFO replies.                            *)
(*                                                                         *)
(* An INFO reply is a sequence of lines, each a field with its value or a  *)
(* line without a colon (a heading).  A keyspace line has a name, what     *)
(* stands between `db` and the colon, and the values of its fields.        *)
(* Values, names and the session's database are sequences of characters,   *)
(* those of a number its decimal digits.                                   *)
(***************************************************************************)
EXTENDS CellText, SequencesExt

SERVER_VIEW_SERVER_FIELDS ==
    {"redis_version", "redis_mode", "arch_bits", "uptime_in_seconds", "uptime_in_days",
     "tcp_port"}

SERVER_VIEW_MEMORY_FIELDS ==
    {"used_memory", "used_memory_human", "used_memory_rss", "used_memory_peak",
     "used_memory_peak_human", "maxmemory", "maxmemory_human", "mem_fragmentation_ratio"}

SERVER_VIEW_KEYSPACE_FIELDS == {"keys", "expires", "avg_ttl"}

Heading == [field |-> "", value |-> <<>>]
Line(f, v) == [field |-> f, value |-> v]
ViewField(section, f) == <<section, f>>

\* The allowlisted lines of a section; of two with one field the last stays.
ParseInfoSection(lines, section, fields) ==
    [f \in {ViewField(section, l.field) : l \in {m \in ToSet(lines) : m.field \in fields}} |->
       lines[CHOOSE i \in DOMAIN lines :
               /\ lines[i].field = f[2]
               /\ \A j \in DOMAIN lines : j > i => lines[j].field # f[2]].value]

Digits == 0..9
Colon == 10

\* Mutant of StartsWithDb: the line begins with `dbN`, as do those of the
\* databases N0 to N9.
StartsWithDbNoColon(line, database) == IsPrefix(database, Append(line.name, Colon))

\* The line begins with `dbN:`.
StartsWithDb(line, database) == IsPrefix(Append(database, Colon), Append(line.name, Colon))

\* The first line of the database, if there is one.
ParseKeyspaceLine(lines, database) ==
    LET found == {i \in DOMAIN lines : StartsWithDb(lines[i], database)}
    IN  IF found = {}
        THEN <<>>
        ELSE LET line == lines[CHOOSE i \in found : \A j \in found : i <= j]
             IN  [f \in {ViewField("keyspace", g) :
                          g \in SERVER_VIEW_KEYSPACE_FIELDS \cap DOMAIN line.values} |->
                    line.values[f[2]]]

Merge(f, g) == [x \in DOMAIN f \cup DOMAIN g |-> IF x \in DOMAIN g THEN g[x] ELSE f[x]]

\* The fields of the three replies, as server_view collects them.
Collected(server, memory, keyspace, database) ==
    Merge(Merge(ParseInfoSection(server, "server", SERVER_VIEW_SERVER_FIELDS),
                ParseInfoSection(memory, "memory", SERVER_VIEW_MEMORY_FIELDS)),
          ParseKeyspaceLine(keyspace, database))

\* The rows of the view: one per field (they are then sorted by field), with
\* a value that a cell can hold.
View(server, memory, keyspace, database) ==
    LET fields == Collected(server, memory, keyspace, database)
    IN  [f \in DOMAIN fields |-> CapCell(fields[f])]
=============================================================================
