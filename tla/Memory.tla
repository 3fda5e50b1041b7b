-------------------------------- MODULE Memory --------------------------------
(***************************************************************************)
(* MemoryService of src/src/service.rs, the in-memory session that the     *)
(* transport tests run the server with, as a function of its store: what a *)
(* call answers and the store it leaves.  Its mutex is taken once per call, *)
(* so calls do not interleave.                                             *)
(***************************************************************************)
EXTENDS RowWriteRequest

CONSTANTS
    MemoryKeys,   \* keys of the store
    MemoryAbsent, \* no such key
    LongStrings   \* strings of more than MAX_CELL characters

ASSUME MemoryAssumption ==
    /\ MemoryKeys \subseteq Strings /\ MemoryAbsent \notin Strings
    /\ LongStrings \subseteq Strings \ {""}

Stored(s, k) == k \in MemoryKeys /\ s[k] # MemoryAbsent
Put(s, k, v) == [s EXCEPT ![k] = v]
Gone(s, k) == IF Stored(s, k) THEN [s EXCEPT ![k] = MemoryAbsent] ELSE s

Answer(result, affected, s) == [result |-> result, affected |-> affected, store |-> s]
Error(s) == Answer("error", 0, s)
Affected(n, s) == Answer("ok", n, s)

-----------------------------------------------------------------------------
(* row_write.  Its parsers are the ones of the Redis service, except that   *)
(* they know no column `type`.                                              *)

MemoryParses(list, cells) ==
    Parses(list, cells) /\ \A i \in DOMAIN cells : cells[i].name # "type"

MemoryInsert(r, s) ==
    IF MemoryParses("insert", r.values) /\ ~Stored(s, InsertOf(r).key)
    THEN Affected(1, Put(s, InsertOf(r).key, InsertOf(r).value))
    ELSE Error(s)

\* Mutant of Moved: the old row stays.
MovedKeepsSource(w, s) == Put(s, w.dest, Or(w.value, s[w.key]))

\* The row is removed under its key and inserted under its destination.
Moved(w, s) == Put(Gone(s, w.key), w.dest, Or(w.value, s[w.key]))

MemoryUpdate(r, s) ==
    IF ~(MemoryParses("identity", r.key) /\ MemoryParses("update", r.values))
    THEN Error(s)
    ELSE LET w == UpdateOf(r)
         IN  IF ~Stored(s, w.key) \/ (w.dest # w.key /\ Stored(s, w.dest))
             THEN Error(s)
             ELSE Affected(1, Moved(w, s))

MemoryDelete(r, s) ==
    IF MemoryParses("identity", r.key)
    THEN Affected(IF Stored(s, DeleteOf(r).key) THEN 1 ELSE 0, Gone(s, DeleteOf(r).key))
    ELSE Error(s)

MemoryRowWrite(r, s) ==
    CASE r.table # "kv" -> Error(s)
      [] r.table = "kv" /\ r.operation = "insert" -> MemoryInsert(r, s)
      [] r.table = "kv" /\ r.operation = "update" -> MemoryUpdate(r, s)
      [] r.table = "kv" /\ r.operation = "delete" -> MemoryDelete(r, s)
      [] OTHER -> Error(s)

-----------------------------------------------------------------------------
(* execute and execute_read_only: SET key value, GET key, DEL key           *)

NoKey == "no key"
MemoryStatement(verb, key, value) == [verb |-> verb, key |-> key, value |-> value]

MemoryExecute(t, s, writable) ==
    CASE t.verb \in {"SET", "DEL"} /\ ~writable -> Error(s)
      [] t.verb \in {"SET", "GET", "DEL"} /\ t.key = NoKey -> Error(s)
      [] t.verb = "SET" /\ writable /\ t.key # NoKey -> Affected(1, Put(s, t.key, t.value))
      [] t.verb = "GET" /\ t.key # NoKey -> Affected(0, s)
      [] t.verb = "DEL" /\ writable /\ t.key # NoKey ->
           Affected(IF Stored(s, t.key) THEN 1 ELSE 0, Gone(s, t.key))
      [] OTHER -> Error(s)

-----------------------------------------------------------------------------
(* The Redis service on the same store, by what its table promises          *)

Keys == INSTANCE KeysTable
           WITH Handlers <- {}, Keys <- MemoryKeys, Strings <- Strings \ LongStrings,
                Blobs <- LongStrings, Collections <- {}, Absent <- MemoryAbsent, NoValue <- None,
                NoRequest <- None, store <- <<>>, request <- <<>>, applied <- <<>>, result <- <<>>

\* The same request as the Redis service gets it.
ForRedis(r) == [r EXCEPT !.table = IF @ = "kv" THEN "keys" ELSE "unknown"]

RedisRowWrite(r, s) ==
    IF Admitted(r) /\ Keys!Allowed(Meaning(r), s)
    THEN Affected(IF r.operation = "delete" /\ ~Stored(s, Meaning(r).key) THEN 0 ELSE 1,
                  Keys!Effect(Meaning(r), s))
    ELSE Error(s)

\* An edit of a stored value that is over-long, which the Redis service
\* refuses.
EditsLong(r, s) ==
    LET q == ForRedis(r)
    IN  /\ q.operation = "update" /\ Admitted(q) /\ Meaning(q).value # None
        /\ s[Meaning(q).key] \in LongStrings

\* What the double is lenient or strict about on its own.
OwnRules(r, s) ==
    \/ EditsLong(r, s)
    \/ r.operation = "insert" /\ r.key # None
    \/ r.operation = "delete" /\ r.values \notin {None, <<>>}
    \/ r.operation = "insert" /\ r.values # None /\ "type" \in Names(r.values)
=============================================================================
