------------------------------ MODULE KeysTable ------------------------------
(***************************************************************************)
(* What perk/v1/row_write promises about the virtual `keys` table: every   *)
(* accepted request takes effect at most once and atomically, against the  *)
(* rows as they are at that moment, whatever other clients of the database *)
(* do meanwhile; "ok" means it did, "refused" means it did not and never   *)
(* will.  A request whose caller stopped waiting is "unknown".             *)
(***************************************************************************)
CONSTANTS
    Handlers,    \* row_write calls
    Keys,        \* Redis keys: the rows of the table
    Strings,     \* editable values: strings of at most MAX_CELL characters
    Blobs,       \* string values the table must not edit: longer, or not UTF-8
    Collections, \* hashes, lists, sets, sorted sets, streams
    Absent,      \* no such key
    NoValue,     \* the update leaves the value column alone
    NoRequest    \* the handler has not been called yet

Entries == Strings \cup Blobs \cup Collections \cup {Absent}

\* A validated RowWrite; only an update has a destination other than its key.
Requests ==
    [op: {"delete"}, key: Keys, dest: Keys, value: {NoValue}]
      \cup [op: {"insert"}, key: Keys, dest: Keys, value: Strings \cup Blobs]
      \cup [op: {"update"}, key: Keys, dest: Keys, value: Strings \cup Blobs \cup {NoValue}]

Results == {"pending", "ok", "refused", "unknown"}

VARIABLES store, request, applied, result
vars == <<store, request, applied, result>>

\* When a request may take effect: an insert never overwrites, a rename never
\* lands on an existing key, and only an editable string is edited.
Allowed(q, s) ==
    CASE q.op = "delete" -> TRUE
      [] q.op = "insert" -> s[q.key] = Absent
      [] q.op = "update" ->
            /\ s[q.key] # Absent
            /\ q.value # NoValue => s[q.key] \in Strings
            /\ q.dest # q.key => s[q.dest] = Absent

Effect(q, s) ==
    CASE q.op = "delete" -> [s EXCEPT ![q.key] = Absent]
      [] q.op = "insert" -> [s EXCEPT ![q.key] = q.value]
      [] q.op = "update" ->
            [k \in Keys |->
                IF k = q.dest THEN IF q.value = NoValue THEN s[q.key] ELSE q.value
                ELSE IF k = q.key THEN Absent ELSE s[k]]

Init ==
    /\ store \in [Keys -> Entries]
    /\ request = [h \in Handlers |-> NoRequest]
    /\ applied = [h \in Handlers |-> FALSE]
    /\ result = [h \in Handlers |-> "pending"]

Submit(h, q) ==
    /\ request[h] = NoRequest
    /\ request' = [request EXCEPT ![h] = q]
    /\ UNCHANGED <<store, applied, result>>

Apply(h) ==
    /\ request[h] # NoRequest
    /\ ~applied[h]
    /\ result[h] \in {"pending", "unknown"}
    /\ Allowed(request[h], store)
    /\ store' = Effect(request[h], store)
    /\ applied' = [applied EXCEPT ![h] = TRUE]
    /\ UNCHANGED <<request, result>>

Respond(h, r) ==
    /\ request[h] # NoRequest
    /\ result[h] = "pending"
    /\ r = "ok" => applied[h]
    /\ r = "refused" => ~applied[h]
    /\ result' = [result EXCEPT ![h] = r]
    /\ UNCHANGED <<store, request, applied>>

\* Other clients, and native commands of this one, change any key.
OtherClient(k, e) ==
    /\ store' = [store EXCEPT ![k] = e]
    /\ UNCHANGED <<request, applied, result>>

Next ==
    \/ \E h \in Handlers :
         \/ \E q \in Requests : Submit(h, q)
         \/ Apply(h)
         \/ \E r \in Results \ {"pending"} : Respond(h, r)
    \/ \E k \in Keys, e \in Entries : OtherClient(k, e)

Spec == Init /\ [][Next]_vars
=============================================================================
