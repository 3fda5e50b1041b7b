--------------------------- MODULE RowWriteRequest ---------------------------
(***************************************************************************)
(* parse_row_write of src/src/redis_service.rs: a row_write request, as it *)
(* arrives on the wire, is validated against the fixed `keys` schema and   *)
(* normalised into the RowWrite that module RowWrite starts from.          *)
(*                                                                         *)
(* The two cell lists are folded one cell at a time, over what the code    *)
(* has seen so far in its Option locals.  All validation errors are one.   *)
(***************************************************************************)
EXTENDS Naturals, Sequences

CONSTANTS
    Strings, \* payloads; "" and "string" are told apart from the rest
    Columns, \* column names that occur in requests
    None     \* Option::None

\* RowValue: a cell may claim to be a string and carry none.
Cells == [name: Columns, kind: {"string", "other"}, string: Strings \cup {None}]

ASSUME RequestAssumption ==
    /\ {"", "string"} \subseteq Strings
    /\ {"key", "type", "value"} \subseteq Columns
    /\ None \notin Strings
    /\ None \notin Seq(Cells)

\* RowWriteRequest
Request(table, operation, key, values) ==
    [table |-> table, operation |-> operation, key |-> key, values |-> values]

Refused(r) == [result |-> r]
AcceptedWrite(w) == [result |-> "accepted", write |-> w]

-----------------------------------------------------------------------------
(* Cell lists                                                               *)

NothingSeen == [ok |-> TRUE, seen |-> [c \in {"key", "type", "value"} |-> None]]

\* require_string
RequireString(cell) == cell.kind = "string" /\ cell.string # None

\* Mutant of Duplicate: the last cell of a column wins.
DuplicateReplaces(seen, cell) == FALSE

Duplicate(seen, cell) == seen[cell.name] # None

\* What each list takes as a column: an identity is the key, a rename needs
\* a destination, an insert's type is blank or string, an update's type is
\* immutable.
Permitted(list, cell) ==
    \/ list = "identity" /\ cell.name = "key"
    \/ list = "update" /\ cell.name = "key" /\ cell.string # ""
    \/ list = "insert" /\ cell.name = "key"
    \/ list \in {"update", "insert"} /\ cell.name = "value"
    \/ list = "insert" /\ cell.name = "type" /\ cell.string \in {"", "string"}

Takes(list, seen, cell) ==
    /\ cell.name \in DOMAIN seen
    /\ ~Duplicate(seen, cell)
    /\ RequireString(cell)
    /\ Permitted(list, cell)

\* The next cell; the first wrong one ends the parse.
ParseCell(list, acc, cell) ==
    IF acc.ok /\ Takes(list, acc.seen, cell)
    THEN [acc EXCEPT !.seen[cell.name] = cell.string]
    ELSE [acc EXCEPT !.ok = FALSE]

ParseCells(list, cells) ==
    LET parse[i \in 0..Len(cells)] ==
          IF i = 0 THEN NothingSeen ELSE ParseCell(list, parse[i - 1], cells[i])
    IN  parse[Len(cells)]

\* parse_identity, parse_update_values and parse_insert_values: an identity
\* and an insert have a key, an update changes something.
Complete(list, seen) == seen["key"] # None \/ (list = "update" /\ seen["value"] # None)

Parses(list, cells) ==
    /\ cells # None
    /\ ParseCells(list, cells).ok
    /\ Complete(list, ParseCells(list, cells).seen)

Column(list, cells, c) == ParseCells(list, cells).seen[c]

-----------------------------------------------------------------------------
(* parse_row_write                                                          *)

\* The RowWrite that is returned, in the form KeysTable gives it: an update
\* without a rename stays on its key, an insert without a value is empty.
Or(option, default) == IF option = None THEN default ELSE option

DeleteOf(r) ==
    LET k == Column("identity", r.key, "key")
    IN  [op |-> "delete", key |-> k, dest |-> k, value |-> None]

UpdateOf(r) ==
    LET k == Column("identity", r.key, "key")
    IN  [op |-> "update", key |-> k, dest |-> Or(Column("update", r.values, "key"), k),
         value |-> Column("update", r.values, "value")]

InsertOf(r) ==
    LET k == Column("insert", r.values, "key")
    IN  [op |-> "insert", key |-> k, dest |-> k,
         value |-> Or(Column("insert", r.values, "value"), "")]

ParseRowWrite(r) ==
    CASE r.table # "keys" -> Refused("unsupported")
      [] r.table = "keys" /\ r.operation = "delete" ->
           IF r.values \in {None, <<>>} /\ Parses("identity", r.key)
           THEN AcceptedWrite(DeleteOf(r)) ELSE Refused("validation")
      [] r.table = "keys" /\ r.operation = "update" ->
           IF Parses("identity", r.key) /\ Parses("update", r.values)
           THEN AcceptedWrite(UpdateOf(r)) ELSE Refused("validation")
      [] r.table = "keys" /\ r.operation = "insert" ->
           IF r.key = None /\ Parses("insert", r.values)
           THEN AcceptedWrite(InsertOf(r)) ELSE Refused("validation")
      [] OTHER -> Refused("validation")

-----------------------------------------------------------------------------
(* Reference definitions                                                    *)

Names(cells) == {cells[i].name : i \in DOMAIN cells}
CellOf(cells, name) == CHOOSE c \in {cells[i] : i \in DOMAIN cells} : c.name = name

\* A list of distinct columns with string payloads.
WellFormed(cells, names) ==
    /\ cells # None
    /\ Names(cells) \subseteq names
    /\ \A i, j \in DOMAIN cells : cells[i].name = cells[j].name => i = j
    /\ \A i \in DOMAIN cells : cells[i].kind = "string" /\ cells[i].string \in Strings

Identifies(cells) == WellFormed(cells, {"key"}) /\ "key" \in Names(cells)

\* The requests the schema admits, said of the lists as a whole.
Admitted(r) ==
    /\ r.table = "keys"
    /\ \/ /\ r.operation = "delete"
          /\ Identifies(r.key)
          /\ r.values \in {None, <<>>}
       \/ /\ r.operation = "update"
          /\ Identifies(r.key)
          /\ WellFormed(r.values, {"key", "value"})
          /\ Names(r.values) # {}
          /\ \A i \in DOMAIN r.values : r.values[i].name = "key" => r.values[i].string # ""
       \/ /\ r.operation = "insert"
          /\ r.key = None
          /\ WellFormed(r.values, {"key", "type", "value"})
          /\ "key" \in Names(r.values)
          /\ \A i \in DOMAIN r.values :
               r.values[i].name = "type" => r.values[i].string \in {"", "string"}

\* What a list says of a column, or the default.
Says(cells, name, default) ==
    IF name \in Names(cells) THEN CellOf(cells, name).string ELSE default

\* The row write an admitted request asks for.
Meaning(r) ==
    CASE r.operation = "delete" ->
            LET k == Says(r.key, "key", None)
            IN  [op |-> "delete", key |-> k, dest |-> k, value |-> None]
      [] r.operation = "update" ->
            LET k == Says(r.key, "key", None)
            IN  [op |-> "update", key |-> k, dest |-> Says(r.values, "key", k),
                 value |-> Says(r.values, "value", None)]
      [] r.operation = "insert" ->
            LET k == Says(r.values, "key", None)
            IN  [op |-> "insert", key |-> k, dest |-> k, value |-> Says(r.values, "value", "")]
=============================================================================
