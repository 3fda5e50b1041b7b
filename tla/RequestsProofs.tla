---------------------------- MODULE RequestsProofs ----------------------------
(***************************************************************************)
(* Proofs about Requests.  The statements about parse_row_write hold for   *)
(* cell lists of any length: its loop is a recursive function over the     *)
(* list, and Parsed says what it has established after n cells.            *)
(***************************************************************************)
EXTENDS Requests, Induction, TLAPS

-----------------------------------------------------------------------------
(* The loop over the cells                                                  *)

\* g is what the loop has seen after each of the first n cells.
Loops(list, cells, n, g) ==
    g = [i \in 0..n |-> IF i = 0 THEN NothingSeen ELSE ParseCell(list, g[i - 1], cells[i])]

\* There is such a function for every list.
LEMMA LoopExists == \A list, cells : \A n \in Nat : \E g : Loops(list, cells, n, g)
<1> SUFFICES ASSUME NEW list, NEW cells PROVE \A n \in Nat : \E g : Loops(list, cells, n, g)
  OBVIOUS
<1> DEFINE S == {n \in Nat : \E g : Loops(list, cells, n, g)}
<1>1. 0 \in S
  <2> DEFINE g == [i \in 0..0 |-> NothingSeen]
  <2>1. g = [i \in 0..0 |-> IF i = 0 THEN NothingSeen ELSE ParseCell(list, g[i - 1], cells[i])]
    OBVIOUS
  <2> QED BY <2>1 DEF Loops
<1>2. ASSUME NEW n \in Nat, n \in S PROVE n + 1 \in S
  <2>1. PICK g : Loops(list, cells, n, g)
    BY <1>2
  <2> DEFINE k == [i \in 0..(n + 1) |->
                     IF i = 0 THEN NothingSeen ELSE ParseCell(list, g[i - 1], cells[i])]
  <2>2. \A i \in 0..n : g[i] = IF i = 0 THEN NothingSeen ELSE ParseCell(list, g[i - 1], cells[i])
    BY <2>1 DEF Loops
  <2>3. \A i \in 0..n : k[i] = g[i]
    BY <2>2
  <2>4. ASSUME NEW i \in 0..(n + 1)
        PROVE  k[i] = IF i = 0 THEN NothingSeen ELSE ParseCell(list, k[i - 1], cells[i])
    <3>1. k[i] = IF i = 0 THEN NothingSeen ELSE ParseCell(list, g[i - 1], cells[i])
      OBVIOUS
    <3>2. i # 0 => i - 1 \in 0..n
      OBVIOUS
    <3> HIDE DEF k
    <3>3. i # 0 => k[i - 1] = g[i - 1]
      BY <2>3, <3>2
    <3> QED BY <3>1, <3>3
  <2>5. k = [i \in 0..(n + 1) |->
               IF i = 0 THEN NothingSeen ELSE ParseCell(list, k[i - 1], cells[i])]
    <3>1. k = [i \in 0..(n + 1) |-> k[i]]
      OBVIOUS
    <3> HIDE DEF k
    <3> QED BY <2>4, <3>1
  <2> HIDE DEF k
  <2> QED BY <2>5 DEF Loops
<1> HIDE DEF S
<1>3. Nat \subseteq S
  BY <1>1, <1>2, NatSetInduction
<1> QED BY <1>3 DEF S

\* ParseCells returns the last value of that function.
LEMMA ParseCellsIs ==
  \A list, cells : Len(cells) \in Nat =>
    \E g : Loops(list, cells, Len(cells), g) /\ ParseCells(list, cells) = g[Len(cells)]
<1> SUFFICES ASSUME NEW list, NEW cells, Len(cells) \in Nat
             PROVE  \E g : /\ Loops(list, cells, Len(cells), g)
                           /\ ParseCells(list, cells) = g[Len(cells)]
  OBVIOUS
<1> DEFINE g == CHOOSE g : g = [i \in 0..Len(cells) |->
                 IF i = 0 THEN NothingSeen ELSE ParseCell(list, g[i - 1], cells[i])]
<1>1. ParseCells(list, cells) = g[Len(cells)]
  BY DEF ParseCells
<1>2. \E f : f = [i \in 0..Len(cells) |->
                    IF i = 0 THEN NothingSeen ELSE ParseCell(list, f[i - 1], cells[i])]
  <2>1. \E f : Loops(list, cells, Len(cells), f)
    BY LoopExists, Zenon
  <2> QED BY <2>1, Zenon DEF Loops
<1>3. g = [i \in 0..Len(cells) |->
             IF i = 0 THEN NothingSeen ELSE ParseCell(list, g[i - 1], cells[i])]
  BY <1>2, Zenon
<1> HIDE DEF g
<1> QED BY <1>1, <1>3 DEF Loops

SeenColumns == {"key", "type", "value"}

\* A cell that is right whatever came before it.
Right(list, cell) == cell.name \in SeenColumns /\ RequireString(cell) /\ Permitted(list, cell)

\* What the loop knows after n cells: it goes on exactly if they are right
\* and no two of one column, and it then holds what each of them says.
Parsed(list, cells, n, acc) ==
    /\ acc = [ok |-> acc.ok, seen |-> acc.seen]
    /\ acc.ok \in BOOLEAN
    /\ acc.seen \in [SeenColumns -> Strings \cup {None}]
    /\ acc.ok <=> /\ \A i \in 1..n : Right(list, cells[i])
                  /\ \A i, j \in 1..n : cells[i].name = cells[j].name => i = j
    /\ acc.ok => /\ \A i \in 1..n : acc.seen[cells[i].name] = cells[i].string
                 /\ \A c \in SeenColumns : (\A i \in 1..n : cells[i].name # c) => acc.seen[c] = None

\* One more cell.
LEMMA ParsedStep ==
  ASSUME NEW list, NEW cells \in Seq(Cells), NEW n \in Nat, n + 1 <= Len(cells), NEW acc,
         Parsed(list, cells, n, acc)
  PROVE  Parsed(list, cells, n + 1, ParseCell(list, acc, cells[n + 1]))
<1> DEFINE cell == cells[n + 1]
           next == ParseCell(list, acc, cell)
<1>1. cell \in Cells /\ \A i \in 1..n : cells[i] \in Cells
  OBVIOUS
<1>2. cell.string \in Strings \cup {None} /\ \A i \in 1..n : cells[i].string \in Strings \cup {None}
  BY <1>1 DEF Cells
<1>3. \A i \in 1..(n + 1) : i \in 1..n \/ i = n + 1
  OBVIOUS
<1>4. acc.ok \in BOOLEAN /\ acc.seen \in [SeenColumns -> Strings \cup {None}]
      /\ acc = [ok |-> acc.ok, seen |-> acc.seen]
  BY DEF Parsed
<1>5. CASE acc.ok /\ Takes(list, acc.seen, cell)
  <2>1. next = [acc EXCEPT !.seen[cell.name] = cell.string]
    BY <1>5 DEF ParseCell
  <2>2. cell.name \in SeenColumns /\ acc.seen[cell.name] = None
        /\ RequireString(cell) /\ Permitted(list, cell)
    BY <1>4, <1>5 DEF Takes, Duplicate
  <2>3. next = [ok |-> TRUE, seen |-> [acc.seen EXCEPT ![cell.name] = cell.string]]
    BY <2>1, <1>4, <1>5
  <2>4. next.ok /\ next.seen = [acc.seen EXCEPT ![cell.name] = cell.string]
    BY <2>3
  <2> HIDE DEF next
  <2>5. /\ \A i \in 1..n : Right(list, cells[i])
        /\ \A i, j \in 1..n : cells[i].name = cells[j].name => i = j
        /\ \A i \in 1..n : acc.seen[cells[i].name] = cells[i].string
        /\ \A c \in SeenColumns : (\A i \in 1..n : cells[i].name # c) => acc.seen[c] = None
    BY <1>5 DEF Parsed
  <2>6. \A i \in 1..n : cells[i].name # cell.name
    <3> SUFFICES ASSUME NEW i \in 1..n, cells[i].name = cell.name PROVE FALSE
      OBVIOUS
    <3>1. cells[i].string = None
      BY <2>2, <2>5
    <3>2. Right(list, cells[i])
      BY <2>5
    <3> QED BY <3>1, <3>2 DEF Right, RequireString
  <2>7. Right(list, cell)
    BY <2>2 DEF Right
  <2>8. \A i \in 1..(n + 1) : Right(list, cells[i])
    BY <1>3, <2>5, <2>7
  <2>9. \A i, j \in 1..(n + 1) : cells[i].name = cells[j].name => i = j
    BY <1>3, <2>5, <2>6
  <2>10. \A i \in 1..(n + 1) : next.seen[cells[i].name] = cells[i].string
    <3> TAKE i \in 1..(n + 1)
    <3>1. CASE i = n + 1
      BY <3>1, <1>4, <2>2, <2>4
    <3>2. CASE i \in 1..n
      <4>1. cells[i].name \in SeenColumns
        BY <3>2, <2>5 DEF Right
      <4> QED BY <3>2, <4>1, <1>4, <2>4, <2>5, <2>6
    <3> QED BY <1>3, <3>1, <3>2
  <2>11. \A c \in SeenColumns :
           (\A i \in 1..(n + 1) : cells[i].name # c) => next.seen[c] = None
    <3> SUFFICES ASSUME NEW c \in SeenColumns, \A i \in 1..(n + 1) : cells[i].name # c
                 PROVE  next.seen[c] = None
      OBVIOUS
    <3>1. cell.name # c /\ \A i \in 1..n : cells[i].name # c
      OBVIOUS
    <3> QED BY <3>1, <1>4, <2>4, <2>5
  <2>12. next.seen \in [SeenColumns -> Strings \cup {None}]
    BY <2>4, <1>4, <1>2, <2>2
  <2>13. next = [ok |-> next.ok, seen |-> next.seen]
    BY <2>3, <2>4
  <2>14. next.ok \in BOOLEAN
    BY <2>3
  <2> QED BY <2>4, <2>8, <2>9, <2>10, <2>11, <2>12, <2>13, <2>14 DEF Parsed, next
<1>6. CASE ~(acc.ok /\ Takes(list, acc.seen, cell))
  <2>1. next = [acc EXCEPT !.ok = FALSE]
    BY <1>6 DEF ParseCell
  <2>2. next = [ok |-> FALSE, seen |-> acc.seen]
    BY <2>1, <1>4
  <2>3. ~next.ok /\ next.seen = acc.seen /\ next.ok \in BOOLEAN /\ next = [ok |-> next.ok, seen |-> next.seen]
    BY <2>2
  <2> HIDE DEF next
  <2>4. ~(/\ \A i \in 1..(n + 1) : Right(list, cells[i])
          /\ \A i, j \in 1..(n + 1) : cells[i].name = cells[j].name => i = j)
    <3> SUFFICES ASSUME \A i \in 1..(n + 1) : Right(list, cells[i]),
                        \A i, j \in 1..(n + 1) : cells[i].name = cells[j].name => i = j
                 PROVE  FALSE
      OBVIOUS
    <3>1. acc.ok
      <4>1. \A i \in 1..n : i \in 1..(n + 1)
        OBVIOUS
      <4> QED BY <4>1 DEF Parsed
    <3>2. n + 1 \in 1..(n + 1) /\ \A i \in 1..n : i \in 1..(n + 1) /\ i # n + 1
      OBVIOUS
    <3>3. Right(list, cell)
      BY <3>2
    <3>4. \A i \in 1..n : cells[i].name # cell.name
      BY <3>2
    <3>5. acc.seen[cell.name] = None
      BY <3>1, <3>3, <3>4 DEF Parsed, Right
    <3>6. DOMAIN acc.seen = SeenColumns
      BY <1>4
    <3>7. Takes(list, acc.seen, cell)
      BY <3>3, <3>5, <3>6 DEF Takes, Right, Duplicate
    <3> QED BY <3>1, <3>7, <1>6
  <2> QED BY <2>3, <2>4, <1>4 DEF Parsed, next
<1> QED BY <1>5, <1>6

\* The whole list, of any length.
LEMMA ParsedAll ==
  ASSUME NEW list, NEW cells \in Seq(Cells)
  PROVE  Parsed(list, cells, Len(cells), ParseCells(list, cells))
<1>1. Len(cells) \in Nat
  OBVIOUS
<1>2. PICK g : Loops(list, cells, Len(cells), g) /\ ParseCells(list, cells) = g[Len(cells)]
  BY <1>1, ParseCellsIs
<1>3. \A i \in 0..Len(cells) :
        g[i] = IF i = 0 THEN NothingSeen ELSE ParseCell(list, g[i - 1], cells[i])
  BY <1>2 DEF Loops
<1> DEFINE T == {n \in Nat : n <= Len(cells) => Parsed(list, cells, n, g[n])}
<1>4. 0 \in T
  <2>1. g[0] = NothingSeen
    BY <1>1, <1>3
  <2>2. Parsed(list, cells, 0, NothingSeen)
    BY DEF Parsed, NothingSeen, SeenColumns
  <2> QED BY <2>1, <2>2
<1>5. ASSUME NEW n \in Nat, n \in T PROVE n + 1 \in T
  <2> SUFFICES ASSUME n + 1 <= Len(cells) PROVE Parsed(list, cells, n + 1, g[n + 1])
    OBVIOUS
  <2>1. Parsed(list, cells, n, g[n])
    BY <1>1, <1>5
  <2>2. n + 1 \in 0..Len(cells) /\ n + 1 # 0 /\ (n + 1) - 1 = n
    BY <1>1
  <2>3. g[n + 1] = ParseCell(list, g[n], cells[n + 1])
    BY <1>3, <2>2
  <2>4. Parsed(list, cells, n + 1, ParseCell(list, g[n], cells[n + 1]))
    BY <2>1, ParsedStep
  <2> QED BY <2>3, <2>4
<1> HIDE DEF T
<1>6. Nat \subseteq T
  BY <1>4, <1>5, NatSetInduction
<1>7. Len(cells) \in T
  BY <1>1, <1>6
<1> QED BY <1>2, <1>7 DEF T
-----------------------------------------------------------------------------
(* The three kinds of lists                                                 *)

CellList == Seq(Cells) \cup {None}

\* What a list of the given kind may hold.
ListNames(list) ==
    CASE list = "identity" -> {"key"}
      [] list = "update" -> {"key", "value"}
      [] list = "insert" -> {"key", "type", "value"}

Lists == {"identity", "update", "insert"}

\* The conditions on single cells beyond their names.
Conditions(list, cells) ==
    /\ list = "update" => \A i \in DOMAIN cells : cells[i].name = "key" => cells[i].string # ""
    /\ list = "insert" =>
         \A i \in DOMAIN cells : cells[i].name = "type" => cells[i].string \in {"", "string"}

\* The loop ends well exactly on a well-formed list.
LEMMA ParseCellsOk ==
  ASSUME NEW list \in Lists, NEW cells \in Seq(Cells)
  PROVE  ParseCells(list, cells).ok <=>
           WellFormed(cells, ListNames(list)) /\ Conditions(list, cells)
<1> DEFINE acc == ParseCells(list, cells)
           D == 1..Len(cells)
<1>1. acc.ok <=> /\ \A i \in D : Right(list, cells[i])
                 /\ \A i, j \in D : cells[i].name = cells[j].name => i = j
  BY ParsedAll DEF Parsed
<1> HIDE DEF acc
<1>2. DOMAIN cells = D /\ \A i \in D : cells[i] \in Cells
  OBVIOUS
<1>3. cells # None
  BY RequestAssumption
<1>4. \A i \in D : cells[i].string \in Strings <=> cells[i].string # None
  BY <1>2, RequestAssumption DEF Cells
<1>5. ASSUME NEW i \in D
      PROVE  Right(list, cells[i]) <=>
               /\ cells[i].name \in ListNames(list)
               /\ cells[i].kind = "string" /\ cells[i].string \in Strings
               /\ list = "update" => (cells[i].name = "key" => cells[i].string # "")
               /\ list = "insert" =>
                    (cells[i].name = "type" => cells[i].string \in {"", "string"})
  BY <1>4 DEF Right, RequireString, Permitted, SeenColumns, ListNames, Lists
<1>6. Names(cells) \subseteq ListNames(list) <=> \A i \in D : cells[i].name \in ListNames(list)
  BY <1>2 DEF Names
<1> HIDE DEF D
<1> QED BY <1>1, <1>2, <1>3, <1>5, <1>6 DEF WellFormed, Conditions, acc

\* A column of a well-formed list is what its cell says, or missing.
LEMMA ColumnIs ==
  ASSUME NEW list \in Lists, NEW cells \in Seq(Cells), ParseCells(list, cells).ok,
         NEW c \in SeenColumns
  PROVE  /\ Column(list, cells, c) = Says(cells, c, None)
         /\ Column(list, cells, c) = None <=> c \notin Names(cells)
         /\ Column(list, cells, c) \in Strings \cup {None}
<1> DEFINE acc == ParseCells(list, cells)
           D == 1..Len(cells)
<1>1. /\ acc.seen \in [SeenColumns -> Strings \cup {None}]
      /\ \A i \in D : Right(list, cells[i])
      /\ \A i, j \in D : cells[i].name = cells[j].name => i = j
      /\ \A i \in D : acc.seen[cells[i].name] = cells[i].string
      /\ (\A i \in D : cells[i].name # c) => acc.seen[c] = None
  BY ParsedAll DEF Parsed
<1>2. Column(list, cells, c) = acc.seen[c]
  BY DEF Column
<1> HIDE DEF acc
<1>3. DOMAIN cells = D /\ \A i \in D : cells[i] \in Cells
  OBVIOUS
<1> HIDE DEF D
<1>4. CASE c \in Names(cells)
  <2>1. PICK i \in D : cells[i].name = c
    BY <1>3, <1>4 DEF Names
  <2>2. \A x \in {cells[j] : j \in DOMAIN cells} : x.name = c => x = cells[i]
    BY <1>1, <1>3, <2>1
  <2>3. cells[i] \in {cells[j] : j \in DOMAIN cells}
    BY <1>3
  <2>4. CellOf(cells, c) \in {cells[j] : j \in DOMAIN cells} /\ CellOf(cells, c).name = c
    BY <2>1, <2>3, Zenon DEF CellOf
  <2>5. CellOf(cells, c) = cells[i]
    BY <2>2, <2>4, Zenon
  <2>6. cells[i].string # None
    BY <1>1, <2>1 DEF Right, RequireString
  <2> QED BY <1>1, <1>2, <1>4, <2>1, <2>5, <2>6 DEF Says
<1>5. CASE c \notin Names(cells)
  <2>1. \A i \in D : cells[i].name # c
    BY <1>3, <1>5 DEF Names
  <2> QED BY <1>1, <1>2, <1>5, <2>1 DEF Says
<1> QED BY <1>4, <1>5

\* parse_identity, parse_update_values and parse_insert_values, against the
\* reference.
LEMMA ParsesIs ==
  ASSUME NEW list \in Lists, NEW cells \in CellList
  PROVE  Parses(list, cells) <=>
           /\ cells # None
           /\ WellFormed(cells, ListNames(list)) /\ Conditions(list, cells)
           /\ "key" \in Names(cells) \/ (list = "update" /\ "value" \in Names(cells))
<1>1. CASE cells = None
  BY <1>1 DEF Parses
<1>2. CASE cells # None
  <2>1. cells \in Seq(Cells)
    BY <1>2 DEF CellList
  <2>2. ParseCells(list, cells).ok =>
          /\ ParseCells(list, cells).seen["key"] = None <=> "key" \notin Names(cells)
          /\ ParseCells(list, cells).seen["value"] = None <=> "value" \notin Names(cells)
    BY <2>1, ColumnIs DEF Column, SeenColumns
  <2> QED BY <1>2, <2>1, <2>2, ParseCellsOk DEF Parses, Complete
<1> QED BY <1>1, <1>2
-----------------------------------------------------------------------------
(* parse_row_write                                                          *)

\* The requests of the wire: any table, any operation, any lists of cells.
WireRequest(r) ==
    /\ r = Request(r.table, r.operation, r.key, r.values)
    /\ r.key \in CellList /\ r.values \in CellList

\* What the operations ask of their lists is what the schema admits, and
\* what they take from them is what the cells say.
LEMMA OperationsAre ==
  ASSUME NEW r, WireRequest(r), r.table = "keys"
  PROVE  /\ r.operation = "delete" =>
              /\ Admitted(r) <=> r.values \in {None, <<>>} /\ Parses("identity", r.key)
              /\ Parses("identity", r.key) => DeleteOf(r) = Meaning(r)
         /\ r.operation = "update" =>
              /\ Admitted(r) <=> Parses("identity", r.key) /\ Parses("update", r.values)
              /\ Admitted(r) => UpdateOf(r) = Meaning(r)
         /\ r.operation = "insert" =>
              /\ Admitted(r) <=> r.key = None /\ Parses("insert", r.values)
              /\ Parses("insert", r.values) => InsertOf(r) = Meaning(r)
         /\ r.operation \notin {"delete", "update", "insert"} => ~Admitted(r)
<1> USE DEF WireRequest
<1>2. Parses("identity", r.key) <=> Identifies(r.key)
  <2>1. Identifies(r.key) => r.key # None
    BY DEF Identifies, WellFormed
  <2> QED BY <2>1, ParsesIs DEF Lists, ListNames, Conditions, Identifies
<1>3. Parses("update", r.values) <=>
        /\ WellFormed(r.values, {"key", "value"})
        /\ Names(r.values) # {}
        /\ \A i \in DOMAIN r.values : r.values[i].name = "key" => r.values[i].string # ""
  <2>1. WellFormed(r.values, {"key", "value"}) =>
          r.values # None /\ Names(r.values) \subseteq {"key", "value"}
    BY DEF WellFormed
  <2>2. ListNames("update") = {"key", "value"} /\ "update" \in Lists
    BY DEF ListNames, Lists
  <2>3. Conditions("update", r.values) <=>
          \A i \in DOMAIN r.values : r.values[i].name = "key" => r.values[i].string # ""
    BY DEF Conditions
  <2>4. Names(r.values) \subseteq {"key", "value"} =>
          (Names(r.values) # {} <=> ("key" \in Names(r.values) \/ "value" \in Names(r.values)))
    OBVIOUS
  <2>5. Parses("update", r.values) <=>
           /\ r.values # None
           /\ WellFormed(r.values, {"key", "value"}) /\ Conditions("update", r.values)
           /\ "key" \in Names(r.values) \/ "value" \in Names(r.values)
    BY <2>2, ParsesIs
  <2> QED BY <2>1, <2>3, <2>4, <2>5
<1>4. Parses("insert", r.values) <=>
        /\ WellFormed(r.values, {"key", "type", "value"})
        /\ "key" \in Names(r.values)
        /\ \A i \in DOMAIN r.values :
             r.values[i].name = "type" => r.values[i].string \in {"", "string"}
  <2>1. WellFormed(r.values, {"key", "type", "value"}) => r.values # None
    BY DEF WellFormed
  <2>2. ListNames("insert") = {"key", "type", "value"} /\ "insert" \in Lists
    BY DEF ListNames, Lists
  <2>3. Conditions("insert", r.values) <=>
          \A i \in DOMAIN r.values :
             r.values[i].name = "type" => r.values[i].string \in {"", "string"}
    BY DEF Conditions
  <2>4. Parses("insert", r.values) <=>
           /\ r.values # None
           /\ WellFormed(r.values, {"key", "type", "value"}) /\ Conditions("insert", r.values)
           /\ "key" \in Names(r.values)
    BY <2>2, ParsesIs
  <2> QED BY <2>1, <2>3, <2>4
<1>5. ASSUME NEW list \in Lists, NEW cells \in CellList, Parses(list, cells), NEW c \in SeenColumns
      PROVE  /\ Column(list, cells, c) = Says(cells, c, None)
             /\ Column(list, cells, c) = None <=> c \notin Names(cells)
  BY <1>5, ColumnIs DEF Parses, CellList
<1>6. ASSUME NEW list \in Lists, NEW cells \in CellList, Parses(list, cells), NEW c \in SeenColumns,
             NEW d
      PROVE  Or(Column(list, cells, c), d) = Says(cells, c, d)
  BY <1>5, <1>6 DEF Or, Says
<1>7. "key" \in SeenColumns /\ "value" \in SeenColumns
      /\ "identity" \in Lists /\ "update" \in Lists /\ "insert" \in Lists
  BY DEF SeenColumns, Lists
<1>8. ASSUME r.operation = "delete"
      PROVE  /\ Admitted(r) <=> r.values \in {None, <<>>} /\ Parses("identity", r.key)
             /\ Parses("identity", r.key) => DeleteOf(r) = Meaning(r)
  <2>1. Admitted(r) <=> Identifies(r.key) /\ r.values \in {None, <<>>}
    BY <1>8 DEF Admitted
  <2>2. Parses("identity", r.key) => DeleteOf(r) = Meaning(r)
    BY <1>5, <1>7, <1>8 DEF DeleteOf, Meaning
  <2> QED BY <1>2, <2>1, <2>2
<1>9. ASSUME r.operation = "update"
      PROVE  /\ Admitted(r) <=> Parses("identity", r.key) /\ Parses("update", r.values)
             /\ Admitted(r) => UpdateOf(r) = Meaning(r)
  <2>1. Admitted(r) <=> Parses("identity", r.key) /\ Parses("update", r.values)
    BY <1>2, <1>3, <1>9 DEF Admitted
  <2>2. ASSUME Parses("identity", r.key), Parses("update", r.values)
        PROVE  UpdateOf(r) = Meaning(r)
    <3>1. Column("identity", r.key, "key") = Says(r.key, "key", None)
      BY <1>5, <1>7, <2>2
    <3>2. Column("update", r.values, "value") = Says(r.values, "value", None)
      BY <1>5, <1>7, <2>2
    <3>3. Or(Column("update", r.values, "key"), Says(r.key, "key", None))
            = Says(r.values, "key", Says(r.key, "key", None))
      BY <1>6, <1>7, <2>2
    <3> QED BY <1>9, <3>1, <3>2, <3>3 DEF UpdateOf, Meaning
  <2> QED BY <2>1, <2>2
<1>10. ASSUME r.operation = "insert"
      PROVE  /\ Admitted(r) <=> r.key = None /\ Parses("insert", r.values)
             /\ Parses("insert", r.values) => InsertOf(r) = Meaning(r)
  <2>1. Admitted(r) <=> r.key = None /\ Parses("insert", r.values)
    BY <1>4, <1>10 DEF Admitted
  <2>2. ASSUME Parses("insert", r.values)
        PROVE  InsertOf(r) = Meaning(r)
    <3>1. Column("insert", r.values, "key") = Says(r.values, "key", None)
      BY <1>5, <1>7, <2>2
    <3>2. Or(Column("insert", r.values, "value"), "") = Says(r.values, "value", "")
      BY <1>5, <1>7, <2>2 DEF Or, Says
    <3> QED BY <1>10, <3>1, <3>2 DEF InsertOf, Meaning
  <2> QED BY <2>1, <2>2
<1>11. r.operation \notin {"delete", "update", "insert"} => ~Admitted(r)
  BY DEF Admitted
<1> QED BY <1>8, <1>9, <1>10, <1>11

\* For lists of any length, parse_row_write lets a request through exactly if
\* the schema admits it, and hands on what its cells say.
THEOREM ParseRowWriteExact ==
  ASSUME NEW r, WireRequest(r)
  PROVE  /\ ParseRowWrite(r).result = "accepted" <=> Admitted(r)
         /\ ParseRowWrite(r).result = "accepted" => ParseRowWrite(r).write = Meaning(r)
<1> USE DEF ParseRowWrite, AcceptedWrite, Refused
<1>1. CASE r.table # "keys"
  BY <1>1 DEF Admitted
<1>2. CASE r.table = "keys" /\ r.operation = "delete"
  BY <1>2, OperationsAre
<1>3. CASE r.table = "keys" /\ r.operation = "update"
  BY <1>3, OperationsAre
<1>4. CASE r.table = "keys" /\ r.operation = "insert"
  BY <1>4, OperationsAre
<1>5. CASE r.table = "keys" /\ r.operation \notin {"delete", "update", "insert"}
  BY <1>5, OperationsAre
<1> QED BY <1>1, <1>2, <1>3, <1>4, <1>5

-----------------------------------------------------------------------------
(* The in-memory double                                                     *)

Stores == [MemoryKeys -> Strings \cup {MemoryAbsent}]

\* The keys a list names are keys of the store.
Keyed(cells) ==
    cells # None =>
        \A i \in DOMAIN cells : cells[i].name = "key" => cells[i].string \in MemoryKeys \cup {None}

\* The key that the cells of the double name is one of its keys.
LEMMA KeyColumn ==
  ASSUME NEW list \in Lists, NEW cells \in CellList, Parses(list, cells), Keyed(cells),
         Column(list, cells, "key") # None
  PROVE  Column(list, cells, "key") \in MemoryKeys
<1>1. cells \in Seq(Cells) /\ cells # None /\ ParseCells(list, cells).ok
  BY DEF Parses, CellList
<1>2. PICK i \in 1..Len(cells) : cells[i].name = "key"
  <2>1. "key" \in Names(cells)
    BY <1>1, ColumnIs DEF SeenColumns
  <2> QED BY <1>1, <2>1 DEF Names
<1>3. ParseCells(list, cells).seen[cells[i].name] = cells[i].string
  BY <1>1, <1>2, ParsedAll DEF Parsed
<1>4. DOMAIN cells = 1..Len(cells)
  BY <1>1
<1> QED BY <1>1, <1>2, <1>3, <1>4 DEF Column, Keyed

\* For lists of any length and any store, over-long values among its values,
\* MemoryService::row_write answers and leaves behind what the Redis service
\* does, outside the double's own rules: it edits over-long values too.
THEOREM MemoryRowWriteAgrees ==
  ASSUME NEW r, WireRequest(r), Keyed(r.key), Keyed(r.values), NEW s \in Stores, ~OwnRules(r, s)
  PROVE  MemoryRowWrite(r, s) = RedisRowWrite(ForRedis(r), s)
<1> DEFINE q == ForRedis(r)
<1>1. /\ q = Request(q.table, q.operation, q.key, q.values)
      /\ q.table = IF r.table = "kv" THEN "keys" ELSE "unknown"
      /\ q.operation = r.operation /\ q.key = r.key /\ q.values = r.values
  BY DEF WireRequest, ForRedis, Request
<1>2. WireRequest(q) /\ r.key \in CellList /\ r.values \in CellList
  BY <1>1 DEF WireRequest
<1>3. DeleteOf(q) = DeleteOf(r) /\ UpdateOf(q) = UpdateOf(r) /\ InsertOf(q) = InsertOf(r)
  BY <1>1 DEF DeleteOf, UpdateOf, InsertOf
<1> HIDE DEF q
<1>4. CASE r.table # "kv"
  <2>1. ~Admitted(q)
    BY <1>1, <1>4 DEF Admitted
  <2> QED BY <1>4, <2>1 DEF MemoryRowWrite, RedisRowWrite, q
<1>5. CASE r.table = "kv" /\ r.operation = "insert"
  <2>1. r.key = None /\ (r.values # None => "type" \notin Names(r.values))
    BY <1>5 DEF OwnRules
  <2>2. MemoryParses("insert", r.values) <=> Parses("insert", r.values)
    BY <2>1 DEF MemoryParses, Parses, Names
  <2>3. /\ Admitted(q) <=> Parses("insert", r.values)
        /\ Parses("insert", r.values) => Meaning(q) = InsertOf(r)
    BY <1>1, <1>2, <1>3, <1>5, <2>1, OperationsAre
  <2>4. CASE ~Parses("insert", r.values)
    BY <1>5, <2>2, <2>3, <2>4 DEF MemoryRowWrite, MemoryInsert, RedisRowWrite, q
  <2>5. CASE Parses("insert", r.values)
    <3> DEFINE k == Column("insert", r.values, "key")
               v == Or(Column("insert", r.values, "value"), "")
    <3>1. InsertOf(r) = [op |-> "insert", key |-> k, dest |-> k, value |-> v]
      BY DEF InsertOf
    <3>2. k # None
      BY <2>5 DEF Parses, Complete, Column
    <3>3. k \in MemoryKeys
      BY <1>2, <2>5, <3>2, KeyColumn DEF Lists
    <3> HIDE DEF k, v
    <3>4. MemoryRowWrite(r, s) = IF s[k] = MemoryAbsent THEN Affected(1, [s EXCEPT ![k] = v])
                                                        ELSE Error(s)
      BY <1>5, <2>2, <2>5, <3>1, <3>3 DEF MemoryRowWrite, MemoryInsert, Stored, Put
    <3>5. /\ Keys!Allowed(InsertOf(r), s) <=> s[k] = MemoryAbsent
          /\ Keys!Effect(InsertOf(r), s) = [s EXCEPT ![k] = v]
      BY <3>1 DEF Keys!Allowed, Keys!Effect
    <3>6. RedisRowWrite(q, s) = IF Keys!Allowed(InsertOf(r), s)
                                THEN Affected(1, Keys!Effect(InsertOf(r), s)) ELSE Error(s)
      BY <1>1, <1>5, <2>3, <2>5 DEF RedisRowWrite
    <3> QED BY <3>4, <3>5, <3>6 DEF q
  <2> QED BY <2>4, <2>5
<1>6. CASE r.table = "kv" /\ r.operation = "delete"
  <2>1. r.values \in {None, <<>>}
    BY <1>6 DEF OwnRules
  <2>2. MemoryParses("identity", r.key) <=> Parses("identity", r.key)
    <3>1. Parses("identity", r.key) => WellFormed(r.key, {"key"})
      BY <1>2, ParsesIs DEF Lists, ListNames
    <3> QED BY <3>1 DEF MemoryParses, WellFormed, Names
  <2>3. /\ Admitted(q) <=> Parses("identity", r.key)
        /\ Parses("identity", r.key) => Meaning(q) = DeleteOf(r)
    BY <1>1, <1>2, <1>3, <1>6, <2>1, OperationsAre
  <2>4. CASE ~Parses("identity", r.key)
    BY <1>6, <2>2, <2>3, <2>4 DEF MemoryRowWrite, MemoryDelete, RedisRowWrite, q
  <2>5. CASE Parses("identity", r.key)
    <3> DEFINE k == Column("identity", r.key, "key")
    <3>1. DeleteOf(r) = [op |-> "delete", key |-> k, dest |-> k, value |-> None]
      BY DEF DeleteOf
    <3>2. k # None
      BY <2>5 DEF Parses, Complete, Column
    <3>3. k \in MemoryKeys
      BY <1>2, <2>5, <3>2, KeyColumn DEF Lists
    <3> HIDE DEF k
    <3>4. Gone(s, k) = [s EXCEPT ![k] = MemoryAbsent]
      BY <3>3 DEF Gone, Stored, Stores
    <3>5. /\ DeleteOf(r).key = k
          /\ Keys!Allowed(DeleteOf(r), s)
          /\ Keys!Effect(DeleteOf(r), s) = [s EXCEPT ![k] = MemoryAbsent]
      BY <3>1 DEF Keys!Allowed, Keys!Effect
    <3> DEFINE n == IF Stored(s, k) THEN 1 ELSE 0
    <3>6. MemoryRowWrite(r, s) = Affected(n, Gone(s, k))
      BY <1>6, <2>2, <2>5, <3>5 DEF MemoryRowWrite, MemoryDelete
    <3>7. (IF q.operation = "delete" /\ ~Stored(s, k) THEN 0 ELSE 1) = n
      BY <1>1, <1>6
    <3> HIDE DEF n
    <3>8. RedisRowWrite(q, s) = Affected(n, [s EXCEPT ![k] = MemoryAbsent])
      BY <2>3, <2>5, <3>5, <3>7 DEF RedisRowWrite
    <3> QED BY <3>4, <3>6, <3>8 DEF q
  <2> QED BY <2>4, <2>5
<1>7. CASE r.table = "kv" /\ r.operation = "update"
  <2>1. /\ MemoryParses("identity", r.key) <=> Parses("identity", r.key)
        /\ MemoryParses("update", r.values) <=> Parses("update", r.values)
    <3>1. Parses("identity", r.key) => WellFormed(r.key, {"key"})
      BY <1>2, ParsesIs DEF Lists, ListNames
    <3>2. Parses("update", r.values) => WellFormed(r.values, {"key", "value"})
      BY <1>2, ParsesIs DEF Lists, ListNames
    <3> QED BY <3>1, <3>2 DEF MemoryParses, WellFormed, Names
  <2>2. /\ Admitted(q) <=> Parses("identity", r.key) /\ Parses("update", r.values)
        /\ Admitted(q) => Meaning(q) = UpdateOf(r)
    BY <1>1, <1>2, <1>3, <1>7, OperationsAre
  <2>3. CASE ~(Parses("identity", r.key) /\ Parses("update", r.values))
    BY <1>7, <2>1, <2>2, <2>3 DEF MemoryRowWrite, MemoryUpdate, RedisRowWrite, q
  <2>4. CASE Parses("identity", r.key) /\ Parses("update", r.values)
    <3> DEFINE k == Column("identity", r.key, "key")
               d == Or(Column("update", r.values, "key"), k)
               v == Column("update", r.values, "value")
               w == [op |-> "update", key |-> k, dest |-> d, value |-> v]
    <3>1. UpdateOf(r) = w
      BY DEF UpdateOf
    <3>2. k # None
      BY <2>4 DEF Parses, Complete, Column
    <3>3. k \in MemoryKeys
      BY <1>2, <2>4, <3>2, KeyColumn DEF Lists
    <3>4. d \in MemoryKeys
      BY <1>2, <2>4, <3>3, KeyColumn DEF Lists, Or
    <3> HIDE DEF k, d, v
    <3>5. s[k] # MemoryAbsent => s[k] \in Strings /\ (v # None => s[k] \notin LongStrings)
      <4>1. Meaning(q) = w /\ Admitted(q)
        BY <2>2, <2>4, <3>1
      <4>2. v = None \/ s[k] \notin LongStrings
        <5>1. w.value = v /\ w.key = k
          OBVIOUS
        <5>2. ~(q.operation = "update" /\ Admitted(q) /\ Meaning(q).value # None
                /\ s[Meaning(q).key] \in LongStrings)
          BY DEF OwnRules, EditsLong, q
        <5>3. q.operation = "update"
          BY <1>1, <1>7
        <5> HIDE DEF w, q
        <5> QED BY <4>1, <5>1, <5>2, <5>3
      <4> QED BY <3>3, <4>2 DEF Stores
    <3>6. ASSUME s[k] # MemoryAbsent PROVE Moved(w, s) = Keys!Effect(w, s)
      <4>1. Gone(s, k) = [s EXCEPT ![k] = MemoryAbsent]
        BY <3>3, <3>6 DEF Gone, Stored
      <4>2. Moved(w, s) = [[s EXCEPT ![k] = MemoryAbsent] EXCEPT ![d] = Or(v, s[k])]
        BY <4>1 DEF Moved, Put
      <4>3. Keys!Effect(w, s) = [x \in MemoryKeys |->
                IF x = d THEN IF v = None THEN s[k] ELSE v
                ELSE IF x = k THEN MemoryAbsent ELSE s[x]]
        BY DEF Keys!Effect
      <4> QED BY <4>2, <4>3, <3>3, <3>4 DEF Stores, Or
    <3>7. MemoryRowWrite(r, s) =
            IF s[k] = MemoryAbsent \/ (d # k /\ s[d] # MemoryAbsent)
            THEN Error(s) ELSE Affected(1, Moved(w, s))
      BY <1>7, <2>1, <2>4, <3>1, <3>3, <3>4 DEF MemoryRowWrite, MemoryUpdate, Stored
    <3>8. Keys!Allowed(w, s) <=> ~(s[k] = MemoryAbsent \/ (d # k /\ s[d] # MemoryAbsent))
      BY <3>5 DEF Keys!Allowed
    <3>9. RedisRowWrite(q, s) = IF Keys!Allowed(w, s) THEN Affected(1, Keys!Effect(w, s)) ELSE Error(s)
      BY <1>1, <1>7, <2>2, <2>4, <3>1 DEF RedisRowWrite
    <3> HIDE DEF w
    <3> QED BY <3>6, <3>7, <3>8, <3>9 DEF q
  <2> QED BY <2>3, <2>4
<1>8. CASE r.table = "kv" /\ r.operation \notin {"insert", "update", "delete"}
  <2>1. ~Admitted(q)
    BY <1>1, <1>2, <1>8, OperationsAre
  <2> QED BY <1>8, <2>1 DEF MemoryRowWrite, RedisRowWrite, q
<1> QED BY <1>4, <1>5, <1>6, <1>7, <1>8
-----------------------------------------------------------------------------
(* The server view                                                          *)

\* An INFO reply: lines, each a field with its value.
IsInfo(lines) ==
    \E S : lines \in Seq(S) /\ \A l \in S : l = Line(l.field, l.value) /\ l.value \in Seq(Nat)

\* INFO keyspace names databases by number, each at most once.
IsKeyspace(lines) ==
    /\ \E S : lines \in Seq(S)
    /\ \A i \in DOMAIN lines :
         /\ lines[i].name \in Seq(Digits)
         /\ \A f \in DOMAIN lines[i].values : lines[i].values[f] \in Seq(Nat)
    /\ \A i, j \in DOMAIN lines : lines[i].name = lines[j].name => i = j

\* A sequence over a set is one over any larger set.
LEMMA Widens ==
  ASSUME NEW S, NEW T, S \subseteq T, NEW s \in Seq(S) PROVE s \in Seq(T)
<1>1. Len(s) \in Nat /\ s = [i \in 1..Len(s) |-> s[i]] /\ \A i \in 1..Len(s) : s[i] \in T
  OBVIOUS
<1> DEFINE n == Len(s)
<1>2. [i \in 1..n |-> s[i]] \in Seq(T)
  <2> HIDE DEF n
  <2> QED BY <1>1 DEF n
<1> QED BY <1>1, <1>2

\* Of lines named by numbers only the database's own begins with `dbN:`.
LEMMA PrefixIs ==
  ASSUME NEW database \in Seq(Digits), NEW line, line.name \in Seq(Digits)
  PROVE  StartsWithDb(line, database) <=> line.name = database
<1>1. SUFFICES ASSUME NEW d \in Seq(Digits), NEW n \in Seq(Digits)
               PROVE  IsPrefix(Append(d, Colon), Append(n, Colon)) <=> n = d
  BY DEF StartsWithDb
<1> DEFINE p == Append(d, Colon)
           t == Append(n, Colon)
<1>2. /\ p \in Seq(Nat) /\ Len(p) = Len(d) + 1 /\ p[Len(d) + 1] = Colon
      /\ \A i \in 1..Len(d) : p[i] = d[i] /\ d[i] \in Digits
      /\ t \in Seq(Nat) /\ Len(t) = Len(n) + 1 /\ t[Len(n) + 1] = Colon
      /\ \A i \in 1..Len(n) : t[i] = n[i] /\ n[i] \in Digits
      /\ Len(d) \in Nat /\ Len(n) \in Nat
  <2>1. ASSUME NEW s \in Seq(Digits), NEW u, u = Append(s, Colon)
        PROVE  /\ u \in Seq(Nat) /\ Len(u) = Len(s) + 1 /\ u[Len(s) + 1] = Colon
               /\ \A i \in 1..Len(s) : u[i] = s[i] /\ s[i] \in Digits
               /\ Len(s) \in Nat
    <3>1. Len(s) \in Nat /\ \A i \in 1..Len(s) : s[i] \in Digits
      OBVIOUS
    <3>2. s \in Seq(Nat) /\ Colon \in Nat
      <4>1. Digits \subseteq Nat /\ Colon \in Nat
        BY DEF Digits, Colon
      <4> HIDE DEF p, t
      <4> QED BY <4>1, Widens
    <3> QED BY <2>1, <3>1, <3>2
  <2> QED BY <2>1
<1>3. Colon \notin Digits
  BY DEF Colon, Digits
<1>4. ASSUME IsPrefix(p, t) PROVE n = d
  <2> HIDE DEF p, t
  <2>1. Len(p) <= Len(t) /\ SubSeq(p, 1, Len(p)) = SubSeq(t, 1, Len(p))
    BY <1>4 DEF IsPrefix
  <2>2. \A i \in 1..Len(p) : p[i] = t[i]
    <3> SUFFICES ASSUME NEW i \in 1..Len(p) PROVE p[i] = t[i]
      OBVIOUS
    <3>1. SubSeq(p, 1, Len(p))[i] = p[i] /\ SubSeq(t, 1, Len(p))[i] = t[i]
      BY <1>2, <2>1
    <3> QED BY <2>1, <3>1
  <2>3. Len(n) = Len(d)
    <3>1. CASE Len(d) < Len(n)
      <4>1. Len(d) + 1 \in 1..Len(n) /\ Len(d) + 1 \in 1..Len(p)
        BY <1>2, <3>1
      <4> QED BY <1>2, <1>3, <2>2, <4>1
    <3> QED BY <1>2, <2>1, <3>1
  <2>4. \A i \in 1..Len(d) : n[i] = d[i]
    BY <1>2, <2>2, <2>3
  <2> QED BY <2>3, <2>4
<1>5. ASSUME n = d PROVE IsPrefix(p, t)
  <2>1. p = t
    BY <1>5
  <2> HIDE DEF p, t
  <2> QED BY <1>2, <2>1 DEF IsPrefix
<1> QED BY <1>4, <1>5

\* A capped text fits a cell.
LEMMA CapFits == ASSUME NEW t \in Seq(Nat) PROVE Len(CapCell(t)) \in Nat /\ Len(CapCell(t)) <= MaxCell
<1>1. Len(t) \in Nat /\ MaxCell \in Nat \ {0}
  BY CellTextAssumption
<1>2. CASE Len(t) > MaxCell
  <2>1. SubSeq(t, 1, MaxCell - 1) \in Seq(Nat) /\ Len(SubSeq(t, 1, MaxCell - 1)) = MaxCell - 1
    BY <1>1, <1>2
  <2>2. Len(Append(SubSeq(t, 1, MaxCell - 1), Ellipsis)) = MaxCell
    BY <1>1, <2>1 DEF Ellipsis
  <2> QED BY <1>1, <1>2, <2>2 DEF CapCell
<1> QED BY <1>1, <1>2 DEF CapCell

\* parse_info_section keeps the allowlisted fields, each with the value of a
\* line of its own.
LEMMA SectionIs ==
  ASSUME NEW lines, IsInfo(lines), NEW section, NEW fields
  PROVE  LET p == ParseInfoSection(lines, section, fields) IN
         /\ DOMAIN p \subseteq {section} \X fields
         /\ \A f \in DOMAIN p : /\ \E i \in DOMAIN lines : lines[i] = Line(f[2], p[f])
                              /\ p[f] \in Seq(Nat)
         /\ \A i \in DOMAIN lines :
              lines[i].field \in fields => ViewField(section, lines[i].field) \in DOMAIN p
<1> DEFINE p == ParseInfoSection(lines, section, fields)
           F == {ViewField(section, l.field) : l \in {m \in ToSet(lines) : m.field \in fields}}
<1>1. PICK S : lines \in Seq(S) /\ \A l \in S : l = Line(l.field, l.value) /\ l.value \in Seq(Nat)
  BY DEF IsInfo
<1>2. DOMAIN lines = 1..Len(lines) /\ Len(lines) \in Nat /\ \A i \in DOMAIN lines : lines[i] \in S
  BY <1>1
<1>3. DOMAIN p = F
  BY DEF ParseInfoSection
<1>4. ASSUME NEW f \in F
      PROVE  (\E i \in DOMAIN lines : lines[i] = Line(f[2], p[f])) /\ p[f] \in Seq(Nat)
  <2>1. PICK j \in DOMAIN lines : f = ViewField(section, lines[j].field)
    BY DEF ToSet
  <2>2. f[2] = lines[j].field
    BY <2>1 DEF ViewField
  <2> DEFINE T == {i \in DOMAIN lines : lines[i].field = f[2]}
             Latest(i) == /\ lines[i].field = f[2]
                          /\ \A n \in DOMAIN lines : n > i => lines[n].field # f[2]
  <2>3. T \subseteq Nat /\ T # {} /\ \A x \in T : x <= Len(lines)
    BY <1>2, <2>2
  <2>4. PICK i \in T : \A n \in T : n <= i
    <3> HIDE DEF T
    <3> QED BY <1>2, <2>3, GreatestNat
  <2>5. i \in DOMAIN lines /\ Latest(i)
    BY <1>2, <2>4
  <2> DEFINE k == CHOOSE n \in DOMAIN lines : Latest(n)
  <2>6. k \in DOMAIN lines /\ lines[k].field = f[2]
    BY <2>5, Zenon
  <2>7. p[f] = lines[k].value
    BY DEF ParseInfoSection
  <2> HIDE DEF k, p
  <2>8. lines[k] = Line(lines[k].field, lines[k].value) /\ lines[k].value \in Seq(Nat)
    BY <1>1, <1>2, <2>6
  <2> QED BY <2>6, <2>7, <2>8
<1>5. ASSUME NEW i \in DOMAIN lines, lines[i].field \in fields
      PROVE  ViewField(section, lines[i].field) \in F
  BY <1>5 DEF ToSet
<1>6. F \subseteq {section} \X fields
  BY DEF ViewField
<1> HIDE DEF p, F
<1>7. /\ DOMAIN p \subseteq {section} \X fields
      /\ \A f \in DOMAIN p : (\E i \in DOMAIN lines : lines[i] = Line(f[2], p[f])) /\ p[f] \in Seq(Nat)
      /\ \A i \in DOMAIN lines :
           lines[i].field \in fields => ViewField(section, lines[i].field) \in DOMAIN p
  BY <1>3, <1>4, <1>5, <1>6
<1> QED BY <1>7 DEF p

\* parse_keyspace_line keeps the allowlisted counts of the database's line.
LEMMA KeyspaceIs ==
  ASSUME NEW lines, IsKeyspace(lines), NEW database \in Seq(Digits)
  PROVE  LET p == ParseKeyspaceLine(lines, database) IN
         /\ DOMAIN p \subseteq {"keyspace"} \X SERVER_VIEW_KEYSPACE_FIELDS
         /\ \A f \in DOMAIN p : p[f] \in Seq(Nat)
         /\ \A i \in DOMAIN lines :
              lines[i].name = database =>
                \A f \in SERVER_VIEW_KEYSPACE_FIELDS \cap DOMAIN lines[i].values :
                  /\ ViewField("keyspace", f) \in DOMAIN p
                  /\ p[ViewField("keyspace", f)] = lines[i].values[f]
         /\ (\A i \in DOMAIN lines : lines[i].name # database) => DOMAIN p = {}
<1> DEFINE p == ParseKeyspaceLine(lines, database)
           found == {i \in DOMAIN lines : StartsWithDb(lines[i], database)}
<1>1. \A i \in DOMAIN lines : i \in found <=> lines[i].name = database
  BY PrefixIs DEF IsKeyspace
<1>2. CASE found = {}
  <2>1. p = <<>>
    BY <1>2 DEF ParseKeyspaceLine
  <2>2. DOMAIN p = {}
    BY <2>1
  <2> HIDE DEF found
  <2>3. \A i \in DOMAIN lines : lines[i].name # database
    BY <1>1, <1>2
  <2> QED BY <2>2, <2>3
<1>3. CASE found # {}
  <2>1. PICK i \in DOMAIN lines : lines[i].name = database
    BY <1>1, <1>3
  <2>2. \A n \in DOMAIN lines : lines[n].name = database => n = i
    BY <2>1 DEF IsKeyspace
  <2>3. found = {i}
    BY <1>1, <2>1, <2>2
  <2>4. i \in Nat
    BY <2>1 DEF IsKeyspace
  <2> DEFINE k == CHOOSE n \in found : \A m \in found : n <= m
  <2>5. k = i
    <3> HIDE DEF found
    <3> QED BY <2>3, <2>4
  <2> DEFINE G == {ViewField("keyspace", g) :
                     g \in SERVER_VIEW_KEYSPACE_FIELDS \cap DOMAIN lines[i].values}
  <2>6. p = [f \in G |-> lines[i].values[f[2]]]
    <3>1. p = [f \in {ViewField("keyspace", g) :
                         g \in SERVER_VIEW_KEYSPACE_FIELDS \cap DOMAIN lines[k].values} |->
                 lines[k].values[f[2]]]
      BY <1>3, Zenon DEF ParseKeyspaceLine
    <3> HIDE DEF k, p
    <3> QED BY <2>5, <3>1
  <2> HIDE DEF found, k
  <2>7. DOMAIN p = G /\ \A f \in G : p[f] = lines[i].values[f[2]]
    BY <2>6
  <2> HIDE DEF p
  <2>8. G \subseteq {"keyspace"} \X SERVER_VIEW_KEYSPACE_FIELDS
    BY DEF ViewField
  <2>9. \A f \in SERVER_VIEW_KEYSPACE_FIELDS \cap DOMAIN lines[i].values :
          ViewField("keyspace", f) \in G /\ ViewField("keyspace", f)[2] = f
    BY DEF ViewField
  <2> HIDE DEF G
  <2>10. \A n \in DOMAIN lines :
              lines[n].name = database =>
                \A f \in SERVER_VIEW_KEYSPACE_FIELDS \cap DOMAIN lines[n].values :
                  /\ ViewField("keyspace", f) \in DOMAIN p
                  /\ p[ViewField("keyspace", f)] = lines[n].values[f]
    BY <2>2, <2>7, <2>9
  <2>11. \A f \in DOMAIN p : p[f] \in Seq(Nat)
    BY <2>1, <2>7 DEF IsKeyspace, G, ViewField
  <2> QED BY <2>1, <2>7, <2>8, <2>10, <2>11 DEF p
<1> QED BY <1>2, <1>3

\* For INFO replies of any length, the view shows the allowlisted fields of
\* its two sections and the counts of the session's database, every value cut
\* to a cell, and nothing else.
THEOREM ViewIsExact ==
  ASSUME NEW server, IsInfo(server), NEW memory, IsInfo(memory),
         NEW keyspace, IsKeyspace(keyspace), NEW database \in Seq(Digits)
  PROVE  LET view == View(server, memory, keyspace, database)
         IN  /\ ViewShown(view, server, memory, keyspace, database)
             /\ \A f \in DOMAIN view : Len(view[f]) <= MaxCell
<1> DEFINE a == ParseInfoSection(server, "server", SERVER_VIEW_SERVER_FIELDS)
           b == ParseInfoSection(memory, "memory", SERVER_VIEW_MEMORY_FIELDS)
           c == ParseKeyspaceLine(keyspace, database)
           fields == Collected(server, memory, keyspace, database)
           view == View(server, memory, keyspace, database)
<1>1. /\ DOMAIN a \subseteq {"server"} \X SERVER_VIEW_SERVER_FIELDS
      /\ \A f \in DOMAIN a : /\ \E i \in DOMAIN server : server[i] = Line(f[2], a[f])
                           /\ a[f] \in Seq(Nat)
      /\ \A i \in DOMAIN server :
           server[i].field \in SERVER_VIEW_SERVER_FIELDS =>
             ViewField("server", server[i].field) \in DOMAIN a
  BY SectionIs
<1>2. /\ DOMAIN b \subseteq {"memory"} \X SERVER_VIEW_MEMORY_FIELDS
      /\ \A f \in DOMAIN b : /\ \E i \in DOMAIN memory : memory[i] = Line(f[2], b[f])
                           /\ b[f] \in Seq(Nat)
      /\ \A i \in DOMAIN memory :
           memory[i].field \in SERVER_VIEW_MEMORY_FIELDS =>
             ViewField("memory", memory[i].field) \in DOMAIN b
  BY SectionIs
<1>3. /\ DOMAIN c \subseteq {"keyspace"} \X SERVER_VIEW_KEYSPACE_FIELDS
      /\ \A f \in DOMAIN c : c[f] \in Seq(Nat)
      /\ \A i \in DOMAIN keyspace :
           keyspace[i].name = database =>
             \A f \in SERVER_VIEW_KEYSPACE_FIELDS \cap DOMAIN keyspace[i].values :
               /\ ViewField("keyspace", f) \in DOMAIN c
               /\ c[ViewField("keyspace", f)] = keyspace[i].values[f]
      /\ (\A i \in DOMAIN keyspace : keyspace[i].name # database) => DOMAIN c = {}
  BY KeyspaceIs
<1>4. fields = Merge(Merge(a, b), c) /\ view = [f \in DOMAIN fields |-> CapCell(fields[f])]
  BY DEF View, Collected
<1> HIDE DEF a, b, c, fields, view
<1>5. DOMAIN fields = DOMAIN a \cup DOMAIN b \cup DOMAIN c /\ DOMAIN view = DOMAIN fields
  BY <1>4 DEF Merge
<1>6. \A f \in DOMAIN a : f[1] = "server"
  BY <1>1
<1>7. \A f \in DOMAIN b : f[1] = "memory"
  BY <1>2
<1>8. \A f \in DOMAIN c : f[1] = "keyspace"
  BY <1>3
<1>9. \A f \in DOMAIN view :
        fields[f] = IF f \in DOMAIN c THEN c[f] ELSE IF f \in DOMAIN b THEN b[f] ELSE a[f]
  BY <1>4, <1>5 DEF Merge
<1>10. \A f \in DOMAIN view : view[f] = CapCell(fields[f])
  BY <1>4, <1>5
<1>11. SectionShown(view, server, "server", SERVER_VIEW_SERVER_FIELDS)
  <2>1. \A f \in DOMAIN view : f[1] = "server" => f \in DOMAIN a /\ view[f] = CapCell(a[f])
    BY <1>5, <1>7, <1>8, <1>9, <1>10
  <2>2. \A f \in DOMAIN a : \E i \in DOMAIN server : server[i].field = f[2] /\ server[i].value = a[f]
    BY <1>1 DEF Line
  <2> QED BY <1>1, <1>5, <2>1, <2>2 DEF SectionShown
<1>12. SectionShown(view, memory, "memory", SERVER_VIEW_MEMORY_FIELDS)
  <2>1. \A f \in DOMAIN view : f[1] = "memory" => f \in DOMAIN b /\ view[f] = CapCell(b[f])
    BY <1>5, <1>6, <1>8, <1>9, <1>10
  <2>2. \A f \in DOMAIN b : \E i \in DOMAIN memory : memory[i].field = f[2] /\ memory[i].value = b[f]
    BY <1>2 DEF Line
  <2> QED BY <1>2, <1>5, <2>1, <2>2 DEF SectionShown
<1>13. KeyspaceShown(view, keyspace, database)
  <2>1. \A f \in DOMAIN c : f \in DOMAIN view /\ view[f] = CapCell(c[f])
    BY <1>5, <1>9, <1>10
  <2>2. \A f \in DOMAIN view : f[1] = "keyspace" => f \in DOMAIN c
    BY <1>5, <1>6, <1>7
  <2>3. ASSUME NEW i \in DOMAIN keyspace,
               NEW f \in SERVER_VIEW_KEYSPACE_FIELDS \cap DOMAIN keyspace[i].values,
               keyspace[i].name = database
        PROVE  view[ViewField("keyspace", f)] = CapCell(keyspace[i].values[f])
    BY <1>3, <2>1, <2>3
  <2> QED BY <1>3, <2>2, <2>3 DEF KeyspaceShown
<1>14. DOMAIN view \subseteq
         ({"server"} \X SERVER_VIEW_SERVER_FIELDS) \cup ({"memory"} \X SERVER_VIEW_MEMORY_FIELDS)
           \cup ({"keyspace"} \X SERVER_VIEW_KEYSPACE_FIELDS)
  <2> HIDE DEF SERVER_VIEW_SERVER_FIELDS, SERVER_VIEW_MEMORY_FIELDS, SERVER_VIEW_KEYSPACE_FIELDS
  <2> QED BY <1>1, <1>2, <1>3, <1>5
<1>15. \A f \in DOMAIN view : Len(view[f]) <= MaxCell
  <2>1. \A f \in DOMAIN view : fields[f] \in Seq(Nat)
    BY <1>1, <1>2, <1>3, <1>5, <1>9
  <2> QED BY <1>10, <2>1, CapFits
<1>16. ViewShown(view, server, memory, keyspace, database)
  BY <1>11, <1>12, <1>13, <1>14 DEF ViewShown
<1> QED BY <1>15, <1>16 DEF view
-----------------------------------------------------------------------------
(* Targets                                                                  *)

\* Names are told apart by their words.
LEMMA Words ==
  ASSUME NEW w
  PROVE  /\ Name(w).word = w
         /\ Trim(Name(w)) = Name(w)
         /\ Trim(Padded(Name(w))) = Name(w)
BY DEF Name, Trim, Padded, FormText

\* No number that is parsed is NoNumber.
LEMMA NonNegative == \A n \in Int : n >= 0 => n # -100
OBVIOUS

\* What trimming leaves of a text, and when that is nothing.
LEMMA TextParts ==
  ASSUME NEW w \in {"", "word", "number"}, NEW n \in Int, NEW k \in {0, 1},
         w = "" => n = NoNumber /\ k = 0
  PROVE  LET t == FormText(w, n, k) IN
         /\ t.number \in Int
         /\ Trim(t) = Blank <=> t = Blank
         /\ Trim(t).number = t.number /\ Trim(t).blanks = 0
         /\ t.number >= 0 => Trim(t) # Blank
<1> DEFINE t == FormText(w, n, k)
<1>1. t.word = w /\ t.number = n /\ t.blanks = k
  BY DEF FormText
<1>2. Trim(t).word = w /\ Trim(t).number = n /\ Trim(t).blanks = 0
  BY DEF FormText, Trim
<1>3. Blank.word = "" /\ Blank.number = -100
  BY DEF Blank, Name, FormText, NoNumber
<1>4. Trim(t) = Blank <=> t = Blank
  <2>1. CASE w = ""
    <3>1. Trim(t) = t
      BY <2>1 DEF FormText, Trim
    <3> QED BY <3>1
  <2>2. CASE w # ""
    BY <1>1, <1>2, <1>3, <2>2
  <2> QED BY <2>1, <2>2
<1>5. t.number >= 0 => Trim(t) # Blank
  <2>1. Trim(t) = Blank => n = -100
    BY <1>2, <1>3
  <2>2. n >= 0 => n # -100
    BY NonNegative
  <2> QED BY <1>1, <2>1, <2>2
<1> QED BY <1>1, <1>2, <1>4, <1>5

\* Numbers and words, as they occur in ports and paths.
LEMMA NumberTexts ==
  ASSUME NEW t, \/ t \in {Blank, Name("word"), Padded(Numeral(1))}
                \/ \E n \in Int : t = Numeral(n)
  PROVE  /\ t.number \in Int
         /\ Trim(t) = Blank <=> t = Blank
         /\ Trim(t).number = t.number /\ Trim(t).blanks = 0
         /\ t.number >= 0 => Trim(t) # Blank
<1>1. \E w \in {"", "word", "number"}, n \in Int, k \in {0, 1} :
        /\ t = FormText(w, n, k)
        /\ w = "" => n = NoNumber /\ k = 0
  <2>0. NoNumber \in Int
    BY DEF NoNumber
  <2>1. CASE t = Blank
    BY <2>0, <2>1 DEF Blank, Name
  <2>2. CASE t = Name("word")
    BY <2>0, <2>2 DEF Name
  <2>3. CASE t = Padded(Numeral(1))
    <3>1. t = FormText("number", 1, 1)
      BY <2>3 DEF Padded, Numeral, FormText
    <3>2. 1 \in Int /\ 1 \in {0, 1} /\ "number" \in {"", "word", "number"} /\ "number" # ""
      OBVIOUS
    <3> QED BY <3>1, <3>2, Zenon
  <2>4. CASE \E n \in Int : t = Numeral(n)
    BY <2>4 DEF Numeral
  <2> QED BY <2>1, <2>2, <2>3, <2>4
<1>2. PICK w \in {"", "word", "number"}, n \in Int, k \in {0, 1} :
        /\ t = FormText(w, n, k)
        /\ w = "" => n = NoNumber /\ k = 0
  BY <1>1
<1>3. LET u == FormText(w, n, k) IN
      /\ u.number \in Int
      /\ Trim(u) = Blank <=> u = Blank
      /\ Trim(u).number = u.number /\ Trim(u).blanks = 0
      /\ u.number >= 0 => Trim(u) # Blank
  BY <1>2, TextParts, Zenon
<1> QED BY <1>2, <1>3, Zenon

\* The host a form describes, and whether it is one.
LEMMA HostOf ==
  ASSUME NEW v, v.host \in HostTexts, Trim(v.host) # Blank
  PROVE  LET h == Bracketed(OrDefault(v.host, LocalHost)) IN
         /\ h.word \in Hosts <=> v.host # Name("name:colon")
         /\ v.host # Name("name:colon") => h = Described(v).host
<1>1. OrDefault(v.host, LocalHost) = Trim(v.host)
  BY DEF OrDefault
<1>2. Described(v).host = IF Trim(v.host) = Name("v6") THEN Name("[v6]") ELSE Trim(v.host)
  BY DEF Described
<1> DEFINE Good(h) == /\ Bracketed(Trim(v.host)) = h
                      /\ h.word \in Hosts
                      /\ v.host # Name("name:colon")
                      /\ Described(v).host = h
<1>3. CASE v.host = Blank \/ v.host = Padded(Blank)
  <2>1. Trim(v.host) = Blank
    BY <1>3, Words DEF Blank
  <2> QED BY <2>1
<1>4. CASE v.host = Name("name") \/ v.host = Padded(Name("name"))
  <2>1. Trim(v.host) = Name("name")
    BY <1>4, Words
  <2>2. Name("name").word = "name" /\ Name("name") # Name("v6")
    BY Words
  <2>3. v.host # Name("name:colon")
    <3>1. Trim(Name("name:colon")) = Name("name:colon") /\ Name("name:colon").word = "name:colon"
      BY Words
    <3> QED BY <2>1, <2>2, <3>1
  <2>4. Good(Name("name"))
    BY <1>2, <2>1, <2>2, <2>3 DEF Bracketed, Hosts
  <2> QED BY <1>1, <2>4
<1>5. CASE v.host = Name("v6") \/ v.host = Name("[v6]")
  <2>1. Trim(v.host) = v.host
    BY <1>5, Words
  <2>2. /\ Name("v6").word = "v6" /\ Name("[v6]").word = "[v6]"
        /\ Name("name:colon").word = "name:colon"
    BY Words
  <2>3. Good(Name("[v6]"))
    BY <1>2, <1>5, <2>1, <2>2 DEF Bracketed, Hosts
  <2> QED BY <1>1, <2>3
<1>6. CASE v.host = Name("name:colon")
  <2>1. Trim(v.host) = Name("name:colon") /\ Name("name:colon").word = "name:colon"
        /\ Name("[name:colon]").word = "[name:colon]"
    BY <1>6, Words
  <2>2. Bracketed(Trim(v.host)) = Name("[name:colon]")
    BY <2>1 DEF Bracketed
  <2>3. Bracketed(Trim(v.host)).word \notin Hosts
    BY <2>1, <2>2 DEF Hosts
  <2> QED BY <1>1, <1>6, <2>3
<1> QED BY <1>3, <1>4, <1>5, <1>6 DEF HostTexts

\* The port, which a valid form has always.
LEMMA PortOf ==
  ASSUME NEW v, v.port \in PortTexts, Trim(v.port) = Blank \/ Trim(v.port).number \in 1..PortMax
  PROVE  LET p == OrDefault(v.port, DefaultPort) IN
         ParsesPort(p) /\ p.number # 0 /\ p.number = Described(v).port
<1>1. v.port \in {Blank, Name("word"), Padded(Numeral(1))} \/ \E n \in Int : v.port = Numeral(n)
  BY TargetAssumption DEF PortTexts
<1>2. Trim(v.port).number = v.port.number /\ Trim(v.port).blanks = 0 /\ v.port.number \in Int
  BY <1>1, NumberTexts
<1>3. Described(v).port = IF Trim(v.port) = Blank THEN DefaultPort.number ELSE v.port.number
  BY DEF Described
<1>4. CASE Trim(v.port) = Blank
  <2>1. OrDefault(v.port, DefaultPort) = DefaultPort
    BY <1>4 DEF OrDefault
  <2>2. DefaultPort.number = RedisPort /\ DefaultPort.blanks = 0
    BY DEF DefaultPort, Numeral, FormText
  <2> QED BY <1>3, <1>4, <2>1, <2>2, TargetAssumption DEF ParsesPort
<1>5. CASE Trim(v.port) # Blank
  <2>1. OrDefault(v.port, DefaultPort) = Trim(v.port)
    BY <1>5 DEF OrDefault
  <2> QED BY <1>2, <1>3, <1>5, <2>1, TargetAssumption DEF ParsesPort
<1> QED BY <1>4, <1>5

\* The database, unless the text is no database number.
LEMMA DatabaseOf ==
  ASSUME NEW v, v.database \in DatabaseTexts
  PROVE  LET d == OrDefault(v.database, DefaultDatabase) IN
         /\ ParsesDatabase(d) /\ d.number >= 0 <=> DatabaseValid(v.database)
         /\ DatabaseValid(v.database) => d.number = Described(v).database /\ d # Blank
<1>1. v.database \in {Blank, Name("word"), Padded(Numeral(1))} \/ \E n \in Int : v.database = Numeral(n)
  BY TargetAssumption DEF DatabaseTexts
<1>2. /\ Trim(v.database).number = v.database.number /\ Trim(v.database).blanks = 0
      /\ v.database.number \in Int
  BY <1>1, NumberTexts
<1>3. Described(v).database = IF Trim(v.database) = Blank THEN 0 ELSE v.database.number
  BY DEF Described
<1>4. CASE Trim(v.database) = Blank
  <2>1. OrDefault(v.database, DefaultDatabase) = Numeral(0)
    BY <1>4 DEF OrDefault, DefaultDatabase
  <2>2. Numeral(0).number = 0 /\ Numeral(0).blanks = 0
    BY DEF Numeral, FormText
  <2>3. Numeral(0) # Blank
    <3>1. Numeral(0).word = "number" /\ Blank.word = ""
      BY DEF Numeral, Blank, Name, FormText
    <3> QED BY <3>1
  <2> QED BY <1>3, <1>4, <2>1, <2>2, <2>3, TargetAssumption DEF ParsesDatabase, DatabaseValid
<1>5. CASE Trim(v.database) # Blank
  <2>1. OrDefault(v.database, DefaultDatabase) = Trim(v.database)
    BY <1>5 DEF OrDefault
  <2> QED BY <1>2, <1>3, <1>5, <2>1, TargetAssumption DEF ParsesDatabase, DatabaseValid
<1> QED BY <1>4, <1>5

\* A URL of the plain scheme opens alike behind one label and behind none.
LEMMA OpensPlain ==
  ASSUME NEW u, u.scheme = "redis", u.tls = NoTls, NEW n \in {0, 1},
         u.path # Blank, ParsesDatabase(u.path), u.path.number >= 0
  PROVE  Open(Labelled(n, u)) = <<Connection(u, u.path.number)>>
<1>1. NormalizeTarget(Labelled(n, u)) = <<u>>
  BY DEF NormalizeTarget, Labelled
<1>2. ParseDatabase(u) = <<u.path.number>>
  BY DEF ParseDatabase
<1>3. PlainTcp(u)
  BY DEF PlainTcp, NoTls
<1>4. <<u>> # Rejected /\ <<u>>[1] = u
  BY DEF Rejected
<1>5. <<u.path.number>> # Rejected /\ <<u.path.number>>[1] = u.path.number
  BY DEF Rejected
<1> QED BY <1>1, <1>2, <1>3, <1>4, <1>5 DEF Open

\* The routes of the host strip or keep one label.
LEMMA Routes ==
  ASSUME NEW u, NEW t \in HostRoutes(Labelled(1, u))
  PROVE  t = Labelled(0, u) \/ t = Labelled(1, u)
<1>1. Labelled(1, u).labels = 1 /\ Labelled(1, u).urls = <<u>>
  BY DEF Labelled
<1>2. PICK n \in {1, 1 + 1} : t = Relabelled(Labelled(1, u), IF n > 0 THEN n - 1 ELSE 0)
  BY <1>1 DEF HostRoutes
<1> QED BY <1>1, <1>2 DEF Relabelled, Labelled

\* A valid form becomes a target iff its database and its host allow it, and the
\* target opens what the form describes by every route.
LEMMA FormsReach ==
  ASSUME NEW v \in Forms
  PROVE  FormReaches(v, BuildTarget(v))
<1> SUFFICES ASSUME FormValid(v)
             PROVE  /\ BuildTarget(v).ok <=>
                         DatabaseValid(v.database) /\ v.host # Name("name:colon")
                    /\ BuildTarget(v).ok =>
                         \A t \in HostRoutes(BuildTarget(v).target) : Open(t) = <<Described(v)>>
  BY DEF FormReaches
<1>1. v.host \in HostTexts /\ v.port \in PortTexts /\ v.database \in DatabaseTexts
  BY DEF Forms
<1>2. /\ Trim(v.host) # Blank
      /\ Trim(v.port) = Blank \/ Trim(v.port).number \in 1..PortMax
  <2>1. Passes(Validators["host"], v["host"]) /\ Passes(Validators["port"], v["port"])
    BY DEF FormValid, Validators
  <2> QED BY <2>1 DEF Passes, Validators
<1> DEFINE h == Bracketed(OrDefault(v.host, LocalHost))
           p == OrDefault(v.port, DefaultPort)
           d == OrDefault(v.database, DefaultDatabase)
           u == Url("redis", h, p.number, Trim(v.user), Trim(v.pass), d)
<1>3. h.word \in Hosts <=> v.host # Name("name:colon")
  BY <1>1, <1>2, HostOf
<1>4. v.host # Name("name:colon") => h = Described(v).host
  BY <1>1, <1>2, HostOf
<1>5. ParsesPort(p) /\ p.number # 0 /\ p.number = Described(v).port
  BY <1>1, <1>2, PortOf
<1>6. /\ ParsesDatabase(d) /\ d.number >= 0 <=> DatabaseValid(v.database)
      /\ DatabaseValid(v.database) => d.number = Described(v).database /\ d # Blank
  BY <1>1, DatabaseOf
<1>7. BuildRedisUri(v) =
        IF /\ ParsesPort(p) /\ p.number # 0 /\ ParsesDatabase(d) /\ d.number >= 0 /\ h.word \in Hosts
        THEN <<u>> ELSE NoUri
  BY DEF BuildRedisUri
<1> HIDE DEF h, p, d, u
<1> DEFINE valid == DatabaseValid(v.database) /\ v.host # Name("name:colon")
<1>8. BuildRedisUri(v) = IF valid THEN <<u>> ELSE NoUri
  BY <1>3, <1>5, <1>6, <1>7
<1>9. <<u>> # NoUri /\ <<u>>[1] = u
  BY DEF NoUri
<1>10. BuildTarget(v) = IF valid THEN [ok |-> TRUE, target |-> Labelled(1, u)]
                                 ELSE [ok |-> FALSE, target |-> NoUrl(0)]
  BY <1>8, <1>9 DEF BuildTarget
<1>11. ASSUME valid, NEW t \in HostRoutes(Labelled(1, u))
       PROVE  Open(t) = <<Described(v)>>
  <2>1. /\ u.scheme = "redis" /\ u.tls = NoTls /\ u.path = d
        /\ u.host = h /\ u.port = p.number /\ u.user = Trim(v.user) /\ u.pass = Trim(v.pass)
    BY DEF u, Url
  <2>2. Open(t) = <<Connection(u, d.number)>>
    BY <1>6, <1>11, <2>1, OpensPlain, Routes
  <2>3. Connection(u, d.number) = [host |-> h, port |-> p.number, user |-> Trim(v.user),
                                   pass |-> Trim(v.pass), database |-> d.number]
    BY <2>1 DEF Connection
  <2>4. Described(v) = [host |-> Described(v).host, port |-> Described(v).port,
                        user |-> Trim(v.user), pass |-> Trim(v.pass),
                        database |-> Described(v).database]
    BY DEF Described
  <2> QED BY <1>4, <1>5, <1>6, <1>11, <2>2, <2>3, <2>4
<1> HIDE DEF valid
<1>12. CASE valid
  BY <1>10, <1>11, <1>12 DEF valid
<1>13. CASE ~valid
  BY <1>10, <1>13 DEF valid
<1> QED BY <1>12, <1>13

\* What a target opens, with any number of labels in front.
LEMMA TargetsOpen ==
  ASSUME NEW t \in Targets
  PROVE  TargetOpens(t, Open(t))
<1> SUFFICES ASSUME t.urls # <<>>
             PROVE  LET u == t.urls[1] IN
                    /\ t.labels < 2 => Open(t) = Open(Relabelled(t, 1 - t.labels))
                    /\ Open(t) # Rejected => /\ u.scheme = "redis" /\ u.tls \in {NoTls, "false"}
                                             /\ DatabaseValid(u.path)
                                             /\ u.path # Blank => Open(t)[1].database = u.path.number
  BY DEF TargetOpens
<1>1. PICK n \in 0..2, u \in Urls : t = Labelled(n, u)
  BY DEF Targets, NoUrl
<1>2. /\ u.scheme \in {"redis", "rediss"} /\ u.tls \in {NoTls, "false", "true", "1"}
      /\ u.path \in DatabaseTexts
  <2>1. PICK x \in {"redis", "rediss"}, p \in DatabaseTexts, y \in {NoTls, "false", "true", "1"} :
          u = [Url(x, Name("name"), 1, Blank, Blank, p) EXCEPT !.tls = y]
    BY DEF Urls
  <2> QED BY <2>1 DEF Url
<1>3. u.path \in {Blank, Name("word"), Padded(Numeral(1))} \/ \E m \in Int : u.path = Numeral(m)
  BY <1>2, TargetAssumption DEF DatabaseTexts
<1>4. u.path.number \in Int /\ (Trim(u.path) = Blank <=> u.path = Blank)
  BY <1>3, NumberTexts
<1>5. t.labels = n /\ t.urls = <<u>> /\ t.urls[1] = u
  BY <1>1 DEF Labelled
<1>6. NormalizeTarget(t) = IF n = 1 \/ (n = 0 /\ u.scheme = "redis") THEN <<u>> ELSE Rejected
  BY <1>5 DEF NormalizeTarget
<1> DEFINE opens == PlainTcp(u) /\ ParseDatabase(u) # Rejected
           c == <<Connection(u, ParseDatabase(u)[1])>>
<1>7. PlainTcp(u) <=> u.scheme = "redis" /\ u.tls \in {NoTls, "false"}
  BY <1>2 DEF PlainTcp, NoTls
<1>8. Open(t) = IF n < 2 /\ opens THEN c ELSE Rejected
  <2>1. <<u>> # Rejected /\ <<u>>[1] = u
    BY DEF Rejected
  <2> QED BY <1>6, <1>7, <2>1 DEF Open
<1>9. ASSUME n < 2 PROVE Open(Relabelled(t, 1 - t.labels)) = Open(t)
  <2>1. Relabelled(t, 1 - t.labels) = Labelled(1 - n, u)
    BY <1>5 DEF Relabelled, Labelled
  <2>2. NormalizeTarget(Labelled(1 - n, u)) =
          IF 1 - n = 1 \/ (1 - n = 0 /\ u.scheme = "redis") THEN <<u>> ELSE Rejected
    BY DEF NormalizeTarget, Labelled
  <2>3. <<u>> # Rejected /\ <<u>>[1] = u
    BY DEF Rejected
  <2>4. Open(Labelled(1 - n, u)) = IF opens THEN c ELSE Rejected
    BY <1>7, <1>9, <2>2, <2>3 DEF Open
  <2> QED BY <1>8, <1>9, <2>1, <2>4
<1>10. ASSUME Open(t) # Rejected
       PROVE  /\ u.scheme = "redis" /\ u.tls \in {NoTls, "false"}
              /\ DatabaseValid(u.path)
              /\ u.path # Blank => Open(t)[1].database = u.path.number
  <2>1. opens /\ Open(t) = c
    BY <1>8, <1>10
  <2>2. u.path = Blank \/ (ParsesDatabase(u.path) /\ u.path.number >= 0)
    BY <2>1 DEF ParseDatabase
  <2>3. DatabaseValid(u.path)
    BY <1>4, <2>2, TargetAssumption DEF DatabaseValid, ParsesDatabase
  <2>4. u.path # Blank => ParseDatabase(u) = <<u.path.number>>
    BY <2>2 DEF ParseDatabase
  <2>5. u.path # Blank => Open(t)[1].database = u.path.number
    BY <2>1, <2>4 DEF Connection
  <2> QED BY <1>7, <2>1, <2>3, <2>5
<1> QED BY <1>5, <1>9, <1>10
-----------------------------------------------------------------------------
(* The calls                                                                *)

\* A call that has returned has answered what its function computes.
Answered ==
    done =>
        /\ case.op = "form" => answer = BuildTarget(case.form)
        /\ case.op = "target" => answer = Open(case.target)
        /\ case.op = "view" =>
             answer = View(case.server, case.memory, case.keyspace, case.database)
        /\ case.op = "row_write" => answer = ParseRowWrite(case.request)
        /\ case.op = "memory" => answer = MemoryRowWrite(case.request, case.store)
        /\ case.op = "memory_execute" =>
             answer = MemoryExecute(case.statement, case.store, case.writable)

CallInv == Picked /\ Answered

\* A call keeps its input, and answers what its function computes.
THEOREM CallsAnswer == RequestSpec => []CallInv
<1>1. RequestInit => CallInv
  BY DEF RequestInit, CallInv, Answered
<1>2. ASSUME CallInv, [RequestNext]_vars PROVE CallInv'
  <2>1. case' = case
    BY <1>2 DEF RequestNext, RequestCalls, vars, BuildsTarget, OpensTarget, CollectsView,
            ParsesRowWrite, WritesMemory, ExecutesMemory, Rest, Call
  <2>2. Picked'
    BY <1>2, <2>1 DEF CallInv, Picked
  <2>3. Answered'
    <3>1. CASE BuildsTarget
      BY <2>1, <3>1 DEF BuildsTarget, Call, Answered
    <3>2. CASE OpensTarget
      BY <2>1, <3>2 DEF OpensTarget, Call, Answered
    <3>3. CASE CollectsView
      BY <2>1, <3>3 DEF CollectsView, Call, Answered
    <3>4. CASE ParsesRowWrite
      BY <2>1, <3>4 DEF ParsesRowWrite, Call, Answered
    <3>5. CASE WritesMemory
      BY <2>1, <3>5 DEF WritesMemory, Call, Answered
    <3>6. CASE ExecutesMemory
      BY <2>1, <3>6 DEF ExecutesMemory, Call, Answered
    <3>7. CASE UNCHANGED vars
      BY <1>2, <3>7 DEF CallInv, Answered, vars
    <3> QED BY <1>2, <3>1, <3>2, <3>3, <3>4, <3>5, <3>6, <3>7
          DEF RequestNext, RequestCalls, Rest
  <2> QED BY <2>2, <2>3 DEF CallInv
<1> QED BY <1>1, <1>2, PTL DEF RequestSpec

\* What each call was given.
LEMMA Inputs ==
  ASSUME Picked
  PROVE  /\ case.op = "form" => case.form \in Forms
         /\ case.op = "target" => case.target \in Targets
         /\ case.op = "view" =>
              /\ case.server \in BoundedSeq(ServerLines, 2) /\ case.memory \in MemoryLines
              /\ case.keyspace \in KeyspaceLines /\ case.database \in {<<0>>, <<1>>, <<1, 0>>}
         /\ case.op = "row_write" =>
              \E t \in {"keys", "unknown"}, o \in RowWriteOperations, l \in IdentitiesAndValues :
                case.request = Request(t, o, l[1], l[2])
         /\ case.op = "memory" =>
              /\ case.store \in MemoryStores
              /\ \E t \in {"kv", "keys"}, o \in RowWriteOperations, k \in CellLists(KeyCells, 1),
                    v \in CellLists(ValueCells, 2) : case.request = Request(t, o, k, v)
<1>1. CASE \E v \in Forms : case = [op |-> "form", form |-> v]
  BY <1>1
<1>2. CASE \E t \in Targets : case = [op |-> "target", target |-> t]
  BY <1>2
<1>3. CASE \E s \in BoundedSeq(ServerLines, 2), m \in MemoryLines, k \in KeyspaceLines,
            n \in {<<0>>, <<1>>, <<1, 0>>} :
             case = [op |-> "view", server |-> s, memory |-> m, keyspace |-> k, database |-> n]
  BY <1>3
<1>4. CASE \E t \in {"keys", "unknown"}, o \in RowWriteOperations, l \in IdentitiesAndValues :
             case = [op |-> "row_write", request |-> Request(t, o, l[1], l[2])]
  BY <1>4
<1>5. CASE \E t \in {"kv", "keys"}, o \in RowWriteOperations, k \in CellLists(KeyCells, 1),
              v \in CellLists(ValueCells, 2), s \in MemoryStores :
             case = [op |-> "memory", request |-> Request(t, o, k, v), store |-> s]
  BY <1>5
<1>6. CASE case.op = "memory_execute"
  BY <1>6
<1> QED BY <1>1, <1>2, <1>3, <1>4, <1>5, <1>6 DEF Picked

\* A form the host lets through opens the server and database it describes,
\* whichever way its target comes back, and a target opens with or without
\* its label alike, never with TLS or to another scheme: for every range of
\* ports and of database numbers.
THEOREM FormsOpenWhatTheyDescribe == RequestSpec => []TargetsReach
<1>1. ASSUME CallInv PROVE TargetsReach
  <2>1. ASSUME Returned("form") PROVE FormReaches(case.form, answer)
    <3>1. case.form \in Forms /\ answer = BuildTarget(case.form)
      BY <1>1, <2>1, Inputs DEF CallInv, Answered, Returned
    <3> QED BY <3>1, FormsReach
  <2>2. ASSUME Returned("target") PROVE TargetOpens(case.target, answer)
    <3>1. case.target \in Targets /\ answer = Open(case.target)
      BY <1>1, <2>2, Inputs DEF CallInv, Answered, Returned
    <3> QED BY <3>1, TargetsOpen
  <2> QED BY <2>1, <2>2 DEF TargetsReach
<1> QED BY <1>1, CallsAnswer, PTL

\* A bounded sequence is a sequence.
LEMMA Bounded == \A S : \A n \in Nat : \A q \in BoundedSeq(S, n) : q \in Seq(S)
<1> SUFFICES ASSUME NEW S, NEW n \in Nat, NEW q \in BoundedSeq(S, n) PROVE q \in Seq(S)
  OBVIOUS
<1>1. PICK m \in 0..n : q \in [1..m -> S]
  BY DEF BoundedSeq, SeqOf
<1> QED BY <1>1

\* INFO replies as Redis gives them: no database has two lines.
LEMMA InfoReplies ==
  /\ \A q \in BoundedSeq(ServerLines, 2) : IsInfo(q)
  /\ \A q \in MemoryLines : IsInfo(q)
  /\ \A q \in KeyspaceLines : IsKeyspace(q)
<1>1. ASSUME NEW q \in BoundedSeq(ServerLines, 2) PROVE IsInfo(q)
  <2>1. q \in Seq(ServerLines)
    BY Bounded
  <2>2. \A l \in ServerLines : \E f : \E v \in Seq(Nat) : l = Line(f, v)
    <3>1. Heading = Line("", <<>>)
      BY DEF Heading, Line
    <3>2. /\ <<>> \in Seq(Nat) /\ <<1>> \in Seq(Nat) /\ <<1, 2, 3, 4>> \in Seq(Nat)
          /\ <<3>> \in Seq(Nat) /\ <<4>> \in Seq(Nat)
      OBVIOUS
    <3> QED BY <3>1, <3>2, Zenon DEF ServerLines
  <2>3. ASSUME NEW l \in ServerLines PROVE l = Line(l.field, l.value) /\ l.value \in Seq(Nat)
    <3>1. PICK f : \E v \in Seq(Nat) : l = Line(f, v)
      BY <2>2
    <3> QED BY <3>1 DEF Line
  <2> QED BY <2>1, <2>3 DEF IsInfo
<1>2. ASSUME NEW q \in MemoryLines PROVE IsInfo(q)
  <2> DEFINE a == Line("used_memory", <<1>>)
             b == Line("maxmemory_policy", <<2>>)
             c == Line("tcp_port", <<3>>)
             S == {a, b, c}
  <2>1. q = <<>> \/ q = <<a, b, c>>
    BY DEF MemoryLines
  <2>2. /\ a = Line(a.field, a.value) /\ b = Line(b.field, b.value) /\ c = Line(c.field, c.value)
        /\ a.value \in Seq(Nat) /\ b.value \in Seq(Nat) /\ c.value \in Seq(Nat)
    BY DEF Line
  <2> HIDE DEF a, b, c
  <2>3. q \in Seq(S)
    <3>1. a \in S /\ b \in S /\ c \in S
      OBVIOUS
    <3> HIDE DEF S
    <3>2. <<>> \in Seq(S) /\ <<a, b, c>> \in Seq(S)
      BY <3>1
    <3> QED BY <2>1, <3>2, Zenon
  <2>4. \A l \in S : l = Line(l.field, l.value) /\ l.value \in Seq(Nat)
    BY <2>2
  <2> HIDE DEF S
  <2> QED BY <2>3, <2>4 DEF IsInfo
<1>3. ASSUME NEW q \in KeyspaceLines PROVE IsKeyspace(q)
  <2> DEFINE N == {<<0>>, <<1>>, <<1, 0>>, <<1, 1>>}
             S == {KeyspaceLine(n) : n \in N}
  <2>1. q \in Seq(S) /\ IsInjective(q)
    BY Bounded DEF KeyspaceLines
  <2>2. \A n \in N : n \in Seq(Digits) /\ n \in Seq(Nat)
    <3>1. 0 \in Digits /\ 1 \in Digits /\ 0 \in Nat /\ 1 \in Nat
      BY DEF Digits
    <3>2. ASSUME NEW T, 0 \in T, 1 \in T
          PROVE  <<0>> \in Seq(T) /\ <<1>> \in Seq(T) /\ <<1, 0>> \in Seq(T) /\ <<1, 1>> \in Seq(T)
      BY <3>2
    <3> HIDE DEF S
    <3> QED BY <3>1, <3>2, Zenon
  <2>3. <<1, 2, 3, 4>> \in Seq(Nat) /\ <<0>> \in Seq(Nat)
    OBVIOUS
  <2> HIDE DEF N
  <2>4. \A k \in S : /\ k = KeyspaceLine(k.name) /\ k.name \in Seq(Digits)
                     /\ \A f \in DOMAIN k.values : k.values[f] \in Seq(Nat)
    <3> SUFFICES ASSUME NEW n \in N
                 PROVE  LET k == KeyspaceLine(n)
                        IN  /\ k = KeyspaceLine(k.name) /\ k.name \in Seq(Digits)
                            /\ \A f \in DOMAIN k.values : k.values[f] \in Seq(Nat)
      OBVIOUS
    <3>1. KeyspaceLine(n).name = n
      BY DEF KeyspaceLine
    <3>2. KeyspaceLine(n).values = [keys |-> n, expires |-> <<1, 2, 3, 4>>, subexpiry |-> <<0>>]
      BY DEF KeyspaceLine
    <3>3. \A f \in DOMAIN KeyspaceLine(n).values :
            KeyspaceLine(n).values[f] \in {n, <<1, 2, 3, 4>>, <<0>>}
      BY <3>2
    <3> QED BY <2>2, <2>3, <3>1, <3>3, Zenon
  <2> HIDE DEF S
  <2>5. ASSUME NEW i \in DOMAIN q, NEW j \in DOMAIN q, q[i].name = q[j].name PROVE i = j
    <3>1. q[i] \in S /\ q[j] \in S
      BY <2>1
    <3>2. q[i] = q[j]
      BY <2>4, <2>5, <3>1
    <3> QED BY <2>1, <3>2 DEF IsInjective
  <2>6. \A i \in DOMAIN q : q[i] \in S
    BY <2>1
  <2> QED BY <2>1, <2>4, <2>5, <2>6 DEF IsKeyspace
<1> QED BY <1>1, <1>2, <1>3

\* The server view holds allowlisted fields of their own sections and the
\* counts of the session's database, and no value longer than a cell.
THEOREM ServerViewExact == RequestSpec => []ViewExact
<1>1. ASSUME CallInv PROVE ViewExact
  <2>1. ASSUME Returned("view")
        PROVE  /\ ViewShown(answer, case.server, case.memory, case.keyspace, case.database)
               /\ \A f \in DOMAIN answer : Len(answer[f]) <= MaxCell
    <3>1. /\ case.server \in BoundedSeq(ServerLines, 2) /\ case.memory \in MemoryLines
          /\ case.keyspace \in KeyspaceLines /\ case.database \in {<<0>>, <<1>>, <<1, 0>>}
          /\ answer = View(case.server, case.memory, case.keyspace, case.database)
      BY <1>1, <2>1, Inputs DEF CallInv, Answered, Returned
    <3>2. case.database \in Seq(Digits)
      <4>1. 0 \in Digits /\ 1 \in Digits
        BY DEF Digits
      <4>2. <<0>> \in Seq(Digits) /\ <<1>> \in Seq(Digits) /\ <<1, 0>> \in Seq(Digits)
        BY <4>1
      <4> QED BY <3>1, <4>2
    <3> QED BY <3>1, <3>2, InfoReplies, ViewIsExact
  <2> QED BY <2>1 DEF ViewExact
<1> QED BY <1>1, CallsAnswer, PTL

\* The cells of requests are cells, and the keys they name are in the store.
LEMMA RequestCells ==
  \A c \in KeyCells \cup ValueCells :
    c \in Cells /\ (c.name = "key" => c.string \in MemoryKeys \cup {None})
<1> DEFINE Good(c) == c \in Cells /\ (c.name = "key" => c.string \in MemoryKeys \cup {None})
<1>1. /\ {"key", "value", "type", "other"} \subseteq Columns
      /\ {"", "text", "string"} \subseteq Strings
      /\ {"", "text"} \subseteq MemoryKeys
  BY RequestAssumption, InputsAssumption
<1>2. ASSUME NEW n \in {"key", "value", "type", "other"}, NEW x \in {"", "text"}
      PROVE  Good(StringCell(n, x)) /\ Good(WrongCell(n, x))
  BY <1>1 DEF StringCell, WrongCell, Cells
<1>3. ASSUME NEW n \in {"key", "value", "type"}
      PROVE  Good(EmptyCell(n)) /\ Good(WrongCell(n, None))
  BY <1>1 DEF EmptyCell, WrongCell, Cells
<1>4. Good(StringCell("type", "string"))
  BY <1>1 DEF StringCell, Cells
<1> HIDE DEF Good
<1>5. ASSUME NEW c \in TextCells PROVE Good(c)
  BY <1>1 DEF TextCells, Cells, Good
<1>6. ASSUME NEW c \in KeyCells PROVE Good(c)
  <2>1. /\ Good(StringCell("key", "")) /\ Good(StringCell("key", "text"))
        /\ Good(WrongCell("key", "text")) /\ Good(StringCell("other", "text"))
    BY <1>2
  <2> QED BY <2>1 DEF KeyCells
<1>7. ASSUME NEW c \in ValueCells PROVE Good(c)
  <2>1. /\ Good(StringCell("other", "text")) /\ Good(EmptyCell("value")) /\ Good(EmptyCell("type"))
        /\ Good(WrongCell("key", None)) /\ Good(WrongCell("value", "text"))
    BY <1>2, <1>3
  <2> QED BY <1>4, <1>5, <2>1 DEF ValueCells
<1> QED BY <1>6, <1>7 DEF Good

\* The cell lists of requests.
LEMMA RequestLists ==
  /\ \A n \in Nat : \A l \in CellLists(KeyCells, n) : l \in CellList /\ Keyed(l)
  /\ \A n \in Nat : \A l \in CellLists(ValueCells, n) : l \in CellList /\ Keyed(l)
<1>1. ASSUME NEW S, S \subseteq KeyCells \cup ValueCells, NEW n \in Nat,
             NEW l \in CellLists(S, n)
      PROVE  l \in CellList /\ Keyed(l)
  <2>1. CASE l = None
    BY <2>1 DEF CellList, Keyed
  <2>2. CASE l # None
    <3>1. l \in Seq(S)
      BY <2>2, Bounded DEF CellLists
    <3>2. S \subseteq Cells
      BY <1>1, RequestCells
    <3>3. l \in Seq(Cells) /\ \A i \in DOMAIN l : l[i] \in KeyCells \cup ValueCells
      BY <1>1, <3>1, <3>2
    <3> QED BY <3>3, RequestCells DEF CellList, Keyed
  <2> QED BY <2>1, <2>2
<1> QED BY <1>1

\* A request is one as soon as its lists are lists of cells.
LEMMA Wired ==
  ASSUME NEW t, NEW o, NEW k \in CellList, NEW v \in CellList
  PROVE  WireRequest(Request(t, o, k, v))
BY DEF WireRequest, Request

\* parse_row_write lets exactly the admitted requests through, with what
\* they say: for value lists of any length.
THEOREM ValidationIsExact == RequestSpec => []ValidationExact
<1>1. ASSUME CallInv PROVE ValidationExact
  <2>1. ASSUME Returned("row_write")
        PROVE  /\ answer.result = "accepted" <=> Admitted(case.request)
               /\ answer.result = "accepted" => answer.write = Meaning(case.request)
    <3>1. answer = ParseRowWrite(case.request)
      BY <1>1, <2>1 DEF CallInv, Answered, Returned
    <3>2. PICK t \in {"keys", "unknown"}, o \in RowWriteOperations, l \in IdentitiesAndValues :
            case.request = Request(t, o, l[1], l[2])
      BY <1>1, <2>1, Inputs DEF CallInv, Returned
    <3>3. l[1] \in CellList /\ l[2] \in CellList
      BY RequestLists, InputsAssumption DEF IdentitiesAndValues
    <3>4. WireRequest(case.request)
      BY <3>2, <3>3, Wired
    <3> QED BY <3>1, <3>4, ParseRowWriteExact
  <2> QED BY <2>1 DEF ValidationExact
<1> QED BY <1>1, CallsAnswer, PTL

\* The in-memory double answers row writes as the Redis service does, and
\* its read-only path leaves the store alone: for every store, and its own
\* rules aside.
THEOREM DoubleAgrees == RequestSpec => []MemoryAgrees
<1>1. ASSUME CallInv PROVE MemoryAgrees
  <2>1. ASSUME Returned("memory"), ~OwnRules(case.request, case.store)
        PROVE  answer = RedisRowWrite(ForRedis(case.request), case.store)
    <3>1. answer = MemoryRowWrite(case.request, case.store) /\ case.store \in MemoryStores
      BY <1>1, <2>1, Inputs DEF CallInv, Answered, Returned
    <3>2. PICK t \in {"kv", "keys"}, o \in RowWriteOperations, k \in CellLists(KeyCells, 1),
               v \in CellLists(ValueCells, 2) : case.request = Request(t, o, k, v)
      BY <1>1, <2>1, Inputs DEF CallInv, Returned
    <3>3. k \in CellList /\ Keyed(k) /\ v \in CellList /\ Keyed(v)
      BY RequestLists
    <3>4. /\ WireRequest(case.request)
          /\ Keyed(case.request.key) /\ Keyed(case.request.values)
      <4>1. case.request.key = k /\ case.request.values = v
        BY <3>2 DEF Request
      <4> QED BY <3>2, <3>3, <4>1, Wired
    <3>5. case.store \in Stores
      BY <3>1, RequestAssumption, InputsAssumption, MemoryAssumption DEF MemoryStores, Stores
    <3> QED BY <2>1, <3>1, <3>4, <3>5, MemoryRowWriteAgrees
  <2>2. ASSUME Returned("memory_execute"), ~case.writable
        PROVE  answer.store = case.store
    <3>1. answer = MemoryExecute(case.statement, case.store, case.writable)
      BY <1>1, <2>2 DEF CallInv, Answered, Returned
    <3>2. answer = Error(case.store) \/ answer = Affected(0, case.store)
      BY <2>2, <3>1 DEF MemoryExecute
    <3> QED BY <3>2 DEF Error, Affected, Answer
  <2> QED BY <2>1, <2>2 DEF MemoryAgrees
<1> QED BY <1>1, CallsAnswer, PTL
=============================================================================
