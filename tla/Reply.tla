-------------------------------- MODULE Reply --------------------------------
(***************************************************************************)
(* From a reply of Redis to a result of the wire: cell, to_json,           *)
(* reply_rows, cap_cell and finalize of src/src/redis_service.rs.          *)
(*                                                                         *)
(* A text is a string of bytes, opaque, but equal texts of different types *)
(* meet, as does the text "null".  JSON text is kept as the tree it spells. *)
(* An optional cell is a sequence of at most one text.                     *)
(***************************************************************************)
EXTENDS Lists, CellText, SequencesExt, FiniteSetsExt

CONSTANTS
    Texts,    \* what scalars are written as
    NullText, \* the text "null"
    Decoded,  \* what String::from_utf8_lossy makes of a text: a UTF-8 one is kept
    MaxDepth, \* how deep replies nest: the redis crate refuses more than 100 levels
    MaxRows   \* MAX_ROWS

ASSUME ReplyAssumption ==
    /\ NullText \in Texts /\ MaxDepth \in Nat /\ MaxRows \in Nat
    /\ Decoded \in [Texts -> Texts] /\ Decoded[NullText] = NullText
    /\ \A t \in Texts : Decoded[Decoded[t]] = Decoded[t]

-----------------------------------------------------------------------------
(* redis::Value.  Text is every variant that JSON quotes (bulk, simple and *)
(* verbatim strings, OK, big numbers, errors), Literal every one it does   *)
(* not (integers, finite doubles, booleans).  Of these only a bulk string   *)
(* need not be UTF-8.                                                       *)

Nil == [kind |-> "nil"]
Text(t) == [kind |-> "text", text |-> t]
Literal(t) == [kind |-> "literal", text |-> t]
NonFinite(t) == [kind |-> "nonfinite", text |-> t]
Items(k, s) == [kind |-> k, items |-> s]
Array(s) == Items("array", s)
Map(pairs) == [kind |-> "map", pairs |-> pairs]
Attribute(v) == [kind |-> "attribute", data |-> v]

ScalarKinds == {"text", "literal", "nonfinite"}
ItemKinds == {"array", "set", "push"}
IsArray(v) == v.kind = "array"

\* The replies that nest at most n deep.
TreesUpTo[n \in Nat] ==
    IF n = 0
    THEN {Nil} \cup [kind: ScalarKinds, text: Texts]
    ELSE LET inner == TreesUpTo[n - 1]
         IN  inner \cup [kind: ItemKinds, items: Seq(inner)]
                   \cup [kind: {"map"}, pairs: Seq(inner \X inner)]
                   \cup [kind: {"attribute"}, data: inner]

Trees == TreesUpTo[MaxDepth]

(* serde_json::Value *)
JNull == [json |-> "null"]
JString(t) == [json |-> "string", text |-> t]
JLiteral(t) == [json |-> "literal", text |-> t]
JArray(s) == [json |-> "array", items |-> s]
JObject(fields) == [json |-> "object", fields |-> fields]

\* serde_json's Map: a later pair replaces an earlier one with its key.
Inserted(pairs) ==
    {pairs[i] : i \in {j \in DOMAIN pairs : \A k \in DOMAIN pairs : k > j => pairs[k][1] # pairs[j][1]}}

-----------------------------------------------------------------------------
(* cell and to_json                                                         *)

NoCell == <<>>
Some(t) == <<t>>
Raw(t) == [raw |-> t]

\* Mutant of ScalarText: a bulk string is passed on as it is.
ScalarTextRaw(v) == v.text

\* The text a scalar is shown as.
ScalarText(v) == IF v.kind = "text" THEN Decoded[v.text] ELSE v.text

\* Null, the bare text of a scalar, or the JSON text of a compound value.
CellFrom(v, json) ==
    CASE v.kind = "nil" -> NoCell
      [] v.kind \in ScalarKinds -> Some(Raw(ScalarText(v)))
      [] OTHER -> Some(json)

KeyFrom(v, json) == IF v.kind = "nil" THEN Raw(NullText) ELSE CellFrom(v, json)[1]

\* Mutant of JsonOfItems: only arrays are known, the other kinds are null.
JsonOfItemsArrays(v, js) == IF IsArray(v) THEN JArray(js) ELSE JNull

JsonOfItems(v, js) == JArray(js)

\* One level of to_json, with f for the levels below.
JsonFrom(f, v) ==
    CASE v.kind \in {"nil", "nonfinite"} -> JNull
      [] v.kind = "text" -> JString(ScalarText(v))
      [] v.kind = "literal" -> JLiteral(ScalarText(v))
      [] v.kind \in ItemKinds -> JsonOfItems(v, [i \in DOMAIN v.items |-> f[v.items[i]]])
      [] v.kind = "map" ->
           JObject(Inserted([i \in DOMAIN v.pairs |->
                               <<KeyFrom(v.pairs[i][1], f[v.pairs[i][1]]), f[v.pairs[i][2]]>>]))
      [] v.kind = "attribute" -> f[v.data]

ToJson[v \in Trees] == JsonFrom(ToJson, v)

Cell(v) == CellFrom(v, ToJson[v])
KeyText(v) == KeyFrom(v, ToJson[v])

-----------------------------------------------------------------------------
(* reply_rows                                                               *)

Table(columns, rows) == [columns |-> columns, rows |-> rows]

\* A reply without the attributes in front of it.
Data[v \in Trees] == IF v.kind = "attribute" THEN Data[v.data] ELSE v

TableOf(v) ==
    CASE v.kind \in ItemKinds ->
           Table(<<"index", "value">>,
                 [i \in DOMAIN v.items |-> <<Some([index |-> i - 1]), Cell(v.items[i])>>])
      [] v.kind = "map" ->
           Table(<<"key", "value">>,
                 [i \in DOMAIN v.pairs |-> <<Some(KeyText(v.pairs[i][1])), Cell(v.pairs[i][2])>>])
      [] OTHER -> Table(<<"value">>, <<<<Cell(v)>>>>)

ReplyRows(v) == TableOf(Data[v])

-----------------------------------------------------------------------------
(* cap_cell and finalize, on cells whose text is a sequence of characters   *)

Capped(c) == IF c = NoCell THEN NoCell ELSE Some(CapCell(c[1]))

Finalize(columns, full) ==
    LET shown == SubSeq(full, 1, Min({Len(full), MaxRows}))
    IN  [columns |-> columns,
         rows |-> [i \in DOMAIN shown |-> [c \in DOMAIN shown[i] |-> Capped(shown[i][c])]],
         untruncatedRows |-> shown,
         truncated |-> Len(full) > MaxRows]

-----------------------------------------------------------------------------
(* Reference definitions                                                    *)

\* A node of a tree is the way to it, positions in arrays and key texts in
\* maps, and what is there.
Node(path, value) == [path |-> path, value |-> value]
Child(node, step, value) == Node(Append(node.path, step), value)

\* Attributes are not part of a reply's value.
Children(node) ==
    LET v == Data[node.value]
    IN  CASE v.kind \in ItemKinds ->
               {Child(node, [index |-> i - 1], v.items[i]) : i \in DOMAIN v.items}
          [] v.kind = "map" ->
               {Child(node, KeyText(v.pairs[i][1]), v.pairs[i][2]) : i \in DOMAIN v.pairs}
          [] OTHER -> {}

\* The nodes n levels below the nodes S.
Below(S, n) ==
    LET below[k \in 0..n] == IF k = 0 THEN S ELSE UNION {Children(x) : x \in below[k - 1]}
    IN  below[n]

Nodes(S) == UNION {Below(S, k) : k \in 0..MaxDepth}

Leaf(v) ==
    CASE v.kind = "nil" -> {JNull}
      [] v.kind = "text" -> {Raw(Decoded[v.text])}
      [] v.kind \in {"literal", "nonfinite"} -> {Raw(v.text)}
      [] OTHER -> {}

\* The scalars of a reply, each with the way to it.
LeavesOf(nodes) == UNION {{<<x.path, l>> : l \in Leaf(Data[x.value])} : x \in nodes}
Leaves(v) == LeavesOf(Nodes({Node(<<>>, v)}))

\* The same for JSON.
JsonChildren(node) ==
    LET j == node.value
    IN  CASE j.json = "array" -> {Child(node, [index |-> i - 1], j.items[i]) : i \in DOMAIN j.items}
          [] j.json = "object" -> {Child(node, f[1], f[2]) : f \in j.fields}
          [] OTHER -> {}

JsonBelow(S, n) ==
    LET below[k \in 0..n] == IF k = 0 THEN S ELSE UNION {JsonChildren(x) : x \in below[k - 1]}
    IN  below[n]

JsonNodes(S) == UNION {JsonBelow(S, k) : k \in 0..MaxDepth}

JsonLeaf(j) ==
    CASE j.json = "null" -> {JNull}
      [] j.json \in {"string", "literal"} -> {Raw(j.text)}
      [] OTHER -> {}

JsonLeavesOf(nodes) == UNION {{<<x.path, l>> : l \in JsonLeaf(x.value)} : x \in nodes}

CellLeaves(c, path) ==
    CASE c = NoCell -> {<<path, JNull>>}
      [] c # NoCell /\ DOMAIN c[1] = {"raw"} -> {<<path, c[1]>>}
      [] OTHER -> JsonLeavesOf(JsonNodes({Node(path, c[1])}))

\* A row is one value, or where it is and the value.
RowLeaves(row) == IF Len(row) = 1 THEN CellLeaves(row[1], <<>>) ELSE CellLeaves(row[2], row[1])

\* JSON can say what v says: no number it lacks, no two keys of one text.
Sayable(v) ==
    /\ v.kind # "nonfinite"
    /\ v.kind = "map" =>
         \A i, j \in DOMAIN v.pairs : KeyText(v.pairs[i][1]) = KeyText(v.pairs[j][1]) => i = j

Expressible(v) == \A x \in Nodes({Node(<<>>, v)}) : Sayable(Data[x.value])

\* Scalars are shown bare, whatever they are.
IsCompound(v) == v.kind \in ItemKinds \cup {"map", "attribute"}

\* The parts of a reply that are spelled as JSON.
JsonParts(v) == {x.value : x \in {y \in Children(Node(<<>>, v)) : IsCompound(y.value)}}
=============================================================================
