------------------------------- MODULE Preview -------------------------------
(***************************************************************************)
(* The value column of the `keys` table: what preview_string,              *)
(* preview_hash, preview_list, preview_set and preview_zset of             *)
(* src/src/redis_service.rs make of the reply of their Redis command.      *)
(*                                                                         *)
(* Members and values are texts of module Reply, and decoded as they are;  *)
(* texts are numbers, in the order of their JSON text.                     *)
(***************************************************************************)
EXTENDS Reply, Integers

CONSTANTS
    PreviewElements, \* PREVIEW_ELEMENTS: elements asked for
    PreviewBytes     \* PREVIEW_BYTES: bytes of a string asked for

ASSUME PreviewAssumption ==
    PreviewElements \in Nat \ {0} /\ PreviewBytes \in Nat \ {0}

-----------------------------------------------------------------------------
(* Redis (external): a collection is a sequence of <<member, value>> pairs  *)
(* in Redis's order, that of its scans, and these are the replies about it  *)

\* [a, 1, b, 2] and [[a, 1], [b, 2]]
Flat(pairs) == [i \in 1..(2 * Len(pairs)) |-> Text(pairs[(i + 1) \div 2][2 - (i % 2)])]
Nested(pairs) == [i \in DOMAIN pairs |-> Array(<<Text(pairs[i][1]), Text(pairs[i][2])>>)]
Elements(pairs) == [i \in DOMAIN pairs |-> Text(pairs[i][1])]

FirstElements(s) == SubSeq(s, 1, Min({Len(s), PreviewElements}))

\* What the one call of a preview may return.  COUNT is a hint to HSCAN and
\* SSCAN: less than PREVIEW_ELEMENTS, or more, a small collection whole.
Fetched(kind, content) ==
    IF kind \in {"hash", "set"}
    THEN {SubSeq(content, 1, n) : n \in 0..Len(content)}
    ELSE {FirstElements(content)}

\* HSCAN and SSCAN answer <<cursor, elements>>, with cursor 0 at the end.
ScanReply(cursor, elements) == Array(<<Text(cursor), Array(elements)>>)

HScan(cursor, pairs) == {ScanReply(cursor, Flat(pairs)), ScanReply(cursor, Nested(pairs))}
SScan(cursor, pairs) == {ScanReply(cursor, Elements(pairs))}
LRange(pairs) == {Array(Elements(pairs))}

\* ZRANGE ... WITHSCORES has no cursor: a flat array in RESP2, an array of
\* pairs in RESP3.
ZRange(pairs) == {Array(Flat(pairs)), Array(Nested(pairs))}

Replies(kind, content, fetched) ==
    LET cursor == IF fetched = content THEN 0 ELSE 1
    IN  CASE kind = "hash" -> HScan(cursor, fetched)
          [] kind = "set" -> SScan(cursor, fetched)
          [] kind = "list" -> LRange(fetched)
          [] kind = "zset" -> ZRange(fetched)

-----------------------------------------------------------------------------
(* Collections                                                              *)

PairOf(member, value) == <<KeyText(member), value>>

\* The pairs of a nested or flat array; what is not a pair is dropped.
PairsOf(items) ==
    IF \A i \in DOMAIN items : IsArray(items[i])
    THEN LET pairs == Kept(items, {i \in DOMAIN items : Len(items[i].items) = 2})
         IN  [i \in DOMAIN pairs |-> PairOf(pairs[i].items[1], pairs[i].items[2])]
    ELSE [i \in 1..(Len(items) \div 2) |-> PairOf(items[2 * i - 1], items[2 * i])]

\* The second element of a <<cursor, elements>> reply.
ScanElements(r) ==
    IF IsArray(r) /\ Len(r.items) >= 2 /\ IsArray(r.items[2]) THEN r.items[2].items ELSE <<>>

\* pairs_from_scan: both shapes of the elements of a scan-style reply.
PairsFromScan(r) == PairsOf(ScanElements(r))

ObjectOf(pairs) == JObject(Inserted([i \in DOMAIN pairs |-> <<pairs[i][1], ToJson[pairs[i][2]]>>]))
Values(items) == [i \in DOMAIN items |-> ToJson[items[i]]]

\* x, in the sorted members s, behind those that are not greater.
Placed(s, x) ==
    LET n == Max({k \in 0..Len(s) : \A i \in 1..k : s[i].text <= x.text})
    IN  [i \in 1..(Len(s) + 1) |-> IF i <= n THEN s[i] ELSE IF i = n + 1 THEN x ELSE s[i - 1]]

SortMembers(s) ==
    LET sorted[i \in 0..Len(s)] == IF i = 0 THEN <<>> ELSE Placed(sorted[i - 1], s[i])
    IN  sorted[Len(s)]

PreviewHash(r) == Some(ObjectOf(PairsFromScan(r)))
PreviewZset(r) == Some(ObjectOf(PairsFromScan(r)))
PreviewList(r) == IF IsArray(r) THEN Some(JArray(Values(r.items))) ELSE NoCell
PreviewSet(r) == Some(JArray(SortMembers(Values(ScanElements(r)))))

PreviewOf(kind, r) ==
    CASE kind = "hash" -> PreviewHash(r)
      [] kind = "zset" -> PreviewZset(r)
      [] kind = "list" -> PreviewList(r)
      [] kind = "set" -> PreviewSet(r)

-----------------------------------------------------------------------------
(* Strings: a value is the sequence of the byte widths of its characters    *)
(* and, negated, of the maximal ill-formed subparts between them.  A text   *)
(* made from it is the sequence of the positions it keeps, Replacement for  *)
(* U+FFFD.                                                                  *)

Replacement == 0

IllFormed(w) == w < 0
Utf8(s) == \A i \in DOMAIN s : ~IllFormed(s[i])

Bytes(s, n) == Total([i \in DOMAIN s |-> IF IllFormed(s[i]) THEN -s[i] ELSE s[i]], n)

\* GETRANGE 0 PREVIEW_BYTES-1, decoded lossily: one replacement for each
\* subpart, and for a character or subpart cut in two, at the end.
Lossy(s) ==
    LET whole == Max({n \in 0..Len(s) : Bytes(s, n) <= PreviewBytes})
        partial == whole < Len(s) /\ Bytes(s, whole) < PreviewBytes
    IN  [i \in 1..whole |-> IF IllFormed(s[i]) THEN Replacement ELSE i]
          \o (IF partial THEN <<Replacement>> ELSE <<>>)

\* A replacement takes three bytes.
TextBytes(s, t, n) == Total([i \in DOMAIN t |-> IF t[i] = Replacement THEN 3 ELSE s[t[i]]], n)

\* Mutant of CharBoundary: the text is cut where GETRANGE cut the value.
CharBoundaryOfValue(s, t) == Len(t)

\* The last character boundary at or before PREVIEW_BYTES.
CharBoundary(s, t) == Max({n \in 0..Len(t) : TextBytes(s, t, n) <= PreviewBytes})

PreviewString(s) == SubSeq(Lossy(s), 1, CharBoundary(s, Lossy(s)))

\* update_row takes a new value for this one: valid UTF-8 of at most
\* MAX_CELL characters.
EditAllowed(s) == Utf8(s) /\ Len(s) <= MaxCell
=============================================================================
