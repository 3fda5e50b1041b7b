----------------------------- MODULE MCRowWrite -----------------------------
(* Small instances of RowWrite for TLC.                                     *)
EXTENDS RowWrite, TLC

CONSTANTS h1, h2, h3, k1, k2, s1, s2, blob, hash

TwoHandlers == {h1, h2}
ThreeHandlers == {h1, h2, h3}
OneKey == {k1}
TwoKeys == {k1, k2}
OneString == {s1}
TwoStrings == {s1, s2}
OneBlob == {blob}
OneCollection == {hash}
None == {}

Delete(k) == [op |-> "delete", key |-> k, dest |-> k, value |-> NoValue]
Insert(k, v) == [op |-> "insert", key |-> k, dest |-> k, value |-> v]
Update(k, d, v) == [op |-> "update", key |-> k, dest |-> d, value |-> v]

\* Handlers are interchangeable.
HandlerSymmetry == Permutations(Handlers)

\* One request of every shape row_write accepts, aimed at the same rows.
EveryKindOfWrite ==
    {Delete(k1), Insert(k2, s1), Update(k1, k1, s2), Update(k1, k2, NoValue),
     Update(k1, k2, s1)}

\* The longest row write, on one row.
EditOnly == {Update(k1, k1, s1)}
=============================================================================
