------------------------------- MODULE CellText -------------------------------
(***************************************************************************)
(* cap_cell of src/src/redis_service.rs, on texts that are sequences of    *)
(* characters.                                                             *)
(***************************************************************************)
EXTENDS Naturals, Sequences

CONSTANT MaxCell \* MAX_CELL

ASSUME CellTextAssumption == MaxCell \in Nat \ {0}

Ellipsis == 0

\* Mutant of CapCell: the ellipsis comes on top of MAX_CELL characters.
CapCellBeside(s) == IF Len(s) > MaxCell THEN Append(SubSeq(s, 1, MaxCell), Ellipsis) ELSE s

CapCell(s) == IF Len(s) > MaxCell THEN Append(SubSeq(s, 1, MaxCell - 1), Ellipsis) ELSE s
=============================================================================
