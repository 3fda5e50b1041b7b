---------------------------- MODULE MCConversions ----------------------------
(***************************************************************************)
(* Module Conversions with a text that is not UTF-8: 3 is shown as 2, the  *)
(* others as they are.                                                     *)
(***************************************************************************)
EXTENDS Conversions

MCDecoded == [t \in Texts |-> IF t = 3 THEN 2 ELSE t]
=============================================================================
