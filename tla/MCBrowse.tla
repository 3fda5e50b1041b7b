------------------------------- MODULE MCBrowse -------------------------------
(***************************************************************************)
(* Module Browse with a key that is not UTF-8: if there is a key 3, it     *)
(* goes by the name of key 2.                                              *)
(***************************************************************************)
EXTENDS Browse

MCName == [k \in Keys |-> IF k = 3 THEN 2 ELSE k]
=============================================================================
