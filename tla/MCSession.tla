----------------------------- MODULE MCSession -----------------------------
(***************************************************************************)
(* Session for TLC: two handlers of a session on database 0, one key, and  *)
(* a second database a native SELECT can move to.                          *)
(***************************************************************************)
EXTENDS Session, TLC

\* A read of each family, a read that deletes, a write, and the commands
\* that change what the connection is.
MCNativeVerbs == {"GET", "HGETALL", "GETDEL", "SET", "SELECT", "MULTI", "EXEC", "DISCARD"}

\* The handlers differ in nothing but their names.
MCSymmetry == Permutations(Handlers)
=============================================================================
