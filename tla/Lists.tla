-------------------------------- MODULE Lists --------------------------------
(***************************************************************************)
(* Loops over a list, as recursive functions of the elements seen.         *)
(***************************************************************************)
EXTENDS Naturals, Sequences

\* The elements of s at the positions I, in order.
Kept(s, I) ==
    LET kept[i \in 0..Len(s)] ==
          IF i = 0 THEN <<>>
          ELSE IF i \in I THEN Append(kept[i - 1], s[i]) ELSE kept[i - 1]
    IN  kept[Len(s)]

\* The sum of the first n of the numbers w.
Total(w, n) == LET sum[i \in 0..n] == IF i = 0 THEN 0 ELSE sum[i - 1] + w[i] IN sum[n]
=============================================================================
