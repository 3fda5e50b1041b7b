-------------------------- MODULE ConversionsProofs --------------------------
(***************************************************************************)
(* Proofs about Conversions: what it says of statements, commands, results,*)
(* replies and previews holds for texts, rows, collections and strings of  *)
(* any length and for replies of any size.  Every loop of the model is a   *)
(* recursive function over what it runs over, and an induction over a set  *)
(* of numbers says what the loop has established.                          *)
(***************************************************************************)
EXTENDS Conversions, Induction, TLAPS

-----------------------------------------------------------------------------
(* The loops of module Lists                                                *)

\* g is what Kept holds after each of the first n elements.
Keeps(s, I, n, g) ==
    g = [i \in 0..n |-> IF i = 0 THEN <<>>
                        ELSE IF i \in I THEN Append(g[i - 1], s[i]) ELSE g[i - 1]]

\* There is such a function for every list.
LEMMA KeepsExists == \A s, I : \A n \in Nat : \E g : Keeps(s, I, n, g)
<1> SUFFICES ASSUME NEW s, NEW I PROVE \A n \in Nat : \E g : Keeps(s, I, n, g)
  OBVIOUS
<1> DEFINE After(i, h) == IF i = 0 THEN <<>>
                          ELSE IF i \in I THEN Append(h[i - 1], s[i]) ELSE h[i - 1]
           T == {n \in Nat : \E g : Keeps(s, I, n, g)}
<1>1. 0 \in T
  <2> DEFINE g == [i \in 0..0 |-> <<>>]
  <2>1. g = [i \in 0..0 |-> After(i, g)]
    OBVIOUS
  <2> QED BY <2>1 DEF Keeps
<1>2. ASSUME NEW n \in Nat, n \in T PROVE n + 1 \in T
  <2>1. PICK g : Keeps(s, I, n, g)
    BY <1>2
  <2> DEFINE k == [i \in 0..(n + 1) |-> After(i, g)]
  <2>2. \A i \in 0..n : g[i] = After(i, g)
    BY <2>1 DEF Keeps
  <2>3. \A i \in 0..n : k[i] = g[i]
    BY <2>2
  <2>4. ASSUME NEW i \in 0..(n + 1) PROVE k[i] = After(i, k)
    <3>1. k[i] = After(i, g)
      OBVIOUS
    <3>2. i # 0 => i - 1 \in 0..n
      OBVIOUS
    <3> HIDE DEF k
    <3>3. i # 0 => k[i - 1] = g[i - 1]
      BY <2>3, <3>2
    <3> QED BY <3>1, <3>3
  <2>5. k = [i \in 0..(n + 1) |-> After(i, k)]
    <3>1. k = [i \in 0..(n + 1) |-> k[i]]
      OBVIOUS
    <3> HIDE DEF k, After
    <3> QED BY <2>4, <3>1
  <2> HIDE DEF k
  <2> QED BY <2>5 DEF Keeps
<1> HIDE DEF T
<1>3. Nat \subseteq T
  BY <1>1, <1>2, NatSetInduction
<1> QED BY <1>3 DEF T

\* Kept returns the last value of that function.
LEMMA KeptIs ==
  \A s, I : Len(s) \in Nat => \E g : Keeps(s, I, Len(s), g) /\ Kept(s, I) = g[Len(s)]
<1> SUFFICES ASSUME NEW s, NEW I, Len(s) \in Nat
             PROVE  \E g : Keeps(s, I, Len(s), g) /\ Kept(s, I) = g[Len(s)]
  OBVIOUS
<1> DEFINE g == CHOOSE g : g = [i \in 0..Len(s) |->
                 IF i = 0 THEN <<>>
                 ELSE IF i \in I THEN Append(g[i - 1], s[i]) ELSE g[i - 1]]
<1>1. Kept(s, I) = g[Len(s)]
  BY DEF Kept
<1>2. \E f : f = [i \in 0..Len(s) |->
                    IF i = 0 THEN <<>>
                    ELSE IF i \in I THEN Append(f[i - 1], s[i]) ELSE f[i - 1]]
  <2>1. \E f : Keeps(s, I, Len(s), f)
    BY KeepsExists, Zenon
  <2> QED BY <2>1, Zenon DEF Keeps
<1>3. g = [i \in 0..Len(s) |->
             IF i = 0 THEN <<>>
             ELSE IF i \in I THEN Append(g[i - 1], s[i]) ELSE g[i - 1]]
  BY <1>2, Zenon
<1> HIDE DEF g
<1> QED BY <1>1, <1>3 DEF Keeps

\* What is kept of a list of X is a list of X.
LEMMA KeptType ==
  ASSUME NEW X, NEW s \in Seq(X), NEW I
  PROVE  Kept(s, I) \in Seq(X)
<1>1. PICK g : Keeps(s, I, Len(s), g) /\ Kept(s, I) = g[Len(s)]
  BY KeptIs
<1> DEFINE T == {n \in Nat : n <= Len(s) => g[n] \in Seq(X)}
<1>2. \A i \in 0..Len(s) :
        g[i] = IF i = 0 THEN <<>>
               ELSE IF i \in I THEN Append(g[i - 1], s[i]) ELSE g[i - 1]
  BY <1>1 DEF Keeps
<1>3. 0 \in T
  <2>1. 0 \in 0..Len(s)
    OBVIOUS
  <2>2. g[0] = <<>>
    BY <1>2, <2>1
  <2>3. g[0] \in Seq(X)
    BY <2>2
  <2> QED BY <2>3
<1>4. ASSUME NEW n \in Nat, n \in T PROVE n + 1 \in T
  <2> SUFFICES ASSUME n + 1 <= Len(s) PROVE g[n + 1] \in Seq(X)
    OBVIOUS
  <2>1. g[n] \in Seq(X) /\ s[n + 1] \in X
    BY <1>4
  <2>2. g[n + 1] = IF n + 1 \in I THEN Append(g[n], s[n + 1]) ELSE g[n]
    BY <1>2
  <2> QED BY <2>1, <2>2
<1> HIDE DEF T
<1>5. Nat \subseteq T
  BY <1>3, <1>4, NatSetInduction
<1> QED BY <1>1, <1>5 DEF T

\* Where every position is kept, the list is kept.
LEMMA KeptAll ==
  ASSUME NEW X, NEW s \in Seq(X), NEW I, DOMAIN s \subseteq I
  PROVE  Kept(s, I) = s
<1>1. PICK g : Keeps(s, I, Len(s), g) /\ Kept(s, I) = g[Len(s)]
  BY KeptIs
<1> DEFINE Prefix(n) == /\ g[n] \in Seq(X) /\ Len(g[n]) = n
                        /\ \A i \in 1..n : g[n][i] = s[i]
           T == {n \in Nat : n <= Len(s) => Prefix(n)}
<1>2. \A i \in 0..Len(s) :
        g[i] = IF i = 0 THEN <<>>
               ELSE IF i \in I THEN Append(g[i - 1], s[i]) ELSE g[i - 1]
  BY <1>1 DEF Keeps
<1>3. 0 \in T
  <2>1. 0 \in 0..Len(s)
    OBVIOUS
  <2>2. g[0] = <<>>
    BY <1>2, <2>1
  <2>3. Prefix(0)
    BY <2>2
  <2> QED BY <2>3
<1>4. ASSUME NEW n \in Nat, n \in T PROVE n + 1 \in T
  <2> SUFFICES ASSUME n + 1 <= Len(s) PROVE Prefix(n + 1)
    OBVIOUS
  <2>1. g[n] \in Seq(X) /\ Len(g[n]) = n /\ (\A i \in 1..n : g[n][i] = s[i]) /\ s[n + 1] \in X
    BY <1>4
  <2>2. n + 1 \in 0..Len(s) /\ n + 1 \in I /\ n + 1 # 0 /\ (n + 1) - 1 = n
    OBVIOUS
  <2>3. g[n + 1] = Append(g[n], s[n + 1])
    BY <1>2, <2>2
  <2> QED BY <2>1, <2>3
<1> HIDE DEF T
<1>5. Nat \subseteq T
  BY <1>3, <1>4, NatSetInduction
<1>6. Prefix(Len(s))
  BY <1>5 DEF T
<1>7. DOMAIN Kept(s, I) = DOMAIN s
  BY <1>1, <1>6
<1> QED BY <1>1, <1>6, <1>7

\* g is the sum of the first i of the numbers w, for every i to n.
Sums(w, n, g) == g = [i \in 0..n |-> IF i = 0 THEN 0 ELSE g[i - 1] + w[i]]

\* There is such a function.
LEMMA SumsExists == \A w : \A n \in Nat : \E g : Sums(w, n, g)
<1> SUFFICES ASSUME NEW w PROVE \A n \in Nat : \E g : Sums(w, n, g)
  OBVIOUS
<1> DEFINE After(i, h) == IF i = 0 THEN 0 ELSE h[i - 1] + w[i]
           T == {n \in Nat : \E g : Sums(w, n, g)}
<1>1. 0 \in T
  <2> DEFINE g == [i \in 0..0 |-> After(0, <<>>)]
  <2>1. g = [i \in 0..0 |-> After(i, g)]
    OBVIOUS
  <2> QED BY <2>1 DEF Sums
<1>2. ASSUME NEW n \in Nat, n \in T PROVE n + 1 \in T
  <2>1. PICK g : Sums(w, n, g)
    BY <1>2
  <2> DEFINE k == [i \in 0..(n + 1) |-> After(i, g)]
  <2>2. \A i \in 0..n : g[i] = After(i, g)
    BY <2>1 DEF Sums
  <2>3. \A i \in 0..n : k[i] = g[i]
    BY <2>2
  <2>4. ASSUME NEW i \in 0..(n + 1) PROVE k[i] = After(i, k)
    <3>1. k[i] = After(i, g)
      OBVIOUS
    <3>2. i # 0 => i - 1 \in 0..n
      OBVIOUS
    <3> HIDE DEF k
    <3>3. i # 0 => k[i - 1] = g[i - 1]
      BY <2>3, <3>2
    <3> QED BY <3>1, <3>3
  <2>5. k = [i \in 0..(n + 1) |-> After(i, k)]
    <3>1. k = [i \in 0..(n + 1) |-> k[i]]
      OBVIOUS
    <3> HIDE DEF k, After
    <3> QED BY <2>4, <3>1
  <2> HIDE DEF k
  <2> QED BY <2>5 DEF Sums
<1> HIDE DEF T
<1>3. Nat \subseteq T
  BY <1>1, <1>2, NatSetInduction
<1> QED BY <1>3 DEF T

\* Total returns the last value of that function.
LEMMA TotalIs ==
  \A w, n : n \in Nat => \E g : Sums(w, n, g) /\ Total(w, n) = g[n]
<1> SUFFICES ASSUME NEW w, NEW n, n \in Nat
             PROVE  \E g : Sums(w, n, g) /\ Total(w, n) = g[n]
  OBVIOUS
<1> DEFINE g == CHOOSE g : g = [i \in 0..n |-> IF i = 0 THEN 0 ELSE g[i - 1] + w[i]]
<1>1. Total(w, n) = g[n]
  BY DEF Total
<1>2. \E f : f = [i \in 0..n |-> IF i = 0 THEN 0 ELSE f[i - 1] + w[i]]
  <2>1. \E f : Sums(w, n, f)
    BY SumsExists, Zenon
  <2> QED BY <2>1, Zenon DEF Sums
<1>3. g = [i \in 0..n |-> IF i = 0 THEN 0 ELSE g[i - 1] + w[i]]
  BY <1>2, Zenon
<1> HIDE DEF g
<1> QED BY <1>1, <1>3 DEF Sums

\* Two such functions agree where both are defined.
LEMMA SumsAgree ==
  ASSUME NEW w, NEW m \in Nat, NEW n \in Nat, m <= n, NEW g, NEW h, Sums(w, m, g), Sums(w, n, h)
  PROVE  \A i \in 0..m : g[i] = h[i]
<1> DEFINE T == {i \in Nat : i <= m => g[i] = h[i]}
<1>1. /\ \A i \in 0..m : g[i] = IF i = 0 THEN 0 ELSE g[i - 1] + w[i]
      /\ \A i \in 0..m : h[i] = IF i = 0 THEN 0 ELSE h[i - 1] + w[i]
  <2>1. \A i \in 0..m : i \in 0..n
    OBVIOUS
  <2> QED BY <2>1 DEF Sums
<1>2. 0 \in T
  <2>1. 0 \in 0..m
    OBVIOUS
  <2> QED BY <1>1, <2>1
<1>3. ASSUME NEW i \in Nat, i \in T PROVE i + 1 \in T
  <2> SUFFICES ASSUME i + 1 <= m PROVE g[i + 1] = h[i + 1]
    OBVIOUS
  <2>1. i + 1 \in 0..m /\ i + 1 # 0 /\ (i + 1) - 1 = i /\ g[i] = h[i]
    BY <1>3
  <2> QED BY <1>1, <2>1
<1> HIDE DEF T
<1>4. Nat \subseteq T
  BY <1>2, <1>3, NatSetInduction
<1> QED BY <1>4 DEF T

\* The sum grows by the next number.
LEMMA TotalStep ==
  \A w : Total(w, 0) = 0 /\ \A n \in Nat : Total(w, n + 1) = Total(w, n) + w[n + 1]
<1> SUFFICES ASSUME NEW w
             PROVE  Total(w, 0) = 0 /\ \A n \in Nat : Total(w, n + 1) = Total(w, n) + w[n + 1]
  OBVIOUS
<1>1. Total(w, 0) = 0
  <2>1. PICK g : Sums(w, 0, g) /\ Total(w, 0) = g[0]
    BY TotalIs
  <2>2. 0 \in 0..0
    OBVIOUS
  <2> QED BY <2>1, <2>2 DEF Sums
<1>2. ASSUME NEW n \in Nat PROVE Total(w, n + 1) = Total(w, n) + w[n + 1]
  <2>1. PICK g : Sums(w, n, g) /\ Total(w, n) = g[n]
    BY TotalIs
  <2>2. PICK h : Sums(w, n + 1, h) /\ Total(w, n + 1) = h[n + 1]
    <3>1. n + 1 \in Nat
      OBVIOUS
    <3> QED BY <3>1, TotalIs
  <2>3. g[n] = h[n]
    BY <2>1, <2>2, SumsAgree
  <2>4. n + 1 \in 0..(n + 1) /\ n + 1 # 0 /\ (n + 1) - 1 = n
    OBVIOUS
  <2>5. h[n + 1] = h[n] + w[n + 1]
    BY <2>2, <2>4 DEF Sums
  <2> QED BY <2>1, <2>2, <2>3, <2>5
<1> QED BY <1>1, <1>2

\* Sums of natural numbers are natural numbers and grow.
LEMMA TotalGrows ==
  ASSUME NEW w, NEW n \in Nat, \A i \in 1..n : w[i] \in Nat
  PROVE  \A k \in 0..n : Total(w, k) \in Nat /\ \A m \in 0..k : Total(w, m) <= Total(w, k)
<1> DEFINE T == {k \in Nat : k <= n => \A m \in 0..k : /\ Total(w, m) \in Nat
                                                       /\ Total(w, m) <= Total(w, k)}
<1>1. 0 \in T
  <2>1. \A m \in 0..0 : m = 0
    OBVIOUS
  <2>2. Total(w, 0) = 0
    BY TotalStep
  <2> QED BY <2>1, <2>2
<1>2. ASSUME NEW k \in Nat, k \in T PROVE k + 1 \in T
  <2> SUFFICES ASSUME k + 1 <= n
               PROVE  \A m \in 0..(k + 1) : /\ Total(w, m) \in Nat
                                             /\ Total(w, m) <= Total(w, k + 1)
    OBVIOUS
  <2>1. \A m \in 0..k : Total(w, m) \in Nat /\ Total(w, m) <= Total(w, k)
    BY <1>2
  <2>2. w[k + 1] \in Nat
    OBVIOUS
  <2>3. Total(w, k + 1) = Total(w, k) + w[k + 1]
    BY TotalStep
  <2>4. k \in 0..k /\ \A m \in 0..(k + 1) : m \in 0..k \/ m = k + 1
    OBVIOUS
  <2> QED BY <2>1, <2>2, <2>3, <2>4
<1> HIDE DEF T
<1>3. Nat \subseteq T
  BY <1>1, <1>2, NatSetInduction
<1>4. \A k \in 0..n : k \in 0..k /\ k \in T
  BY <1>3
<1> QED BY <1>4 DEF T

\* A sum depends on its numbers only.
LEMMA TotalSame ==
  ASSUME NEW v, NEW w, NEW n \in Nat, \A i \in 1..n : v[i] = w[i]
  PROVE  \A k \in 0..n : Total(v, k) = Total(w, k)
<1> DEFINE T == {k \in Nat : k <= n => Total(v, k) = Total(w, k)}
<1>1. 0 \in T
  BY TotalStep
<1>2. ASSUME NEW k \in Nat, k \in T PROVE k + 1 \in T
  <2> SUFFICES ASSUME k + 1 <= n PROVE Total(v, k + 1) = Total(w, k + 1)
    OBVIOUS
  <2>1. k + 1 \in 1..n /\ Total(v, k) = Total(w, k)
    BY <1>2
  <2> QED BY <2>1, TotalStep
<1> HIDE DEF T
<1>3. Nat \subseteq T
  BY <1>1, <1>2, NatSetInduction
<1> QED BY <1>3 DEF T

-----------------------------------------------------------------------------
(* parse_select: the clause loop                                            *)

\* g is where the clause loop is after each of the first n rounds.
Rounds(ts, n, g) == g = [i \in 0..n |-> IF i = 0 THEN Start ELSE NextClause(ts, g[i - 1])]

\* There is such a function.
LEMMA RoundsExist == \A ts : \A n \in Nat : \E g : Rounds(ts, n, g)
<1> SUFFICES ASSUME NEW ts PROVE \A n \in Nat : \E g : Rounds(ts, n, g)
  OBVIOUS
<1> DEFINE After(i, h) == IF i = 0 THEN Start ELSE NextClause(ts, h[i - 1])
           T == {n \in Nat : \E g : Rounds(ts, n, g)}
<1>1. 0 \in T
  <2> DEFINE g == [i \in 0..0 |-> After(0, <<>>)]
  <2>1. g = [i \in 0..0 |-> After(i, g)]
    OBVIOUS
  <2> QED BY <2>1 DEF Rounds
<1>2. ASSUME NEW n \in Nat, n \in T PROVE n + 1 \in T
  <2>1. PICK g : Rounds(ts, n, g)
    BY <1>2
  <2> DEFINE k == [i \in 0..(n + 1) |-> After(i, g)]
  <2>2. \A i \in 0..n : g[i] = After(i, g)
    BY <2>1 DEF Rounds
  <2>3. \A i \in 0..n : k[i] = g[i]
    BY <2>2
  <2>4. ASSUME NEW i \in 0..(n + 1) PROVE k[i] = After(i, k)
    <3>1. k[i] = After(i, g)
      OBVIOUS
    <3>2. i # 0 => i - 1 \in 0..n
      OBVIOUS
    <3> HIDE DEF k
    <3>3. i # 0 => k[i - 1] = g[i - 1]
      BY <2>3, <3>2
    <3> QED BY <3>1, <3>3
  <2>5. k = [i \in 0..(n + 1) |-> After(i, k)]
    <3>1. k = [i \in 0..(n + 1) |-> k[i]]
      OBVIOUS
    <3> HIDE DEF k, After
    <3> QED BY <2>4, <3>1
  <2> HIDE DEF k
  <2> QED BY <2>5 DEF Rounds
<1> HIDE DEF T
<1>3. Nat \subseteq T
  BY <1>1, <1>2, NatSetInduction
<1> QED BY <1>3 DEF T

\* ParseClauses returns the page of the last one.
LEMMA ParseClausesIs ==
  \A ts : Len(ts) \in Nat => \E g : Rounds(ts, Len(ts), g) /\ ParseClauses(ts) = g[Len(ts)].page
<1> SUFFICES ASSUME NEW ts, Len(ts) \in Nat
             PROVE  \E g : Rounds(ts, Len(ts), g) /\ ParseClauses(ts) = g[Len(ts)].page
  OBVIOUS
<1> DEFINE g == CHOOSE g : g = [i \in 0..Len(ts) |-> IF i = 0 THEN Start ELSE NextClause(ts, g[i - 1])]
<1>1. ParseClauses(ts) = g[Len(ts)].page
  BY DEF ParseClauses
<1>2. \E f : f = [i \in 0..Len(ts) |-> IF i = 0 THEN Start ELSE NextClause(ts, f[i - 1])]
  <2>1. \E f : Rounds(ts, Len(ts), f)
    BY RoundsExist, Zenon
  <2> QED BY <2>1, Zenon DEF Rounds
<1>3. g = [i \in 0..Len(ts) |-> IF i = 0 THEN Start ELSE NextClause(ts, g[i - 1])]
  BY <1>2, Zenon
<1> HIDE DEF g
<1> QED BY <1>1, <1>3 DEF Rounds

\* Three rounds are enough if the fourth changes nothing.
LEMMA ThreeRounds ==
  ASSUME NEW ts, Len(ts) \in Nat, Len(ts) >= 3,
         NEW s1, s1 = NextClause(ts, Start), NEW s2, s2 = NextClause(ts, s1),
         NEW s3, s3 = NextClause(ts, s2), NextClause(ts, s3) = s3
  PROVE  ParseClauses(ts) = s3.page
<1>1. PICK g : Rounds(ts, Len(ts), g) /\ ParseClauses(ts) = g[Len(ts)].page
  BY ParseClausesIs
<1>2. \A i \in 0..Len(ts) : g[i] = IF i = 0 THEN Start ELSE NextClause(ts, g[i - 1])
  BY <1>1 DEF Rounds
<1>3. g[3] = s3
  <2>1. 0 \in 0..Len(ts) /\ 1 \in 0..Len(ts) /\ 2 \in 0..Len(ts) /\ 3 \in 0..Len(ts)
        /\ 1 - 1 = 0 /\ 2 - 1 = 1 /\ 3 - 1 = 2
    OBVIOUS
  <2>2. g[0] = Start
    BY <1>2, <2>1
  <2>3. g[1] = NextClause(ts, g[0])
    BY <1>2, <2>1
  <2>4. g[2] = NextClause(ts, g[1])
    BY <1>2, <2>1
  <2>5. g[3] = NextClause(ts, g[2])
    BY <1>2, <2>1
  <2> QED BY <2>2, <2>3, <2>4, <2>5
<1> DEFINE T == {k \in Nat : 3 + k <= Len(ts) => g[3 + k] = s3}
<1>4. 0 \in T
  BY <1>3
<1>5. ASSUME NEW k \in Nat, k \in T PROVE k + 1 \in T
  <2> SUFFICES ASSUME 3 + (k + 1) <= Len(ts) PROVE g[3 + (k + 1)] = s3
    OBVIOUS
  <2>1. 3 + (k + 1) \in 0..Len(ts) /\ 3 + (k + 1) # 0 /\ (3 + (k + 1)) - 1 = 3 + k
    OBVIOUS
  <2>2. g[3 + k] = s3
    BY <1>5
  <2> QED BY <1>2, <2>1, <2>2
<1> HIDE DEF T
<1>6. Nat \subseteq T
  BY <1>4, <1>5, NatSetInduction
<1>7. Len(ts) - 3 \in T /\ 3 + (Len(ts) - 3) = Len(ts)
  BY <1>6
<1>8. g[Len(ts)] = s3
  BY <1>7 DEF T
<1> QED BY <1>1, <1>8

\* Where the loop may be: at a token or behind the last one.
Loop(ts, s) ==
    /\ s = [at |-> s.at, page |-> s.page, seen |-> s.seen]
    /\ s.at \in 1..(Len(ts) + 1)
    /\ s.page = SelectKeys(s.page.offset, s.page.limit)

LimitAt(ts, i) == Is(ts, i, "LIMIT") /\ PageSize(ts, i + 1)
OffsetAt(ts, i) == Is(ts, i, "OFFSET") /\ PageSize(ts, i + 1)
EndAt(ts, i) == i = Len(ts) + 1 \/ (i = Len(ts) /\ ts[i] = Semicolon)

\* A page is not an error.
LEMMA PagesValid == \A o, l : SelectKeys(o, l) # Invalid
BY DEF SelectKeys, Invalid

\* Behind an error or the last token the loop has stopped.
LEMMA LoopStops ==
  ASSUME NEW X, NEW ts \in Seq(X), NEW s, s.page = Invalid \/ s.at = Len(ts) + 1
  PROVE  NextClause(ts, s) = s
<1>1. s.page = Invalid \/ ~Has(ts, s.at)
  BY DEF Has
<1> QED BY <1>1 DEF NextClause, Is

\* A semicolon begins no clause.
LEMMA ClausesNoSemicolon ==
  \A ts, i : Is(ts, i, "LIMIT") \/ Is(ts, i, "OFFSET") => ts[i] # Semicolon
<1>1. Semicolon.semis = 1
  BY DEF Semicolon, Token
<1>2. Word("LIMIT").semis = 0 /\ Word("OFFSET").semis = 0
  BY DEF Word, Token
<1> QED BY <1>1, <1>2 DEF Is

\* A clause is taken if it can be.
LEMMA LoopTakes ==
  ASSUME NEW ts, NEW s, s.page # Invalid, Is(ts, s.at, "LIMIT") \/ Is(ts, s.at, "OFFSET")
  PROVE  NextClause(ts, s) = TakeClause(ts, s)
<1>1. ts[s.at] # Semicolon
  BY ClausesNoSemicolon
<1>2. Has(ts, s.at)
  BY DEF Is
<1> QED BY <1>1, <1>2 DEF NextClause

\* A LIMIT clause that is the first one.
LEMMA LoopLimits ==
  ASSUME NEW X, NEW ts \in Seq(X), NEW s, Loop(ts, s), LimitAt(ts, s.at), "LIMIT" \notin s.seen
  PROVE  NextClause(ts, s) =
           [at |-> s.at + 2, page |-> SelectKeys(s.page.offset, ts[s.at + 1].number),
            seen |-> s.seen \cup {"LIMIT"}]
<1>1. s.page # Invalid
  BY PagesValid DEF Loop
<1>2. Is(ts, s.at, "LIMIT") /\ Has(ts, s.at) /\ PageSize(ts, s.at + 1) /\ ts[s.at].word = "LIMIT"
  BY DEF LimitAt, Is, Word, Token
<1>3. NextClause(ts, s) = TakeClause(ts, s)
  BY <1>1, <1>2, LoopTakes
<1>4. Paged(s.page, "LIMIT", ts[s.at + 1].number) = SelectKeys(s.page.offset, ts[s.at + 1].number)
  BY DEF Paged, Loop, SelectKeys
<1> QED BY <1>2, <1>3, <1>4 DEF TakeClause, SecondClause

\* An OFFSET clause that is the first one.
LEMMA LoopOffsets ==
  ASSUME NEW X, NEW ts \in Seq(X), NEW s, Loop(ts, s), OffsetAt(ts, s.at), "OFFSET" \notin s.seen
  PROVE  NextClause(ts, s) =
           [at |-> s.at + 2, page |-> SelectKeys(ts[s.at + 1].number, s.page.limit),
            seen |-> s.seen \cup {"OFFSET"}]
<1>1. s.page # Invalid
  BY PagesValid DEF Loop
<1>2. Is(ts, s.at, "OFFSET") /\ Has(ts, s.at) /\ PageSize(ts, s.at + 1) /\ ts[s.at].word = "OFFSET"
  BY DEF OffsetAt, Is, Word, Token
<1>4. NextClause(ts, s) = TakeClause(ts, s)
  BY <1>1, <1>2, LoopTakes
<1>5. Paged(s.page, "OFFSET", ts[s.at + 1].number) = SelectKeys(ts[s.at + 1].number, s.page.limit)
  BY DEF Paged, Loop, SelectKeys
<1> QED BY <1>2, <1>4, <1>5 DEF TakeClause, SecondClause

\* The end of the statement: the page stays.
LEMMA LoopEnds ==
  ASSUME NEW X, NEW ts \in Seq(X), NEW s, Loop(ts, s), EndAt(ts, s.at)
  PROVE  /\ NextClause(ts, s).page = s.page
         /\ NextClause(ts, s).at = Len(ts) + 1
<1>1. s.page # Invalid
  BY PagesValid DEF Loop
<1>2. CASE s.at = Len(ts) + 1
  BY <1>2, LoopStops
<1>3. CASE s.at = Len(ts) /\ ts[s.at] = Semicolon
  <2>1. Has(ts, s.at)
    BY <1>3 DEF Has, Loop
  <2>2. ~Is(ts, s.at, "LIMIT") /\ ~Is(ts, s.at, "OFFSET")
    BY <1>3, ClausesNoSemicolon
  <2>3. NextClause(ts, s) = [s EXCEPT !.at = @ + 1]
    BY <1>1, <1>3, <2>1, <2>2 DEF NextClause
  <2>4. s.at \in Nat
    BY <1>3
  <2> QED BY <1>3, <2>3, <2>4 DEF Loop
<1> QED BY <1>2, <1>3 DEF EndAt

\* Anything else is an error.
LEMMA LoopRefuses ==
  ASSUME NEW X, NEW ts \in Seq(X), NEW s, Loop(ts, s), ~EndAt(ts, s.at),
         LimitAt(ts, s.at) => "LIMIT" \in s.seen,
         OffsetAt(ts, s.at) => "OFFSET" \in s.seen
  PROVE  NextClause(ts, s).page = Invalid
<1>1. s.page # Invalid /\ Has(ts, s.at)
  BY PagesValid DEF Loop, EndAt, Has
<1>2. Stopped(s).page = Invalid
  BY DEF Stopped, Loop
<1>3. CASE Is(ts, s.at, "LIMIT")
  <2>1. ts[s.at].word = "LIMIT"
    BY <1>3 DEF Is, Word, Token
  <2>2. NextClause(ts, s) = TakeClause(ts, s)
    BY <1>1, <1>3, LoopTakes
  <2>3. ~(PageSize(ts, s.at + 1) /\ ~SecondClause(s.seen, "LIMIT"))
    BY <1>3 DEF LimitAt, SecondClause
  <2> QED BY <1>2, <2>1, <2>2, <2>3 DEF TakeClause
<1>4. CASE Is(ts, s.at, "OFFSET")
  <2>1. ts[s.at].word = "OFFSET"
    BY <1>4 DEF Is, Word, Token
  <2>2. NextClause(ts, s) = TakeClause(ts, s)
    BY <1>1, <1>4, LoopTakes
  <2>3. ~(PageSize(ts, s.at + 1) /\ ~SecondClause(s.seen, "OFFSET"))
    BY <1>4 DEF OffsetAt, SecondClause
  <2> QED BY <1>2, <2>1, <2>2, <2>3 DEF TakeClause
<1>5. CASE ~Is(ts, s.at, "LIMIT") /\ ~Is(ts, s.at, "OFFSET")
  <2>1. ~(ts[s.at] = Semicolon /\ s.at = Len(ts))
    BY DEF EndAt
  <2>2. NextClause(ts, s) = Stopped(s)
    BY <1>1, <1>5, <2>1 DEF NextClause
  <2> QED BY <1>2, <2>2
<1> QED BY <1>3, <1>4, <1>5

\* At most one thing comes at a token.
LEMMA OneClause ==
  ASSUME NEW X, NEW ts \in Seq(X), NEW i \in Nat
  PROVE  /\ ~(EndAt(ts, i) /\ LimitAt(ts, i))
         /\ ~(EndAt(ts, i) /\ OffsetAt(ts, i))
         /\ ~(LimitAt(ts, i) /\ OffsetAt(ts, i))
         /\ LimitAt(ts, i) => i + 2 \in 1..(Len(ts) + 1)
         /\ OffsetAt(ts, i) => i + 2 \in 1..(Len(ts) + 1)
<1>1. LimitAt(ts, i) \/ OffsetAt(ts, i) => i \in DOMAIN ts /\ i + 1 \in DOMAIN ts
  BY DEF LimitAt, OffsetAt, Is, Has, PageSize
<1>2. LimitAt(ts, i) \/ OffsetAt(ts, i) => ts[i] # Semicolon
  BY ClausesNoSemicolon DEF LimitAt, OffsetAt
<1>3. Word("LIMIT") # Word("OFFSET")
  BY DEF Word, Token
<1>4. ~(LimitAt(ts, i) /\ OffsetAt(ts, i))
  BY <1>3 DEF LimitAt, OffsetAt, Is
<1> QED BY <1>1, <1>2, <1>4 DEF EndAt

\* What the clauses behind token 4 say: none, one, or both in either order.
Reads(ts, o, l) ==
    \/ EndAt(ts, 5) /\ o = 0 /\ l = NoLimit
    \/ LimitAt(ts, 5) /\ EndAt(ts, 7) /\ o = 0 /\ l = ts[6].number
    \/ OffsetAt(ts, 5) /\ EndAt(ts, 7) /\ o = ts[6].number /\ l = NoLimit
    \/ LimitAt(ts, 5) /\ OffsetAt(ts, 7) /\ EndAt(ts, 9) /\ o = ts[8].number /\ l = ts[6].number
    \/ OffsetAt(ts, 5) /\ LimitAt(ts, 7) /\ EndAt(ts, 9) /\ o = ts[6].number /\ l = ts[8].number

\* The loop's last round, at the end of the statement or at an error.
LEMMA LoopLast ==
  ASSUME NEW X, NEW ts \in Seq(X), NEW s, Loop(ts, s)
  PROVE  /\ EndAt(ts, s.at) =>
              /\ NextClause(ts, s).page = s.page
              /\ NextClause(ts, NextClause(ts, s)) = NextClause(ts, s)
         /\ /\ ~EndAt(ts, s.at)
            /\ LimitAt(ts, s.at) => "LIMIT" \in s.seen
            /\ OffsetAt(ts, s.at) => "OFFSET" \in s.seen
            => /\ NextClause(ts, s).page = Invalid
               /\ NextClause(ts, NextClause(ts, s)) = NextClause(ts, s)
<1>1. ASSUME EndAt(ts, s.at)
      PROVE  /\ NextClause(ts, s).page = s.page
             /\ NextClause(ts, NextClause(ts, s)) = NextClause(ts, s)
  <2>1. NextClause(ts, s).page = s.page /\ NextClause(ts, s).at = Len(ts) + 1
    BY <1>1, LoopEnds
  <2> QED BY <2>1, LoopStops
<1>2. ASSUME ~EndAt(ts, s.at), LimitAt(ts, s.at) => "LIMIT" \in s.seen,
             OffsetAt(ts, s.at) => "OFFSET" \in s.seen
      PROVE  /\ NextClause(ts, s).page = Invalid
             /\ NextClause(ts, NextClause(ts, s)) = NextClause(ts, s)
  <2>1. NextClause(ts, s).page = Invalid
    BY <1>2, LoopRefuses
  <2> QED BY <2>1, LoopStops
<1> QED BY <1>1, <1>2

\* The loop returns what the clauses say, and an error if they say nothing.
LEMMA ClausesAre ==
  ASSUME NEW X, NEW ts \in Seq(X), Len(ts) >= 4
  PROVE  \/ /\ ParseClauses(ts) = Invalid
            /\ \A o, l : ~Reads(ts, o, l)
         \/ \E o, l : /\ ParseClauses(ts) = SelectKeys(o, l)
                      /\ \A p, q : Reads(ts, p, q) <=> p = o /\ q = l
<1> DEFINE s1 == NextClause(ts, Start)
           s2 == NextClause(ts, s1)
           s3 == NextClause(ts, s2)
           s4 == NextClause(ts, s3)
           Fails == s4 = s3 /\ s3.page = Invalid
           Accepts(o, l) == s4 = s3 /\ s3.page = SelectKeys(o, l)
<1>1. Len(ts) \in Nat /\ Len(ts) >= 3
  OBVIOUS
<1>2. s4 = s3 => ParseClauses(ts) = s3.page
  BY <1>1, ThreeRounds
<1>3. Loop(ts, Start) /\ Start.at = 5 /\ Start.page = SelectKeys(0, NoLimit) /\ Start.seen = {}
      /\ SelectKeys(0, NoLimit).offset = 0 /\ SelectKeys(0, NoLimit).limit = NoLimit
  BY DEF Loop, Start, SelectKeys
<1>4. CASE EndAt(ts, 5)
  <2>1. s1.page = SelectKeys(0, NoLimit) /\ s2 = s1
    BY <1>3, <1>4, LoopLast
  <2>2. Accepts(0, NoLimit)
    BY <2>1
  <2>3. ~LimitAt(ts, 5) /\ ~OffsetAt(ts, 5)
    BY <1>4, OneClause
  <2>4. \A p, q : Reads(ts, p, q) <=> p = 0 /\ q = NoLimit
    BY <1>4, <2>3 DEF Reads
  <2> QED BY <1>2, <2>2, <2>4
<1>5. CASE LimitAt(ts, 5)
  <2>1. ~EndAt(ts, 5) /\ ~OffsetAt(ts, 5) /\ 7 \in 1..(Len(ts) + 1)
    BY <1>5, OneClause
  <2>2. s1 = [at |-> 7, page |-> SelectKeys(0, ts[6].number), seen |-> {"LIMIT"}]
    BY <1>3, <1>5, LoopLimits
  <2>3. Loop(ts, s1) /\ s1.at = 7 /\ s1.page = SelectKeys(0, ts[6].number) /\ s1.seen = {"LIMIT"}
        /\ s1.page.offset = 0 /\ s1.page.limit = ts[6].number
    BY <2>1, <2>2 DEF Loop, SelectKeys
  <2> HIDE DEF s1
  <2>4. CASE EndAt(ts, 7)
    <3>1. s2.page = SelectKeys(0, ts[6].number) /\ s3 = s2
      BY <2>3, <2>4, LoopLast
    <3>2. Accepts(0, ts[6].number)
      BY <3>1
    <3>3. ~OffsetAt(ts, 7)
      BY <2>4, OneClause
    <3>4. \A p, q : Reads(ts, p, q) <=> p = 0 /\ q = ts[6].number
      BY <1>5, <2>1, <2>4, <3>3 DEF Reads
    <3> QED BY <1>2, <3>2, <3>4
  <2>5. CASE OffsetAt(ts, 7)
    <3>1. ~EndAt(ts, 7) /\ 9 \in 1..(Len(ts) + 1)
      BY <2>5, OneClause
    <3>2. s2 = [at |-> 9, page |-> SelectKeys(ts[8].number, ts[6].number),
                seen |-> {"LIMIT"} \cup {"OFFSET"}]
      BY <2>3, <2>5, LoopOffsets
    <3>3. Loop(ts, s2) /\ s2.at = 9 /\ s2.page = SelectKeys(ts[8].number, ts[6].number)
          /\ s2.seen = {"LIMIT", "OFFSET"}
      BY <3>1, <3>2 DEF Loop, SelectKeys
    <3> HIDE DEF s2
    <3>4. CASE EndAt(ts, 9)
      <4>1. Accepts(ts[8].number, ts[6].number)
        BY <3>3, <3>4, LoopLast
      <4>2. \A p, q : Reads(ts, p, q) <=> p = ts[8].number /\ q = ts[6].number
        BY <1>5, <2>1, <2>5, <3>1, <3>4 DEF Reads
      <4> QED BY <1>2, <4>1, <4>2
    <3>5. CASE ~EndAt(ts, 9)
      <4>1. Fails
        BY <3>3, <3>5, LoopLast
      <4>2. \A p, q : ~Reads(ts, p, q)
        BY <1>5, <2>1, <2>5, <3>1, <3>5 DEF Reads
      <4> QED BY <1>2, <4>1, <4>2
    <3> QED BY <3>4, <3>5
  <2>6. CASE ~EndAt(ts, 7) /\ ~OffsetAt(ts, 7)
    <3>1. s2.page = Invalid /\ s3 = s2
      BY <2>3, <2>6, LoopLast
    <3>2. \A p, q : ~Reads(ts, p, q)
      BY <1>5, <2>1, <2>6 DEF Reads
    <3> QED BY <1>2, <3>1, <3>2
  <2> QED BY <2>4, <2>5, <2>6
<1>6. CASE OffsetAt(ts, 5)
  <2>1. ~EndAt(ts, 5) /\ ~LimitAt(ts, 5) /\ 7 \in 1..(Len(ts) + 1)
    BY <1>6, OneClause
  <2>2. s1 = [at |-> 7, page |-> SelectKeys(ts[6].number, NoLimit), seen |-> {"OFFSET"}]
    BY <1>3, <1>6, LoopOffsets
  <2>3. Loop(ts, s1) /\ s1.at = 7 /\ s1.page = SelectKeys(ts[6].number, NoLimit)
        /\ s1.seen = {"OFFSET"} /\ s1.page.offset = ts[6].number /\ s1.page.limit = NoLimit
    BY <2>1, <2>2 DEF Loop, SelectKeys
  <2> HIDE DEF s1
  <2>4. CASE EndAt(ts, 7)
    <3>1. s2.page = SelectKeys(ts[6].number, NoLimit) /\ s3 = s2
      BY <2>3, <2>4, LoopLast
    <3>2. Accepts(ts[6].number, NoLimit)
      BY <3>1
    <3>3. ~LimitAt(ts, 7)
      BY <2>4, OneClause
    <3>4. \A p, q : Reads(ts, p, q) <=> p = ts[6].number /\ q = NoLimit
      BY <1>6, <2>1, <2>4, <3>3 DEF Reads
    <3> QED BY <1>2, <3>2, <3>4
  <2>5. CASE LimitAt(ts, 7)
    <3>1. ~EndAt(ts, 7) /\ 9 \in 1..(Len(ts) + 1)
      BY <2>5, OneClause
    <3>2. s2 = [at |-> 9, page |-> SelectKeys(ts[6].number, ts[8].number),
                seen |-> {"OFFSET"} \cup {"LIMIT"}]
      BY <2>3, <2>5, LoopLimits
    <3>3. Loop(ts, s2) /\ s2.at = 9 /\ s2.page = SelectKeys(ts[6].number, ts[8].number)
          /\ s2.seen = {"LIMIT", "OFFSET"}
      BY <3>1, <3>2 DEF Loop, SelectKeys
    <3> HIDE DEF s2
    <3>4. CASE EndAt(ts, 9)
      <4>1. Accepts(ts[6].number, ts[8].number)
        BY <3>3, <3>4, LoopLast
      <4>2. \A p, q : Reads(ts, p, q) <=> p = ts[6].number /\ q = ts[8].number
        BY <1>6, <2>1, <2>5, <3>1, <3>4 DEF Reads
      <4> QED BY <1>2, <4>1, <4>2
    <3>5. CASE ~EndAt(ts, 9)
      <4>1. Fails
        BY <3>3, <3>5, LoopLast
      <4>2. \A p, q : ~Reads(ts, p, q)
        BY <1>6, <2>1, <2>5, <3>1, <3>5 DEF Reads
      <4> QED BY <1>2, <4>1, <4>2
    <3> QED BY <3>4, <3>5
  <2>6. CASE ~EndAt(ts, 7) /\ ~LimitAt(ts, 7)
    <3>1. s2.page = Invalid /\ s3 = s2
      BY <2>3, <2>6, LoopLast
    <3>2. \A p, q : ~Reads(ts, p, q)
      BY <1>6, <2>1, <2>6 DEF Reads
    <3> QED BY <1>2, <3>1, <3>2
  <2> QED BY <2>4, <2>5, <2>6
<1>7. CASE ~EndAt(ts, 5) /\ ~LimitAt(ts, 5) /\ ~OffsetAt(ts, 5)
  <2>1. s1.page = Invalid /\ s2 = s1
    BY <1>3, <1>7, LoopLast
  <2>2. \A p, q : ~Reads(ts, p, q)
    BY <1>7 DEF Reads
  <2> QED BY <1>2, <2>1, <2>2
<1> QED BY <1>4, <1>5, <1>6, <1>7


-----------------------------------------------------------------------------
(* parse_select: the sentences of the grammar                               *)

\* A token: a number is one of PageNumbers, a word has none.
IsToken(t) ==
    /\ t = [word |-> t.word, number |-> t.number, semis |-> t.semis]
    /\ t.semis \in Nat
    /\ t.word = "number" => t.number \in PageNumbers
    /\ t.word # "number" => t.number = 0

\* The words and numbers of statements are tokens.
LEMMA TokenTypes ==
  /\ \A w : w # "number" => IsToken(Word(w))
  /\ \A n \in PageNumbers : IsToken(Number(n))
  /\ IsToken(Semicolon) /\ IsToken(Empty) /\ IsToken(Hash)
  /\ \A t : IsToken(t) => IsToken(Glued(t))
<1>1. \A w : \A k \in Nat : w # "number" => IsToken(Token(w, k))
  BY DEF Token, IsToken
<1>2. \A n \in PageNumbers : IsToken(Number(n))
  BY DEF Number, IsToken
<1>3. \A w : w # "number" => IsToken(Word(w))
  BY <1>1 DEF Word
<1>4. IsToken(Semicolon)
  <2>1. 1 \in Nat /\ "" # "number"
    OBVIOUS
  <2> QED BY <1>1, <2>1 DEF Semicolon
<1>5. IsToken(Empty) /\ IsToken(Hash)
  BY <1>3 DEF Empty, Hash
<1>6. \A t : IsToken(t) => IsToken(Glued(t))
  <2> SUFFICES ASSUME NEW t, IsToken(t) PROVE IsToken(Glued(t))
    OBVIOUS
  <2>1. Glued(t) = [word |-> t.word, number |-> t.number, semis |-> t.semis + 1]
    BY DEF Glued, IsToken
  <2> QED BY <2>1 DEF IsToken
<1> QED BY <1>2, <1>3, <1>4, <1>5, <1>6

\* The concatenation of two lists.
LEMMA Concat ==
  \A X : \A s, t \in Seq(X) :
    /\ s \o t \in Seq(X) /\ Len(s \o t) = Len(s) + Len(t)
    /\ \A i \in 1..Len(s) : (s \o t)[i] = s[i]
    /\ \A i \in 1..Len(t) : (s \o t)[Len(s) + i] = t[i]
OBVIOUS

Opens(ts) == Is(ts, 1, "SELECT") /\ Is(ts, 2, "*") /\ Is(ts, 3, "FROM") /\ Is(ts, 4, "keys")

\* A sentence and what may follow it, position by position.
LEMMA SentenceEnds ==
  ASSUME NEW X, NEW Y, NEW s \in Seq(X), NEW ts \in Seq(Y)
  PROVE  ts = s \/ ts = Append(s, Semicolon) <=>
           /\ \A i \in 1..Len(s) : i \in DOMAIN ts /\ ts[i] = s[i]
           /\ EndAt(ts, Len(s) + 1)
<1>1. ASSUME ts = s
      PROVE  /\ \A i \in 1..Len(s) : i \in DOMAIN ts /\ ts[i] = s[i]
             /\ EndAt(ts, Len(s) + 1)
  BY <1>1 DEF EndAt
<1>2. ASSUME ts = Append(s, Semicolon)
      PROVE  /\ \A i \in 1..Len(s) : i \in DOMAIN ts /\ ts[i] = s[i]
             /\ EndAt(ts, Len(s) + 1)
  BY <1>2 DEF EndAt
<1>3. ASSUME \A i \in 1..Len(s) : i \in DOMAIN ts /\ ts[i] = s[i], EndAt(ts, Len(s) + 1)
      PROVE  ts = s \/ ts = Append(s, Semicolon)
  <2>1. CASE Len(ts) = Len(s)
    BY <1>3, <2>1
  <2>2. CASE Len(ts) = Len(s) + 1 /\ ts[Len(ts)] = Semicolon
    <3>1. Len(Append(s, Semicolon)) = Len(ts)
      BY <2>2
    <3>2. \A i \in 1..Len(ts) : ts[i] = Append(s, Semicolon)[i]
      BY <1>3, <2>2
    <3>3. Append(s, Semicolon) \in Seq(X \cup {Semicolon})
      OBVIOUS
    <3> QED BY <3>1, <3>2, <3>3
  <2> QED BY <1>3, <2>1, <2>2 DEF EndAt
<1> QED BY <1>1, <1>2, <1>3

\* A clause, position by position.
LEMMA ClauseTokens ==
  ASSUME NEW X, \A t \in X : IsToken(t), NEW ts \in Seq(X), NEW i \in Nat
  PROVE  /\ \A n : LimitAt(ts, i) /\ ts[i + 1].number = n <=>
               /\ i \in DOMAIN ts /\ ts[i] = Word("LIMIT")
               /\ i + 1 \in DOMAIN ts /\ ts[i + 1] = Number(n)
         /\ \A n : OffsetAt(ts, i) /\ ts[i + 1].number = n <=>
               /\ i \in DOMAIN ts /\ ts[i] = Word("OFFSET")
               /\ i + 1 \in DOMAIN ts /\ ts[i + 1] = Number(n)
         /\ LimitAt(ts, i) \/ OffsetAt(ts, i) => ts[i + 1].number \in PageNumbers
<1>1. \A n : PageSize(ts, i + 1) /\ ts[i + 1].number = n <=>
               i + 1 \in DOMAIN ts /\ ts[i + 1] = Number(n)
  <2> SUFFICES ASSUME NEW n
               PROVE  PageSize(ts, i + 1) /\ ts[i + 1].number = n <=>
                        i + 1 \in DOMAIN ts /\ ts[i + 1] = Number(n)
    OBVIOUS
  <2>1. ASSUME PageSize(ts, i + 1), ts[i + 1].number = n
        PROVE  i + 1 \in DOMAIN ts /\ ts[i + 1] = Number(n)
    <3>1. i + 1 \in DOMAIN ts /\ ts[i + 1] \in X
      BY <2>1 DEF PageSize, Has
    <3> QED BY <2>1, <3>1 DEF PageSize, IsToken, Number
  <2>2. ASSUME i + 1 \in DOMAIN ts, ts[i + 1] = Number(n)
        PROVE  PageSize(ts, i + 1) /\ ts[i + 1].number = n
    BY <2>2 DEF PageSize, Has, Number
  <2> QED BY <2>1, <2>2
<1>2. PageSize(ts, i + 1) => ts[i + 1].number \in PageNumbers
  <2> SUFFICES ASSUME PageSize(ts, i + 1) PROVE ts[i + 1].number \in PageNumbers
    OBVIOUS
  <2>1. ts[i + 1] \in X /\ ts[i + 1].word = "number"
    BY DEF PageSize, Has
  <2> QED BY <2>1 DEF IsToken
<1>3. \A w : Is(ts, i, w) <=> i \in DOMAIN ts /\ ts[i] = Word(w)
  BY DEF Is, Has
<1> QED BY <1>1, <1>2, <1>3 DEF LimitAt, OffsetAt

PageTokens ==
    {Word("SELECT"), Word("*"), Word("FROM"), Word("keys"), Word("LIMIT"), Word("OFFSET")}
      \cup {Number(n) : n \in PageNumbers}

\* The parts of a sentence.
LEMMA SentenceParts ==
  /\ \A t \in PageTokens : IsToken(t)
  /\ Select \in Seq(PageTokens) /\ Len(Select) = 4
  /\ Select[1] = Word("SELECT") /\ Select[2] = Word("*")
  /\ Select[3] = Word("FROM") /\ Select[4] = Word("keys")
  /\ <<>> \in Seq(PageTokens) /\ Len(<<>>) = 0
  /\ \A n \in PageNumbers :
       /\ Limit(n) \in Seq(PageTokens) /\ Len(Limit(n)) = 2
       /\ Limit(n)[1] = Word("LIMIT") /\ Limit(n)[2] = Number(n)
       /\ Offset(n) \in Seq(PageTokens) /\ Len(Offset(n)) = 2
       /\ Offset(n)[1] = Word("OFFSET") /\ Offset(n)[2] = Number(n)
<1>1. \A t \in PageTokens : IsToken(t)
  BY TokenTypes DEF PageTokens
<1>2. /\ Select \in Seq(PageTokens) /\ Len(Select) = 4
      /\ Select[1] = Word("SELECT") /\ Select[2] = Word("*")
      /\ Select[3] = Word("FROM") /\ Select[4] = Word("keys")
  BY DEF Select, PageTokens
<1>3. ASSUME NEW n \in PageNumbers
      PROVE  /\ Limit(n) \in Seq(PageTokens) /\ Len(Limit(n)) = 2
             /\ Limit(n)[1] = Word("LIMIT") /\ Limit(n)[2] = Number(n)
             /\ Offset(n) \in Seq(PageTokens) /\ Len(Offset(n)) = 2
             /\ Offset(n)[1] = Word("OFFSET") /\ Offset(n)[2] = Number(n)
  <2>1. Number(n) \in PageTokens /\ Word("LIMIT") \in PageTokens /\ Word("OFFSET") \in PageTokens
    BY DEF PageTokens
  <2> QED BY <2>1 DEF Limit, Offset
<1>4. <<>> \in Seq(PageTokens) /\ Len(<<>>) = 0
  OBVIOUS
<1> QED BY <1>1, <1>2, <1>3, <1>4

Sentence(p) == Select \o p.clauses
Spells(ts, p) == ts = Sentence(p) \/ ts = Append(Sentence(p), Semicolon)

\* A sentence, clause token by clause token.
LEMMA SentenceIs ==
  \A X : \A c \in Seq(PageTokens), ts \in Seq(X) :
    ts = Select \o c \/ ts = Append(Select \o c, Semicolon) <=>
      /\ Opens(ts)
      /\ \A i \in 1..Len(c) : 4 + i \in DOMAIN ts /\ ts[4 + i] = c[i]
      /\ EndAt(ts, 5 + Len(c))
<1> SUFFICES ASSUME NEW X, NEW c \in Seq(PageTokens), NEW ts \in Seq(X)
             PROVE  ts = Select \o c \/ ts = Append(Select \o c, Semicolon) <=>
                      /\ Opens(ts)
                      /\ \A i \in 1..Len(c) : 4 + i \in DOMAIN ts /\ ts[4 + i] = c[i]
                      /\ EndAt(ts, 5 + Len(c))
  OBVIOUS
<1> DEFINE s == Select \o c
<1>1. /\ s \in Seq(PageTokens) /\ Len(s) = Len(Select) + Len(c)
      /\ \A i \in 1..Len(Select) : s[i] = Select[i]
      /\ \A i \in 1..Len(c) : s[Len(Select) + i] = c[i]
  <2>1. Select \in Seq(PageTokens)
    BY SentenceParts
  <2>2. \A u \in Seq(PageTokens) :
          /\ u \o c \in Seq(PageTokens) /\ Len(u \o c) = Len(u) + Len(c)
          /\ \A i \in 1..Len(u) : (u \o c)[i] = u[i]
          /\ \A i \in 1..Len(c) : (u \o c)[Len(u) + i] = c[i]
    BY Concat
  <2> QED BY <2>1, <2>2, Zenon
<1>2. Len(Select) = 4 /\ Len(c) \in Nat
  BY SentenceParts
<1> HIDE DEF s
<1>3. Len(s) = 4 + Len(c) /\ Len(s) + 1 = 5 + Len(c)
  BY <1>1, <1>2
<1>4. /\ s[1] = Word("SELECT") /\ s[2] = Word("*") /\ s[3] = Word("FROM") /\ s[4] = Word("keys")
      /\ \A i \in 1..Len(c) : s[4 + i] = c[i]
  BY <1>1, <1>2, SentenceParts
<1>5. \A i \in 1..(4 + Len(c)) : i \in 1..4 \/ (i - 4 \in 1..Len(c) /\ i = 4 + (i - 4))
  BY <1>2
<1>6. (\A i \in 1..(4 + Len(c)) : i \in DOMAIN ts /\ ts[i] = s[i]) <=>
         Opens(ts) /\ \A i \in 1..Len(c) : 4 + i \in DOMAIN ts /\ ts[4 + i] = c[i]
  <2>1. ASSUME \A i \in 1..(4 + Len(c)) : i \in DOMAIN ts /\ ts[i] = s[i]
        PROVE  Opens(ts) /\ \A i \in 1..Len(c) : 4 + i \in DOMAIN ts /\ ts[4 + i] = c[i]
    <3>1. \A i \in 1..Len(c) : 4 + i \in 1..(4 + Len(c))
      BY <1>2
    <3>2. 1 \in 1..(4 + Len(c)) /\ 2 \in 1..(4 + Len(c)) /\ 3 \in 1..(4 + Len(c))
          /\ 4 \in 1..(4 + Len(c))
      BY <1>2
    <3> QED BY <1>4, <2>1, <3>1, <3>2 DEF Opens, Is, Has
  <2>2. ASSUME Opens(ts), \A i \in 1..Len(c) : 4 + i \in DOMAIN ts /\ ts[4 + i] = c[i]
        PROVE  \A i \in 1..(4 + Len(c)) : i \in DOMAIN ts /\ ts[i] = s[i]
    <3>1. \A i \in 1..4 : i = 1 \/ i = 2 \/ i = 3 \/ i = 4
      OBVIOUS
    <3>2. \A i \in 1..4 : i \in DOMAIN ts /\ ts[i] = s[i]
      BY <1>4, <2>2, <3>1 DEF Opens, Is, Has
    <3> TAKE i \in 1..(4 + Len(c))
    <3>3. CASE i \in 1..4
      BY <3>2, <3>3
    <3>4. CASE i - 4 \in 1..Len(c) /\ i = 4 + (i - 4)
      <4>1. s[4 + (i - 4)] = c[i - 4]
        BY <1>4, <3>4
      <4>2. 4 + (i - 4) \in DOMAIN ts /\ ts[4 + (i - 4)] = c[i - 4]
        BY <2>2, <3>4
      <4> QED BY <3>4, <4>1, <4>2
    <3> QED BY <1>5, <3>3, <3>4
  <2> QED BY <2>1, <2>2
<1>7. ts = s \/ ts = Append(s, Semicolon) <=>
        /\ \A i \in 1..Len(s) : i \in DOMAIN ts /\ ts[i] = s[i]
        /\ EndAt(ts, Len(s) + 1)
  BY <1>1, SentenceEnds, Zenon
<1>8. ts = s \/ ts = Append(s, Semicolon) <=>
        /\ Opens(ts)
        /\ \A i \in 1..Len(c) : 4 + i \in DOMAIN ts /\ ts[4 + i] = c[i]
        /\ EndAt(ts, 5 + Len(c))
  BY <1>3, <1>6, <1>7, Zenon
<1> QED BY <1>8 DEF s

\* No clause and one clause.
LEMMA ShortSentences ==
  ASSUME NEW X, \A t \in X : IsToken(t), NEW ts \in Seq(X)
  PROVE  /\ Spells(ts, Page(<<>>, 0, NoLimit)) <=> Opens(ts) /\ EndAt(ts, 5)
         /\ \A n \in PageNumbers :
              /\ Spells(ts, Page(Limit(n), 0, n)) <=>
                   Opens(ts) /\ LimitAt(ts, 5) /\ ts[6].number = n /\ EndAt(ts, 7)
              /\ Spells(ts, Page(Offset(n), n, NoLimit)) <=>
                   Opens(ts) /\ OffsetAt(ts, 5) /\ ts[6].number = n /\ EndAt(ts, 7)
<1>1. Spells(ts, Page(<<>>, 0, NoLimit)) <=> Opens(ts) /\ EndAt(ts, 5)
  <2>1. <<>> \in Seq(PageTokens) /\ Len(<<>>) = 0 /\ 5 + 0 = 5 /\ \A i \in 1..0 : FALSE
    BY SentenceParts
  <2>2. Page(<<>>, 0, NoLimit).clauses = <<>>
    BY DEF Page
  <2>5. \A u \in Seq(PageTokens) :
          ts = Select \o u \/ ts = Append(Select \o u, Semicolon) <=>
            /\ Opens(ts)
            /\ \A i \in 1..Len(u) : 4 + i \in DOMAIN ts /\ ts[4 + i] = u[i]
            /\ EndAt(ts, 5 + Len(u))
    BY SentenceIs
  <2>3. Spells(ts, Page(<<>>, 0, NoLimit)) <=>
          /\ Opens(ts)
          /\ \A i \in 1..Len(<<>>) : 4 + i \in DOMAIN ts /\ ts[4 + i] = <<>>[i]
          /\ EndAt(ts, 5 + Len(<<>>))
    BY <2>1, <2>2, <2>5, Zenon DEF Spells, Sentence
  <2>4. (\A i \in 1..Len(<<>>) : 4 + i \in DOMAIN ts /\ ts[4 + i] = <<>>[i])
        /\ 5 + Len(<<>>) = 5
    BY <2>1
  <2> QED BY <2>3, <2>4, Zenon
<1>2. ASSUME NEW n \in PageNumbers, NEW c \in Seq(PageTokens), Len(c) = 2, c[2] = Number(n)
      PROVE  (\A i \in 1..Len(c) : 4 + i \in DOMAIN ts /\ ts[4 + i] = c[i]) <=>
               /\ 5 \in DOMAIN ts /\ ts[5] = c[1]
               /\ 5 + 1 \in DOMAIN ts /\ ts[5 + 1] = Number(n)
  <2>1. \A i \in 1..Len(c) : i = 1 \/ i = 2
    BY <1>2
  <2>2. 1 \in 1..Len(c) /\ 2 \in 1..Len(c) /\ 4 + 1 = 5 /\ 4 + 2 = 5 + 1
    BY <1>2
  <2> QED BY <1>2, <2>1, <2>2
<1>3. ASSUME NEW n \in PageNumbers
      PROVE  Spells(ts, Page(Limit(n), 0, n)) <=>
               Opens(ts) /\ LimitAt(ts, 5) /\ ts[6].number = n /\ EndAt(ts, 7)
  <2>1. /\ Limit(n) \in Seq(PageTokens) /\ Len(Limit(n)) = 2
        /\ Limit(n)[1] = Word("LIMIT") /\ Limit(n)[2] = Number(n)
    BY SentenceParts
  <2>2. Page(Limit(n), 0, n).clauses = Limit(n)
    BY DEF Page
  <2>3. LimitAt(ts, 5) /\ ts[5 + 1].number = n <=>
          /\ 5 \in DOMAIN ts /\ ts[5] = Word("LIMIT")
          /\ 5 + 1 \in DOMAIN ts /\ ts[5 + 1] = Number(n)
    BY ClauseTokens
  <2>4. (\A i \in 1..Len(Limit(n)) : 4 + i \in DOMAIN ts /\ ts[4 + i] = Limit(n)[i]) <=>
          LimitAt(ts, 5) /\ ts[5 + 1].number = n
    BY <1>2, <2>1, <2>3, Zenon
  <2>5. Spells(ts, Page(Limit(n), 0, n)) <=>
          /\ Opens(ts)
          /\ \A i \in 1..Len(Limit(n)) : 4 + i \in DOMAIN ts /\ ts[4 + i] = Limit(n)[i]
          /\ EndAt(ts, 5 + Len(Limit(n)))
    BY <2>1, <2>2, SentenceIs DEF Spells, Sentence
  <2>6. 5 + Len(Limit(n)) = 7 /\ 5 + 1 = 6
    BY <2>1
  <2> QED BY <2>4, <2>5, <2>6
<1>4. ASSUME NEW n \in PageNumbers
      PROVE  Spells(ts, Page(Offset(n), n, NoLimit)) <=>
               Opens(ts) /\ OffsetAt(ts, 5) /\ ts[6].number = n /\ EndAt(ts, 7)
  <2>1. /\ Offset(n) \in Seq(PageTokens) /\ Len(Offset(n)) = 2
        /\ Offset(n)[1] = Word("OFFSET") /\ Offset(n)[2] = Number(n)
    BY SentenceParts
  <2>2. Page(Offset(n), n, NoLimit).clauses = Offset(n)
    BY DEF Page
  <2>3. OffsetAt(ts, 5) /\ ts[5 + 1].number = n <=>
          /\ 5 \in DOMAIN ts /\ ts[5] = Word("OFFSET")
          /\ 5 + 1 \in DOMAIN ts /\ ts[5 + 1] = Number(n)
    BY ClauseTokens
  <2>4. (\A i \in 1..Len(Offset(n)) : 4 + i \in DOMAIN ts /\ ts[4 + i] = Offset(n)[i]) <=>
          OffsetAt(ts, 5) /\ ts[5 + 1].number = n
    BY <1>2, <2>1, <2>3, Zenon
  <2>5. Spells(ts, Page(Offset(n), n, NoLimit)) <=>
          /\ Opens(ts)
          /\ \A i \in 1..Len(Offset(n)) : 4 + i \in DOMAIN ts /\ ts[4 + i] = Offset(n)[i]
          /\ EndAt(ts, 5 + Len(Offset(n)))
    BY <2>1, <2>2, SentenceIs DEF Spells, Sentence
  <2>6. 5 + Len(Offset(n)) = 7 /\ 5 + 1 = 6
    BY <2>1
  <2> QED BY <2>4, <2>5, <2>6
<1> QED BY <1>1, <1>3, <1>4


\* Two clauses behind each other.
LEMMA Joined ==
  ASSUME NEW X, NEW s \in Seq(X), NEW t \in Seq(X)
  PROVE  Len(s) = 2 /\ Len(t) = 2 =>
           /\ s \o t \in Seq(X) /\ Len(s \o t) = 4
           /\ (s \o t)[1] = s[1] /\ (s \o t)[2] = s[2]
           /\ (s \o t)[3] = t[1] /\ (s \o t)[4] = t[2]
<1> DEFINE st == s \o t
<1>1. /\ st \in Seq(X) /\ Len(st) = Len(s) + Len(t)
      /\ \A i \in 1..Len(s) : st[i] = s[i]
      /\ \A i \in 1..Len(t) : st[Len(s) + i] = t[i]
  BY Concat
<1> HIDE DEF st
<1> SUFFICES ASSUME Len(s) = 2, Len(t) = 2
             PROVE  /\ st \in Seq(X) /\ Len(st) = 4 /\ st[1] = s[1] /\ st[2] = s[2]
                    /\ st[3] = t[1] /\ st[4] = t[2]
  BY DEF st
<1> QED BY <1>1

\* Two clauses, in either order.
LEMMA LongSentences ==
  ASSUME NEW X, \A t \in X : IsToken(t), NEW ts \in Seq(X),
         NEW m \in PageNumbers, NEW n \in PageNumbers
  PROVE  /\ Spells(ts, Page(Limit(n) \o Offset(m), m, n)) <=>
              /\ Opens(ts) /\ LimitAt(ts, 5) /\ ts[6].number = n
              /\ OffsetAt(ts, 7) /\ ts[8].number = m /\ EndAt(ts, 9)
         /\ Spells(ts, Page(Offset(m) \o Limit(n), m, n)) <=>
              /\ Opens(ts) /\ OffsetAt(ts, 5) /\ ts[6].number = m
              /\ LimitAt(ts, 7) /\ ts[8].number = n /\ EndAt(ts, 9)
<1>1. Spells(ts, Page(Limit(n) \o Offset(m), m, n)) <=>
        /\ Opens(ts) /\ LimitAt(ts, 5) /\ ts[6].number = n
        /\ OffsetAt(ts, 7) /\ ts[8].number = m /\ EndAt(ts, 9)
  <2> DEFINE c == Limit(n) \o Offset(m)
  <2>1. /\ Limit(n) \in Seq(PageTokens) /\ Len(Limit(n)) = 2
        /\ Limit(n)[1] = Word("LIMIT") /\ Limit(n)[2] = Number(n)
        /\ Offset(m) \in Seq(PageTokens) /\ Len(Offset(m)) = 2
        /\ Offset(m)[1] = Word("OFFSET") /\ Offset(m)[2] = Number(m)
    BY SentenceParts
  <2>2. /\ c \in Seq(PageTokens) /\ Len(c) = 4
        /\ c[1] = Word("LIMIT") /\ c[2] = Number(n)
        /\ c[3] = Word("OFFSET") /\ c[4] = Number(m)
    BY <2>1, Joined
  <2>3. Page(Limit(n) \o Offset(m), m, n).clauses = c
    BY DEF Page
  <2> HIDE DEF c
  <2>10. \A u \in Seq(PageTokens) :
          ts = Select \o u \/ ts = Append(Select \o u, Semicolon) <=>
            /\ Opens(ts)
            /\ \A i \in 1..Len(u) : 4 + i \in DOMAIN ts /\ ts[4 + i] = u[i]
            /\ EndAt(ts, 5 + Len(u))
    BY SentenceIs
  <2>4. Spells(ts, Page(Limit(n) \o Offset(m), m, n)) <=>
          /\ Opens(ts)
          /\ \A i \in 1..Len(c) : 4 + i \in DOMAIN ts /\ ts[4 + i] = c[i]
          /\ EndAt(ts, 5 + Len(c))
    BY <2>2, <2>3, <2>10, Zenon DEF Spells, Sentence
  <2>5. LimitAt(ts, 5) /\ ts[5 + 1].number = n <=>
          /\ 5 \in DOMAIN ts /\ ts[5] = Word("LIMIT")
          /\ 5 + 1 \in DOMAIN ts /\ ts[5 + 1] = Number(n)
    BY ClauseTokens
  <2>6. OffsetAt(ts, 7) /\ ts[7 + 1].number = m <=>
          /\ 7 \in DOMAIN ts /\ ts[7] = Word("OFFSET")
          /\ 7 + 1 \in DOMAIN ts /\ ts[7 + 1] = Number(m)
    BY ClauseTokens
  <2>7. (\A i \in 1..Len(c) : 4 + i \in DOMAIN ts /\ ts[4 + i] = c[i]) <=>
          /\ 5 \in DOMAIN ts /\ ts[5] = c[1] /\ 5 + 1 \in DOMAIN ts /\ ts[5 + 1] = c[2]
          /\ 7 \in DOMAIN ts /\ ts[7] = c[3] /\ 7 + 1 \in DOMAIN ts /\ ts[7 + 1] = c[4]
    <3>1. \A i \in 1..Len(c) : i = 1 \/ i = 2 \/ i = 3 \/ i = 4
      BY <2>2
    <3>2. 1 \in 1..Len(c) /\ 2 \in 1..Len(c) /\ 3 \in 1..Len(c) /\ 4 \in 1..Len(c)
          /\ 4 + 1 = 5 /\ 4 + 2 = 5 + 1 /\ 4 + 3 = 7 /\ 4 + 4 = 7 + 1
      BY <2>2
    <3> QED BY <3>1, <3>2
  <2>8. 5 + Len(c) = 9 /\ 5 + 1 = 6 /\ 7 + 1 = 8
    BY <2>2
  <2>9. (\A i \in 1..Len(c) : 4 + i \in DOMAIN ts /\ ts[4 + i] = c[i]) <=>
          /\ LimitAt(ts, 5) /\ ts[5 + 1].number = n
          /\ OffsetAt(ts, 7) /\ ts[7 + 1].number = m
    BY <2>2, <2>5, <2>6, <2>7, Zenon
  <2> QED BY <2>4, <2>8, <2>9
<1>2. Spells(ts, Page(Offset(m) \o Limit(n), m, n)) <=>
        /\ Opens(ts) /\ OffsetAt(ts, 5) /\ ts[6].number = m
        /\ LimitAt(ts, 7) /\ ts[8].number = n /\ EndAt(ts, 9)
  <2> DEFINE c == Offset(m) \o Limit(n)
  <2>1. /\ Offset(m) \in Seq(PageTokens) /\ Len(Offset(m)) = 2
        /\ Offset(m)[1] = Word("OFFSET") /\ Offset(m)[2] = Number(m)
        /\ Limit(n) \in Seq(PageTokens) /\ Len(Limit(n)) = 2
        /\ Limit(n)[1] = Word("LIMIT") /\ Limit(n)[2] = Number(n)
    BY SentenceParts
  <2>2. /\ c \in Seq(PageTokens) /\ Len(c) = 4
        /\ c[1] = Word("OFFSET") /\ c[2] = Number(m)
        /\ c[3] = Word("LIMIT") /\ c[4] = Number(n)
    BY <2>1, Joined
  <2>3. Page(Offset(m) \o Limit(n), m, n).clauses = c
    BY DEF Page
  <2> HIDE DEF c
  <2>10. \A u \in Seq(PageTokens) :
          ts = Select \o u \/ ts = Append(Select \o u, Semicolon) <=>
            /\ Opens(ts)
            /\ \A i \in 1..Len(u) : 4 + i \in DOMAIN ts /\ ts[4 + i] = u[i]
            /\ EndAt(ts, 5 + Len(u))
    BY SentenceIs
  <2>4. Spells(ts, Page(Offset(m) \o Limit(n), m, n)) <=>
          /\ Opens(ts)
          /\ \A i \in 1..Len(c) : 4 + i \in DOMAIN ts /\ ts[4 + i] = c[i]
          /\ EndAt(ts, 5 + Len(c))
    BY <2>2, <2>3, <2>10, Zenon DEF Spells, Sentence
  <2>5. OffsetAt(ts, 5) /\ ts[5 + 1].number = m <=>
          /\ 5 \in DOMAIN ts /\ ts[5] = Word("OFFSET")
          /\ 5 + 1 \in DOMAIN ts /\ ts[5 + 1] = Number(m)
    BY ClauseTokens
  <2>6. LimitAt(ts, 7) /\ ts[7 + 1].number = n <=>
          /\ 7 \in DOMAIN ts /\ ts[7] = Word("LIMIT")
          /\ 7 + 1 \in DOMAIN ts /\ ts[7 + 1] = Number(n)
    BY ClauseTokens
  <2>7. (\A i \in 1..Len(c) : 4 + i \in DOMAIN ts /\ ts[4 + i] = c[i]) <=>
          /\ 5 \in DOMAIN ts /\ ts[5] = c[1] /\ 5 + 1 \in DOMAIN ts /\ ts[5 + 1] = c[2]
          /\ 7 \in DOMAIN ts /\ ts[7] = c[3] /\ 7 + 1 \in DOMAIN ts /\ ts[7 + 1] = c[4]
    <3>1. \A i \in 1..Len(c) : i = 1 \/ i = 2 \/ i = 3 \/ i = 4
      BY <2>2
    <3>2. 1 \in 1..Len(c) /\ 2 \in 1..Len(c) /\ 3 \in 1..Len(c) /\ 4 \in 1..Len(c)
          /\ 4 + 1 = 5 /\ 4 + 2 = 5 + 1 /\ 4 + 3 = 7 /\ 4 + 4 = 7 + 1
      BY <2>2
    <3> QED BY <3>1, <3>2
  <2>8. 5 + Len(c) = 9 /\ 5 + 1 = 6 /\ 7 + 1 = 8
    BY <2>2
  <2>9. (\A i \in 1..Len(c) : 4 + i \in DOMAIN ts /\ ts[4 + i] = c[i]) <=>
          /\ OffsetAt(ts, 5) /\ ts[5 + 1].number = m
          /\ LimitAt(ts, 7) /\ ts[7 + 1].number = n
    BY <2>2, <2>5, <2>6, <2>7, Zenon
  <2> QED BY <2>4, <2>8, <2>9
<1> QED BY <1>1, <1>2

\* The pages of the grammar.
LEMMA PagesAre ==
  \A p : p \in Pages <=>
    \/ p = Page(<<>>, 0, NoLimit)
    \/ \E n \in PageNumbers : p = Page(Limit(n), 0, n)
    \/ \E n \in PageNumbers : p = Page(Offset(n), n, NoLimit)
    \/ \E m, n \in PageNumbers : p = Page(Limit(n) \o Offset(m), m, n)
    \/ \E m, n \in PageNumbers : p = Page(Offset(m) \o Limit(n), m, n)
<1> SUFFICES ASSUME NEW p
             PROVE  p \in Pages <=>
                      \/ p = Page(<<>>, 0, NoLimit)
                      \/ \E n \in PageNumbers : p = Page(Limit(n), 0, n)
                      \/ \E n \in PageNumbers : p = Page(Offset(n), n, NoLimit)
                      \/ \E m, n \in PageNumbers : p = Page(Limit(n) \o Offset(m), m, n)
                      \/ \E m, n \in PageNumbers : p = Page(Offset(m) \o Limit(n), m, n)
  OBVIOUS
<1>1. /\ \A m, n \in PageNumbers : /\ <<m, n>> \in PageNumbers \X PageNumbers
                                   /\ <<m, n>>[1] = m /\ <<m, n>>[2] = n
      /\ \A q \in PageNumbers \X PageNumbers : q[1] \in PageNumbers /\ q[2] \in PageNumbers
  OBVIOUS
<1>2. (\E q \in PageNumbers \X PageNumbers : p = Page(Limit(q[2]) \o Offset(q[1]), q[1], q[2])) <=>
         \E m, n \in PageNumbers : p = Page(Limit(n) \o Offset(m), m, n)
  <2>1. ASSUME NEW m \in PageNumbers, NEW n \in PageNumbers, p = Page(Limit(n) \o Offset(m), m, n)
        PROVE  \E q \in PageNumbers \X PageNumbers : p = Page(Limit(q[2]) \o Offset(q[1]), q[1], q[2])
    <3> WITNESS <<m, n>> \in PageNumbers \X PageNumbers
    <3> QED BY <1>1, <2>1, Zenon
  <2>2. ASSUME NEW q \in PageNumbers \X PageNumbers, p = Page(Limit(q[2]) \o Offset(q[1]), q[1], q[2])
        PROVE  \E m, n \in PageNumbers : p = Page(Limit(n) \o Offset(m), m, n)
    <3>1. q[1] \in PageNumbers /\ q[2] \in PageNumbers
      BY <1>1
    <3> QED BY <2>2, <3>1, Zenon
  <2> QED BY <2>1, <2>2, Zenon
<1>3. (\E q \in PageNumbers \X PageNumbers : p = Page(Offset(q[1]) \o Limit(q[2]), q[1], q[2])) <=>
         \E m, n \in PageNumbers : p = Page(Offset(m) \o Limit(n), m, n)
  <2>1. ASSUME NEW m \in PageNumbers, NEW n \in PageNumbers, p = Page(Offset(m) \o Limit(n), m, n)
        PROVE  \E q \in PageNumbers \X PageNumbers : p = Page(Offset(q[1]) \o Limit(q[2]), q[1], q[2])
    <3> WITNESS <<m, n>> \in PageNumbers \X PageNumbers
    <3> QED BY <1>1, <2>1, Zenon
  <2>2. ASSUME NEW q \in PageNumbers \X PageNumbers, p = Page(Offset(q[1]) \o Limit(q[2]), q[1], q[2])
        PROVE  \E m, n \in PageNumbers : p = Page(Offset(m) \o Limit(n), m, n)
    <3>1. q[1] \in PageNumbers /\ q[2] \in PageNumbers
      BY <1>1
    <3> QED BY <2>2, <3>1, Zenon
  <2> QED BY <2>1, <2>2, Zenon
<1> QED BY <1>2, <1>3, Zenon DEF Pages

\* The sentences are what the loop reads.
LEMMA SentencesRead ==
  ASSUME NEW X, \A t \in X : IsToken(t), NEW ts \in Seq(X)
  PROVE  \A o, l : (\E p \in Pages : p.offset = o /\ p.limit = l /\ Spells(ts, p)) <=>
                     Opens(ts) /\ Reads(ts, o, l)
<1>1. \A c, o, l : Page(c, o, l).offset = o /\ Page(c, o, l).limit = l
  BY DEF Page
<1>2. ASSUME NEW p \in Pages, Spells(ts, p)
      PROVE  Opens(ts) /\ Reads(ts, p.offset, p.limit)
  <2>1. CASE p = Page(<<>>, 0, NoLimit)
    BY <1>1, <1>2, <2>1, ShortSentences DEF Reads
  <2>2. ASSUME NEW n \in PageNumbers, p = Page(Limit(n), 0, n)
        PROVE  Opens(ts) /\ Reads(ts, p.offset, p.limit)
    BY <1>1, <1>2, <2>2, ShortSentences DEF Reads
  <2>3. ASSUME NEW n \in PageNumbers, p = Page(Offset(n), n, NoLimit)
        PROVE  Opens(ts) /\ Reads(ts, p.offset, p.limit)
    BY <1>1, <1>2, <2>3, ShortSentences DEF Reads
  <2>4. ASSUME NEW m \in PageNumbers, NEW n \in PageNumbers, p = Page(Limit(n) \o Offset(m), m, n)
        PROVE  Opens(ts) /\ Reads(ts, p.offset, p.limit)
    BY <1>1, <1>2, <2>4, LongSentences DEF Reads
  <2>5. ASSUME NEW m \in PageNumbers, NEW n \in PageNumbers, p = Page(Offset(m) \o Limit(n), m, n)
        PROVE  Opens(ts) /\ Reads(ts, p.offset, p.limit)
    BY <1>1, <1>2, <2>5, LongSentences DEF Reads
  <2>6. \/ p = Page(<<>>, 0, NoLimit)
        \/ \E n \in PageNumbers : p = Page(Limit(n), 0, n)
        \/ \E n \in PageNumbers : p = Page(Offset(n), n, NoLimit)
        \/ \E m, n \in PageNumbers : p = Page(Limit(n) \o Offset(m), m, n)
        \/ \E m, n \in PageNumbers : p = Page(Offset(m) \o Limit(n), m, n)
    BY PagesAre
  <2> QED BY <2>1, <2>2, <2>3, <2>4, <2>5, <2>6, Zenon
<1>3. ASSUME NEW o, NEW l, Opens(ts), Reads(ts, o, l)
      PROVE  \E p \in Pages : p.offset = o /\ p.limit = l /\ Spells(ts, p)
  <2>1. \A i \in Nat : LimitAt(ts, i) \/ OffsetAt(ts, i) => ts[i + 1].number \in PageNumbers
    BY ClauseTokens
  <2>2. /\ LimitAt(ts, 5) \/ OffsetAt(ts, 5) => ts[6].number \in PageNumbers
        /\ LimitAt(ts, 7) \/ OffsetAt(ts, 7) => ts[8].number \in PageNumbers
    <3>1. 5 \in Nat /\ 7 \in Nat /\ 5 + 1 = 6 /\ 7 + 1 = 8
      OBVIOUS
    <3> QED BY <2>1, <3>1
  <2>3. CASE EndAt(ts, 5) /\ o = 0 /\ l = NoLimit
    <3>1. Spells(ts, Page(<<>>, 0, NoLimit)) /\ Page(<<>>, 0, NoLimit) \in Pages
      BY <1>3, <2>3, ShortSentences, PagesAre
    <3> QED BY <1>1, <2>3, <3>1
  <2>4. CASE LimitAt(ts, 5) /\ EndAt(ts, 7) /\ o = 0 /\ l = ts[6].number
    <3>1. Spells(ts, Page(Limit(l), 0, l)) /\ Page(Limit(l), 0, l) \in Pages
      BY <1>3, <2>2, <2>4, ShortSentences, PagesAre
    <3> QED BY <1>1, <2>4, <3>1
  <2>5. CASE OffsetAt(ts, 5) /\ EndAt(ts, 7) /\ o = ts[6].number /\ l = NoLimit
    <3>1. Spells(ts, Page(Offset(o), o, NoLimit)) /\ Page(Offset(o), o, NoLimit) \in Pages
      BY <1>3, <2>2, <2>5, ShortSentences, PagesAre
    <3> QED BY <1>1, <2>5, <3>1
  <2>6. CASE LimitAt(ts, 5) /\ OffsetAt(ts, 7) /\ EndAt(ts, 9) /\ o = ts[8].number /\ l = ts[6].number
    <3>1. Spells(ts, Page(Limit(l) \o Offset(o), o, l)) /\ Page(Limit(l) \o Offset(o), o, l) \in Pages
      BY <1>3, <2>2, <2>6, LongSentences, PagesAre
    <3> QED BY <1>1, <3>1
  <2>7. CASE OffsetAt(ts, 5) /\ LimitAt(ts, 7) /\ EndAt(ts, 9) /\ o = ts[6].number /\ l = ts[8].number
    <3>1. Spells(ts, Page(Offset(o) \o Limit(l), o, l)) /\ Page(Offset(o) \o Limit(l), o, l) \in Pages
      BY <1>3, <2>2, <2>7, LongSentences, PagesAre
    <3> QED BY <1>1, <3>1
  <2> QED BY <1>3, <2>3, <2>4, <2>5, <2>6, <2>7 DEF Reads
<1> QED BY <1>2, <1>3



\* Stripping one semicolon.
Unglued(t) == [word |-> t.word, number |-> t.number, semis |-> t.semis - 1]

\* What Stripped changes.
LEMMA StrippedIs ==
  ASSUME NEW X, \A t \in X : IsToken(t), NEW ts \in Seq(X), Len(ts) > 0
  PROVE  LET n == Len(ts)
         IN  /\ ts[n].semis = 0 \/ ts[n] = Semicolon => Stripped(ts) = ts
             /\ ts[n].semis # 0 /\ ts[n] # Semicolon =>
                  /\ Stripped(ts) \in Seq(X \cup {Unglued(ts[n])}) /\ Len(Stripped(ts)) = n
                  /\ Stripped(ts)[n] = Unglued(ts[n]) /\ IsToken(Unglued(ts[n]))
                  /\ \A i \in 1..(n - 1) : Stripped(ts)[i] = ts[i]
<1> DEFINE n == Len(ts)
<1>1. n \in DOMAIN ts /\ n \in Nat /\ IsToken(ts[n]) /\ Last(ts) = ts[n]
  BY DEF Last
<1>2. ASSUME ts[n].semis = 0 \/ ts[n] = Semicolon PROVE Stripped(ts) = ts
  BY <1>1, <1>2 DEF Stripped
<1>3. ASSUME ts[n].semis # 0, ts[n] # Semicolon
      PROVE  /\ Stripped(ts) \in Seq(X \cup {Unglued(ts[n])}) /\ Len(Stripped(ts)) = n
             /\ Stripped(ts)[n] = Unglued(ts[n]) /\ IsToken(Unglued(ts[n]))
             /\ \A i \in 1..(n - 1) : Stripped(ts)[i] = ts[i]
  <2>1. ts[n].semis \in Nat /\ ts[n].semis > 0
    BY <1>1, <1>3 DEF IsToken
  <2>2. Stripped(ts) = [ts EXCEPT ![n] = [ts[n] EXCEPT !.semis = @ - 1]]
    BY <1>1, <1>3, <2>1 DEF Stripped
  <2>3. [ts[n] EXCEPT !.semis = @ - 1] = Unglued(ts[n])
    BY <1>1 DEF IsToken, Unglued
  <2>4. IsToken(Unglued(ts[n]))
    BY <1>1, <2>1 DEF IsToken, Unglued
  <2>5. Stripped(ts) = [ts EXCEPT ![n] = Unglued(ts[n])]
    BY <2>2, <2>3
  <2> QED BY <1>1, <2>4, <2>5
<1> QED BY <1>1, <1>2, <1>3

\* What a glued semicolon makes of a last token.
LEMMA GluedIs ==
  ASSUME NEW t, IsToken(t)
  PROVE  /\ Glued(t) = [word |-> t.word, number |-> t.number, semis |-> t.semis + 1]
         /\ IsToken(Glued(t)) /\ Unglued(Glued(t)) = t /\ Glued(t).semis # 0
         /\ t.word # "" => Glued(t) # Semicolon
<1>1. Glued(t) = [word |-> t.word, number |-> t.number, semis |-> t.semis + 1]
  BY DEF Glued, IsToken
<1>2. t.semis \in Nat /\ t = [word |-> t.word, number |-> t.number, semis |-> t.semis]
  BY DEF IsToken
<1>3. IsToken(Glued(t)) /\ Glued(t).semis # 0 /\ Glued(t).word = t.word
  BY <1>1, <1>2 DEF IsToken
<1>4. Unglued(Glued(t)) = t
  BY <1>1, <1>2 DEF Unglued
<1>5. Semicolon.word = ""
  BY DEF Semicolon, Token
<1> QED BY <1>1, <1>3, <1>4, <1>5, Zenon

\* The last token of s is a word without semicolons.
Ends(s) == s[Len(s)].semis = 0 /\ s[Len(s)].word # ""



\* The semicolon that is a token, and two of them.
LEMMA SemicolonIs ==
  /\ IsToken(Semicolon) /\ Unglued(Glued(Semicolon)) = Semicolon
  /\ Glued(Semicolon).semis # 0 /\ Glued(Semicolon) # Semicolon
<1>1. \A t : IsToken(t) => Unglued(Glued(t)) = t /\ Glued(t).semis # 0 /\ Glued(t) # t
  <2> SUFFICES ASSUME NEW t, IsToken(t)
               PROVE  Unglued(Glued(t)) = t /\ Glued(t).semis # 0 /\ Glued(t) # t
    OBVIOUS
  <2>1. Glued(t) = [word |-> t.word, number |-> t.number, semis |-> t.semis + 1]
    BY GluedIs, Zenon
  <2>2. t.semis \in Nat
    BY DEF IsToken
  <2>3. Glued(t).semis # t.semis
    BY <2>1, <2>2
  <2> QED BY <2>3, GluedIs, Zenon
<1> QED BY <1>1, TokenTypes, Zenon

\* u is ts without a semicolon glued to its last token.
IsList(s) == Len(s) \in Nat /\ s = [i \in 1..Len(s) |-> s[i]]

Peels(ts, u) ==
    LET n == Len(ts)
    IN  /\ IsList(ts) /\ IsList(u) /\ n > 0 /\ Len(u) = n
        /\ u[n] = Unglued(ts[n]) /\ ts[n] = Glued(u[n])
        /\ \A i \in 1..(n - 1) : u[i] = ts[i]

\* Each of the two determines the other.
LEMMA OneGlued ==
  ASSUME NEW ts, NEW u, NEW t2, NEW u2, Peels(ts, u), Peels(t2, u2)
  PROVE  ts = t2 <=> u = u2
<1>1. \A j \in Nat : j > 0 => j \in 1..j /\ \A i \in 1..j : i = j \/ i \in 1..(j - 1)
  OBVIOUS
<1>2. \A p, q : IsList(p) /\ IsList(q) /\ Len(p) = Len(q) /\ (\A i \in 1..Len(p) : p[i] = q[i]) => p = q
  BY DEF IsList
<1>3. ASSUME ts = t2 PROVE u = u2
  <2>1. Len(u) = Len(u2) /\ \A i \in 1..Len(u) : u[i] = u2[i]
    BY <1>1, <1>3, Zenon DEF Peels, IsList
  <2> QED BY <1>2, <2>1, Zenon DEF Peels
<1>4. ASSUME u = u2 PROVE ts = t2
  <2>1. Len(ts) = Len(t2) /\ \A i \in 1..Len(ts) : ts[i] = t2[i]
    BY <1>1, <1>4, Zenon DEF Peels, IsList
  <2> QED BY <1>2, <2>1, Zenon DEF Peels
<1> QED BY <1>3, <1>4

\* A list is accepted for a sentence exactly if it is one when stripped.
LEMMA AcceptedIs ==
  ASSUME NEW X, \A t \in X : IsToken(t), NEW ts \in Seq(X), Len(ts) > 0,
         NEW Y, \A t \in Y : IsToken(t), NEW s \in Seq(Y), Len(s) > 0, Ends(s)
  PROVE  ts \in Terminated(s) \cup TerminatedTwice(s) <=>
           Stripped(ts) = s \/ Stripped(ts) = Append(s, Semicolon)
<1> DEFINE n == Len(ts)
           m == Len(s)
           glued == [s EXCEPT ![m] = Glued(@)]
           closed == Append(s, Semicolon)
           twice == Append(s, Glued(Semicolon))
           u == Stripped(ts)
<1>1. n \in Nat /\ m \in Nat /\ n > 0 /\ m > 0 /\ IsToken(ts[n]) /\ IsToken(s[m]) /\ m \in DOMAIN s
      /\ ts \in Seq(X) /\ s \in Seq(Y)
  OBVIOUS
<1>2. ts \in Terminated(s) \cup TerminatedTwice(s) <=>
        ts = s \/ ts = closed \/ ts = glued \/ ts = twice
  BY DEF Terminated, TerminatedTwice
<1>3. /\ Unglued(Glued(Semicolon)) = Semicolon
      /\ Glued(Semicolon).semis # 0 /\ Glued(Semicolon) # Semicolon
  BY SemicolonIs, Zenon
<1>4. /\ glued \in Seq(Y \cup {Glued(s[m])}) /\ Len(glued) = m /\ glued[m] = Glued(s[m])
      /\ \A i \in 1..(m - 1) : glued[i] = s[i]
  BY <1>1
<1>5. /\ twice \in Seq(Y \cup {Glued(Semicolon)}) /\ Len(twice) = m + 1
      /\ twice[m + 1] = Glued(Semicolon) /\ \A i \in 1..m : twice[i] = s[i]
  BY <1>1
<1>6. /\ closed \in Seq(Y \cup {Semicolon}) /\ Len(closed) = m + 1 /\ closed[m + 1] = Semicolon
      /\ \A i \in 1..m : closed[i] = s[i]
  BY <1>1
<1>7. /\ Glued(s[m]).semis # 0 /\ Glued(s[m]) # Semicolon /\ Unglued(Glued(s[m])) = s[m]
      /\ s[m].semis = 0
  BY <1>1, GluedIs, Zenon DEF Ends
<1>8. \A t : IsToken(t) /\ IsToken(Unglued(t)) => t = Glued(Unglued(t))
  BY DEF IsToken, Unglued, Glued
<1>9. ts[n].semis = 0 \/ ts[n] = Semicolon => u = ts
  BY StrippedIs, Zenon
<1>10. ts[n].semis # 0 /\ ts[n] # Semicolon =>
         /\ u \in Seq(X \cup {Unglued(ts[n])}) /\ Len(u) = n
         /\ u[n] = Unglued(ts[n]) /\ IsToken(Unglued(ts[n]))
         /\ \A i \in 1..(n - 1) : u[i] = ts[i]
  BY StrippedIs, Zenon
<1> HIDE DEF glued, closed, twice, u
<1>11. CASE ts[n].semis = 0 \/ ts[n] = Semicolon
  <2>1. ts # glued
    BY <1>4, <1>7, <1>11, Zenon
  <2>2. ts # twice
    BY <1>3, <1>5, <1>11, Zenon
  <2> QED BY <1>2, <1>9, <1>11, <2>1, <2>2, Zenon DEF u, closed
<1>12. CASE ts[n].semis # 0 /\ ts[n] # Semicolon
  <2>1. ts # s /\ ts # closed
    BY <1>6, <1>7, <1>12, Zenon
  <2>2. /\ u \in Seq(X \cup {Unglued(ts[n])}) /\ Len(u) = n
        /\ u[n] = Unglued(ts[n]) /\ \A i \in 1..(n - 1) : u[i] = ts[i]
        /\ ts[n] = Glued(u[n])
    BY <1>1, <1>8, <1>10, <1>12, Zenon
  <2>3. Peels(ts, u)
    <3>1. IsList(ts) /\ IsList(u)
      BY <2>2 DEF IsList
    <3> QED BY <1>1, <2>2, <3>1, Zenon DEF Peels
  <2>4. ts = glued <=> u = s
    <3>1. IsList(glued) /\ IsList(s)
      BY <1>4 DEF IsList
    <3>2. Peels(glued, s)
      BY <1>1, <1>4, <1>7, <3>1, Zenon DEF Peels
    <3> QED BY <2>3, <3>2, OneGlued, Zenon
  <2>5. ts = twice <=> u = closed
    <3>1. IsList(twice) /\ IsList(closed)
      BY <1>5, <1>6 DEF IsList
    <3>2. m + 1 > 0 /\ (m + 1) - 1 = m
      BY <1>1
    <3>3. Peels(twice, closed)
      BY <1>3, <1>5, <1>6, <3>1, <3>2, Zenon DEF Peels
    <3> QED BY <2>3, <3>3, OneGlued, Zenon
  <2> QED BY <1>2, <2>1, <2>4, <2>5, Zenon DEF u, closed
<1> QED BY <1>11, <1>12

\* Every sentence is a list of words and numbers without semicolons.
LEMMA SentenceTokens ==
  \A p \in Pages : /\ Sentence(p) \in Seq(PageTokens) /\ Len(Sentence(p)) >= 4
                   /\ Ends(Sentence(p))
<1>1. ASSUME NEW t \in PageTokens PROVE t.semis = 0 /\ t.word # ""
  <2>1. \A w : Word(w).semis = 0 /\ Word(w).word = w
    BY DEF Word, Token
  <2>2. \A n : Number(n).semis = 0 /\ Number(n).word = "number"
    BY DEF Number
  <2>3. "number" # ""
    OBVIOUS
  <2>4. \A w : w # "" => Word(w).semis = 0 /\ Word(w).word # ""
    BY <2>1, Zenon
  <2>5. \A n : Number(n).semis = 0 /\ Number(n).word # ""
    BY <2>2, <2>3, Zenon
  <2>6. \/ t = Word("SELECT") \/ t = Word("*") \/ t = Word("FROM")
        \/ t = Word("keys") \/ t = Word("LIMIT") \/ t = Word("OFFSET")
        \/ \E n \in PageNumbers : t = Number(n)
    BY DEF PageTokens
  <2>7. /\ "SELECT" # "" /\ "*" # "" /\ "FROM" # "" /\ "keys" # "" /\ "LIMIT" # "" /\ "OFFSET" # ""
    OBVIOUS
  <2> QED BY <2>4, <2>5, <2>6, <2>7, Zenon
<1>2. ASSUME NEW s \in Seq(PageTokens), Len(s) >= 4 PROVE Ends(s)
  <2>1. s[Len(s)] \in PageTokens
    BY <1>2
  <2> QED BY <1>1, <2>1, Zenon DEF Ends
<1>3. \A c \in Seq(PageTokens) : Select \o c \in Seq(PageTokens) /\ Len(Select \o c) >= 4
  <2>1. \A c, d \in Seq(PageTokens) : d \o c \in Seq(PageTokens) /\ Len(d \o c) >= Len(d)
    OBVIOUS
  <2>2. Select \in Seq(PageTokens) /\ Len(Select) = 4
    BY SentenceParts
  <2> QED BY <2>1, <2>2
<1>4. ASSUME NEW p \in Pages PROVE p.clauses \in Seq(PageTokens)
  <2>1. \A c, o, l : Page(c, o, l).clauses = c
    BY DEF Page
  <2>2. \A n \in PageNumbers : Limit(n) \in Seq(PageTokens) /\ Offset(n) \in Seq(PageTokens)
    BY SentenceParts
  <2>3. \A m, n \in PageNumbers : /\ Limit(n) \o Offset(m) \in Seq(PageTokens)
                                  /\ Offset(m) \o Limit(n) \in Seq(PageTokens)
    <3>1. \A c, d \in Seq(PageTokens) : d \o c \in Seq(PageTokens)
      OBVIOUS
    <3> QED BY <2>2, <3>1, Zenon
  <2>4. <<>> \in Seq(PageTokens)
    OBVIOUS
  <2>5. \/ p = Page(<<>>, 0, NoLimit)
        \/ \E n \in PageNumbers : p = Page(Limit(n), 0, n)
        \/ \E n \in PageNumbers : p = Page(Offset(n), n, NoLimit)
        \/ \E m, n \in PageNumbers : p = Page(Limit(n) \o Offset(m), m, n)
        \/ \E m, n \in PageNumbers : p = Page(Offset(m) \o Limit(n), m, n)
    BY PagesAre
  <2>6. CASE p = Page(<<>>, 0, NoLimit)
    BY <2>1, <2>4, <2>6
  <2>7. CASE \E n \in PageNumbers : p = Page(Limit(n), 0, n)
    BY <2>1, <2>2, <2>7
  <2>8. CASE \E n \in PageNumbers : p = Page(Offset(n), n, NoLimit)
    BY <2>1, <2>2, <2>8
  <2>9. CASE \E m, n \in PageNumbers : p = Page(Limit(n) \o Offset(m), m, n)
    <3>1. PICK m, n \in PageNumbers : p = Page(Limit(n) \o Offset(m), m, n)
      BY <2>9
    <3>2. p.clauses = Limit(n) \o Offset(m)
      BY <2>1, <3>1, Zenon
    <3> QED BY <2>3, <3>2, Zenon
  <2>10. CASE \E m, n \in PageNumbers : p = Page(Offset(m) \o Limit(n), m, n)
    <3>1. PICK m, n \in PageNumbers : p = Page(Offset(m) \o Limit(n), m, n)
      BY <2>10
    <3>2. p.clauses = Offset(m) \o Limit(n)
      BY <2>1, <3>1, Zenon
    <3> QED BY <2>3, <3>2, Zenon
  <2> QED BY <2>5, <2>6, <2>7, <2>8, <2>9, <2>10
<1>5. \A p \in Pages : Sentence(p) \in Seq(PageTokens) /\ Len(Sentence(p)) >= 4
  BY <1>3, <1>4 DEF Sentence
<1> QED BY <1>2, <1>5

\* What the statement's tokens have to be for the sentence p.
LEMMA AcceptedSpells ==
  ASSUME NEW X, \A t \in X : IsToken(t), NEW ts \in Seq(X), Len(ts) > 0, NEW p \in Pages
  PROVE  ts \in Accepted(p) <=> Spells(Stripped(ts), p)
<1>1. \A t \in PageTokens : IsToken(t)
  BY SentenceParts
<1>2. Sentence(p) \in Seq(PageTokens) /\ Len(Sentence(p)) >= 4 /\ Ends(Sentence(p))
  BY SentenceTokens
<1> DEFINE s == Sentence(p)
<1>3. s \in Seq(PageTokens) /\ Len(s) > 0 /\ Ends(s)
  BY <1>2
<1> HIDE DEF s
<1>4. ts \in Terminated(s) \cup TerminatedTwice(s) <=>
        Stripped(ts) = s \/ Stripped(ts) = Append(s, Semicolon)
  BY <1>1, <1>3, AcceptedIs, Zenon
<1>5. Accepted(p) = Terminated(s) \cup TerminatedTwice(s)
  BY DEF s, Sentence, Accepted
<1> QED BY <1>4, <1>5, Zenon DEF s, Spells


\* What parsing a list of tokens returns: an error only if the grammar has no
\* such sentence, and otherwise the one offset and limit the sentence names.
LEMMA ParseTokensExact ==
  ASSUME NEW X, \A t \in X : IsToken(t), NEW ts \in Seq(X)
  PROVE  \/ ParseTokens(ts) = Redis(ts) /\ ~(Is(ts, 1, "SELECT") /\ Is(ts, 2, "*"))
         \/ ParseTokens(ts) = Invalid /\ \A p \in Pages : ts \notin Accepted(p)
         \/ \E o, l : /\ ParseTokens(ts) = SelectKeys(o, l)
                      /\ \E p \in Pages : p.offset = o /\ p.limit = l /\ ts \in Accepted(p)
                      /\ \A p \in Pages : ts \in Accepted(p) => p.offset = o /\ p.limit = l
<1>1. CASE ~(Is(ts, 1, "SELECT") /\ Is(ts, 2, "*"))
  BY <1>1 DEF ParseTokens
<1>2. CASE Is(ts, 1, "SELECT") /\ Is(ts, 2, "*")
  <2> DEFINE n == Len(ts)
             u == Stripped(ts)
  <2>1. n \in Nat /\ n >= 2 /\ n > 0 /\ ts[n] \in X
    BY <1>2 DEF Is, Has
  <2>2. \E Z : /\ \A t \in Z : IsToken(t)
               /\ u \in Seq(Z) /\ Len(u) = n /\ \A i \in 1..(n - 1) : u[i] = ts[i]
    <3>1. CASE ts[n].semis = 0 \/ ts[n] = Semicolon
      <4>1. u = ts
        BY <2>1, <3>1, StrippedIs, Zenon
      <4>2. u \in Seq(X) /\ Len(u) = n /\ \A i \in 1..(n - 1) : u[i] = ts[i]
        BY <4>1
      <4> QED BY <4>2
    <3>2. CASE ts[n].semis # 0 /\ ts[n] # Semicolon
      <4>1. /\ u \in Seq(X \cup {Unglued(ts[n])}) /\ Len(u) = n /\ IsToken(Unglued(ts[n]))
            /\ \A i \in 1..(n - 1) : u[i] = ts[i]
        BY <2>1, <3>2, StrippedIs, Zenon
      <4>2. \A t \in X \cup {Unglued(ts[n])} : IsToken(t)
        BY <4>1
      <4> QED BY <4>1, <4>2, Zenon
    <3> QED BY <3>1, <3>2, Zenon
  <2>3. PICK Z : /\ \A t \in Z : IsToken(t)
                 /\ u \in Seq(Z) /\ Len(u) = n /\ \A i \in 1..(n - 1) : u[i] = ts[i]
    BY <2>2, Zenon
  <2>4. \A p \in Pages : ts \in Accepted(p) <=> Spells(u, p)
    BY <2>1, AcceptedSpells, Zenon
  <2>5. ParseTokens(ts) = IF Is(u, 3, "FROM") /\ Is(u, 4, "keys") THEN ParseClauses(u) ELSE Invalid
    BY <1>2 DEF ParseTokens, ParseSelect
  <2> HIDE DEF n, u
  <2>6. \A o, l : (\E p \in Pages : p.offset = o /\ p.limit = l /\ Spells(u, p)) <=>
                    Opens(u) /\ Reads(u, o, l)
    BY <2>3, SentencesRead, Zenon
  <2>7. CASE Is(u, 3, "FROM") /\ Is(u, 4, "keys")
    <3>1. n >= 4
      BY <2>3, <2>7 DEF Is, Has
    <3>2. Opens(u)
      <4>1. 1 \in 1..(n - 1) /\ 2 \in 1..(n - 1) /\ 1 \in DOMAIN u /\ 2 \in DOMAIN u
        BY <2>1, <2>3, <3>1
      <4> QED BY <1>2, <2>3, <2>7, <4>1, Zenon DEF Opens, Is, Has
    <3>3. \/ ParseClauses(u) = Invalid /\ \A o, l : ~Reads(u, o, l)
          \/ \E o, l : /\ ParseClauses(u) = SelectKeys(o, l)
                       /\ \A p, q : Reads(u, p, q) <=> p = o /\ q = l
      <4>1. u \in Seq(Z) /\ Len(u) >= 4
        BY <2>3, <3>1
      <4> QED BY <4>1, ClausesAre
    <3>4. CASE ParseClauses(u) = Invalid /\ \A o, l : ~Reads(u, o, l)
      BY <2>4, <2>5, <2>6, <2>7, <3>4, Zenon
    <3>5. ASSUME NEW o, NEW l, ParseClauses(u) = SelectKeys(o, l),
                 \A p, q : Reads(u, p, q) <=> p = o /\ q = l
          PROVE  /\ ParseTokens(ts) = SelectKeys(o, l)
                 /\ \E p \in Pages : p.offset = o /\ p.limit = l /\ ts \in Accepted(p)
                 /\ \A p \in Pages : ts \in Accepted(p) => p.offset = o /\ p.limit = l
      <4>1. ParseTokens(ts) = SelectKeys(o, l)
        BY <2>5, <2>7, <3>5
      <4>2. \E p \in Pages : p.offset = o /\ p.limit = l /\ ts \in Accepted(p)
        BY <2>4, <2>6, <3>2, <3>5, Zenon
      <4>3. ASSUME NEW p \in Pages, ts \in Accepted(p) PROVE p.offset = o /\ p.limit = l
        <5>1. Spells(u, p)
          BY <2>4, <4>3, Zenon
        <5>2. Reads(u, p.offset, p.limit)
          BY <2>6, <5>1, Zenon
        <5> QED BY <3>5, <5>2, Zenon
      <4> QED BY <4>1, <4>2, <4>3
    <3> QED BY <3>3, <3>4, <3>5, Zenon
  <2>8. CASE ~(Is(u, 3, "FROM") /\ Is(u, 4, "keys"))
    <3>1. ~Opens(u)
      BY <2>8 DEF Opens
    <3>2. \A p \in Pages : ts \notin Accepted(p)
      BY <2>4, <2>6, <3>1, Zenon
    <3>3. ParseTokens(ts) = Invalid
      BY <2>5, <2>8
    <3> QED BY <3>2, <3>3
  <2> QED BY <2>7, <2>8
<1> QED BY <1>1, <1>2

\* A text of tokens, typed bare or quoted.
TypedTexts(X) == Seq([quoted : BOOLEAN, token : X])

\* Splitting such a text gives tokens.
LEMMA SplitType ==
  ASSUME NEW X, NEW text \in TypedTexts(X)
  PROVE  Split(text) \in Seq(X)
<1>1. [i \in DOMAIN text |-> text[i].token] \in Seq(X)
  <2> DEFINE R == [quoted : BOOLEAN, token : X]
  <2>1. text \in Seq(R)
    BY DEF TypedTexts
  <2>2. \A i \in DOMAIN text : text[i].token \in X
    <3>1. \A r \in R : r.token \in X
      OBVIOUS
    <3> HIDE DEF R
    <3> QED BY <2>1, <3>1
  <2> HIDE DEF R
  <2>3. DOMAIN text = 1..Len(text) /\ Len(text) \in Nat
    BY <2>1
  <2> QED BY <2>2, <2>3
<1> QED BY <1>1, KeptType, Zenon DEF Split

\* The three answers are told apart by their kind.
LEMMA AnswerKinds ==
  /\ \A ts : Redis(ts).kind = "redis" /\ Redis(ts).tokens = ts
  /\ Invalid.kind = "invalid"
  /\ \A o, l : /\ SelectKeys(o, l).kind = "select"
               /\ SelectKeys(o, l).offset = o /\ SelectKeys(o, l).limit = l
  /\ "redis" # "invalid" /\ "redis" # "select" /\ "select" # "invalid"
BY DEF Redis, Invalid, SelectKeys

\* parse_statement accepts, of the texts of any length, exactly the sentences
\* of the grammar, each with the offset and the limit it names; what it
\* refuses is no sentence.
THEOREM ParseExact ==
  ASSUME NEW X, \A t \in X : IsToken(t), NEW text \in TypedTexts(X)
  PROVE  LET parsed == ParseStatement(text)
             ts == Split(text)
         IN  /\ parsed.kind = "select" =>
                  \E p \in Pages : /\ parsed.offset = p.offset /\ parsed.limit = p.limit
                                   /\ ts \in Accepted(p)
             /\ parsed.kind = "invalid" => \A p \in Pages : ts \notin Accepted(p)
<1> DEFINE a == ParseStatement(text)
           ts == Split(text)
<1> SUFFICES /\ a.kind = "select" =>
                  \E p \in Pages : a.offset = p.offset /\ a.limit = p.limit /\ ts \in Accepted(p)
             /\ a.kind = "invalid" => \A p \in Pages : ts \notin Accepted(p)
  BY Zenon
<1>1. ts \in Seq(X)
  BY SplitType, Zenon
<1>2. CASE text = <<>>
  <2>1. a = Invalid
    BY <1>2 DEF ParseStatement
  <2>2. Len(ts) = 0
    <3>1. text \in Seq({}) /\ \A t : t \notin {}
      BY <1>2
    <3>2. text \in TypedTexts({})
      BY <1>2 DEF TypedTexts
    <3>3. ts \in Seq({})
      BY <3>2, SplitType, Zenon
    <3> HIDE DEF ts
    <3>4. \A s \in Seq({}) : Len(s) = 0
      OBVIOUS
    <3> QED BY <3>3, <3>4, Zenon
  <2>3. ASSUME NEW p \in Pages, ts \in Accepted(p) PROVE FALSE
    <3> DEFINE s == Sentence(p)
    <3>1. s \in Seq(PageTokens) /\ Len(s) >= 4
      BY SentenceTokens
    <3>2. Accepted(p) = {s, Append(s, Semicolon), [s EXCEPT ![Len(s)] = Glued(@)],
                         Append(s, Glued(Semicolon))}
      BY DEF Accepted, Terminated, TerminatedTwice, Sentence
    <3> HIDE DEF s, ts
    <3>3. \A t \in Accepted(p) : Len(t) >= 4
      BY <3>1, <3>2
    <3> QED BY <2>2, <2>3, <3>3
  <2> QED BY <2>1, <2>3, AnswerKinds, Zenon
<1>3. CASE text # <<>>
  <2>1. a = ParseTokens(ts)
    BY <1>3 DEF ParseStatement
  <2> HIDE DEF a, ts
  <2>2. \/ ParseTokens(ts) = Redis(ts)
        \/ ParseTokens(ts) = Invalid /\ \A p \in Pages : ts \notin Accepted(p)
        \/ \E o, l : /\ ParseTokens(ts) = SelectKeys(o, l)
                     /\ \E p \in Pages : p.offset = o /\ p.limit = l /\ ts \in Accepted(p)
    BY <1>1, ParseTokensExact, Zenon
  <2>3. CASE ParseTokens(ts) = Redis(ts)
    BY <2>1, <2>3, AnswerKinds
  <2>4. CASE ParseTokens(ts) = Invalid /\ \A p \in Pages : ts \notin Accepted(p)
    BY <2>1, <2>4, AnswerKinds
  <2>5. ASSUME NEW o, NEW l, ParseTokens(ts) = SelectKeys(o, l),
               \E p \in Pages : p.offset = o /\ p.limit = l /\ ts \in Accepted(p)
        PROVE  /\ a.kind # "invalid"
               /\ \E p \in Pages : a.offset = p.offset /\ a.limit = p.limit /\ ts \in Accepted(p)
    <3>1. a.kind # "invalid" /\ a.offset = o /\ a.limit = l
      BY <2>1, <2>5, AnswerKinds
    <3> QED BY <2>5, <3>1, Zenon
  <2> QED BY <2>2, <2>3, <2>4, <2>5, Zenon
<1> QED BY <1>2, <1>3


\* Rendered tokens are neither comments nor blank.
LEMMA RenderTokenIs ==
  /\ \A t : RenderToken(t).token = t /\ RenderToken(t) # Bare(Hash) /\ RenderToken(t) # Bare(Empty)
  /\ \A t \in PageTokens : Bare(t).token = t /\ Bare(t) # Bare(Hash) /\ Bare(t) # Bare(Empty)
  /\ \A t, X : t \in X => Bare(t) \in [quoted : BOOLEAN, token : X]
  /\ \A t, X : t \in X => RenderToken(t) \in [quoted : BOOLEAN, token : X]
<1>1. \A t : /\ Bare(t).token = t /\ Quoted(t).token = t
             /\ \A X : t \in X => /\ Bare(t) \in [quoted : BOOLEAN, token : X]
                                  /\ Quoted(t) \in [quoted : BOOLEAN, token : X]
  BY DEF Bare, Quoted
<1>2. \A t, u : Quoted(t) # Bare(u)
  BY DEF Bare, Quoted
<1>3. \A t, u : t # u => Bare(t) # Bare(u)
  BY <1>1, Zenon
<1>4. \A t : RenderToken(t) = Quoted(t) \/ (RenderToken(t) = Bare(t) /\ t # Empty /\ t # Hash)
  <2>1. \A w : Word(w).word = w
    BY DEF Word, Token
  <2>2. Hash.word \in {"*", "#"}
    BY <2>1 DEF Hash
  <2> QED BY <2>2, Zenon DEF RenderToken, Quote
<1>5. ASSUME NEW t \in PageTokens PROVE t # Empty /\ t # Hash
  <2>1. \A w : Word(w).word = w
    BY DEF Word, Token
  <2>2. \A n : Number(n).word = "number"
    BY DEF Number
  <2>3. Empty.word = "" /\ Hash.word = "#"
    BY <2>1, Zenon DEF Empty, Hash
  <2>4. t.word \in {"SELECT", "*", "FROM", "keys", "LIMIT", "OFFSET", "number"}
    <3>1. \/ t = Word("SELECT") \/ t = Word("*") \/ t = Word("FROM")
          \/ t = Word("keys") \/ t = Word("LIMIT") \/ t = Word("OFFSET")
          \/ \E n \in PageNumbers : t = Number(n)
      BY DEF PageTokens
    <3> QED BY <2>1, <2>2, <3>1, Zenon
  <2>5. /\ "SELECT" # "" /\ "*" # "" /\ "FROM" # "" /\ "keys" # "" /\ "LIMIT" # "" /\ "OFFSET" # ""
        /\ "SELECT" # "#" /\ "*" # "#" /\ "FROM" # "#" /\ "keys" # "#" /\ "LIMIT" # "#"
        /\ "OFFSET" # "#" /\ "number" # "" /\ "number" # "#"
    OBVIOUS
  <2>6. t.word # "" /\ t.word # "#"
    BY <2>4, <2>5, Zenon
  <2> QED BY <2>3, <2>6, Zenon
<1>6. ASSUME NEW t
      PROVE  /\ RenderToken(t).token = t /\ RenderToken(t) # Bare(Hash) /\ RenderToken(t) # Bare(Empty)
             /\ \A X : t \in X => RenderToken(t) \in [quoted : BOOLEAN, token : X]
  <2>1. CASE RenderToken(t) = Quoted(t)
    <3>1. /\ RenderToken(t).token = t
          /\ \A X : t \in X => RenderToken(t) \in [quoted : BOOLEAN, token : X]
      BY <1>1, <2>1
    <3> QED BY <1>2, <2>1, <3>1, Zenon
  <2>2. CASE RenderToken(t) = Bare(t) /\ t # Empty /\ t # Hash
    <3>1. /\ RenderToken(t).token = t
          /\ \A X : t \in X => RenderToken(t) \in [quoted : BOOLEAN, token : X]
      BY <1>1, <2>2
    <3> QED BY <1>3, <2>2, <3>1, Zenon
  <2> QED BY <1>4, <2>1, <2>2, Zenon
<1>7. \A t \in PageTokens : Bare(t).token = t /\ Bare(t) # Bare(Hash) /\ Bare(t) # Bare(Empty)
  BY <1>1, <1>3, <1>5, Zenon
<1> QED BY <1>1, <1>6, <1>7

\* A text without comments and blank tokens gives its tokens.
LEMMA SplitPlain ==
  ASSUME NEW X, NEW ts \in Seq(X), NEW text, text = [i \in DOMAIN ts |-> text[i]],
         \A i \in DOMAIN ts : /\ text[i].token = ts[i]
                              /\ text[i] # Bare(Hash) /\ text[i] # Bare(Empty)
  PROVE  Split(text) = ts
<1>1. DOMAIN text = DOMAIN ts
  OBVIOUS
<1>2. [i \in DOMAIN text |-> text[i].token] = ts
  <2>1. ts = [i \in DOMAIN ts |-> ts[i]]
    OBVIOUS
  <2> QED BY <1>1, <2>1
<1> DEFINE I == {i \in DOMAIN text : ~Commented(text, i) /\ text[i] # Bare(Empty)}
<1>3. DOMAIN ts \subseteq I
  <2> SUFFICES ASSUME NEW i \in DOMAIN ts PROVE ~Commented(text, i)
    BY <1>1
  <2>1. \A j \in 1..i : j \in DOMAIN ts
    OBVIOUS
  <2> QED BY <2>1 DEF Commented
<1>4. Split(text) = Kept(ts, I)
  BY <1>2 DEF Split
<1> HIDE DEF I
<1> QED BY <1>3, <1>4, KeptAll, Zenon

\* The statement reported for a browse is a sentence for its offset and limit.
LEMMA SelectReported ==
  ASSUME NEW p \in Pages
  PROVE  \E q \in Pages :
           /\ q.offset = p.offset /\ q.limit = p.limit
           /\ Sentence(q) = Select \o LimitClause(p.limit) \o OffsetClause(p.offset, p.limit)
<1> DEFINE o == p.offset
           l == p.limit
<1>1. \A q, c, m, n : q = Page(c, m, n) => q.clauses = c /\ q.offset = m /\ q.limit = n
  BY DEF Page
<1>2. 0 \in PageNumbers /\ NoLimit \notin PageNumbers /\ \A n \in PageNumbers : n \in Nat
  BY StatementAssumption, Zenon
<1>3. o \in PageNumbers /\ (l = NoLimit \/ l \in PageNumbers)
  <2>1. \/ p = Page(<<>>, 0, NoLimit)
        \/ \E n \in PageNumbers : p = Page(Limit(n), 0, n)
        \/ \E n \in PageNumbers : p = Page(Offset(n), n, NoLimit)
        \/ \E m, n \in PageNumbers : p = Page(Limit(n) \o Offset(m), m, n)
        \/ \E m, n \in PageNumbers : p = Page(Offset(m) \o Limit(n), m, n)
    BY PagesAre
  <2>2. CASE p = Page(<<>>, 0, NoLimit)
    <3>1. p.offset = 0 /\ p.limit = NoLimit
      BY <1>1, <2>2, Zenon
    <3> QED BY <1>2, <3>1
  <2>3. CASE \E n \in PageNumbers : p = Page(Limit(n), 0, n)
    BY <1>1, <1>2, <2>3, Zenon
  <2>4. CASE \E n \in PageNumbers : p = Page(Offset(n), n, NoLimit)
    BY <1>1, <2>4, Zenon
  <2>5. CASE \E m, n \in PageNumbers : p = Page(Limit(n) \o Offset(m), m, n)
    BY <1>1, <2>5, Zenon
  <2>6. CASE \E m, n \in PageNumbers : p = Page(Offset(m) \o Limit(n), m, n)
    BY <1>1, <2>6, Zenon
  <2> QED BY <2>1, <2>2, <2>3, <2>4, <2>5, <2>6, Zenon
<1>4. /\ \A a \in Seq(PageTokens) : a \o <<>> = a
      /\ \A a, b, c \in Seq(PageTokens) : (a \o b) \o c = a \o (b \o c)
      /\ Select \in Seq(PageTokens)
      /\ \A n \in PageNumbers : Limit(n) \in Seq(PageTokens) /\ Offset(n) \in Seq(PageTokens)
  <2>1. \A X : \A a \in Seq(X) : a \o <<>> = a
    OBVIOUS
  <2>3. \A a \in Seq(PageTokens) : a \o <<>> = a
    BY <2>1, Zenon
  <2>2. \A X : \A a, b, c \in Seq(X) : (a \o b) \o c = a \o (b \o c)
    OBVIOUS
  <2>5. \A a, b, c \in Seq(PageTokens) : (a \o b) \o c = a \o (b \o c)
    BY <2>2, SMT
  <2>4. /\ Select \in Seq(PageTokens)
        /\ \A n \in PageNumbers : Limit(n) \in Seq(PageTokens) /\ Offset(n) \in Seq(PageTokens)
    BY SentenceParts
  <2> QED BY <2>3, <2>4, <2>5
<1> HIDE DEF o, l
<1>8. \A c, m, n : Sentence(Page(c, m, n)) = Select \o c
  BY DEF Sentence, Page
<1>9. \A q, c, m, n : q = Page(c, m, n) => q.offset = m /\ q.limit = n /\ Sentence(q) = Select \o c
  BY <1>1, <1>8, Zenon
<1>5. CASE l = NoLimit /\ o = 0
  <2>1. LimitClause(l) = <<>> /\ OffsetClause(o, l) = <<>>
    BY <1>2, <1>5 DEF LimitClause, OffsetClause
  <2>2. Page(<<>>, 0, NoLimit) \in Pages
    BY PagesAre
  <2>3. (Select \o <<>>) \o <<>> = Select \o <<>>
    BY <1>4, Zenon
  <2>4. Sentence(Page(<<>>, 0, NoLimit)) = Select \o LimitClause(l) \o OffsetClause(o, l)
    BY <1>8, <2>1, <2>3, Zenon
  <2> QED BY <1>9, <1>5, <2>2, <2>4, Zenon DEF o, l
<1>6. CASE l = NoLimit /\ o # 0
  <2>1. LimitClause(l) = <<>> /\ OffsetClause(o, l) = Offset(o)
    BY <1>2, <1>3, <1>6 DEF LimitClause, OffsetClause
  <2>2. Page(Offset(o), o, NoLimit) \in Pages
    BY <1>3, PagesAre
  <2>3. (Select \o <<>>) \o Offset(o) = Select \o Offset(o)
    BY <1>3, <1>4, Zenon
  <2>4. Sentence(Page(Offset(o), o, NoLimit)) = Select \o LimitClause(l) \o OffsetClause(o, l)
    BY <1>8, <2>1, <2>3, Zenon
  <2> QED BY <1>9, <1>6, <2>2, <2>4, Zenon DEF o, l
<1>7. CASE l \in PageNumbers
  <2>1. LimitClause(l) = Limit(l) /\ OffsetClause(o, l) = Offset(o)
    BY <1>2, <1>7 DEF LimitClause, OffsetClause
  <2>2. Page(Limit(l) \o Offset(o), o, l) \in Pages
    BY <1>3, <1>7, PagesAre
  <2>3. (Select \o Limit(l)) \o Offset(o) = Select \o (Limit(l) \o Offset(o))
    BY <1>3, <1>7, <1>4, Zenon
  <2>4. Sentence(Page(Limit(l) \o Offset(o), o, l)) = Select \o LimitClause(l) \o OffsetClause(o, l)
    BY <1>8, <2>1, <2>3, Zenon
  <2>5. /\ Page(Limit(l) \o Offset(o), o, l).offset = o
        /\ Page(Limit(l) \o Offset(o), o, l).limit = l
    BY <1>9, Zenon
  <2> QED BY <2>2, <2>4, <2>5, Zenon DEF o, l
<1> QED BY <1>3, <1>5, <1>6, <1>7, Zenon

\* The statement reported for a browse parses back to the browse.
LEMMA SelectReplays ==
  ASSUME NEW p \in Pages
  PROVE  ParseStatement(SelectStatement(p.offset, p.limit)) = SelectKeys(p.offset, p.limit)
<1>1. PICK q \in Pages :
        /\ q.offset = p.offset /\ q.limit = p.limit
        /\ Sentence(q) = Select \o LimitClause(p.limit) \o OffsetClause(p.offset, p.limit)
  BY SelectReported
<1> DEFINE s == Sentence(q)
<1>2. s \in Seq(PageTokens) /\ Len(s) >= 4
  BY SentenceTokens
<1>3. SelectStatement(p.offset, p.limit) = Typed(s)
  BY <1>1, Zenon DEF SelectStatement
<1>4. s \in Accepted(q)
  BY DEF Accepted, Terminated, TerminatedTwice, Sentence
<1>5. Is(s, 1, "SELECT") /\ Is(s, 2, "*")
  <2>1. Spells(s, q) /\ \A t \in PageTokens : IsToken(t)
    BY SentenceParts DEF Spells
  <2>2. Opens(s)
    BY <1>2, <2>1, SentencesRead
  <2> QED BY <2>2 DEF Opens
<1> HIDE DEF s
<1>6. Split(Typed(s)) = s
  <2> DEFINE text == Typed(s)
  <2>1. text = [i \in DOMAIN s |-> Bare(s[i])]
    BY DEF Typed
  <2> HIDE DEF text
  <2>2. text = [i \in DOMAIN s |-> text[i]] /\ \A i \in DOMAIN s : s[i] \in PageTokens /\ text[i] = Bare(s[i])
    BY <1>2, <2>1
  <2>3. \A i \in DOMAIN s : /\ text[i].token = s[i]
                            /\ text[i] # Bare(Hash) /\ text[i] # Bare(Empty)
    BY <2>2, RenderTokenIs
  <2>4. Split(text) = s
    BY <1>2, <2>2, <2>3, SplitPlain
  <2> QED BY <2>4 DEF text
<1>7. Typed(s) # <<>>
  BY <1>2 DEF Typed
<1>8. \A t \in PageTokens : IsToken(t)
  BY SentenceParts
<1>9. ParseTokens(s) = SelectKeys(p.offset, p.limit)
  <2>1. \E o, l : /\ ParseTokens(s) = SelectKeys(o, l)
                  /\ \A r \in Pages : s \in Accepted(r) => r.offset = o /\ r.limit = l
    BY <1>2, <1>4, <1>5, <1>8, ParseTokensExact
  <2> QED BY <1>1, <1>4, <2>1, Zenon
<1> QED BY <1>3, <1>6, <1>7, <1>9, Zenon DEF ParseStatement

\* The statement reported for a native command parses back to its tokens.
LEMMA CommandReplays ==
  ASSUME NEW X, NEW ts \in Seq(X), ts # <<>>
  PROVE  ParseStatement(RenderCommand(ts)) = ParseTokens(ts)
<1> DEFINE text == RenderCommand(ts)
<1>1. text = [i \in DOMAIN ts |-> RenderToken(ts[i])]
  BY DEF RenderCommand
<1> HIDE DEF text
<1>2. text = [i \in DOMAIN ts |-> text[i]] /\ \A i \in DOMAIN ts : text[i] = RenderToken(ts[i])
  BY <1>1
<1>3. \A i \in DOMAIN ts : text[i].token = ts[i] /\ text[i] # Bare(Hash) /\ text[i] # Bare(Empty)
  BY <1>2, RenderTokenIs
<1>4. Split(text) = ts
  BY <1>2, <1>3, SplitPlain
<1>5. text # <<>>
  BY <1>1
<1> QED BY <1>4, <1>5, Zenon DEF ParseStatement, text

\* What select_statement and render_command report of an accepted text, of any
\* length, parses back to what was executed.
THEOREM ReportReplays ==
  ASSUME NEW X, \A t \in X : IsToken(t), NEW text \in TypedTexts(X), NEW a,
         a = ParseStatement(text), a.kind # "invalid", a # Redis(<<>>)
  PROVE  ParseStatement(Reported(a)) = a
<1> DEFINE ts == Split(text)
<1>1. ts \in Seq(X)
  BY SplitType, Zenon
<1> HIDE DEF ts
<1>2. a = ParseTokens(ts)
  <2>1. text # <<>>
    BY AnswerKinds DEF ParseStatement
  <2> QED BY <2>1, Zenon DEF ParseStatement, ts
<1>3. \/ ParseTokens(ts) = Redis(ts)
      \/ ParseTokens(ts) = Invalid
      \/ \E o, l : /\ ParseTokens(ts) = SelectKeys(o, l)
                   /\ \E p \in Pages : p.offset = o /\ p.limit = l
  BY <1>1, ParseTokensExact, Zenon
<1>4. CASE ParseTokens(ts) = Redis(ts)
  <2>1. ts # <<>>
    BY <1>2, <1>4
  <2>2. Reported(a) = RenderCommand(ts)
    <3>1. a.kind # "select" /\ a.tokens = ts
      BY <1>2, <1>4, AnswerKinds
    <3> QED BY <3>1, Zenon DEF Reported
  <2> QED BY <1>1, <1>2, <2>1, <2>2, CommandReplays, Zenon
<1>5. CASE ParseTokens(ts) = Invalid
  BY <1>2, <1>5, AnswerKinds
<1>6. ASSUME NEW p \in Pages, ParseTokens(ts) = SelectKeys(p.offset, p.limit)
      PROVE  ParseStatement(Reported(a)) = a
  <2>1. a.kind = "select" /\ a.offset = p.offset /\ a.limit = p.limit
    BY <1>2, <1>6, AnswerKinds
  <2>2. Reported(a) = SelectStatement(p.offset, p.limit)
    BY <2>1, Zenon DEF Reported
  <2> QED BY <1>2, <1>6, <2>2, SelectReplays, Zenon
<1> QED BY <1>3, <1>4, <1>5, <1>6, Zenon

\* The tokens of the texts a behaviour starts from.
PieceTokens ==
    PageTokens \cup ClausePieces \cup {Word("other"), Glued(Word("keys")), Empty, Hash}

\* They are tokens.
LEMMA PieceTypes == \A t \in PieceTokens : IsToken(t)
<1>1. \A t \in PageTokens : IsToken(t)
  BY SentenceParts
<1>2. "other" # "number" /\ "keys" # "number" /\ "LIMIT" # "number" /\ "OFFSET" # "number"
  OBVIOUS
<1>3. IsToken(Word("other")) /\ IsToken(Glued(Word("keys"))) /\ IsToken(Empty) /\ IsToken(Hash)
  BY <1>2, TokenTypes, Zenon
<1>4. IsToken(Word("LIMIT")) /\ IsToken(Word("OFFSET")) /\ IsToken(Semicolon) /\ IsToken(Glued(Semicolon))
  BY <1>2, TokenTypes, Zenon
<1>5. \A n \in PageNumbers : IsToken(Number(n)) /\ IsToken(Glued(Number(n)))
  BY TokenTypes, Zenon
<1>6. \A t \in ClausePieces : IsToken(t)
  BY <1>3, <1>4, <1>5 DEF ClausePieces
<1> QED BY <1>1, <1>3, <1>6 DEF PieceTokens

\* Typed bare, a list of tokens is a text.
LEMMA TypedType == \A X : \A ts \in Seq(X) : Typed(ts) \in TypedTexts(X)
<1> SUFFICES ASSUME NEW X, NEW ts \in Seq(X) PROVE Typed(ts) \in TypedTexts(X)
  OBVIOUS
<1> DEFINE R == [quoted : BOOLEAN, token : X]
<1>1. \A i \in DOMAIN ts : ts[i] \in X
  OBVIOUS
<1>2. \A i \in DOMAIN ts : Bare(ts[i]) \in R
  BY <1>1, RenderTokenIs, Zenon
<1> HIDE DEF R
<1>3. [i \in DOMAIN ts |-> Bare(ts[i])] \in Seq(R)
  BY <1>2
<1> QED BY <1>3 DEF Typed, TypedTexts, R

\* The texts a behaviour starts from are texts of these tokens.
LEMMA TextsTyped == StatementTexts \subseteq TypedTexts(PieceTokens)
<1>1. \A X : \A n : \A s \in BoundedSeq(X, n) : s \in Seq(X)
  BY DEF BoundedSeq, SeqOf
<1>2. \A t \in ClausePieces : t \in PieceTokens
  BY DEF PieceTokens
<1>3. \A n : \A t \in BoundedSeq(ClausePieces, n) : t \in Seq(PieceTokens)
  <2>1. \A X, Y : (\A t \in X : t \in Y) => \A s \in Seq(X) : s \in Seq(Y)
    OBVIOUS
  <2> QED BY <1>1, <1>2, <2>1, Zenon
<1>4. \A s, t \in Seq(PieceTokens) : s \o t \in Seq(PieceTokens)
  BY Concat
<1>5. Select \in Seq(PieceTokens)
  BY DEF Select, PieceTokens, PageTokens
<1>6. ASSUME NEW h \in BrokenHeads PROVE h \in Seq(PieceTokens)
  <2>1. \A n \in 1..3 : SubSeq(Select, 1, n) \in Seq(PieceTokens)
    <3>1. Len(Select) = 4
      BY SentenceParts
    <3>2. \A s \in Seq(PieceTokens) : \A n \in Nat : n <= Len(s) => SubSeq(s, 1, n) \in Seq(PieceTokens)
      OBVIOUS
    <3>3. \A n \in 1..3 : n \in Nat /\ n <= 4
      OBVIOUS
    <3> QED BY <1>5, <3>1, <3>2, <3>3, Zenon
  <2>2. \A t \in {Word("SELECT"), Word("*"), Word("FROM"), Word("keys"), Word("other"), Glued(Word("keys"))} :
          t \in PieceTokens
    BY DEF PieceTokens, PageTokens
  <2>3. \A n \in PageNumbers : Number(n) \in PieceTokens
    BY DEF PieceTokens, PageTokens
  <2>4. \A a, b \in PieceTokens : <<a, b>> \in Seq(PieceTokens)
    OBVIOUS
  <2>5. \A a, b, c, d \in PieceTokens : <<a, b, c, d>> \in Seq(PieceTokens)
    OBVIOUS
  <2>6. \A n \in PageNumbers : <<Word("SELECT"), Number(n)>> \in Seq(PieceTokens)
    BY <2>2, <2>3, <2>4
  <2>7. /\ <<Word("SELECT"), Word("*"), Word("other"), Word("keys")>> \in Seq(PieceTokens)
        /\ <<Word("SELECT"), Word("*"), Word("FROM"), Word("other")>> \in Seq(PieceTokens)
        /\ <<Word("SELECT"), Word("*"), Word("FROM"), Glued(Word("keys"))>> \in Seq(PieceTokens)
    BY <2>2, <2>5
  <2> QED BY <2>1, <2>6, <2>7 DEF BrokenHeads
<1>7. ASSUME NEW t \in BoundedSeq(NativePieces, 3) PROVE t \in TypedTexts(PieceTokens)
  <2> DEFINE R == [quoted : BOOLEAN, token : PieceTokens]
  <2>1. Word("SELECT") \in PieceTokens /\ Word("other") \in PieceTokens /\ Word("*") \in PieceTokens
        /\ Empty \in PieceTokens /\ Hash \in PieceTokens /\ Semicolon \in PieceTokens
    BY DEF PieceTokens, PageTokens, ClausePieces
  <2>2. \A u \in PieceTokens : Bare(u) \in R /\ Quoted(u) \in R
    BY DEF Bare, Quoted
  <2> HIDE DEF R
  <2>3. \A u \in NativePieces : u \in R
    BY <2>1, <2>2 DEF NativePieces
  <2>4. t \in Seq(NativePieces)
    BY <1>1
  <2>5. t \in Seq(R)
    BY <2>3, <2>4
  <2> QED BY <2>5 DEF TypedTexts, R
<1>8. \A t \in BoundedSeq(ClausePieces, MaxTail) : Typed(Select \o t) \in TypedTexts(PieceTokens)
  BY <1>3, <1>4, <1>5, TypedType, Zenon
<1>9. \A h \in BrokenHeads, t \in BoundedSeq(ClausePieces, 1) : Typed(h \o t) \in TypedTexts(PieceTokens)
  BY <1>3, <1>4, <1>6, TypedType, Zenon
<1> QED BY <1>7, <1>8, <1>9 DEF StatementTexts


\* The two classifications are opposites.
LEMMA SafeOrSensitive ==
  /\ Safe.replayable = ~Safe.sensitive /\ Sensitive.replayable = ~Sensitive.sensitive
  /\ \A n \in Nat : StatementMetadata(n = 0, n > 0) = IF n = 0 THEN Safe ELSE Sensitive
<1>1. Safe.replayable = ~Safe.sensitive /\ Sensitive.replayable = ~Sensitive.sensitive
  BY DEF Safe, Sensitive, StatementMetadata
<1>2. ASSUME NEW n \in Nat
      PROVE  StatementMetadata(n = 0, n > 0) = IF n = 0 THEN Safe ELSE Sensitive
  <2>1. CASE n = 0
    <3>1. (n = 0) = TRUE /\ (n > 0) = FALSE
      BY <2>1
    <3> QED BY <2>1, <3>1, Zenon DEF Safe
  <2>2. CASE n # 0
    <3>1. (n = 0) = FALSE /\ (n > 0) = TRUE
      BY <2>2
    <3> QED BY <2>2, <3>1, Zenon DEF Sensitive
  <2> QED BY <2>1, <2>2
<1> QED BY <1>1, <1>2

\* What a verb that Redis documents with a stored value is, and one without.
Stores(v) == v # "PING" /\ ~IsReadOnly(v) /\ (v \in SENSITIVE_COMMANDS \/ v \notin SAFE_WRITE_COMMANDS)
Plain(v) == v # "PING" /\ (IsReadOnly(v) \/ v \in SAFE_WRITE_COMMANDS \ SENSITIVE_COMMANDS)

\* The branches of command_metadata.
LEMMA MetadataIs ==
  ASSUME NEW v, NEW n \in Nat
  PROVE  /\ v = "PING" => CommandMetadata(v, n) = IF n = 0 THEN Safe ELSE Sensitive
         /\ Plain(v) => CommandMetadata(v, n) = Safe
         /\ Stores(v) => CommandMetadata(v, n) = Sensitive
         /\ v = "PING" \/ Plain(v) \/ Stores(v)
<1>1. v = "PING" => CommandMetadata(v, n) = StatementMetadata(n = 0, n > 0)
  BY Zenon DEF CommandMetadata
<1>2. v = "PING" => CommandMetadata(v, n) = IF n = 0 THEN Safe ELSE Sensitive
  BY <1>1, SafeOrSensitive, Zenon
<1> QED BY <1>2, Zenon DEF CommandMetadata, Plain, Stores

\* On which side the verbs stand that the guidance and the row writes use, and
\* the unknown ones.
LEMMA VerbsAre ==
  /\ Plain("TYPE") /\ Plain("GET") /\ Plain("DEL") /\ Plain("EXISTS") /\ Plain("HGETALL")
  /\ Plain("HGET") /\ Plain("LRANGE") /\ Plain("SMEMBERS") /\ Plain("ZRANGE") /\ Plain("SCAN")
  /\ Plain("SELECT")
  /\ Stores("SET") /\ Stores("HSET") /\ Stores("LPUSH") /\ Stores("SADD") /\ Stores("ZADD")
  /\ Stores("EVAL")
  /\ \A v : v \notin Verbs => v # "PING" /\ Stores(v)
<1>1. /\ Plain("TYPE") /\ Plain("GET") /\ Plain("DEL") /\ Plain("EXISTS") /\ Plain("HGETALL")
      /\ Plain("HGET") /\ Plain("LRANGE") /\ Plain("SMEMBERS") /\ Plain("ZRANGE") /\ Plain("SCAN")
      /\ Plain("SELECT")
  BY DEF Plain, IsReadOnly, READ_ONLY_COMMANDS, SAFE_WRITE_COMMANDS, SENSITIVE_COMMANDS
<1>2. /\ Stores("SET") /\ Stores("HSET") /\ Stores("LPUSH") /\ Stores("SADD") /\ Stores("ZADD")
      /\ Stores("EVAL")
  BY DEF Stores, IsReadOnly, READ_ONLY_COMMANDS, SAFE_WRITE_COMMANDS, SENSITIVE_COMMANDS
<1>3. \A v : v \notin Verbs => v # "PING" /\ Stores(v)
  <2>1. "PING" \in READ_ONLY_COMMANDS
    BY DEF READ_ONLY_COMMANDS
  <2> QED BY <2>1 DEF Stores, IsReadOnly, Verbs
<1> QED BY <1>1, <1>2, <1>3

\* The advertised commands and the position of their first value.
LEMMA AdvertisedAre ==
  \A v \in DOMAIN redis_commands :
    \/ v = "PING" /\ FirstPayload(v) = 1
    \/ v # "PING" /\ Plain(v) /\ FirstPayload(v) = 0
    \/ v # "PING" /\ Stores(v) /\ FirstPayload(v) \in Nat /\ FirstPayload(v) > 0
<1>1. /\ redis_commands["TYPE"].value = 0 /\ redis_commands["GET"].value = 0
      /\ redis_commands["DEL"].value = 0 /\ redis_commands["EXISTS"].value = 0
      /\ redis_commands["HGETALL"].value = 0 /\ redis_commands["HGET"].value = 0
      /\ redis_commands["LRANGE"].value = 0 /\ redis_commands["SMEMBERS"].value = 0
      /\ redis_commands["ZRANGE"].value = 0 /\ redis_commands["SCAN"].value = 0
      /\ redis_commands["SELECT"].value = 0
      /\ redis_commands["SET"].value = 2 /\ redis_commands["HSET"].value = 3
      /\ redis_commands["LPUSH"].value = 2 /\ redis_commands["SADD"].value = 2
      /\ redis_commands["ZADD"].value = 2
  BY DEF redis_commands, Usage
<1>2. DOMAIN redis_commands =
        {"PING", "TYPE", "GET", "SET", "DEL", "EXISTS", "HGETALL", "HGET", "HSET", "LRANGE", "LPUSH",
         "SMEMBERS", "SADD", "ZRANGE", "ZADD", "SCAN", "SELECT"}
  BY DEF redis_commands
<1>3. \A v : v # "PING" => FirstPayload(v) = redis_commands[v].value
  BY Zenon DEF FirstPayload
<1>4. FirstPayload("PING") = 1
  BY DEF FirstPayload
<1>5. \A v : Plain(v) \/ Stores(v) => v # "PING"
  BY DEF Plain, Stores
<1> SUFFICES ASSUME NEW v \in DOMAIN redis_commands
             PROVE  \/ v = "PING" /\ FirstPayload(v) = 1
                    \/ v # "PING" /\ Plain(v) /\ FirstPayload(v) = 0
                    \/ v # "PING" /\ Stores(v) /\ FirstPayload(v) \in Nat /\ FirstPayload(v) > 0
  OBVIOUS
<1>6. v = "PING" \/ (Plain(v) /\ redis_commands[v].value = 0)
      \/ (Stores(v) /\ (redis_commands[v].value = 2 \/ redis_commands[v].value = 3))
  BY <1>1, <1>2, VerbsAre, Zenon
<1>7. 2 \in Nat /\ 3 \in Nat /\ 2 > 0 /\ 3 > 0
  OBVIOUS
<1> QED BY <1>3, <1>4, <1>5, <1>6, <1>7, Zenon


\* The guidance's suggestions.
Suggested == {"string", "hash", "list", "set", "zset"}

\* A suggestion is a command of the read-only path, for its own type.
LEMMA SuggestionsAre ==
  ASSUME NEW t \in Suggested
  PROVE  LET v == TypeReadCommand(t)
         IN  v # "PING" /\ Plain(v) /\ IsReadOnly(v) /\ WrongtypeVerb(v) = FamilyOf(t)
<1>1. /\ TypeReadCommand("string") = "GET" /\ TypeReadCommand("hash") = "HGETALL"
      /\ TypeReadCommand("list") = "LRANGE" /\ TypeReadCommand("set") = "SMEMBERS"
      /\ TypeReadCommand("zset") = "ZRANGE"
  BY DEF TypeReadCommand
<1>2. /\ FamilyOf("string") = "strings" /\ FamilyOf("hash") = "hashes" /\ FamilyOf("list") = "lists"
      /\ FamilyOf("set") = "sets" /\ FamilyOf("zset") = "sorted sets"
  BY DEF FamilyOf
<1>3. /\ WrongtypeVerb("GET") = "strings" /\ WrongtypeVerb("HGETALL") = "hashes"
      /\ WrongtypeVerb("LRANGE") = "lists" /\ WrongtypeVerb("SMEMBERS") = "sets"
      /\ WrongtypeVerb("ZRANGE") = "sorted sets"
  BY DEF WrongtypeVerb, StringVerbs, HashVerbs, ListVerbs, SetVerbs, SortedSetVerbs
<1>4. /\ IsReadOnly("GET") /\ IsReadOnly("HGETALL") /\ IsReadOnly("LRANGE")
      /\ IsReadOnly("SMEMBERS") /\ IsReadOnly("ZRANGE")
  BY DEF IsReadOnly, READ_ONLY_COMMANDS
<1>5. \A v : Plain(v) => v # "PING"
  BY DEF Plain
<1>6. t = "string" \/ t = "hash" \/ t = "list" \/ t = "set" \/ t = "zset"
  BY DEF Suggested
<1> QED BY <1>1, <1>2, <1>3, <1>4, <1>5, <1>6, VerbsAre, Zenon

\* What StatementsClassified says of a verb with n arguments.
IsClassified(v, n, a) ==
    /\ a.replayable = ~a.sensitive
    /\ v \in DOMAIN redis_commands =>
         /\ FirstPayload(v) \in 1..n => a = Sensitive
         /\ FirstPayload(v) = 0 => a = Safe
    /\ v = "PING" /\ n = 0 => a = Safe
    /\ v \notin Verbs => a = Sensitive
    /\ \A w \in {"delete", "insert", "edit"} : v = RowWriteVerb[w] => a = RowWriteMetadata(w)
    /\ \A t \in Suggested :
         v = TypeReadCommand(t) =>
           /\ IsReadOnly(v) /\ WrongtypeVerb(v) = FamilyOf(t)
           /\ n = SuggestedArgs(v) => a = Safe

\* command_metadata classifies every verb so, with any number of arguments.
THEOREM Classified ==
  ASSUME NEW v, NEW n \in Nat, NEW a, a = CommandMetadata(v, n)
  PROVE  IsClassified(v, n, a)
<1>1. /\ v = "PING" => a = IF n = 0 THEN Safe ELSE Sensitive
      /\ Plain(v) => a = Safe
      /\ Stores(v) => a = Sensitive
      /\ v = "PING" \/ Plain(v) \/ Stores(v)
  BY MetadataIs, Zenon
<1>2. a = Safe \/ a = Sensitive
  BY <1>1, Zenon
<1>3. a.replayable = ~a.sensitive
  BY <1>2, SafeOrSensitive, Zenon
<1>4. ASSUME v \in DOMAIN redis_commands
      PROVE  /\ FirstPayload(v) \in 1..n => a = Sensitive
             /\ FirstPayload(v) = 0 => a = Safe
  <2>1. \/ v = "PING" /\ FirstPayload(v) = 1
        \/ v # "PING" /\ Plain(v) /\ FirstPayload(v) = 0
        \/ v # "PING" /\ Stores(v) /\ FirstPayload(v) \in Nat /\ FirstPayload(v) > 0
    BY <1>4, AdvertisedAre, Zenon
  <2>2. FirstPayload(v) \in 1..n => FirstPayload(v) # 0 /\ n # 0
    OBVIOUS
  <2>3. 1 # 0 /\ ~(0 > 0) /\ (FirstPayload(v) > 0 => FirstPayload(v) # 0)
    OBVIOUS
  <2> QED BY <1>1, <2>1, <2>2, <2>3, Zenon
<1>5. v = "PING" /\ n = 0 => a = Safe
  BY <1>1, Zenon
<1>6. v \notin Verbs => a = Sensitive
  BY <1>1, VerbsAre, Zenon
<1>7. ASSUME NEW w \in {"delete", "insert", "edit"}, v = RowWriteVerb[w]
      PROVE  a = RowWriteMetadata(w)
  <2>1. RowWriteVerb["delete"] = "DEL" /\ RowWriteVerb["insert"] = "SET" /\ RowWriteVerb["edit"] = "EVAL"
    BY DEF RowWriteVerb
  <2>2. /\ RowWriteMetadata("delete") = Safe /\ RowWriteMetadata("insert") = Sensitive
        /\ RowWriteMetadata("edit") = Sensitive
    BY DEF RowWriteMetadata
  <2>3. w = "delete" \/ w = "insert" \/ w = "edit"
    OBVIOUS
  <2> QED BY <1>1, <1>7, <2>1, <2>2, <2>3, VerbsAre, Zenon
<1>8. \A t \in Suggested :
        v = TypeReadCommand(t) =>
          /\ IsReadOnly(v) /\ WrongtypeVerb(v) = FamilyOf(t)
          /\ n = SuggestedArgs(v) => a = Safe
  BY <1>1, SuggestionsAre, Zenon
<1> QED BY <1>3, <1>4, <1>5, <1>6, <1>7, <1>8, Zenon DEF IsClassified


-----------------------------------------------------------------------------
(* Results                                                                  *)

\* The smaller of two numbers, and the largest of a set.
LEMMA MinIs == \A a, b \in Nat : Min({a, b}) = IF a <= b THEN a ELSE b
<1> SUFFICES ASSUME NEW a \in Nat, NEW b \in Nat PROVE Min({a, b}) = IF a <= b THEN a ELSE b
  OBVIOUS
<1> DEFINE m == IF a <= b THEN a ELSE b
<1>1. m \in {a, b} /\ \A y \in {a, b} : m <= y
  OBVIOUS
<1>2. \A x \in {a, b} : (\A y \in {a, b} : x <= y) => x = m
  OBVIOUS
<1> HIDE DEF m
<1>3. Min({a, b}) \in {a, b} /\ \A y \in {a, b} : Min({a, b}) <= y
  BY <1>1, Zenon DEF Min
<1>4. Min({a, b}) = m
  BY <1>2, <1>3
<1> QED BY <1>4 DEF m

\* cap_cell keeps a text that fits, and otherwise all that fits before an
\* ellipsis.
LEMMA CapIs ==
  ASSUME NEW T, NEW t \in Seq(T)
  PROVE  /\ CapCell(t) \in Seq(T \cup {Ellipsis})
         /\ Len(CapCell(t)) = IF MaxCell <= Len(t) THEN MaxCell ELSE Len(t)
         /\ Len(t) <= MaxCell => CapCell(t) = t
         /\ Len(t) > MaxCell => /\ Front(CapCell(t)) = SubSeq(t, 1, MaxCell - 1)
                                /\ Last(CapCell(t)) = Ellipsis
<1>1. MaxCell \in Nat /\ MaxCell > 0 /\ MaxCell - 1 \in Nat /\ Len(t) \in Nat
  BY CellTextAssumption
<1>2. CASE ~(Len(t) > MaxCell)
  <2>1. CapCell(t) = t
    BY <1>2 DEF CapCell
  <2> QED BY <1>1, <1>2, <2>1
<1>3. CASE Len(t) > MaxCell
  <2> DEFINE p == SubSeq(t, 1, MaxCell - 1)
  <2>1. p \in Seq(T) /\ Len(p) = MaxCell - 1
    BY <1>1, <1>3
  <2>2. CapCell(t) = Append(p, Ellipsis)
    BY <1>3 DEF CapCell
  <2> HIDE DEF p
  <2>3. \A q \in Seq(T) : /\ Append(q, Ellipsis) \in Seq(T \cup {Ellipsis})
                          /\ Len(Append(q, Ellipsis)) = Len(q) + 1
                          /\ Last(Append(q, Ellipsis)) = Ellipsis
                          /\ Front(Append(q, Ellipsis)) = q
    BY DEF Last, Front
  <2>4. /\ CapCell(t) \in Seq(T \cup {Ellipsis}) /\ Len(CapCell(t)) = MaxCell
        /\ Front(CapCell(t)) = p /\ Last(CapCell(t)) = Ellipsis
    <3>1. /\ CapCell(t) \in Seq(T \cup {Ellipsis}) /\ Len(CapCell(t)) = Len(p) + 1
          /\ Front(CapCell(t)) = p /\ Last(CapCell(t)) = Ellipsis
      BY <2>1, <2>2, <2>3
    <3> QED BY <1>1, <2>1, <3>1
  <2>5. MaxCell <= Len(t) /\ ~(Len(t) <= MaxCell)
    BY <1>1, <1>3
  <2> QED BY <2>4, <2>5, Zenon DEF p
<1> QED BY <1>2, <1>3

\* What ResultFaithful says of the result a of these rows.
IsFaithful(full, a) ==
    /\ a.truncated = (Len(full) > Len(a.rows))
    /\ Len(a.rows) = Min({MaxRows, Len(full)})
    /\ Len(a.untruncatedRows) = Len(a.rows)
    /\ \A i \in DOMAIN a.rows :
         LET shown == a.rows[i][1]
             whole == full[i][1]
         IN  /\ a.untruncatedRows[i][1] = whole
             /\ shown = NoCell <=> whole = NoCell
             /\ whole # NoCell =>
                  /\ Len(shown[1]) = Min({MaxCell, Len(whole[1])})
                  /\ Len(whole[1]) <= MaxCell => shown = whole
                  /\ Len(whole[1]) > MaxCell =>
                       Front(shown[1]) = SubSeq(whole[1], 1, MaxCell - 1)
                         /\ Last(shown[1]) = Ellipsis

\* finalize does so for any number of rows of one cell each, and texts of any
\* length.
THEOREM FinalizeFaithful ==
  ASSUME NEW columns, NEW T, NEW R, NEW full \in Seq(R), NEW a, a = Finalize(columns, full),
         \A r \in R : DOMAIN r = {1} /\ (r[1] = NoCell \/ \E t \in Seq(T) : r[1] = Some(t))
  PROVE  IsFaithful(full, a)
<1> DEFINE n == IF Len(full) <= MaxRows THEN Len(full) ELSE MaxRows
           first == SubSeq(full, 1, n)
           rows == [i \in DOMAIN first |-> [c \in DOMAIN first[i] |-> Capped(first[i][c])]]
<1>1. MaxRows \in Nat /\ MaxCell \in Nat /\ Len(full) \in Nat /\ n \in Nat /\ n <= Len(full)
  BY ReplyAssumption, CellTextAssumption
<1>2. first \in Seq(R) /\ Len(first) = n /\ \A i \in 1..n : first[i] = full[i] /\ full[i] \in R
  BY <1>1
<1>3. Min({Len(full), MaxRows}) = n /\ Min({MaxRows, Len(full)}) = n
  BY <1>1, MinIs
<1>4. a.rows = rows /\ a.untruncatedRows = first /\ a.truncated = (Len(full) > MaxRows)
  BY <1>3 DEF Finalize
<1> HIDE DEF first
<1>5. DOMAIN rows = 1..n /\ Len(rows) = n
      /\ \A i \in 1..n : rows[i] = [c \in DOMAIN full[i] |-> Capped(full[i][c])]
  BY <1>1, <1>2
<1> HIDE DEF rows
<1>6. ASSUME NEW i \in 1..n
      PROVE  LET shown == rows[i][1]
                 whole == full[i][1]
             IN  /\ first[i][1] = whole
                 /\ shown = NoCell <=> whole = NoCell
                 /\ whole # NoCell =>
                      /\ Len(shown[1]) = Min({MaxCell, Len(whole[1])})
                      /\ Len(whole[1]) <= MaxCell => shown = whole
                      /\ Len(whole[1]) > MaxCell =>
                           Front(shown[1]) = SubSeq(whole[1], 1, MaxCell - 1)
                             /\ Last(shown[1]) = Ellipsis
  <2> DEFINE whole == full[i][1]
             shown == rows[i][1]
  <2>1. DOMAIN full[i] = {1} /\ (whole = NoCell \/ \E t \in Seq(T) : whole = Some(t))
    BY <1>2
  <2>2. shown = Capped(whole)
    <3>1. rows[i] = [c \in DOMAIN full[i] |-> Capped(full[i][c])]
      BY <1>5
    <3> QED BY <2>1, <3>1
  <2>3. first[i][1] = whole
    BY <1>2
  <2> HIDE DEF whole, shown
  <2>4. CASE whole = NoCell
    <3>1. shown = NoCell
      BY <2>2, <2>4 DEF Capped
    <3> QED BY <2>3, <2>4, <3>1 DEF whole, shown
  <2>5. ASSUME NEW t \in Seq(T), whole = Some(t)
        PROVE  /\ shown # NoCell /\ whole # NoCell
               /\ Len(shown[1]) = Min({MaxCell, Len(whole[1])})
               /\ Len(whole[1]) <= MaxCell => shown = whole
               /\ Len(whole[1]) > MaxCell =>
                    Front(shown[1]) = SubSeq(whole[1], 1, MaxCell - 1) /\ Last(shown[1]) = Ellipsis
    <3>1. \A u : Some(u) # NoCell /\ Some(u)[1] = u
      BY DEF Some, NoCell
    <3>2. whole[1] = t /\ shown = Some(CapCell(t)) /\ shown[1] = CapCell(t)
      BY <2>2, <2>5, <3>1, Zenon DEF Capped
    <3>3. Min({MaxCell, Len(t)}) = IF MaxCell <= Len(t) THEN MaxCell ELSE Len(t)
      BY <1>1, MinIs
    <3>4. /\ Len(CapCell(t)) = Min({MaxCell, Len(t)})
          /\ Len(t) <= MaxCell => CapCell(t) = t
          /\ Len(t) > MaxCell => /\ Front(CapCell(t)) = SubSeq(t, 1, MaxCell - 1)
                                 /\ Last(CapCell(t)) = Ellipsis
      BY <3>3, CapIs, Zenon
    <3> QED BY <2>5, <3>1, <3>2, <3>4, Zenon
  <2> QED BY <2>1, <2>3, <2>4, <2>5, Zenon DEF whole, shown
<1>7. (Len(full) > MaxRows) = (Len(full) > n)
  BY <1>1
<1> QED BY <1>2, <1>3, <1>4, <1>5, <1>6, <1>7, Zenon DEF IsFaithful

\* The rows a behaviour starts from are such rows.
LEMMA RowsTyped ==
  ASSUME NEW full \in FullRows
  PROVE  \E R : /\ full \in Seq(R)
                /\ \A r \in R : DOMAIN r = {1} /\ (r[1] = NoCell \/ \E t \in Seq(Nat) : r[1] = Some(t))
<1> DEFINE R == {<<c>> : c \in FullCells}
<1>1. PICK s \in BoundedSeq(FullCells, MaxRows + 1) : full = [i \in DOMAIN s |-> <<s[i]>>]
  BY DEF FullRows
<1>2. s \in Seq(FullCells)
  BY DEF BoundedSeq, SeqOf
<1>3. full \in Seq(R)
  <2>1. \A i \in DOMAIN s : <<s[i]>> \in R
    BY <1>2
  <2> HIDE DEF R
  <2> QED BY <1>1, <1>2, <2>1
<1>4. \A c \in FullCells : c = NoCell \/ \E t \in Seq(Nat) : c = Some(t)
  <2>1. \A k \in 0..(MaxCell + 2) : TextOf(k) \in Seq(Nat)
    BY CellTextAssumption DEF TextOf
  <2> QED BY <2>1 DEF FullCells
<1>5. \A r \in R : \E c \in FullCells : DOMAIN r = {1} /\ r[1] = c
  OBVIOUS
<1> QED BY <1>3, <1>4, <1>5, Zenon


-----------------------------------------------------------------------------
(* Previews of strings                                                      *)

\* The largest number of a bounded set that holds 0.
LEMMA MaxIs ==
  ASSUME NEW T, NEW b \in Nat, T \subseteq 0..b, 0 \in T
  PROVE  Max(T) \in T /\ \A y \in T : y <= Max(T)
<1>1. T \subseteq Nat /\ T # {} /\ \A x \in T : x <= b
  OBVIOUS
<1>2. PICK x \in T : \A y \in T : y <= x
  <2>1. \E x \in T : \A y \in T : y <= x
    BY <1>1, GreatestNat, Zenon
  <2> QED BY <2>1
<1>3. \A y, z \in T : y >= z <=> z <= y
  BY <1>1
<1>4. \E y \in T : \A z \in T : y >= z
  BY <1>2, <1>3
<1>5. Max(T) \in T /\ \A z \in T : Max(T) >= z
  BY <1>4, Zenon DEF Max
<1> QED BY <1>3, <1>5

Chars == ((-3)..4) \ {0}
Width(w) == IF IllFormed(w) THEN -w ELSE w

\* The bytes of a string value, element by element.
LEMMA BytesGrow ==
  ASSUME NEW s \in Seq(Chars)
  PROVE  /\ Bytes(s, 0) = 0
         /\ \A n \in 0..Len(s) : Bytes(s, n) \in Nat /\ \A m \in 0..n : Bytes(s, m) <= Bytes(s, n)
         /\ \A n \in 0..(Len(s) - 1) :
              Bytes(s, n + 1) = Bytes(s, n) + Width(s[n + 1])
<1> DEFINE w == [i \in DOMAIN s |-> IF IllFormed(s[i]) THEN -s[i] ELSE s[i]]
<1>1. /\ \A i \in 1..Len(s) : s[i] \in Chars /\ w[i] = Width(s[i])
      /\ Len(s) \in Nat
  BY DEF Width
<1>3. \A n : Bytes(s, n) = Total(w, n)
  BY DEF Bytes
<1> HIDE DEF w
<1>2. \A i \in 1..Len(s) : w[i] \in Nat
  BY <1>1 DEF Chars, Width, IllFormed
<1>4. \A n \in 0..Len(s) : Total(w, n) \in Nat /\ \A m \in 0..n : Total(w, m) <= Total(w, n)
  BY <1>1, <1>2, TotalGrows
<1>5. \A n \in 0..(Len(s) - 1) : Total(w, n + 1) = Total(w, n) + w[n + 1] /\ n + 1 \in 1..Len(s)
  BY <1>1, TotalStep
<1>6. Total(w, 0) = 0
  BY TotalStep
<1> QED BY <1>1, <1>3, <1>4, <1>5, <1>6

\* What the lossy decoding of what GETRANGE returns keeps: whole characters,
\* and one that is broken.
LEMMA LossyIs ==
  ASSUME NEW s \in Seq(Chars)
  PROVE  \E whole \in 0..Len(s) :
           /\ Lossy(s) \in Seq(Nat)
           /\ \A i \in 1..whole : Lossy(s)[i] = IF IllFormed(s[i]) THEN Replacement ELSE i
           /\ \/ Len(Lossy(s)) = whole
              \/ /\ Len(Lossy(s)) = whole + 1 /\ whole < Len(s)
                 /\ Lossy(s)[whole + 1] = Replacement
                 /\ IllFormed(s[whole + 1]) \/ s[whole + 1] > 1
           /\ Bytes(s, Len(s)) <= PreviewBytes => whole = Len(s)
<1> DEFINE T == {n \in 0..Len(s) : Bytes(s, n) <= PreviewBytes}
           whole == Max(T)
           partial == whole < Len(s) /\ Bytes(s, whole) < PreviewBytes
           kept == [i \in 1..whole |-> IF IllFormed(s[i]) THEN Replacement ELSE i]
           rest == IF partial THEN <<Replacement>> ELSE <<>>
<1>1. PreviewBytes \in Nat /\ Len(s) \in Nat
  BY PreviewAssumption
<1>2. T \subseteq 0..Len(s) /\ 0 \in T
  BY <1>1, BytesGrow
<1>3. whole \in T /\ \A y \in T : y <= whole
  BY <1>1, <1>2, MaxIs
<1>4. Lossy(s) = kept \o rest
  BY DEF Lossy
<1>5. \A n : n \in T <=> n \in 0..Len(s) /\ Bytes(s, n) <= PreviewBytes
  OBVIOUS
<1> HIDE DEF T, whole
<1>6. whole \in 0..Len(s) /\ whole \in Nat
  BY <1>3, <1>5
<1>7. /\ kept \in Seq(Nat) /\ Len(kept) = whole
      /\ \A i \in 1..whole : kept[i] = IF IllFormed(s[i]) THEN Replacement ELSE i
  BY <1>6 DEF Replacement
<1>8. Bytes(s, Len(s)) <= PreviewBytes => whole = Len(s)
  <2>1. Bytes(s, Len(s)) <= PreviewBytes => Len(s) \in T
    BY <1>1, <1>5
  <2> QED BY <1>3, <1>6, <2>1
<1> HIDE DEF kept
<1>9. CASE partial
  <2>1. IllFormed(s[whole + 1]) \/ s[whole + 1] > 1
    <3> SUFFICES ASSUME ~IllFormed(s[whole + 1]), ~(s[whole + 1] > 1) PROVE FALSE
      OBVIOUS
    <3>1. whole + 1 \in 1..Len(s) /\ whole \in 0..(Len(s) - 1) /\ whole + 1 \in 0..Len(s)
      BY <1>6, <1>9
    <3>2. Width(s[whole + 1]) = 1
      <4>1. s[whole + 1] \in Chars
        BY <3>1
      <4> QED BY <4>1 DEF Chars, Width, IllFormed
    <3>3. Bytes(s, whole + 1) = Bytes(s, whole) + 1
      BY <3>1, <3>2, BytesGrow
    <3>4. Bytes(s, whole) \in Nat
      BY <1>6, BytesGrow
    <3>5. whole + 1 \in T
      BY <1>1, <1>5, <1>9, <3>1, <3>3, <3>4
    <3> QED BY <1>3, <1>6, <3>5
  <2>2. \A k \in Seq(Nat) : /\ k \o <<Replacement>> \in Seq(Nat) /\ Len(k \o <<Replacement>>) = Len(k) + 1
                            /\ \A i \in 1..Len(k) : (k \o <<Replacement>>)[i] = k[i]
                            /\ (k \o <<Replacement>>)[Len(k) + 1] = Replacement
    BY DEF Replacement
  <2>3. Lossy(s) = kept \o <<Replacement>>
    BY <1>4, <1>9
  <2>4. /\ Lossy(s) \in Seq(Nat) /\ Len(Lossy(s)) = whole + 1
        /\ \A i \in 1..whole : Lossy(s)[i] = kept[i]
        /\ Lossy(s)[whole + 1] = Replacement
    <3>1. /\ kept \o <<Replacement>> \in Seq(Nat) /\ Len(kept \o <<Replacement>>) = Len(kept) + 1
          /\ \A i \in 1..Len(kept) : (kept \o <<Replacement>>)[i] = kept[i]
          /\ (kept \o <<Replacement>>)[Len(kept) + 1] = Replacement
      BY <1>7, <2>2
    <3> QED BY <1>7, <2>3, <3>1, Zenon
  <2>5. \A i \in 1..whole : Lossy(s)[i] = IF IllFormed(s[i]) THEN Replacement ELSE i
    BY <1>7, <2>4
  <2>6. whole < Len(s)
    BY <1>9
  <2> QED BY <1>6, <1>8, <2>1, <2>4, <2>5, <2>6, Zenon
<1>10. CASE ~partial
  <2>1. \A k \in Seq(Nat) : k \o <<>> = k
    OBVIOUS
  <2>2. Lossy(s) = kept
    BY <1>4, <1>7, <1>10, <2>1
  <2> QED BY <1>6, <1>7, <1>8, <2>2, Zenon
<1> QED BY <1>9, <1>10

\* What PreviewsFaithful says of the preview a of a string.
StringShown(s, a) ==
    /\ TextBytes(s, a, Len(a)) <= PreviewBytes
    /\ \A i \in DOMAIN a :
         a[i] # i => /\ a[i] = Replacement
                     /\ IllFormed(s[i]) \/ (i = Len(a) /\ s[i] > 1)
    /\ Bytes(s, Len(s)) <= PreviewBytes /\ Utf8(s) => a = TextOf(Len(s))

\* preview_string shows a string of any length so.
THEOREM PreviewStringFaithful ==
  ASSUME NEW s \in Seq(Chars)
  PROVE  StringShown(s, PreviewString(s))
<1> DEFINE text == Lossy(s)
           T == {n \in 0..Len(text) : TextBytes(s, text, n) <= PreviewBytes}
           b == Max(T)
           a == SubSeq(text, 1, b)
           W(t) == [i \in DOMAIN t |-> IF t[i] = Replacement THEN 3 ELSE s[t[i]]]
<1>1. PreviewString(s) = a
  BY DEF PreviewString, CharBoundary
<1>2. PICK whole \in 0..Len(s) :
        /\ text \in Seq(Nat)
        /\ \A i \in 1..whole : text[i] = IF IllFormed(s[i]) THEN Replacement ELSE i
        /\ \/ Len(text) = whole
           \/ /\ Len(text) = whole + 1 /\ whole < Len(s)
              /\ text[whole + 1] = Replacement
              /\ IllFormed(s[whole + 1]) \/ s[whole + 1] > 1
        /\ Bytes(s, Len(s)) <= PreviewBytes => whole = Len(s)
  BY LossyIs
<1> HIDE DEF text
<1>3. PreviewBytes \in Nat /\ Len(s) \in Nat /\ Len(text) \in Nat /\ whole \in Nat
  BY <1>2, PreviewAssumption
<1>4. \A t, n : TextBytes(s, t, n) = Total(W(t), n)
  BY DEF TextBytes
<1>5. TextBytes(s, text, 0) = 0
  <2>1. \A w : Total(w, 0) = 0
    BY TotalStep
  <2> HIDE DEF W
  <2> QED BY <1>4, <2>1, Zenon
<1>6. T \subseteq 0..Len(text) /\ 0 \in T
  BY <1>3, <1>5
<1>7. b \in T /\ \A y \in T : y <= b
  BY <1>3, <1>6, MaxIs
<1>8. \A n : n \in T <=> n \in 0..Len(text) /\ TextBytes(s, text, n) <= PreviewBytes
  OBVIOUS
<1> HIDE DEF T, b
<1>9. b \in 0..Len(text) /\ b \in Nat /\ TextBytes(s, text, b) <= PreviewBytes
  BY <1>3, <1>7, <1>8
<1>10. a \in Seq(Nat) /\ Len(a) = b /\ DOMAIN a = 1..b /\ \A i \in 1..b : a[i] = text[i]
  BY <1>2, <1>9
<1> HIDE DEF a
<1>11. TextBytes(s, a, Len(a)) <= PreviewBytes
  <2>1. \A i \in 1..b : W(a)[i] = W(text)[i]
    <3>1. \A i \in 1..b : i \in DOMAIN a /\ i \in DOMAIN text
      BY <1>2, <1>9, <1>10
    <3> QED BY <1>10, <3>1
  <2> HIDE DEF W
  <2>2. b \in 0..b
    BY <1>9
  <2>3. Total(W(a), b) = Total(W(text), b)
    BY <1>9, <2>1, <2>2, TotalSame
  <2> QED BY <1>4, <1>9, <1>10, <2>3
<1>12. ASSUME NEW i \in DOMAIN a, a[i] # i
       PROVE  a[i] = Replacement /\ (IllFormed(s[i]) \/ (i = Len(a) /\ s[i] > 1))
  <2>1. i \in 1..b /\ i \in Nat /\ i >= 1 /\ i <= Len(text) /\ a[i] = text[i]
    BY <1>3, <1>9, <1>10
  <2>2. CASE i \in 1..whole
    BY <1>2, <1>12, <2>1, <2>2
  <2>3. CASE i \notin 1..whole
    <3>1. /\ i = whole + 1 /\ Len(text) = whole + 1 /\ text[whole + 1] = Replacement
          /\ IllFormed(s[whole + 1]) \/ s[whole + 1] > 1
      BY <1>2, <1>3, <2>1, <2>3
    <3>2. i = Len(a)
      BY <1>9, <1>10, <2>1, <3>1
    <3> QED BY <2>1, <3>1, <3>2, Zenon
  <2> QED BY <2>2, <2>3
<1>13. ASSUME Bytes(s, Len(s)) <= PreviewBytes, Utf8(s)
       PROVE  a = TextOf(Len(s))
  <2>1. whole = Len(s)
    BY <1>2, <1>13
  <2>2. \A i \in 1..Len(s) : ~IllFormed(s[i])
    BY <1>13 DEF Utf8
  <2>3. Len(text) = Len(s) /\ \A i \in 1..Len(s) : text[i] = i
    BY <1>2, <1>3, <2>1, <2>2
  <2>4. TextBytes(s, text, Len(s)) = Bytes(s, Len(s))
    <3> DEFINE w == [i \in DOMAIN s |-> IF IllFormed(s[i]) THEN -s[i] ELSE s[i]]
    <3>1. \A i \in 1..Len(s) : W(text)[i] = w[i]
      <4> SUFFICES ASSUME NEW i \in 1..Len(s) PROVE W(text)[i] = w[i]
        OBVIOUS
      <4>1. i \in DOMAIN text /\ i \in DOMAIN s /\ text[i] = i /\ ~IllFormed(s[i])
        BY <1>2, <2>2, <2>3
      <4>2. i # Replacement
        BY DEF Replacement
      <4> QED BY <4>1, <4>2
    <3>2. Bytes(s, Len(s)) = Total(w, Len(s))
      BY DEF Bytes
    <3> HIDE DEF W, w
    <3>3. Len(s) \in 0..Len(s)
      BY <1>3
    <3>4. Total(W(text), Len(s)) = Total(w, Len(s))
      BY <1>3, <3>1, <3>3, TotalSame
    <3> QED BY <1>4, <3>2, <3>4, Zenon
  <2>5. Len(s) \in T
    BY <1>3, <1>8, <1>13, <2>3, <2>4
  <2>6. b = Len(s)
    BY <1>3, <1>7, <1>9, <2>3, <2>5
  <2>7. a = [i \in 1..Len(s) |-> i]
    <3>1. a = [i \in 1..Len(a) |-> a[i]]
      BY <1>10
    <3> QED BY <1>10, <2>3, <2>6, <3>1
  <2> QED BY <2>7 DEF TextOf
<1> QED BY <1>1, <1>11, <1>12, <1>13, Zenon DEF StringShown

-----------------------------------------------------------------------------
(* Trees                                                                    *)

\* The scalars, and the replies one level deeper than S.
Flat0 == {Nil} \cup [kind: ScalarKinds, text: Texts]
Grown(S) ==
    S \cup [kind: ItemKinds, items: Seq(S)]
      \cup [kind: {"map"}, pairs: Seq(S \X S)]
      \cup [kind: {"attribute"}, data: S]

\* g holds the replies of each of the first n depths.
Depths(n, g) == g = [i \in 0..n |-> IF i = 0 THEN Flat0 ELSE Grown(g[i - 1])]

\* There is such a function.
LEMMA DepthsExist == \A n \in Nat : \E g : Depths(n, g)
<1> DEFINE After(i, h) == IF i = 0 THEN Flat0 ELSE Grown(h[i - 1])
           T == {n \in Nat : \E g : Depths(n, g)}
<1>1. 0 \in T
  <2> DEFINE g == [i \in 0..0 |-> After(0, <<>>)]
  <2>1. g = [i \in 0..0 |-> After(i, g)]
    OBVIOUS
  <2> QED BY <2>1 DEF Depths
<1>2. ASSUME NEW n \in Nat, n \in T PROVE n + 1 \in T
  <2>1. PICK g : Depths(n, g)
    BY <1>2
  <2> DEFINE k == [i \in 0..(n + 1) |-> After(i, g)]
  <2>2. \A i \in 0..n : g[i] = After(i, g)
    BY <2>1 DEF Depths
  <2>3. \A i \in 0..n : k[i] = g[i]
    BY <2>2
  <2>4. ASSUME NEW i \in 0..(n + 1) PROVE k[i] = After(i, k)
    <3>1. k[i] = After(i, g)
      OBVIOUS
    <3>2. i # 0 => i - 1 \in 0..n
      OBVIOUS
    <3> HIDE DEF k
    <3>3. i # 0 => k[i - 1] = g[i - 1]
      BY <2>3, <3>2
    <3> QED BY <3>1, <3>3
  <2>5. k = [i \in 0..(n + 1) |-> After(i, k)]
    <3>1. k = [i \in 0..(n + 1) |-> k[i]]
      OBVIOUS
    <3> HIDE DEF k, After
    <3> QED BY <2>4, <3>1
  <2> HIDE DEF k
  <2> QED BY <2>5 DEF Depths
<1> HIDE DEF T
<1>3. Nat \subseteq T
  BY <1>1, <1>2, NatSetInduction
<1> QED BY <1>3 DEF T

\* Two such functions agree where both are defined.
LEMMA DepthsAgree ==
  ASSUME NEW n \in Nat, NEW g, NEW h, Depths(n, g), Depths(n + 1, h)
  PROVE  g[n] = h[n]
<1> DEFINE T == {i \in Nat : i <= n => g[i] = h[i]}
<1>1. /\ \A i \in 0..n : g[i] = IF i = 0 THEN Flat0 ELSE Grown(g[i - 1])
      /\ \A i \in 0..n : h[i] = IF i = 0 THEN Flat0 ELSE Grown(h[i - 1])
  <2>1. \A i \in 0..n : i \in 0..(n + 1)
    OBVIOUS
  <2> QED BY <2>1 DEF Depths
<1>2. 0 \in T
  <2>1. 0 \in 0..n
    OBVIOUS
  <2> QED BY <1>1, <2>1
<1>3. ASSUME NEW i \in Nat, i \in T PROVE i + 1 \in T
  <2> SUFFICES ASSUME i + 1 <= n PROVE g[i + 1] = h[i + 1]
    OBVIOUS
  <2>1. i + 1 \in 0..n /\ i + 1 # 0 /\ (i + 1) - 1 = i /\ g[i] = h[i]
    BY <1>3
  <2> QED BY <1>1, <2>1
<1> HIDE DEF T
<1>4. Nat \subseteq T
  BY <1>2, <1>3, NatSetInduction
<1>5. n \in T
  BY <1>4
<1> QED BY <1>5 DEF T

\* The replies, depth by depth.
LEMMA TreesAre ==
  /\ TreesUpTo[0] = Flat0
  /\ \A n \in Nat : TreesUpTo[n + 1] = Grown(TreesUpTo[n])
<1> DEFINE Fix(g) == g = [n \in Nat |-> IF n = 0 THEN Flat0 ELSE Grown(g[n - 1])]
           At(n) == CHOOSE g : Depths(n, g)
           up == [n \in Nat |-> At(n)[n]]
<1>1. \A n \in Nat : Depths(n, At(n))
  BY DepthsExist, Zenon
<1> HIDE DEF At
<1>2. ASSUME NEW n \in Nat PROVE At(n + 1)[n + 1] = Grown(At(n)[n])
  <2>1. n + 1 \in Nat /\ n + 1 \in 0..(n + 1) /\ n + 1 # 0 /\ (n + 1) - 1 = n
    OBVIOUS
  <2>2. At(n + 1)[n + 1] = Grown(At(n + 1)[n])
    BY <1>1, <2>1 DEF Depths
  <2>3. At(n)[n] = At(n + 1)[n]
    BY <1>1, <2>1, DepthsAgree
  <2> QED BY <2>2, <2>3
<1>3. At(0)[0] = Flat0
  <2>1. 0 \in 0..0 /\ 0 \in Nat
    OBVIOUS
  <2> QED BY <1>1, <2>1 DEF Depths
<1>4. \A n \in Nat : up[n] = IF n = 0 THEN Flat0 ELSE Grown(up[n - 1])
  <2> SUFFICES ASSUME NEW n \in Nat PROVE up[n] = IF n = 0 THEN Flat0 ELSE Grown(up[n - 1])
    OBVIOUS
  <2>1. CASE n = 0
    BY <1>3, <2>1
  <2>2. CASE n # 0
    <3>1. n - 1 \in Nat /\ (n - 1) + 1 = n
      BY <2>2
    <3>2. At(n)[n] = Grown(At(n - 1)[n - 1])
      BY <1>2, <3>1
    <3> QED BY <2>2, <3>1, <3>2
  <2> QED BY <2>1, <2>2
<1>5. up = [n \in Nat |-> up[n]]
  OBVIOUS
<1> HIDE DEF up
<1>6. Fix(up)
  BY <1>4, <1>5
<1>7. TreesUpTo = CHOOSE g : g = [n \in Nat |->
                    IF n = 0 THEN {Nil} \cup [kind: ScalarKinds, text: Texts]
                    ELSE LET inner == g[n - 1]
                         IN  inner \cup [kind: ItemKinds, items: Seq(inner)]
                                   \cup [kind: {"map"}, pairs: Seq(inner \X inner)]
                                   \cup [kind: {"attribute"}, data: inner]]
  BY DEF TreesUpTo
<1>8. TreesUpTo = CHOOSE g : Fix(g)
  BY <1>7, Zenon DEF Flat0, Grown
<1>9. Fix(TreesUpTo)
  BY <1>6, <1>8, Zenon
<1>10. \A n \in Nat : TreesUpTo[n] = IF n = 0 THEN Flat0 ELSE Grown(TreesUpTo[n - 1])
  BY <1>9
<1> HIDE DEF Fix
<1> QED BY <1>10

\* v is a reply whose parts are in S.
Parts(v, S) ==
    /\ v.kind \in {"nil"} \cup ScalarKinds \cup ItemKinds \cup {"map", "attribute"}
    /\ v.kind \in ScalarKinds => v.text \in Texts
    /\ v.kind \in ItemKinds => v.items \in Seq(S)
    /\ v.kind = "map" => v.pairs \in Seq(S \X S)
    /\ v.kind = "attribute" => v.data \in S

\* The kinds are all different.
LEMMA Kinds ==
  /\ "nil" \notin ScalarKinds /\ "nil" \notin ItemKinds /\ "nil" # "map" /\ "nil" # "attribute"
  /\ \A k \in ScalarKinds : k \notin ItemKinds /\ k # "map" /\ k # "attribute"
  /\ \A k \in ItemKinds : k # "map" /\ k # "attribute"
  /\ "map" # "attribute"
BY DEF ScalarKinds, ItemKinds

\* The parts of a reply are one level less deep.
LEMMA TreeParts ==
  /\ \A v \in TreesUpTo[0] : \A S : Parts(v, S)
  /\ \A n \in Nat : TreesUpTo[n] \subseteq TreesUpTo[n + 1]
  /\ \A n \in Nat : \A v \in TreesUpTo[n + 1] : Parts(v, TreesUpTo[n])
<1>1. \A v \in TreesUpTo[0] : \A S : Parts(v, S)
  <2> SUFFICES ASSUME NEW v \in TreesUpTo[0], NEW S PROVE Parts(v, S)
    OBVIOUS
  <2>1. v = Nil \/ v \in [kind: ScalarKinds, text: Texts]
    BY TreesAre DEF Flat0
  <2>2. v.kind = "nil" \/ (v.kind \in ScalarKinds /\ v.text \in Texts)
    BY <2>1 DEF Nil
  <2> QED BY <2>2, Kinds DEF Parts
<1>2. \A n \in Nat : TreesUpTo[n] \subseteq TreesUpTo[n + 1]
  BY TreesAre DEF Grown
<1>3. ASSUME NEW S, NEW v \in Grown(S), v \in S => Parts(v, S) PROVE Parts(v, S)
  <2>1. CASE v \in [kind: ItemKinds, items: Seq(S)]
    <3>1. v.kind \in ItemKinds /\ v.items \in Seq(S)
      BY <2>1
    <3> QED BY <3>1, Kinds DEF Parts
  <2>2. CASE v \in [kind: {"map"}, pairs: Seq(S \X S)]
    <3>1. v.kind = "map" /\ v.pairs \in Seq(S \X S)
      BY <2>2
    <3> QED BY <3>1, Kinds DEF Parts
  <2>3. CASE v \in [kind: {"attribute"}, data: S]
    <3>1. v.kind = "attribute" /\ v.data \in S
      BY <2>3
    <3> QED BY <3>1, Kinds DEF Parts
  <2> QED BY <1>3, <2>1, <2>2, <2>3 DEF Grown
<1>4. ASSUME NEW S, NEW U, S \subseteq U, NEW v, Parts(v, S) PROVE Parts(v, U)
  <2>1. \A s : s \in Seq(S) => s \in Seq(U)
    BY <1>4
  <2>2. \A s : s \in Seq(S \X S) => s \in Seq(U \X U)
    <3>1. \A A, B : A \subseteq B => \A s \in Seq(A) : s \in Seq(B)
      OBVIOUS
    <3>2. S \X S \subseteq U \X U
      BY <1>4
    <3> QED BY <3>1, <3>2, Zenon
  <2> QED BY <1>4, <2>1, <2>2 DEF Parts
<1> DEFINE T == {n \in Nat : \A v \in TreesUpTo[n + 1] : Parts(v, TreesUpTo[n])}
<1>5. 0 \in T
  <2>1. TreesUpTo[0 + 1] = Grown(TreesUpTo[0])
    BY TreesAre
  <2>2. \A v \in TreesUpTo[0 + 1] : Parts(v, TreesUpTo[0])
    BY <1>1, <1>3, <2>1
  <2> QED BY <2>2
<1>6. ASSUME NEW n \in Nat, n \in T PROVE n + 1 \in T
  <2>1. /\ \A v \in TreesUpTo[n + 1] : Parts(v, TreesUpTo[n])
        /\ n + 1 \in Nat /\ TreesUpTo[n] \subseteq TreesUpTo[n + 1]
        /\ TreesUpTo[(n + 1) + 1] = Grown(TreesUpTo[n + 1])
    BY <1>2, <1>6, TreesAre
  <2>2. \A v \in TreesUpTo[n + 1] : Parts(v, TreesUpTo[n + 1])
    BY <1>4, <2>1
  <2>3. \A v \in TreesUpTo[(n + 1) + 1] : Parts(v, TreesUpTo[n + 1])
    BY <1>3, <2>1, <2>2
  <2> QED BY <2>1, <2>3
<1> HIDE DEF T
<1>7. Nat \subseteq T
  BY <1>5, <1>6, NatSetInduction
<1>8. \A n \in Nat : \A v \in TreesUpTo[n + 1] : Parts(v, TreesUpTo[n])
  BY <1>7 DEF T
<1> QED BY <1>1, <1>2, <1>8

\* The arms of ToJson.
LEMMA JsonArms ==
  ASSUME NEW f, NEW v
  PROVE  /\ v.kind \in {"nil", "nonfinite"} => JsonFrom(f, v) = JNull
         /\ v.kind = "text" => JsonFrom(f, v) = JString(Decoded[v.text])
         /\ v.kind = "literal" => JsonFrom(f, v) = JLiteral(v.text)
         /\ v.kind \in ItemKinds =>
              JsonFrom(f, v) = JArray([i \in DOMAIN v.items |-> f[v.items[i]]])
         /\ v.kind = "map" =>
              JsonFrom(f, v) =
                JObject(Inserted([i \in DOMAIN v.pairs |->
                                    <<KeyFrom(v.pairs[i][1], f[v.pairs[i][1]]), f[v.pairs[i][2]]>>]))
         /\ v.kind = "attribute" => JsonFrom(f, v) = f[v.data]
<1>1. CASE v.kind \in {"nil", "nonfinite"}
  BY <1>1 DEF JsonFrom, ItemKinds
<1>2. CASE v.kind = "text"
  BY <1>2 DEF JsonFrom, ItemKinds, ScalarText
<1>3. CASE v.kind = "literal"
  BY <1>3 DEF JsonFrom, ItemKinds, ScalarText
<1>4. CASE v.kind \in ItemKinds
  BY <1>4 DEF JsonFrom, ItemKinds, JsonOfItems
<1>5. CASE v.kind = "map"
  BY <1>5 DEF JsonFrom, ItemKinds
<1>6. CASE v.kind = "attribute"
  BY <1>6 DEF JsonFrom, ItemKinds
<1> QED BY <1>1, <1>2, <1>3, <1>4, <1>5, <1>6

\* A level of ToJson depends on the parts only.
LEMMA JsonLocal ==
  ASSUME NEW S, NEW v, Parts(v, S), NEW f, NEW g, \A u \in S : f[u] = g[u]
  PROVE  JsonFrom(f, v) = JsonFrom(g, v)
<1>1. CASE v.kind \in {"nil"} \cup ScalarKinds
  BY <1>1, JsonArms DEF ScalarKinds
<1>2. CASE v.kind \in ItemKinds
  <2>1. \A i \in DOMAIN v.items : v.items[i] \in S
    BY <1>2 DEF Parts
  <2>2. [i \in DOMAIN v.items |-> f[v.items[i]]] = [i \in DOMAIN v.items |-> g[v.items[i]]]
    BY <2>1
  <2>3. JsonFrom(f, v) = JArray([i \in DOMAIN v.items |-> f[v.items[i]]])
    BY <1>2 DEF JsonFrom, ItemKinds, JsonOfItems
  <2>4. JsonFrom(g, v) = JArray([i \in DOMAIN v.items |-> g[v.items[i]]])
    BY <1>2 DEF JsonFrom, ItemKinds, JsonOfItems
  <2> QED BY <2>2, <2>3, <2>4, Zenon
<1>3. CASE v.kind = "map"
  <2>1. \A i \in DOMAIN v.pairs : v.pairs[i][1] \in S /\ v.pairs[i][2] \in S
    BY <1>3 DEF Parts
  <2>2. [i \in DOMAIN v.pairs |-> <<KeyFrom(v.pairs[i][1], f[v.pairs[i][1]]), f[v.pairs[i][2]]>>] =
          [i \in DOMAIN v.pairs |-> <<KeyFrom(v.pairs[i][1], g[v.pairs[i][1]]), g[v.pairs[i][2]]>>]
    BY <2>1
  <2>3. JsonFrom(f, v) =
          JObject(Inserted([i \in DOMAIN v.pairs |->
                              <<KeyFrom(v.pairs[i][1], f[v.pairs[i][1]]), f[v.pairs[i][2]]>>]))
    BY <1>3 DEF JsonFrom, ItemKinds
  <2>4. JsonFrom(g, v) =
          JObject(Inserted([i \in DOMAIN v.pairs |->
                              <<KeyFrom(v.pairs[i][1], g[v.pairs[i][1]]), g[v.pairs[i][2]]>>]))
    BY <1>3 DEF JsonFrom, ItemKinds
  <2> QED BY <2>2, <2>3, <2>4, Zenon
<1>4. CASE v.kind = "attribute"
  <2>1. v.data \in S
    BY <1>4 DEF Parts
  <2> QED BY <1>4, <2>1, JsonArms
<1> QED BY <1>1, <1>2, <1>3, <1>4 DEF Parts

\* f is ToJson on the replies S.
Jsons(S, f) == f = [v \in S |-> JsonFrom(f, v)]

\* There is such a function for every depth.
LEMMA JsonsExist == \A n \in Nat : \E f : Jsons(TreesUpTo[n], f)
<1> DEFINE T == {n \in Nat : \E f : Jsons(TreesUpTo[n], f)}
<1>1. 0 \in T
  <2> DEFINE f == [v \in TreesUpTo[0] |-> JsonFrom(<<>>, v)]
  <2>1. \A v \in TreesUpTo[0] : f[v] = JsonFrom(<<>>, v)
    OBVIOUS
  <2>2. f = [v \in TreesUpTo[0] |-> f[v]]
    OBVIOUS
  <2> HIDE DEF f
  <2>3. \A v \in TreesUpTo[0] : JsonFrom(<<>>, v) = JsonFrom(f, v)
    <3> SUFFICES ASSUME NEW v \in TreesUpTo[0] PROVE JsonFrom(<<>>, v) = JsonFrom(f, v)
      OBVIOUS
    <3>1. Parts(v, {})
      BY TreeParts
    <3>2. \A u \in {} : <<>>[u] = f[u]
      OBVIOUS
    <3> QED BY <3>1, <3>2, JsonLocal
  <2>4. Jsons(TreesUpTo[0], f)
    BY <2>1, <2>2, <2>3 DEF Jsons
  <2> QED BY <2>4
<1>2. ASSUME NEW n \in Nat, n \in T PROVE n + 1 \in T
  <2>1. PICK f : Jsons(TreesUpTo[n], f)
    BY <1>2
  <2> DEFINE g == [v \in TreesUpTo[n + 1] |-> JsonFrom(f, v)]
  <2>2. \A v \in TreesUpTo[n + 1] : g[v] = JsonFrom(f, v)
    OBVIOUS
  <2>3. g = [v \in TreesUpTo[n + 1] |-> g[v]]
    OBVIOUS
  <2> HIDE DEF g
  <2>4. \A u \in TreesUpTo[n] : g[u] = f[u]
    <3>1. \A u \in TreesUpTo[n] : f[u] = JsonFrom(f, u)
      BY <2>1 DEF Jsons
    <3>2. \A u \in TreesUpTo[n] : u \in TreesUpTo[n + 1]
      BY TreeParts
    <3> QED BY <2>2, <3>1, <3>2
  <2>5. \A v \in TreesUpTo[n + 1] : JsonFrom(f, v) = JsonFrom(g, v)
    <3>1. \A v \in TreesUpTo[n + 1] : Parts(v, TreesUpTo[n])
      BY TreeParts
    <3>2. \A u \in TreesUpTo[n] : f[u] = g[u]
      BY <2>4
    <3> QED BY <3>1, <3>2, JsonLocal
  <2>6. Jsons(TreesUpTo[n + 1], g)
    BY <2>2, <2>3, <2>5 DEF Jsons
  <2> QED BY <2>6
<1> HIDE DEF T
<1>3. Nat \subseteq T
  BY <1>1, <1>2, NatSetInduction
<1> QED BY <1>3 DEF T

\* ToJson is what its definition says.
LEMMA ToJsonIs == \A v \in Trees : ToJson[v] = JsonFrom(ToJson, v)
<1>1. \E f : Jsons(Trees, f)
  BY JsonsExist, ReplyAssumption DEF Trees
<1>2. ToJson = CHOOSE f : f = [v \in Trees |-> JsonFrom(f, v)]
  BY DEF ToJson
<1>3. ToJson = CHOOSE f : Jsons(Trees, f)
  BY <1>2, Zenon DEF Jsons
<1>4. Jsons(Trees, ToJson)
  BY <1>1, <1>3, Zenon
<1> QED BY <1>4 DEF Jsons

-----------------------------------------------------------------------------
(* Previews of collections                                                  *)

\* What a text is as JSON, and as a key.
LEMMA TextIs ==
  ASSUME NEW m \in Texts
  PROVE  /\ Text(m) \in Trees /\ Text(m).kind = "text"
         /\ ToJson[Text(m)] = JString(Decoded[m]) /\ KeyText(Text(m)) = Raw(Decoded[m])
<1> DEFINE T == {n \in Nat : Text(m) \in TreesUpTo[n]}
<1>1. Text(m).kind = "text" /\ Text(m).text = m
  BY DEF Text
<1>2. 0 \in T
  <2>1. Text(m) \in Flat0
    BY DEF Text, Flat0, ScalarKinds
  <2> QED BY <2>1, TreesAre
<1>3. ASSUME NEW n \in Nat, n \in T PROVE n + 1 \in T
  BY <1>3, TreeParts
<1> HIDE DEF T
<1>4. Nat \subseteq T
  BY <1>2, <1>3, NatSetInduction
<1>5. Text(m) \in Trees
  BY <1>4, ReplyAssumption DEF T, Trees
<1>6. ToJson[Text(m)] = JString(Decoded[m])
  <2>1. ToJson[Text(m)] = JsonFrom(ToJson, Text(m))
    BY <1>5, ToJsonIs
  <2>2. JsonFrom(ToJson, Text(m)) = JString(Decoded[Text(m).text])
    BY <1>1, JsonArms
  <2> QED BY <1>1, <2>1, <2>2
<1>7. KeyText(Text(m)) = Raw(Decoded[m])
  <2>1. KeyText(Text(m)) = CellFrom(Text(m), ToJson[Text(m)])[1]
    BY <1>1 DEF KeyText, KeyFrom
  <2>2. CellFrom(Text(m), ToJson[Text(m)]) = Some(Raw(Decoded[Text(m).text]))
    BY <1>1 DEF CellFrom, ScalarKinds, ScalarText
  <2> QED BY <1>1, <2>1, <2>2 DEF Some
<1> QED BY <1>1, <1>5, <1>6, <1>7

\* Keys and JSON strings are as different as their texts.
LEMMA RawDiffers == \A m, n : Raw(m) = Raw(n) => m = n
<1>1. \A m : Raw(m).raw = m
  BY DEF Raw
<1> QED BY <1>1

\* The pairs of texts a collection is made of.
TextPairs == Seq(Texts \X Texts)
PairsIn(c) == [i \in 1..Len(c) |-> PairOf(Text(c[i][1]), Text(c[i][2]))]

\* What the elements of a sequence of pairs of texts are.
LEMMA TextsOf ==
  ASSUME NEW c \in TextPairs
  PROVE  /\ Len(c) \in Nat /\ DOMAIN c = 1..Len(c)
         /\ \A i \in 1..Len(c) : c[i][1] \in Texts /\ c[i][2] \in Texts
BY DEF TextPairs

\* Fields that are all different become an object that holds all of them.
LEMMA ObjectShown ==
  ASSUME NEW c \in TextPairs, DistinctTexts(c)
  PROVE  ObjectOf(PairsIn(c)) = JObject(PairSet(c))
<1> DEFINE q == [i \in 1..Len(c) |-> <<Raw(Decoded[c[i][1]]), JString(Decoded[c[i][2]])>>]
<1>1. \A i \in 1..Len(c) : PairsIn(c)[i] = <<Raw(Decoded[c[i][1]]), Text(c[i][2])>>
  BY TextsOf, TextIs DEF PairsIn, PairOf
<1>2. DOMAIN PairsIn(c) = 1..Len(c)
  BY DEF PairsIn
<1>3. \A i \in 1..Len(c) :
        /\ PairsIn(c)[i][1] = Raw(Decoded[c[i][1]])
        /\ ToJson[PairsIn(c)[i][2]] = JString(Decoded[c[i][2]])
  BY <1>1, TextsOf, TextIs
<1>4. [i \in DOMAIN PairsIn(c) |-> <<PairsIn(c)[i][1], ToJson[PairsIn(c)[i][2]]>>] = q
  BY <1>2, <1>3
<1>5. ObjectOf(PairsIn(c)) = JObject(Inserted(q))
  BY <1>4, Zenon DEF ObjectOf
<1>6. /\ DOMAIN q = 1..Len(c)
      /\ \A i \in 1..Len(c) : q[i] = <<Raw(Decoded[c[i][1]]), JString(Decoded[c[i][2]])>>
  OBVIOUS
<1> HIDE DEF q
<1>7. \A j \in DOMAIN q : \A k \in DOMAIN q : k > j => q[k][1] # q[j][1]
  <2> SUFFICES ASSUME NEW j \in 1..Len(c), NEW k \in 1..Len(c), k > j, q[k][1] = q[j][1] PROVE FALSE
    BY <1>6
  <2>1. Raw(Decoded[c[k][1]]) = Raw(Decoded[c[j][1]])
    BY <1>6
  <2>2. Decoded[c[k][1]] = Decoded[c[j][1]]
    BY <2>1, RawDiffers
  <2>3. k = j
    BY <2>2, TextsOf DEF DistinctTexts
  <2> QED BY <2>3, TextsOf
<1>8. Inserted(q) = {q[i] : i \in DOMAIN q}
  BY <1>7 DEF Inserted
<1>9. {q[i] : i \in DOMAIN q} = PairSet(c)
  BY <1>6, TextsOf DEF PairSet
<1> QED BY <1>5, <1>8, <1>9, Zenon

\* The pairs in a flat reply, whose elements are never arrays.
LEMMA FlatPairs ==
  ASSUME NEW c \in TextPairs
  PROVE  PairsOf(Flat(c)) = PairsIn(c)
<1> DEFINE n == Len(c)
<1>1. n \in Nat
  BY TextsOf
<1>2. DOMAIN Flat(c) = 1..(2 * n) /\ Len(Flat(c)) = 2 * n
  BY <1>1 DEF Flat
<1>3. \A i \in 1..n : Flat(c)[2 * i - 1] = Text(c[i][1]) /\ Flat(c)[2 * i] = Text(c[i][2])
  <2> SUFFICES ASSUME NEW i \in 1..n
               PROVE  Flat(c)[2 * i - 1] = Text(c[i][1]) /\ Flat(c)[2 * i] = Text(c[i][2])
    OBVIOUS
  <2>1. /\ 2 * i - 1 \in 1..(2 * n) /\ 2 * i \in 1..(2 * n)
        /\ ((2 * i - 1) + 1) \div 2 = i /\ (2 * i + 1) \div 2 = i
        /\ 2 - ((2 * i - 1) % 2) = 1 /\ 2 - ((2 * i) % 2) = 2
    BY <1>1
  <2> QED BY <2>1 DEF Flat
<1>4. CASE n = 0
  <2>1. Flat(c) = <<>>
    BY <1>2, <1>4 DEF Flat
  <2>2. \A i \in DOMAIN <<>> : IsArray(<<>>[i])
    OBVIOUS
  <2>3. Kept(<<>>, {i \in DOMAIN <<>> : Len(<<>>[i].items) = 2}) = <<>>
    <3>1. <<>> \in Seq({}) /\ DOMAIN <<>> \subseteq {i \in DOMAIN <<>> : Len(<<>>[i].items) = 2}
      OBVIOUS
    <3> QED BY <3>1, KeptAll
  <2>4. PairsOf(<<>>) = [i \in DOMAIN <<>> |-> PairOf(<<>>[i].items[1], <<>>[i].items[2])]
    BY <2>2, <2>3 DEF PairsOf
  <2>5. PairsIn(c) = <<>>
    BY <1>4 DEF PairsIn
  <2>6. PairsOf(<<>>) = <<>>
    BY <2>4
  <2> QED BY <2>1, <2>5, <2>6
<1>5. CASE n # 0
  <2>1. ~\A i \in DOMAIN Flat(c) : IsArray(Flat(c)[i])
    <3>1. 1 \in 1..n /\ 2 * 1 - 1 = 1 /\ 1 \in 1..(2 * n)
      BY <1>1, <1>5
    <3>2. Flat(c)[1] = Text(c[1][1]) /\ c[1][1] \in Texts
      BY <1>3, <3>1, TextsOf
    <3>3. ~IsArray(Flat(c)[1])
      BY <3>2, TextIs DEF IsArray
    <3> QED BY <1>2, <3>1, <3>3
  <2>2. PairsOf(Flat(c)) =
          [i \in 1..(Len(Flat(c)) \div 2) |-> PairOf(Flat(c)[2 * i - 1], Flat(c)[2 * i])]
    BY <2>1 DEF PairsOf
  <2>3. Len(Flat(c)) \div 2 = n
    BY <1>1, <1>2
  <2> QED BY <1>3, <2>2, <2>3 DEF PairsIn
<1> QED BY <1>4, <1>5

\* The pairs in a nested reply.
LEMMA NestedPairs ==
  ASSUME NEW c \in TextPairs
  PROVE  PairsOf(Nested(c)) = PairsIn(c)
<1> DEFINE v(i) == Array(<<Text(c[i][1]), Text(c[i][2])>>)
           I == {i \in DOMAIN Nested(c) : Len(Nested(c)[i].items) = 2}
<1>1. /\ DOMAIN Nested(c) = 1..Len(c) /\ Len(c) \in Nat
      /\ \A i \in 1..Len(c) : Nested(c)[i] = v(i)
  BY TextsOf DEF Nested
<1>2. \A i : IsArray(v(i)) /\ v(i).items = <<Text(c[i][1]), Text(c[i][2])>>
  BY DEF IsArray, Array, Items
<1>3. \A i \in DOMAIN Nested(c) : IsArray(Nested(c)[i])
  BY <1>1, <1>2
<1>7. \A i : /\ Len(v(i).items) = 2
             /\ v(i).items[1] = Text(c[i][1]) /\ v(i).items[2] = Text(c[i][2])
  <2>1. \A a, b : Len(<<a, b>>) = 2 /\ <<a, b>>[1] = a /\ <<a, b>>[2] = b
    OBVIOUS
  <2> HIDE DEF v
  <2> TAKE i
  <2>2. v(i).items = <<Text(c[i][1]), Text(c[i][2])>>
    BY <1>2, Zenon
  <2>3. \A w : w = <<Text(c[i][1]), Text(c[i][2])>> =>
             Len(w) = 2 /\ w[1] = Text(c[i][1]) /\ w[2] = Text(c[i][2])
    BY <2>1
  <2> QED BY <2>2, <2>3, Zenon
<1>4. Kept(Nested(c), I) = Nested(c)
  <2>1. Nested(c) \in Seq({v(i) : i \in 1..Len(c)})
    <3>1. \A i \in 1..Len(c) : Nested(c)[i] \in {v(j) : j \in 1..Len(c)}
      BY <1>1
    <3>2. Nested(c) = [i \in 1..Len(c) |-> Nested(c)[i]]
      BY <1>1 DEF Nested
    <3> HIDE DEF v
    <3> QED BY <1>1, <3>1, <3>2
  <2>2. DOMAIN Nested(c) \subseteq I
    <3> HIDE DEF v
    <3> QED BY <1>1, <1>7
  <2> HIDE DEF v, I
  <2> QED BY <2>1, <2>2, KeptAll
<1>5. PairsOf(Nested(c)) =
        [i \in DOMAIN Nested(c) |-> PairOf(Nested(c)[i].items[1], Nested(c)[i].items[2])]
  BY <1>3, <1>4 DEF PairsOf
<1>6. \A i \in 1..Len(c) : Nested(c)[i].items[1] = Text(c[i][1]) /\ Nested(c)[i].items[2] = Text(c[i][2])
  <2> HIDE DEF v
  <2> QED BY <1>1, <1>7
<1> QED BY <1>1, <1>5, <1>6 DEF PairsIn

\* A scan's reply holds its elements.
LEMMA ScanIs == \A k, s : ScanElements(ScanReply(k, s)) = s
<1> SUFFICES ASSUME NEW k, NEW s PROVE ScanElements(ScanReply(k, s)) = s
  OBVIOUS
<1>1. IsArray(ScanReply(k, s)) /\ ScanReply(k, s).items = <<Text(k), Array(s)>>
  BY DEF IsArray, ScanReply, Array, Items
<1>2. IsArray(Array(s)) /\ Array(s).items = s
  BY DEF IsArray, Array, Items
<1>3. Len(ScanReply(k, s).items) >= 2 /\ ScanReply(k, s).items[2] = Array(s)
  BY <1>1
<1> QED BY <1>1, <1>2, <1>3 DEF ScanElements

\* preview_hash shows every field that HSCAN returns with its value, in either
\* shape of the reply, however many, if no two fields are shown alike.
THEOREM HashShown ==
  ASSUME NEW k, NEW c \in TextPairs, DistinctTexts(c), NEW r \in HScan(k, c)
  PROVE  PreviewHash(r) = Some(JObject(PairSet(c)))
<1>1. PairsFromScan(r) = PairsIn(c)
  BY ScanIs, FlatPairs, NestedPairs DEF HScan, PairsFromScan
<1> QED BY <1>1, ObjectShown, Zenon DEF PreviewHash

\* What a preview's one call returns is a part of the collection.
LEMMA FetchedTexts ==
  ASSUME NEW kind, NEW c \in TextPairs, NEW f \in Fetched(kind, c)
  PROVE  f \in TextPairs
<1>1. Len(c) \in Nat /\ PreviewElements \in Nat
  BY TextsOf, PreviewAssumption
<1>2. PICK n \in 0..Len(c) : f = SubSeq(c, 1, n)
  <2>1. Min({Len(c), PreviewElements}) \in 0..Len(c)
    BY <1>1, MinIs
  <2> QED BY <2>1 DEF Fetched, FirstElements
<1> QED BY <1>1, <1>2 DEF TextPairs

\* preview_list shows the first elements, in order, of a list of any length.
THEOREM ListShown ==
  ASSUME NEW c \in TextPairs, NEW r \in LRange(FirstElements(c))
  PROVE  PreviewList(r) =
           Some(JArray([i \in 1..Min({Len(c), PreviewElements}) |-> JString(Decoded[c[i][1]])]))
<1> DEFINE m == Min({Len(c), PreviewElements})
           first == FirstElements(c)
<1>1. Len(c) \in Nat /\ PreviewElements \in Nat
  BY TextsOf, PreviewAssumption
<1>2. m \in 0..Len(c)
  BY <1>1, MinIs
<1>3. first = SubSeq(c, 1, m)
  BY DEF FirstElements
<1> HIDE DEF m, first
<1>4. Len(first) = m /\ DOMAIN first = 1..m /\ \A i \in 1..m : first[i] = c[i]
  BY <1>1, <1>2, <1>3 DEF TextPairs
<1>5. r = Array(Elements(first))
  BY DEF LRange, first
<1>6. IsArray(r) /\ r.items = Elements(first)
  BY <1>5 DEF IsArray, Array, Items
<1>7. DOMAIN Elements(first) = 1..m /\ \A i \in 1..m : Elements(first)[i] = Text(c[i][1])
  BY <1>4 DEF Elements
<1>8. \A i \in 1..m : ToJson[Elements(first)[i]] = JString(Decoded[c[i][1]])
  <2> SUFFICES ASSUME NEW i \in 1..m PROVE ToJson[Elements(first)[i]] = JString(Decoded[c[i][1]])
    OBVIOUS
  <2>1. i \in 1..Len(c)
    BY <1>1, <1>2
  <2> QED BY <1>7, <2>1, TextsOf, TextIs
<1>9. Values(Elements(first)) = [i \in 1..m |-> JString(Decoded[c[i][1]])]
  BY <1>7, <1>8 DEF Values
<1> QED BY <1>6, <1>9 DEF PreviewList, m

\* g is what SortMembers holds after each of the first n members.
Sorts(s, n, g) == g = [i \in 0..n |-> IF i = 0 THEN <<>> ELSE Placed(g[i - 1], s[i])]

\* There is such a function.
LEMMA SortsExist == \A s : \A n \in Nat : \E g : Sorts(s, n, g)
<1> SUFFICES ASSUME NEW s PROVE \A n \in Nat : \E g : Sorts(s, n, g)
  OBVIOUS
<1> DEFINE After(i, h) == IF i = 0 THEN <<>> ELSE Placed(h[i - 1], s[i])
           T == {n \in Nat : \E g : Sorts(s, n, g)}
<1>1. 0 \in T
  <2> DEFINE g == [i \in 0..0 |-> After(0, <<>>)]
  <2>1. g = [i \in 0..0 |-> After(i, g)]
    OBVIOUS
  <2> QED BY <2>1 DEF Sorts
<1>2. ASSUME NEW n \in Nat, n \in T PROVE n + 1 \in T
  <2>1. PICK g : Sorts(s, n, g)
    BY <1>2
  <2> DEFINE k == [i \in 0..(n + 1) |-> After(i, g)]
  <2>2. \A i \in 0..n : g[i] = After(i, g)
    BY <2>1 DEF Sorts
  <2>3. \A i \in 0..n : k[i] = g[i]
    BY <2>2
  <2>4. ASSUME NEW i \in 0..(n + 1) PROVE k[i] = After(i, k)
    <3>1. k[i] = After(i, g)
      OBVIOUS
    <3>2. i # 0 => i - 1 \in 0..n
      OBVIOUS
    <3> HIDE DEF k
    <3>3. i # 0 => k[i - 1] = g[i - 1]
      BY <2>3, <3>2
    <3> QED BY <3>1, <3>3
  <2>5. k = [i \in 0..(n + 1) |-> After(i, k)]
    <3>1. k = [i \in 0..(n + 1) |-> k[i]]
      OBVIOUS
    <3> HIDE DEF k, After
    <3> QED BY <2>4, <3>1
  <2> HIDE DEF k
  <2> QED BY <2>5 DEF Sorts
<1> HIDE DEF T
<1>3. Nat \subseteq T
  BY <1>1, <1>2, NatSetInduction
<1> QED BY <1>3 DEF T

\* SortMembers returns the last value of that function.
LEMMA SortIs ==
  \A s : Len(s) \in Nat => \E g : Sorts(s, Len(s), g) /\ SortMembers(s) = g[Len(s)]
<1> SUFFICES ASSUME NEW s, Len(s) \in Nat
             PROVE  \E g : Sorts(s, Len(s), g) /\ SortMembers(s) = g[Len(s)]
  OBVIOUS
<1> DEFINE g == CHOOSE g : g = [i \in 0..Len(s) |-> IF i = 0 THEN <<>> ELSE Placed(g[i - 1], s[i])]
<1>1. SortMembers(s) = g[Len(s)]
  BY DEF SortMembers
<1>2. \E f : f = [i \in 0..Len(s) |-> IF i = 0 THEN <<>> ELSE Placed(f[i - 1], s[i])]
  <2>1. \E f : Sorts(s, Len(s), f)
    BY SortsExist, Zenon
  <2> QED BY <2>1, Zenon DEF Sorts
<1>3. g = [i \in 0..Len(s) |-> IF i = 0 THEN <<>> ELSE Placed(g[i - 1], s[i])]
  BY <1>2, Zenon
<1> HIDE DEF g
<1> QED BY <1>1, <1>3 DEF Sorts

\* The members t, in JSON, are those of the numbers k in increasing order.
Increasing(n, k, X, t) ==
    /\ k \in [1..n -> X] /\ t = [i \in 1..n |-> JString(k[i])]
    /\ \A i, j \in 1..n : i < j => k[i] < k[j]

\* A new member finds its place among sorted ones.
LEMMA PlacedIs ==
  ASSUME NEW n \in Nat, NEW k, NEW X, X \subseteq Nat, NEW t, Increasing(n, k, X, t),
         NEW x \in Nat, x \notin X
  PROVE  \E u : Increasing(n + 1, u, X \cup {x}, Placed(t, JString(x)))
<1> DEFINE T == {q \in 0..Len(t) : \A i \in 1..q : t[i].text <= JString(x).text}
           m == Max(T)
           u == [i \in 1..(n + 1) |-> IF i <= m THEN k[i] ELSE IF i = m + 1 THEN x ELSE k[i - 1]]
           p == Placed(t, JString(x))
<1>1. \A y : JString(y).text = y
  BY DEF JString
<1>2. /\ k \in [1..n -> X] /\ t = [i \in 1..n |-> JString(k[i])]
      /\ \A i, j \in 1..n : i < j => k[i] < k[j]
  BY DEF Increasing
<1>3. Len(t) = n /\ \A i \in 1..n : t[i] = JString(k[i]) /\ t[i].text = k[i] /\ k[i] \in X /\ k[i] \in Nat
  <2>1. Len(t) = n /\ \A i \in 1..n : t[i] = JString(k[i])
    BY <1>2
  <2>2. \A i \in 1..n : t[i].text = k[i]
    BY <1>1, <2>1
  <2>3. \A i \in 1..n : k[i] \in X /\ k[i] \in Nat
    BY <1>2
  <2> QED BY <2>1, <2>2, <2>3
<1>4. T \subseteq 0..n /\ 0 \in T
  BY <1>3
<1>5. m \in T /\ \A y \in T : y <= m
  BY <1>4, MaxIs
<1>6. p = [i \in 1..(Len(t) + 1) |-> IF i <= m THEN t[i] ELSE IF i = m + 1 THEN JString(x) ELSE t[i - 1]]
  BY Zenon DEF Placed
<1>7. \A q : q \in T <=> q \in 0..n /\ \A i \in 1..q : k[i] <= x
  BY <1>1, <1>3
<1> HIDE DEF T, m, p
<1>8. m \in 0..n /\ \A i \in 1..m : k[i] < x
  <2>1. m \in 0..n /\ \A i \in 1..m : k[i] <= x
    BY <1>5, <1>7
  <2> QED BY <1>3, <2>1
<1>9. \A i \in 1..n : i > m => x < k[i]
  <2>1. m < n => x < k[m + 1]
    <3> SUFFICES ASSUME m < n, ~(x < k[m + 1]) PROVE FALSE
      OBVIOUS
    <3>1. m + 1 \in 1..n /\ m + 1 \in 0..n
      BY <1>8
    <3>2. k[m + 1] <= x
      BY <1>3, <3>1
    <3>3. \A i \in 1..(m + 1) : i \in 1..m \/ i = m + 1
      BY <1>8
    <3>4. \A i \in 1..(m + 1) : k[i] <= x
      <4> SUFFICES ASSUME NEW i \in 1..(m + 1) PROVE k[i] <= x
        OBVIOUS
      <4>1. CASE i \in 1..m
        <5>1. i \in 1..n
          BY <1>8, <4>1
        <5> QED BY <1>3, <1>8, <4>1, <5>1
      <4>2. CASE i = m + 1
        BY <3>2, <4>2
      <4> QED BY <3>3, <4>1, <4>2
    <3>5. m + 1 \in T
      BY <1>7, <3>1, <3>4
    <3> QED BY <1>5, <1>8, <3>5
  <2> SUFFICES ASSUME NEW i \in 1..n, i > m PROVE x < k[i]
    OBVIOUS
  <2>2. m + 1 \in 1..n /\ m < n /\ (i = m + 1 \/ m + 1 < i)
    BY <1>8
  <2>3. i = m + 1 \/ k[m + 1] < k[i]
    BY <1>2, <2>2
  <2> QED BY <1>3, <2>1, <2>2, <2>3
<1>10. \A i \in 1..(n + 1) : u[i] = IF i <= m THEN k[i] ELSE IF i = m + 1 THEN x ELSE k[i - 1]
  OBVIOUS
<1>11. u = [i \in 1..(n + 1) |-> u[i]]
  OBVIOUS
<1> HIDE DEF u
<1>12. \A i \in 1..(n + 1) : \/ i <= m /\ i \in 1..n /\ i \in 1..m /\ u[i] = k[i]
                             \/ i = m + 1 /\ u[i] = x
                             \/ i > m + 1 /\ i - 1 \in 1..n /\ i - 1 > m /\ u[i] = k[i - 1]
  BY <1>8, <1>10
<1>13. u \in [1..(n + 1) -> X \cup {x}]
  <2>1. \A i \in 1..(n + 1) : u[i] \in X \cup {x}
    BY <1>3, <1>12
  <2> QED BY <1>11, <2>1
<1>14. p = [i \in 1..(n + 1) |-> JString(u[i])]
  <2>1. \A i \in 1..(n + 1) : p[i] = JString(u[i])
    BY <1>3, <1>6, <1>8, <1>12
  <2>2. p = [i \in 1..(n + 1) |-> p[i]]
    BY <1>3, <1>6
  <2> QED BY <2>1, <2>2
<1>15. ASSUME NEW i \in 1..(n + 1), NEW j \in 1..(n + 1), i < j PROVE u[i] < u[j]
  <2>1. CASE i <= m /\ i \in 1..n /\ i \in 1..m /\ u[i] = k[i]
    <3>1. CASE j <= m /\ j \in 1..n /\ j \in 1..m /\ u[j] = k[j]
      BY <1>2, <1>15, <2>1, <3>1
    <3>2. CASE j = m + 1 /\ u[j] = x
      BY <1>8, <2>1, <3>2
    <3>3. CASE j > m + 1 /\ j - 1 \in 1..n /\ j - 1 > m /\ u[j] = k[j - 1]
      <4>1. k[i] < x /\ x < k[j - 1]
        BY <1>8, <1>9, <2>1, <3>3
      <4> QED BY <1>3, <2>1, <3>3, <4>1
    <3> QED BY <1>12, <3>1, <3>2, <3>3
  <2>2. CASE i = m + 1 /\ u[i] = x
    <3>1. j > m + 1
      BY <1>8, <1>15, <2>2
    <3>2. j - 1 \in 1..n /\ j - 1 > m /\ u[j] = k[j - 1]
      BY <1>8, <1>12, <3>1
    <3> QED BY <1>9, <2>2, <3>2
  <2>3. CASE i > m + 1 /\ i - 1 \in 1..n /\ i - 1 > m /\ u[i] = k[i - 1]
    <3>1. j > m + 1
      BY <1>8, <1>15, <2>3
    <3>2. j - 1 \in 1..n /\ j - 1 > m /\ u[j] = k[j - 1]
      BY <1>8, <1>12, <3>1
    <3>3. i - 1 < j - 1
      BY <1>15
    <3> QED BY <1>2, <2>3, <3>2, <3>3
  <2> QED BY <1>12, <2>1, <2>2, <2>3
<1>16. Increasing(n + 1, u, X \cup {x}, p)
  BY <1>13, <1>14, <1>15, Zenon DEF Increasing
<1> QED BY <1>16 DEF p

\* Members that are all different come out sorted, none lost and none twice.
LEMMA MembersSorted ==
  ASSUME NEW n \in Nat, NEW x \in [1..n -> Nat], \A i, j \in 1..n : x[i] = x[j] => i = j,
         NEW s, s = [i \in 1..n |-> JString(x[i])]
  PROVE  \E k : Increasing(n, k, {x[i] : i \in 1..n}, SortMembers(s))
<1> DEFINE X(q) == {x[i] : i \in 1..q}
<1>1. Len(s) = n /\ \A i \in 1..n : s[i] = JString(x[i])
  OBVIOUS
<1>2. PICK g : Sorts(s, n, g) /\ SortMembers(s) = g[n]
  BY <1>1, SortIs
<1>3. \A i \in 0..n : g[i] = IF i = 0 THEN <<>> ELSE Placed(g[i - 1], s[i])
  BY <1>2 DEF Sorts
<1> DEFINE Sorted(q) == \E k : Increasing(q, k, X(q), g[q])
           U == {q \in Nat : q <= n => Sorted(q)}
<1>4. 0 \in U
  <2>1. g[0] = <<>>
    <3>1. 0 \in 0..n
      OBVIOUS
    <3> QED BY <1>3, <3>1
  <2>2. Increasing(0, <<>>, X(0), g[0])
    BY <2>1 DEF Increasing
  <2> QED BY <2>2
<1>5. ASSUME NEW q \in Nat, q \in U PROVE q + 1 \in U
  <2> HIDE DEF Sorted
  <2> SUFFICES ASSUME q + 1 <= n PROVE Sorted(q + 1)
    OBVIOUS
  <2>1. q \in Nat /\ q <= n /\ q + 1 \in 1..n /\ q + 1 \in 0..n /\ q + 1 # 0 /\ (q + 1) - 1 = q
    OBVIOUS
  <2>2. PICK k : Increasing(q, k, X(q), g[q])
    <3>1. Sorted(q)
      BY <1>5, <2>1
    <3> QED BY <3>1 DEF Sorted
  <2>3. g[q + 1] = Placed(g[q], JString(x[q + 1]))
    BY <1>1, <1>3, <2>1
  <2>4. X(q) \subseteq Nat /\ x[q + 1] \in Nat
    BY <2>1
  <2>5. x[q + 1] \notin X(q)
    BY <2>1
  <2>6. X(q + 1) = X(q) \cup {x[q + 1]}
    <3>1. \A i : i \in 1..(q + 1) <=> i \in 1..q \/ i = q + 1
      BY <2>1
    <3> QED BY <3>1
  <2> HIDE DEF X, U
  <2>7. \E u : Increasing(q + 1, u, X(q) \cup {x[q + 1]}, Placed(g[q], JString(x[q + 1])))
    BY <2>1, <2>2, <2>4, <2>5, PlacedIs
  <2> QED BY <2>3, <2>6, <2>7, Zenon DEF Sorted
<1> HIDE DEF U, Sorted
<1>6. Nat \subseteq U
  BY <1>4, <1>5, NatSetInduction
<1>7. Sorted(n)
  BY <1>6 DEF U
<1> QED BY <1>2, <1>7, Zenon DEF Sorted

\* preview_set shows the members that SSCAN returns, each once and in order,
\* however many, if no two are shown alike.
THEOREM SetShown ==
  ASSUME NEW k, NEW c \in TextPairs, DistinctTexts(c), NEW r \in SScan(k, c)
  PROVE  \E s \in [DOMAIN c -> {Decoded[p[1]] : p \in ToSet(c)}] :
           /\ PreviewSet(r) = Some(JArray([i \in DOMAIN s |-> JString(s[i])]))
           /\ \A i, j \in DOMAIN s : i < j => s[i] < s[j]
<1> DEFINE n == Len(c)
           x == [i \in 1..n |-> Decoded[c[i][1]]]
           v == Values(Elements(c))
<1>1. n \in Nat /\ DOMAIN c = 1..n
  BY TextsOf
<1>2. x \in [1..n -> Nat] /\ \A i \in 1..n : x[i] = Decoded[c[i][1]]
  BY TextsOf, ReplyAssumption, ConversionsAssumption
<1>3. \A i, j \in 1..n : x[i] = x[j] => i = j
  BY <1>1, <1>2 DEF DistinctTexts
<1>4. DOMAIN Elements(c) = 1..n /\ \A i \in 1..n : Elements(c)[i] = Text(c[i][1])
  BY <1>1 DEF Elements
<1>5. v = [i \in 1..n |-> JString(x[i])]
  <2>1. \A i \in 1..n : ToJson[Elements(c)[i]] = JString(x[i])
    BY <1>2, <1>4, TextsOf, TextIs
  <2> HIDE DEF x
  <2> QED BY <1>4, <2>1 DEF Values
<1>6. PreviewSet(r) = Some(JArray(SortMembers(v)))
  BY ScanIs, Zenon DEF SScan, PreviewSet
<1>7. {x[i] : i \in 1..n} = {Decoded[p[1]] : p \in ToSet(c)}
  BY <1>1, <1>2 DEF ToSet
<1> HIDE DEF n, x, v
<1>8. PICK s : Increasing(n, s, {x[i] : i \in 1..n}, SortMembers(v))
  BY <1>1, <1>2, <1>3, <1>5, MembersSorted
<1>9. /\ s \in [1..n -> {Decoded[p[1]] : p \in ToSet(c)}] /\ SortMembers(v) = [i \in 1..n |-> JString(s[i])]
      /\ \A i, j \in 1..n : i < j => s[i] < s[j]
  BY <1>7, <1>8 DEF Increasing
<1>10. DOMAIN s = 1..n
  BY <1>9
<1> QED BY <1>1, <1>6, <1>9, <1>10, Zenon

-----------------------------------------------------------------------------
(* The scalars of a reply and of its JSON                                   *)

\* g holds the nodes of each of the first n levels below the nodes S.
Levels(S, n, g) == g = [i \in 0..n |-> IF i = 0 THEN S ELSE UNION {Children(x) : x \in g[i - 1]}]

\* There is such a function.
LEMMA LevelsExist == \A S : \A n \in Nat : \E g : Levels(S, n, g)
<1> SUFFICES ASSUME NEW S PROVE \A n \in Nat : \E g : Levels(S, n, g)
  OBVIOUS
<1> DEFINE After(i, h) == IF i = 0 THEN S ELSE UNION {Children(x) : x \in h[i - 1]}
           T == {n \in Nat : \E g : Levels(S, n, g)}
<1>1. 0 \in T
  <2> DEFINE g == [i \in 0..0 |-> After(0, <<>>)]
  <2>1. g = [i \in 0..0 |-> After(i, g)]
    OBVIOUS
  <2> QED BY <2>1 DEF Levels
<1>2. ASSUME NEW n \in Nat, n \in T PROVE n + 1 \in T
  <2>1. PICK g : Levels(S, n, g)
    BY <1>2
  <2> DEFINE k == [i \in 0..(n + 1) |-> After(i, g)]
  <2>2. \A i \in 0..n : g[i] = After(i, g)
    BY <2>1 DEF Levels
  <2>3. \A i \in 0..n : k[i] = g[i]
    <3> HIDE DEF After
    <3> QED BY <2>2
  <2>4. ASSUME NEW i \in 0..(n + 1) PROVE k[i] = After(i, k)
    <3>1. k[i] = After(i, g)
      OBVIOUS
    <3>2. i # 0 => i - 1 \in 0..n
      OBVIOUS
    <3> HIDE DEF k
    <3>3. i # 0 => k[i - 1] = g[i - 1]
      BY <2>3, <3>2
    <3> QED BY <3>1, <3>3
  <2>5. k = [i \in 0..(n + 1) |-> After(i, k)]
    <3>1. k = [i \in 0..(n + 1) |-> k[i]]
      OBVIOUS
    <3> HIDE DEF k, After
    <3> QED BY <2>4, <3>1
  <2> HIDE DEF k
  <2> QED BY <2>5 DEF Levels
<1> HIDE DEF T
<1>3. Nat \subseteq T
  BY <1>1, <1>2, NatSetInduction
<1> QED BY <1>3 DEF T

\* Below returns the last level.
LEMMA BelowIs ==
  \A S, n : n \in Nat => \E g : Levels(S, n, g) /\ Below(S, n) = g[n]
<1> SUFFICES ASSUME NEW S, NEW n, n \in Nat
             PROVE  \E g : Levels(S, n, g) /\ Below(S, n) = g[n]
  OBVIOUS
<1> DEFINE g == CHOOSE g : g = [i \in 0..n |-> IF i = 0 THEN S ELSE UNION {Children(x) : x \in g[i - 1]}]
<1>1. Below(S, n) = g[n]
  BY DEF Below
<1>2. \E f : f = [i \in 0..n |-> IF i = 0 THEN S ELSE UNION {Children(x) : x \in f[i - 1]}]
  <2>1. \E f : Levels(S, n, f)
    BY LevelsExist, Zenon
  <2> QED BY <2>1, Zenon DEF Levels
<1>3. g = [i \in 0..n |-> IF i = 0 THEN S ELSE UNION {Children(x) : x \in g[i - 1]}]
  BY <1>2, Zenon
<1> HIDE DEF g
<1> QED BY <1>1, <1>3 DEF Levels

\* Two such functions agree where both are defined.
LEMMA LevelsAgree ==
  ASSUME NEW S, NEW n \in Nat, NEW g, NEW h, Levels(S, n, g), Levels(S, n + 1, h)
  PROVE  g[n] = h[n]
<1> DEFINE T == {i \in Nat : i <= n => g[i] = h[i]}
<1>1. /\ \A i \in 0..n : g[i] = IF i = 0 THEN S ELSE UNION {Children(x) : x \in g[i - 1]}
      /\ \A i \in 0..n : h[i] = IF i = 0 THEN S ELSE UNION {Children(x) : x \in h[i - 1]}
  <2>1. \A i \in 0..n : i \in 0..(n + 1)
    OBVIOUS
  <2> QED BY <2>1 DEF Levels
<1>2. 0 \in T
  <2>1. 0 \in 0..n
    OBVIOUS
  <2> QED BY <1>1, <2>1
<1>3. ASSUME NEW i \in Nat, i \in T PROVE i + 1 \in T
  <2> SUFFICES ASSUME i + 1 <= n PROVE g[i + 1] = h[i + 1]
    OBVIOUS
  <2>1. i + 1 \in 0..n /\ i + 1 # 0 /\ (i + 1) - 1 = i /\ g[i] = h[i]
    BY <1>3
  <2> QED BY <1>1, <2>1
<1> HIDE DEF T
<1>4. Nat \subseteq T
  BY <1>2, <1>3, NatSetInduction
<1>5. n \in T
  BY <1>4
<1> QED BY <1>5 DEF T

\* One level down from the nodes S.
Down(S) == UNION {Children(x) : x \in S}

\* Level after level.
LEMMA BelowStep ==
  /\ \A S : Below(S, 0) = S
  /\ \A S : \A n \in Nat : Below(S, n + 1) = Down(Below(S, n))
<1>1. ASSUME NEW S PROVE Below(S, 0) = S
  <2>1. PICK g : Levels(S, 0, g) /\ Below(S, 0) = g[0]
    BY BelowIs
  <2>2. 0 \in 0..0
    OBVIOUS
  <2> QED BY <2>1, <2>2 DEF Levels
<1>2. ASSUME NEW S, NEW n \in Nat PROVE Below(S, n + 1) = Down(Below(S, n))
  <2>1. PICK g : Levels(S, n, g) /\ Below(S, n) = g[n]
    BY BelowIs
  <2>2. PICK h : Levels(S, n + 1, h) /\ Below(S, n + 1) = h[n + 1]
    <3>1. n + 1 \in Nat
      OBVIOUS
    <3> QED BY <3>1, BelowIs
  <2>3. g[n] = h[n]
    BY <2>1, <2>2, LevelsAgree
  <2>4. n + 1 \in 0..(n + 1) /\ n + 1 # 0 /\ (n + 1) - 1 = n
    OBVIOUS
  <2>5. h[n + 1] = Down(h[n])
    BY <2>2, <2>4 DEF Levels, Down
  <2> QED BY <2>1, <2>2, <2>3, <2>5
<1> QED BY <1>1, <1>2

\* g holds the JSON nodes of each of the first n levels below the JSON nodes S.
JsonLevels(S, n, g) == g = [i \in 0..n |-> IF i = 0 THEN S ELSE UNION {JsonChildren(x) : x \in g[i - 1]}]

\* There is such a function.
LEMMA JsonLevelsExist == \A S : \A n \in Nat : \E g : JsonLevels(S, n, g)
<1> SUFFICES ASSUME NEW S PROVE \A n \in Nat : \E g : JsonLevels(S, n, g)
  OBVIOUS
<1> DEFINE After(i, h) == IF i = 0 THEN S ELSE UNION {JsonChildren(x) : x \in h[i - 1]}
           T == {n \in Nat : \E g : JsonLevels(S, n, g)}
<1>1. 0 \in T
  <2> DEFINE g == [i \in 0..0 |-> After(0, <<>>)]
  <2>1. g = [i \in 0..0 |-> After(i, g)]
    OBVIOUS
  <2> QED BY <2>1 DEF JsonLevels
<1>2. ASSUME NEW n \in Nat, n \in T PROVE n + 1 \in T
  <2>1. PICK g : JsonLevels(S, n, g)
    BY <1>2
  <2> DEFINE k == [i \in 0..(n + 1) |-> After(i, g)]
  <2>2. \A i \in 0..n : g[i] = After(i, g)
    BY <2>1 DEF JsonLevels
  <2>3. \A i \in 0..n : k[i] = g[i]
    <3> HIDE DEF After
    <3> QED BY <2>2
  <2>4. ASSUME NEW i \in 0..(n + 1) PROVE k[i] = After(i, k)
    <3>1. k[i] = After(i, g)
      OBVIOUS
    <3>2. i # 0 => i - 1 \in 0..n
      OBVIOUS
    <3> HIDE DEF k
    <3>3. i # 0 => k[i - 1] = g[i - 1]
      BY <2>3, <3>2
    <3> QED BY <3>1, <3>3
  <2>5. k = [i \in 0..(n + 1) |-> After(i, k)]
    <3>1. k = [i \in 0..(n + 1) |-> k[i]]
      OBVIOUS
    <3> HIDE DEF k, After
    <3> QED BY <2>4, <3>1
  <2> HIDE DEF k
  <2> QED BY <2>5 DEF JsonLevels
<1> HIDE DEF T
<1>3. Nat \subseteq T
  BY <1>1, <1>2, NatSetInduction
<1> QED BY <1>3 DEF T

\* JsonBelow returns the last level.
LEMMA JsonBelowIs ==
  \A S, n : n \in Nat => \E g : JsonLevels(S, n, g) /\ JsonBelow(S, n) = g[n]
<1> SUFFICES ASSUME NEW S, NEW n, n \in Nat
             PROVE  \E g : JsonLevels(S, n, g) /\ JsonBelow(S, n) = g[n]
  OBVIOUS
<1> DEFINE g == CHOOSE g : g = [i \in 0..n |-> IF i = 0 THEN S ELSE UNION {JsonChildren(x) : x \in g[i - 1]}]
<1>1. JsonBelow(S, n) = g[n]
  BY DEF JsonBelow
<1>2. \E f : f = [i \in 0..n |-> IF i = 0 THEN S ELSE UNION {JsonChildren(x) : x \in f[i - 1]}]
  <2>1. \E f : JsonLevels(S, n, f)
    BY JsonLevelsExist, Zenon
  <2> QED BY <2>1, Zenon DEF JsonLevels
<1>3. g = [i \in 0..n |-> IF i = 0 THEN S ELSE UNION {JsonChildren(x) : x \in g[i - 1]}]
  BY <1>2, Zenon
<1> HIDE DEF g
<1> QED BY <1>1, <1>3 DEF JsonLevels

\* Two such functions agree where both are defined.
LEMMA JsonLevelsAgree ==
  ASSUME NEW S, NEW n \in Nat, NEW g, NEW h, JsonLevels(S, n, g), JsonLevels(S, n + 1, h)
  PROVE  g[n] = h[n]
<1> DEFINE T == {i \in Nat : i <= n => g[i] = h[i]}
<1>1. /\ \A i \in 0..n : g[i] = IF i = 0 THEN S ELSE UNION {JsonChildren(x) : x \in g[i - 1]}
      /\ \A i \in 0..n : h[i] = IF i = 0 THEN S ELSE UNION {JsonChildren(x) : x \in h[i - 1]}
  <2>1. \A i \in 0..n : i \in 0..(n + 1)
    OBVIOUS
  <2> QED BY <2>1 DEF JsonLevels
<1>2. 0 \in T
  <2>1. 0 \in 0..n
    OBVIOUS
  <2> QED BY <1>1, <2>1
<1>3. ASSUME NEW i \in Nat, i \in T PROVE i + 1 \in T
  <2> SUFFICES ASSUME i + 1 <= n PROVE g[i + 1] = h[i + 1]
    OBVIOUS
  <2>1. i + 1 \in 0..n /\ i + 1 # 0 /\ (i + 1) - 1 = i /\ g[i] = h[i]
    BY <1>3
  <2> QED BY <1>1, <2>1
<1> HIDE DEF T
<1>4. Nat \subseteq T
  BY <1>2, <1>3, NatSetInduction
<1>5. n \in T
  BY <1>4
<1> QED BY <1>5 DEF T

\* One level down from the JSON nodes S.
JsonDown(S) == UNION {JsonChildren(x) : x \in S}

\* Level after level.
LEMMA JsonBelowStep ==
  /\ \A S : JsonBelow(S, 0) = S
  /\ \A S : \A n \in Nat : JsonBelow(S, n + 1) = JsonDown(JsonBelow(S, n))
<1>1. ASSUME NEW S PROVE JsonBelow(S, 0) = S
  <2>1. PICK g : JsonLevels(S, 0, g) /\ JsonBelow(S, 0) = g[0]
    BY JsonBelowIs
  <2>2. 0 \in 0..0
    OBVIOUS
  <2> QED BY <2>1, <2>2 DEF JsonLevels
<1>2. ASSUME NEW S, NEW n \in Nat PROVE JsonBelow(S, n + 1) = JsonDown(JsonBelow(S, n))
  <2>1. PICK g : JsonLevels(S, n, g) /\ JsonBelow(S, n) = g[n]
    BY JsonBelowIs
  <2>2. PICK h : JsonLevels(S, n + 1, h) /\ JsonBelow(S, n + 1) = h[n + 1]
    <3>1. n + 1 \in Nat
      OBVIOUS
    <3> QED BY <3>1, JsonBelowIs
  <2>3. g[n] = h[n]
    BY <2>1, <2>2, JsonLevelsAgree
  <2>4. n + 1 \in 0..(n + 1) /\ n + 1 # 0 /\ (n + 1) - 1 = n
    OBVIOUS
  <2>5. h[n + 1] = JsonDown(h[n])
    BY <2>2, <2>4 DEF JsonLevels, JsonDown
  <2> QED BY <2>1, <2>2, <2>3, <2>5
<1> QED BY <1>1, <1>2

\* The depths are ordered.
LEMMA DepthsGrow == \A m \in Nat : \A n \in Nat : m <= n => TreesUpTo[m] \subseteq TreesUpTo[n]
<1> SUFFICES ASSUME NEW m \in Nat PROVE \A n \in Nat : m <= n => TreesUpTo[m] \subseteq TreesUpTo[n]
  OBVIOUS
<1> DEFINE T == {n \in Nat : m <= n => TreesUpTo[m] \subseteq TreesUpTo[n]}
<1>1. 0 \in T
  OBVIOUS
<1>2. ASSUME NEW n \in Nat, n \in T PROVE n + 1 \in T
  <2>1. TreesUpTo[n] \subseteq TreesUpTo[n + 1]
    BY TreeParts
  <2>2. m <= n + 1 => m <= n \/ m = n + 1
    OBVIOUS
  <2> QED BY <1>2, <2>1, <2>2
<1> HIDE DEF T
<1>3. Nat \subseteq T
  BY <1>1, <1>2, NatSetInduction
<1> QED BY <1>3 DEF T

\* f strips the attributes of the replies S.
Strips(S, f) == f = [v \in S |-> IF v.kind = "attribute" THEN f[v.data] ELSE v]

\* There is such a function for every depth.
LEMMA StripsExist == \A n \in Nat : \E f : Strips(TreesUpTo[n], f)
<1> DEFINE From(f, v) == IF v.kind = "attribute" THEN f[v.data] ELSE v
           T == {n \in Nat : \E f : Strips(TreesUpTo[n], f)}
<1>1. 0 \in T
  <2> DEFINE f == [v \in TreesUpTo[0] |-> v]
  <2>1. \A v \in TreesUpTo[0] : v.kind # "attribute"
    <3>1. \A v \in TreesUpTo[0] : Parts(v, {})
      BY TreeParts
    <3> QED BY <3>1 DEF Parts
  <2>2. f = [v \in TreesUpTo[0] |-> From(f, v)]
    BY <2>1
  <2> QED BY <2>2 DEF Strips
<1>2. ASSUME NEW n \in Nat, n \in T PROVE n + 1 \in T
  <2>1. PICK f : Strips(TreesUpTo[n], f)
    BY <1>2
  <2> DEFINE g == [v \in TreesUpTo[n + 1] |-> From(f, v)]
  <2>2. \A v \in TreesUpTo[n + 1] : g[v] = From(f, v)
    OBVIOUS
  <2>3. g = [v \in TreesUpTo[n + 1] |-> g[v]]
    OBVIOUS
  <2> HIDE DEF g
  <2>4. \A u \in TreesUpTo[n] : g[u] = f[u]
    <3>1. \A u \in TreesUpTo[n] : f[u] = From(f, u)
      BY <2>1 DEF Strips
    <3>2. \A u \in TreesUpTo[n] : u \in TreesUpTo[n + 1]
      BY TreeParts
    <3> QED BY <2>2, <3>1, <3>2
  <2>5. \A v \in TreesUpTo[n + 1] : From(f, v) = From(g, v)
    <3>1. \A v \in TreesUpTo[n + 1] : v.kind = "attribute" => v.data \in TreesUpTo[n]
      BY TreeParts DEF Parts
    <3> QED BY <2>4, <3>1
  <2>6. g = [v \in TreesUpTo[n + 1] |-> From(g, v)]
    BY <2>2, <2>3, <2>5
  <2> QED BY <2>6 DEF Strips
<1> HIDE DEF T
<1>3. Nat \subseteq T
  BY <1>1, <1>2, NatSetInduction
<1> QED BY <1>3 DEF T

\* Data is what its definition says.
LEMMA DataIs == \A v \in Trees : Data[v] = IF v.kind = "attribute" THEN Data[v.data] ELSE v
<1>1. \E f : Strips(Trees, f)
  BY StripsExist, ReplyAssumption DEF Trees
<1>2. Data = CHOOSE f : f = [v \in Trees |-> IF v.kind = "attribute" THEN f[v.data] ELSE v]
  BY DEF Data
<1>3. Data = CHOOSE f : Strips(Trees, f)
  BY <1>2, Zenon DEF Strips
<1>4. Strips(Trees, Data)
  BY <1>1, <1>3, Zenon
<1> QED BY <1>4 DEF Strips

\* d is what a reply v of depth n says behind its attributes.
IsData(n, v, d) ==
    /\ d \in TreesUpTo[n] /\ d.kind # "attribute" /\ ToJson[d] = ToJson[v]

\* There is always something behind the attributes, as deep as them at most.
LEMMA DataFound == \A n \in Nat : n <= MaxDepth => \A v \in TreesUpTo[n] : IsData(n, v, Data[v])
<1> DEFINE T == {n \in Nat : n <= MaxDepth => \A v \in TreesUpTo[n] : IsData(n, v, Data[v])}
<1>1. \A n \in Nat : n <= MaxDepth => TreesUpTo[n] \subseteq Trees
  BY DepthsGrow, ReplyAssumption DEF Trees
<1>2. ASSUME NEW n \in Nat, n <= MaxDepth, NEW v \in TreesUpTo[n], v.kind # "attribute"
      PROVE  IsData(n, v, Data[v])
  BY <1>1, <1>2, DataIs DEF IsData
<1>3. 0 \in T
  <2>1. \A v \in TreesUpTo[0] : v.kind # "attribute"
    <3>1. \A v \in TreesUpTo[0] : Parts(v, {})
      BY TreeParts
    <3> QED BY <3>1 DEF Parts
  <2> QED BY <1>2, <2>1
<1>4. ASSUME NEW n \in Nat, n \in T PROVE n + 1 \in T
  <2> SUFFICES ASSUME n + 1 <= MaxDepth, NEW v \in TreesUpTo[n + 1]
               PROVE  IsData(n + 1, v, Data[v])
    OBVIOUS
  <2>1. CASE v.kind = "attribute"
    <3>1. v \in Trees /\ v.data \in TreesUpTo[n]
      <4>1. Parts(v, TreesUpTo[n])
        BY TreeParts, Zenon
      <4>2. v \in Trees
        BY <1>1
      <4> QED BY <2>1, <4>1, <4>2 DEF Parts
    <3>2. IsData(n, v.data, Data[v.data])
      BY <1>4, <3>1, ReplyAssumption
    <3>3. Data[v] = Data[v.data]
      BY <2>1, <3>1, DataIs
    <3>4. ToJson[v] = ToJson[v.data]
      <4>1. ToJson[v] = JsonFrom(ToJson, v)
        BY <3>1, ToJsonIs
      <4>2. JsonFrom(ToJson, v) = ToJson[v.data]
        BY <2>1, JsonArms
      <4> QED BY <4>1, <4>2
    <3>5. TreesUpTo[n] \subseteq TreesUpTo[n + 1]
      BY TreeParts
    <3> QED BY <3>2, <3>3, <3>4, <3>5 DEF IsData
  <2>2. CASE v.kind # "attribute"
    BY <1>2, <2>2
  <2> QED BY <2>1, <2>2
<1> HIDE DEF T
<1>5. Nat \subseteq T
  BY <1>3, <1>4, NatSetInduction
<1> QED BY <1>5 DEF T

\* The nodes of the items and of the values of d, which stands at p.
ItemNodes(p, d) == {Node(Append(p, [index |-> i - 1]), d.items[i]) : i \in DOMAIN d.items}
PairNodes(p, d) == {Node(Append(p, KeyText(d.pairs[i][1])), d.pairs[i][2]) : i \in DOMAIN d.pairs}

\* The children of a node, by the kind of what is behind its attributes.
LEMMA ChildrenArms ==
  ASSUME NEW x, NEW d, d = Data[x.value]
  PROVE  /\ d.kind \in ItemKinds =>
              Children(x) = ItemNodes(x.path, d)
         /\ d.kind = "map" =>
              Children(x) = PairNodes(x.path, d)
         /\ d.kind \notin ItemKinds /\ d.kind # "map" => Children(x) = {}
<1>1. CASE d.kind \in ItemKinds
  BY <1>1 DEF Children, Child, ItemKinds, ItemNodes
<1>2. CASE d.kind = "map"
  BY <1>2 DEF Children, Child, ItemKinds, PairNodes
<1>3. CASE d.kind \notin ItemKinds /\ d.kind # "map"
  BY <1>3 DEF Children
<1>4. "map" \notin ItemKinds
  BY DEF ItemKinds
<1> QED BY <1>1, <1>2, <1>3, <1>4

\* A node is where and what.
LEMMA NodeIs == \A p, v : Node(p, v).path = p /\ Node(p, v).value = v
BY DEF Node

\* What is below a node is a part of what is behind its attributes.
LEMMA ChildIs ==
  ASSUME NEW S, NEW x, Parts(Data[x.value], S), NEW y \in Children(x)
  PROVE  y.value \in S /\ y = Node(y.path, y.value)
<1> DEFINE d == Data[x.value]
<1> HIDE DEF d
<1>0. d = Data[x.value] /\ Parts(d, S)
  BY DEF d
<1>1. CASE d.kind \in ItemKinds
  <2>1. PICK i \in DOMAIN d.items : y = Node(Append(x.path, [index |-> i - 1]), d.items[i])
    <3>1. Children(x) = ItemNodes(x.path, d)
      BY <1>0, <1>1, ChildrenArms, Zenon
    <3> QED BY <3>1 DEF ItemNodes
  <2>2. d.items[i] \in S
    BY <1>0, <1>1 DEF Parts
  <2> QED BY <2>1, <2>2, NodeIs
<1>2. CASE d.kind = "map"
  <2>1. PICK i \in DOMAIN d.pairs : y = Node(Append(x.path, KeyText(d.pairs[i][1])), d.pairs[i][2])
    <3>1. Children(x) = PairNodes(x.path, d)
      BY <1>0, <1>2, ChildrenArms, Zenon
    <3> QED BY <3>1 DEF PairNodes
  <2>2. d.pairs[i][2] \in S
    BY <1>0, <1>2 DEF Parts
  <2> QED BY <2>1, <2>2, NodeIs
<1>3. CASE d.kind \notin ItemKinds /\ d.kind # "map"
  <2>1. Children(x) = {}
    BY <1>0, <1>3, ChildrenArms
  <2> QED BY <2>1
<1> QED BY <1>1, <1>2, <1>3

\* What is below a node does not depend on where the node is.
LEMMA ChildrenAnywhere ==
  ASSUME NEW x, NEW z, z.value = x.value, NEW y \in Children(x)
  PROVE  \E w \in Children(z) : w.value = y.value
<1> DEFINE d == Data[x.value]
<1> HIDE DEF d
<1>0. d = Data[x.value] /\ d = Data[z.value]
  BY DEF d
<1>1. CASE d.kind \in ItemKinds
  <2>1. /\ Children(x) = ItemNodes(x.path, d)
        /\ Children(z) = ItemNodes(z.path, d)
    <3>1. Children(x) = ItemNodes(x.path, d)
      BY <1>0, <1>1, ChildrenArms, Zenon
    <3>2. Children(z) = ItemNodes(z.path, d)
      BY <1>0, <1>1, ChildrenArms, Zenon
    <3> QED BY <3>1, <3>2
  <2>2. PICK i \in DOMAIN d.items : y = Node(Append(x.path, [index |-> i - 1]), d.items[i])
    BY <2>1 DEF ItemNodes
  <2>3. Node(Append(z.path, [index |-> i - 1]), d.items[i]) \in Children(z)
    BY <2>1, Zenon DEF ItemNodes
  <2> QED BY <2>2, <2>3, NodeIs
<1>2. CASE d.kind = "map"
  <2>1. Children(x) = PairNodes(x.path, d)
    BY <1>0, <1>2, ChildrenArms, Zenon
  <2>2. Children(z) = PairNodes(z.path, d)
    BY <1>0, <1>2, ChildrenArms, Zenon
  <2>3. PICK i \in DOMAIN d.pairs : y = Node(Append(x.path, KeyText(d.pairs[i][1])), d.pairs[i][2])
    BY <2>1 DEF PairNodes
  <2>4. Node(Append(z.path, KeyText(d.pairs[i][1])), d.pairs[i][2]) \in Children(z)
    BY <2>2, Zenon DEF PairNodes
  <2> QED BY <2>3, <2>4, NodeIs
<1>3. CASE d.kind \notin ItemKinds /\ d.kind # "map"
  <2>1. Children(x) = {}
    BY <1>0, <1>3, ChildrenArms
  <2> QED BY <2>1
<1> QED BY <1>1, <1>2, <1>3

\* Levels can be taken from the top.
LEMMA BelowTop == \A n \in Nat : \A S : Below(S, n + 1) = Below(Down(S), n)
<1> DEFINE T == {n \in Nat : \A S : Below(S, n + 1) = Below(Down(S), n)}
<1>1. 0 \in T
  <2>1. \A S : Below(S, 0 + 1) = Down(S) /\ Below(Down(S), 0) = Down(S)
    BY BelowStep
  <2> QED BY <2>1
<1>2. ASSUME NEW n \in Nat, n \in T PROVE n + 1 \in T
  <2> SUFFICES ASSUME NEW S PROVE Below(S, (n + 1) + 1) = Below(Down(S), n + 1)
    OBVIOUS
  <2>1. Below(S, (n + 1) + 1) = Down(Below(S, n + 1))
    BY BelowStep
  <2>2. Below(S, n + 1) = Below(Down(S), n)
    BY <1>2
  <2>3. Below(Down(S), n + 1) = Down(Below(Down(S), n))
    BY BelowStep
  <2> QED BY <2>1, <2>2, <2>3
<1> HIDE DEF T
<1>3. Nat \subseteq T
  BY <1>1, <1>2, NatSetInduction
<1> QED BY <1>3 DEF T

\* What is below some nodes is below one of them.
LEMMA BelowEach == \A n \in Nat : \A S : Below(S, n) = UNION {Below({x}, n) : x \in S}
<1> DEFINE Each(n) == \A S : Below(S, n) = UNION {Below({x}, n) : x \in S}
           T == {n \in Nat : Each(n)}
<1>1. 0 \in T
  <2> SUFFICES ASSUME NEW S PROVE Below(S, 0) = UNION {Below({x}, 0) : x \in S}
    OBVIOUS
  <2>1. Below(S, 0) = S /\ \A x : Below({x}, 0) = {x}
    BY BelowStep
  <2>2. \A y : y \in UNION {Below({x}, 0) : x \in S} <=> \E x \in S : y \in Below({x}, 0)
    OBVIOUS
  <2>3. \A x, y : y \in Below({x}, 0) <=> y = x
    <3> TAKE x, y
    <3>1. Below({x}, 0) = {x}
      BY <2>1, Zenon
    <3> QED BY <3>1
  <2>4. \A y : y \in UNION {Below({x}, 0) : x \in S} <=> y \in S
    <3> TAKE y
    <3>1. (\E x \in S : y \in Below({x}, 0)) <=> y \in S
      <4>1. ASSUME NEW x \in S, y \in Below({x}, 0) PROVE y \in S
        <5>1. y = x
          BY <2>3, <4>1, Zenon
        <5> QED BY <5>1
      <4>2. y \in Below({y}, 0)
        BY <2>3, Zenon
      <4> QED BY <4>1, <4>2, Zenon
    <3> QED BY <2>2, <3>1, Zenon
  <2> QED BY <2>1, <2>4
<1>2. ASSUME NEW n \in Nat, n \in T PROVE n + 1 \in T
  <2> HIDE DEF Each
  <2> SUFFICES Each(n + 1)
    OBVIOUS
  <2> USE DEF Each
  <2> SUFFICES ASSUME NEW S PROVE Below(S, n + 1) = UNION {Below({x}, n + 1) : x \in S}
    OBVIOUS
  <2> DEFINE B(x) == Below({x}, n)
  <2>1. Below(S, n + 1) = Down(Below(S, n)) /\ Below(S, n) = UNION {B(x) : x \in S}
    BY <1>2, BelowStep
  <2>2. \A x : Below({x}, n + 1) = Down(B(x))
    BY BelowStep
  <2>3. {Below({x}, n + 1) : x \in S} = {Down(B(x)) : x \in S}
    BY <2>2
  <2> HIDE DEF B
  <2>4. Down(UNION {B(x) : x \in S}) = UNION {Down(B(x)) : x \in S}
    <3>1. \A z : z \in Down(UNION {B(x) : x \in S}) <=> \E x \in S : \E y \in B(x) : z \in Children(y)
      BY DEF Down
    <3>2. \A z : z \in UNION {Down(B(x)) : x \in S} <=> \E x \in S : z \in Down(B(x))
      OBVIOUS
    <3>3. \A x : \A z : z \in Down(B(x)) <=> \E y \in B(x) : z \in Children(y)
      BY DEF Down
    <3> QED BY <3>1, <3>2, <3>3, Zenon
  <2> QED BY <2>1, <2>3, <2>4
<1> HIDE DEF T, Each
<1>3. Nat \subseteq T
  BY <1>1, <1>2, NatSetInduction
<1> QED BY <1>3 DEF T, Each

\* z says somewhere what x says.
Same(x, z) == z.value = x.value

\* What is below a value does not depend on where it stands.
LEMMA BelowAnywhere ==
  ASSUME NEW a, NEW b, Same(a, b)
  PROVE  \A n \in Nat : \A y \in Below({a}, n) : \E w \in Below({b}, n) : Same(y, w)
<1> DEFINE T == {n \in Nat : \A y \in Below({a}, n) : \E w \in Below({b}, n) : Same(y, w)}
<1>1. 0 \in T
  <2>1. Below({a}, 0) = {a} /\ Below({b}, 0) = {b}
    BY BelowStep
  <2> QED BY <2>1
<1>2. ASSUME NEW n \in Nat, n \in T PROVE n + 1 \in T
  <2> SUFFICES ASSUME NEW y \in Below({a}, n + 1) PROVE \E w \in Below({b}, n + 1) : Same(y, w)
    OBVIOUS
  <2>1. PICK x \in Below({a}, n) : y \in Children(x)
    BY BelowStep DEF Down
  <2>2. PICK z \in Below({b}, n) : Same(x, z)
    BY <1>2
  <2>3. PICK w \in Children(z) : w.value = y.value
    BY <2>1, <2>2, ChildrenAnywhere DEF Same
  <2>4. w \in Below({b}, n + 1)
    BY <2>2, <2>3, BelowStep DEF Down
  <2> QED BY <2>3, <2>4 DEF Same
<1> HIDE DEF T
<1>3. Nat \subseteq T
  BY <1>1, <1>2, NatSetInduction
<1> QED BY <1>3 DEF T

\* The nodes S nest at most n deep.
Deep(n, S) == \A x \in S : x.value \in TreesUpTo[n]

\* One level down, they nest one level less.
LEMMA DownIs ==
  /\ \A S : Deep(0, S) => Down(S) = {}
  /\ \A n \in Nat : n + 1 <= MaxDepth => \A S : Deep(n + 1, S) => Deep(n, Down(S))
<1>1. ASSUME NEW S, Deep(0, S) PROVE Down(S) = {}
  <2>1. ASSUME NEW x \in S, NEW y \in Children(x) PROVE FALSE
    <3>1. IsData(0, x.value, Data[x.value])
      BY <1>1, DataFound, ReplyAssumption DEF Deep
    <3>2. Parts(Data[x.value], {})
      BY <3>1, TreeParts DEF IsData
    <3>3. y.value \in {}
      BY <3>2, ChildIs
    <3> QED BY <3>3
  <2> QED BY <2>1 DEF Down
<1>2. ASSUME NEW n \in Nat, n + 1 <= MaxDepth, NEW S, Deep(n + 1, S) PROVE Deep(n, Down(S))
  <2>1. ASSUME NEW x \in S, NEW y \in Children(x) PROVE y.value \in TreesUpTo[n]
    <3>1. IsData(n + 1, x.value, Data[x.value])
      BY <1>2, DataFound DEF Deep
    <3>2. Parts(Data[x.value], TreesUpTo[n])
      <4>1. Data[x.value] \in TreesUpTo[n + 1]
        BY <3>1 DEF IsData
      <4> QED BY <4>1, TreeParts
    <3> QED BY <3>2, ChildIs
  <2> QED BY <2>1 DEF Down, Deep
<1> QED BY <1>1, <1>2, Zenon

\* Nothing is deeper than the depth.
LEMMA BelowEnds == \A n \in Nat : n <= MaxDepth => \A S : Deep(n, S) => Below(S, n + 1) = {}
<1> DEFINE Ended(n) == \A S : Deep(n, S) => Below(S, n + 1) = {}
           T == {n \in Nat : n <= MaxDepth => Ended(n)}
<1>1. 0 \in T
  <2>1. ASSUME NEW S, Deep(0, S) PROVE Below(S, 0 + 1) = {}
    BY <2>1, DownIs, BelowStep
  <2> QED BY <2>1
<1>2. ASSUME NEW n \in Nat, n \in T PROVE n + 1 \in T
  <2>1. ASSUME n + 1 <= MaxDepth PROVE Ended(n + 1)
    <3> SUFFICES ASSUME NEW S, Deep(n + 1, S) PROVE Below(S, (n + 1) + 1) = {}
      OBVIOUS
    <3>1. Below(S, (n + 1) + 1) = Below(Down(S), n + 1)
      BY BelowTop
    <3>2. Deep(n, Down(S))
      BY <2>1, DownIs
    <3>3. Ended(n)
      <4> HIDE DEF Ended
      <4> QED BY <1>2, <2>1, ReplyAssumption
    <3> QED BY <3>1, <3>2, <3>3
  <2> HIDE DEF Ended
  <2> QED BY <2>1
<1> HIDE DEF T, Ended
<1>3. Nat \subseteq T
  BY <1>1, <1>2, NatSetInduction
<1> QED BY <1>3 DEF T, Ended

\* What is below a reply are replies.
LEMMA BelowTrees ==
  ASSUME NEW S, Deep(MaxDepth, S)
  PROVE  \A k \in Nat : Deep(MaxDepth, Below(S, k))
<1> DEFINE T == {k \in Nat : Deep(MaxDepth, Below(S, k))}
<1>1. 0 \in T
  BY BelowStep
<1>2. ASSUME NEW k \in Nat, k \in T PROVE k + 1 \in T
  <2>1. Below(S, k + 1) = Down(Below(S, k))
    BY BelowStep
  <2>2. Deep(MaxDepth, Down(Below(S, k)))
    <3>1. CASE MaxDepth = 0
      <4>1. Deep(0, Below(S, k))
        BY <1>2, <3>1
      <4>2. Down(Below(S, k)) = {}
        BY <4>1, DownIs
      <4> QED BY <4>2 DEF Deep
    <3>2. CASE MaxDepth # 0
      <4>1. MaxDepth - 1 \in Nat /\ (MaxDepth - 1) + 1 = MaxDepth /\ MaxDepth \in Nat /\ MaxDepth <= MaxDepth
        BY <3>2, ReplyAssumption
      <4>2. Deep((MaxDepth - 1) + 1, Below(S, k))
        BY <1>2, <4>1
      <4>3. Deep(MaxDepth - 1, Down(Below(S, k)))
        BY <4>1, <4>2, DownIs
      <4>4. TreesUpTo[MaxDepth - 1] \subseteq TreesUpTo[(MaxDepth - 1) + 1]
        BY <4>1, TreeParts
      <4> QED BY <4>1, <4>3, <4>4 DEF Deep
    <3> QED BY <3>1, <3>2
  <2> QED BY <2>1, <2>2
<1> HIDE DEF T
<1>3. Nat \subseteq T
  BY <1>1, <1>2, NatSetInduction
<1> QED BY <1>3 DEF T

\* The nodes from a reply on are itself and those from its parts on.
LEMMA NodesFrom ==
  ASSUME NEW x, x.value \in Trees
  PROVE  Nodes({x}) = {x} \cup UNION {Nodes({y}) : y \in Children(x)}
<1>1. Deep(MaxDepth, {x}) /\ Down({x}) = Children(x) /\ MaxDepth \in Nat
  BY ReplyAssumption DEF Deep, Trees, Down
<1>2. \A S : \A z : z \in Nodes(S) <=> \E k \in 0..MaxDepth : z \in Below(S, k)
  BY DEF Nodes
<1>3. \A k \in Nat : \A z : z \in Below({x}, k + 1) <=> \E y \in Children(x) : z \in Below({y}, k)
  <2> TAKE k \in Nat
  <2>1. Below({x}, k + 1) = Below(Children(x), k)
    BY <1>1, BelowTop
  <2>2. Below(Children(x), k) = UNION {Below({y}, k) : y \in Children(x)}
    BY BelowEach
  <2>3. \A z : z \in UNION {Below({y}, k) : y \in Children(x)} <=> \E y \in Children(x) : z \in Below({y}, k)
    OBVIOUS
  <2> QED BY <2>1, <2>2, <2>3, Zenon
<1>4. Below({x}, 0) = {x}
  BY BelowStep
<1>5. ASSUME NEW z \in Nodes({x}) PROVE z = x \/ \E y \in Children(x) : z \in Nodes({y})
  <2>1. PICK k \in 0..MaxDepth : z \in Below({x}, k)
    BY <1>2, <1>5
  <2>2. CASE k = 0
    BY <1>4, <2>1, <2>2
  <2>3. CASE k # 0
    <3>1. k - 1 \in Nat /\ (k - 1) + 1 = k /\ k - 1 \in 0..MaxDepth
      BY <1>1, <2>3
    <3>2. PICK y \in Children(x) : z \in Below({y}, k - 1)
      BY <1>3, <2>1, <3>1
    <3> QED BY <1>2, <3>1, <3>2
  <2> QED BY <2>2, <2>3
<1>6. x \in Nodes({x})
  <2>1. 0 \in 0..MaxDepth /\ x \in Below({x}, 0)
    BY <1>1, <1>4
  <2> QED BY <1>2, <2>1
<1>7. ASSUME NEW y \in Children(x), NEW z \in Nodes({y}) PROVE z \in Nodes({x})
  <2>1. PICK k \in 0..MaxDepth : z \in Below({y}, k)
    BY <1>2, <1>7
  <2>2. k + 1 \in 0..MaxDepth
    <3> SUFFICES ASSUME k = MaxDepth PROVE FALSE
      BY <1>1
    <3>1. Below({x}, MaxDepth + 1) = {}
      BY <1>1, BelowEnds
    <3>2. z \in Below({x}, MaxDepth + 1)
      <4>1. z \in Below({y}, MaxDepth)
        BY <2>1
      <4> QED BY <1>1, <1>3, <1>7, <4>1, Zenon
    <3> QED BY <3>1, <3>2
  <2>3. z \in Below({x}, k + 1)
    <3>1. k \in Nat
      BY <1>1
    <3> QED BY <1>3, <1>7, <2>1, <3>1, Zenon
  <2> QED BY <1>2, <2>2, <2>3
<1>8. \A z : z \in UNION {Nodes({y}) : y \in Children(x)} <=> \E y \in Children(x) : z \in Nodes({y})
  OBVIOUS
<1> QED BY <1>5, <1>6, <1>7, <1>8

\* The JSON nodes of the elements s and of the fields F of what stands at p.
ArrayNodes(p, s) == {Node(Append(p, [index |-> i - 1]), s[i]) : i \in DOMAIN s}
ObjectNodes(p, F) == {Node(Append(p, f[1]), f[2]) : f \in F}

\* What is below a JSON value, and the leaf it is.
LEMMA JsonNodesAre ==
  /\ \A p, s : JsonChildren(Node(p, JArray(s))) = ArrayNodes(p, s) /\ JsonLeaf(JArray(s)) = {}
  /\ \A p, F : JsonChildren(Node(p, JObject(F))) = ObjectNodes(p, F) /\ JsonLeaf(JObject(F)) = {}
  /\ \A p : JsonChildren(Node(p, JNull)) = {} /\ JsonLeaf(JNull) = {JNull}
  /\ \A p, t : JsonChildren(Node(p, JString(t))) = {} /\ JsonLeaf(JString(t)) = {Raw(t)}
  /\ \A p, t : JsonChildren(Node(p, JLiteral(t))) = {} /\ JsonLeaf(JLiteral(t)) = {Raw(t)}
<1>1. ASSUME NEW p, NEW s
      PROVE  JsonChildren(Node(p, JArray(s))) = ArrayNodes(p, s) /\ JsonLeaf(JArray(s)) = {}
  <2>1. JArray(s).json = "array" /\ JArray(s).items = s
    BY DEF JArray
  <2> QED BY <2>1, NodeIs DEF JsonChildren, JsonLeaf, Child, ArrayNodes
<1>2. ASSUME NEW p, NEW F
      PROVE  JsonChildren(Node(p, JObject(F))) = ObjectNodes(p, F) /\ JsonLeaf(JObject(F)) = {}
  <2>1. JObject(F).json = "object" /\ JObject(F).fields = F
    BY DEF JObject
  <2> QED BY <2>1, NodeIs DEF JsonChildren, JsonLeaf, Child, ObjectNodes
<1>3. ASSUME NEW p PROVE JsonChildren(Node(p, JNull)) = {} /\ JsonLeaf(JNull) = {JNull}
  <2>1. JNull.json = "null"
    BY DEF JNull
  <2> QED BY <2>1, NodeIs DEF JsonChildren, JsonLeaf
<1>4. ASSUME NEW p, NEW t
      PROVE  JsonChildren(Node(p, JString(t))) = {} /\ JsonLeaf(JString(t)) = {Raw(t)}
  <2>1. JString(t).json = "string" /\ JString(t).text = t
    BY DEF JString
  <2> QED BY <2>1, NodeIs DEF JsonChildren, JsonLeaf
<1>5. ASSUME NEW p, NEW t
      PROVE  JsonChildren(Node(p, JLiteral(t))) = {} /\ JsonLeaf(JLiteral(t)) = {Raw(t)}
  <2>1. JLiteral(t).json = "literal" /\ JLiteral(t).text = t
    BY DEF JLiteral
  <2> QED BY <2>1, NodeIs DEF JsonChildren, JsonLeaf
<1> QED BY <1>1, <1>2, <1>3, <1>4, <1>5

\* Pairs with keys that are all different stay, all of them.
LEMMA InsertedAll ==
  ASSUME NEW q, \A j \in DOMAIN q : \A k \in DOMAIN q : k > j => q[k][1] # q[j][1]
  PROVE  Inserted(q) = {q[i] : i \in DOMAIN q}
BY DEF Inserted

\* A reply has parts.
LEMMA PartsOfTree == \A u \in Trees : \E S : Parts(u, S)
<1> SUFFICES ASSUME NEW u \in Trees PROVE \E S : Parts(u, S)
  OBVIOUS
<1>1. CASE MaxDepth = 0
  BY <1>1, TreeParts DEF Trees
<1>2. CASE MaxDepth # 0
  <2>1. MaxDepth - 1 \in Nat /\ (MaxDepth - 1) + 1 = MaxDepth
    BY <1>2, ReplyAssumption
  <2>2. u \in TreesUpTo[(MaxDepth - 1) + 1]
    BY <2>1 DEF Trees
  <2>3. Parts(u, TreesUpTo[MaxDepth - 1])
    BY <2>1, <2>2, TreeParts
  <2> QED BY <2>3
<1> QED BY <1>1, <1>2

\* The JSON of the items and of the pairs of d.
ItemsJson(d) == [i \in DOMAIN d.items |-> ToJson[d.items[i]]]
PairsJson(d) == {<<KeyText(d.pairs[i][1]), ToJson[d.pairs[i][2]]>> : i \in DOMAIN d.pairs}

\* What the JSON of a reply is made of, by the kind of what is behind its
\* attributes, when no two keys of it have one text.
LEMMA JsonOfData ==
  ASSUME NEW v \in Trees, NEW d, d = Data[v], Sayable(d)
  PROVE  /\ d.kind \in {"nil", "text", "literal", "map"} \cup ItemKinds
         /\ d.kind = "nil" => ToJson[v] = JNull
         /\ d.kind = "text" => ToJson[v] = JString(Decoded[d.text])
         /\ d.kind = "literal" => ToJson[v] = JLiteral(d.text)
         /\ d.kind \in ItemKinds => ToJson[v] = JArray(ItemsJson(d))
         /\ d.kind = "map" => ToJson[v] = JObject(PairsJson(d))
<1>1. MaxDepth \in Nat /\ MaxDepth <= MaxDepth /\ v \in TreesUpTo[MaxDepth]
  BY ReplyAssumption DEF Trees
<1>2. d \in TreesUpTo[MaxDepth] /\ d.kind # "attribute" /\ ToJson[d] = ToJson[v]
  BY <1>1, DataFound DEF IsData
<1>3. ToJson[v] = JsonFrom(ToJson, d)
  BY <1>2, ToJsonIs DEF Trees
<1>4. PICK S : Parts(d, S)
  BY <1>2, PartsOfTree DEF Trees
<1>5. d.kind \in {"nil", "text", "literal", "map"} \cup ItemKinds
  BY <1>2, <1>4 DEF Parts, Sayable, ScalarKinds
<1>6. ASSUME d.kind \in ItemKinds PROVE ToJson[v] = JArray(ItemsJson(d))
  BY <1>3, <1>6 DEF JsonFrom, JsonOfItems, ItemKinds, ItemsJson
<1>7. ASSUME d.kind = "map" PROVE ToJson[v] = JObject(PairsJson(d))
  <2> DEFINE key(i) == KeyText(d.pairs[i][1])
             json(i) == ToJson[d.pairs[i][2]]
             q == [i \in DOMAIN d.pairs |-> <<key(i), json(i)>>]
  <2>1. ToJson[v] = JObject(Inserted(q))
    BY <1>3, <1>7 DEF JsonFrom, ItemKinds, KeyText
  <2>2. \A i, j \in DOMAIN d.pairs : key(i) = key(j) => i = j
    BY <1>7 DEF Sayable
  <2>3. DOMAIN d.pairs \subseteq Nat
    BY <1>4, <1>7 DEF Parts
  <2>4. PairsJson(d) = {<<key(i), json(i)>> : i \in DOMAIN d.pairs}
    BY DEF PairsJson
  <2> HIDE DEF key, json
  <2>5. DOMAIN q = DOMAIN d.pairs /\ \A i \in DOMAIN d.pairs : q[i] = <<key(i), json(i)>>
    OBVIOUS
  <2> HIDE DEF q
  <2>6. \A j \in DOMAIN q : \A k \in DOMAIN q : k > j => q[k][1] # q[j][1]
    <3> SUFFICES ASSUME NEW j \in DOMAIN q, NEW k \in DOMAIN q, k > j, q[k][1] = q[j][1] PROVE FALSE
      OBVIOUS
    <3>1. key(k) = key(j)
      BY <2>5
    <3>2. k = j
      BY <2>2, <2>5, <3>1
    <3>3. j \in Nat
      BY <2>3, <2>5
    <3> QED BY <3>2, <3>3
  <2>7. Inserted(q) = {q[i] : i \in DOMAIN q}
    BY <2>6, InsertedAll
  <2>8. {q[i] : i \in DOMAIN q} = PairsJson(d)
    BY <2>4, <2>5
  <2> QED BY <2>1, <2>7, <2>8
<1>8. d.kind = "nil" => ToJson[v] = JNull
  BY <1>3, JsonArms
<1>9. d.kind = "text" => ToJson[v] = JString(Decoded[d.text])
  BY <1>3, JsonArms
<1>10. d.kind = "literal" => ToJson[v] = JLiteral(d.text)
  BY <1>3, JsonArms
<1> QED BY <1>5, <1>6, <1>7, <1>8, <1>9, <1>10

\* The JSON node at the place of x.
Spelled(x) == Node(x.path, ToJson[x.value])
AllSpelled(S) == {Spelled(x) : x \in S}

\* JSON can say what x is.
Good(x) == x.value \in Trees /\ Sayable(Data[x.value])

\* JSON has what is below a node below it, and the same leaf.
LEMMA SpelledOut ==
  ASSUME NEW x, Good(x)
  PROVE  /\ JsonChildren(Spelled(x)) = AllSpelled(Children(x))
         /\ JsonLeaf(ToJson[x.value]) = Leaf(Data[x.value])
<1> DEFINE d == Data[x.value]
           j == ToJson[x.value]
           p == x.path
<1>1. /\ d.kind \in {"nil", "text", "literal", "map"} \cup ItemKinds
      /\ d.kind = "nil" => j = JNull
      /\ d.kind = "text" => j = JString(Decoded[d.text])
      /\ d.kind = "literal" => j = JLiteral(d.text)
      /\ d.kind \in ItemKinds => j = JArray(ItemsJson(d))
      /\ d.kind = "map" => j = JObject(PairsJson(d))
  BY JsonOfData DEF Good
<1>2. /\ d.kind \in ItemKinds => Children(x) = ItemNodes(p, d)
      /\ d.kind = "map" => Children(x) = PairNodes(p, d)
      /\ d.kind \notin ItemKinds /\ d.kind # "map" => Children(x) = {}
  BY ChildrenArms
<1>3. Spelled(x) = Node(p, j)
  BY DEF Spelled
<1>4. \A q, v : Spelled(Node(q, v)) = Node(q, ToJson[v])
  BY NodeIs DEF Spelled
<1> HIDE DEF d, j, p
<1>5. CASE d.kind \in ItemKinds
  <2>1. JsonChildren(Spelled(x)) = ArrayNodes(p, ItemsJson(d)) /\ JsonLeaf(j) = {}
    BY <1>1, <1>3, <1>5, JsonNodesAre
  <2>2. ArrayNodes(p, ItemsJson(d)) =
          {Node(Append(p, [index |-> i - 1]), ToJson[d.items[i]]) : i \in DOMAIN d.items}
    BY DEF ArrayNodes, ItemsJson
  <2>3. AllSpelled(ItemNodes(p, d)) =
          {Node(Append(p, [index |-> i - 1]), ToJson[d.items[i]]) : i \in DOMAIN d.items}
    <3> DEFINE N(i) == Node(Append(p, [index |-> i - 1]), d.items[i])
               J(i) == Node(Append(p, [index |-> i - 1]), ToJson[d.items[i]])
               D == DOMAIN d.items
    <3>1. \A i \in D : Spelled(N(i)) = J(i)
      BY <1>4, Zenon
    <3> HIDE DEF N, J, D
    <3>2. {Spelled(y) : y \in {N(i) : i \in D}} = {J(i) : i \in D}
      BY <3>1
    <3> QED BY <3>2, Zenon DEF N, J, D, AllSpelled, ItemNodes
  <2>4. Leaf(d) = {}
    BY <1>5 DEF Leaf, ItemKinds, ScalarKinds
  <2> QED BY <1>2, <1>5, <2>1, <2>2, <2>3, <2>4 DEF d, j
<1>6. CASE d.kind = "map"
  <2>1. JsonChildren(Spelled(x)) = ObjectNodes(p, PairsJson(d)) /\ JsonLeaf(j) = {}
    BY <1>1, <1>3, <1>6, JsonNodesAre
  <2>2. ObjectNodes(p, PairsJson(d)) =
          {Node(Append(p, KeyText(d.pairs[i][1])), ToJson[d.pairs[i][2]]) : i \in DOMAIN d.pairs}
    <3> DEFINE F(i) == <<KeyText(d.pairs[i][1]), ToJson[d.pairs[i][2]]>>
               N(f) == Node(Append(p, f[1]), f[2])
               J(i) == Node(Append(p, KeyText(d.pairs[i][1])), ToJson[d.pairs[i][2]])
               D == DOMAIN d.pairs
    <3>1. \A i \in D : N(F(i)) = J(i)
      OBVIOUS
    <3> HIDE DEF N, J, D, F
    <3>2. {N(f) : f \in {F(i) : i \in D}} = {J(i) : i \in D}
      BY <3>1
    <3> QED BY <3>2, Zenon DEF N, F, J, D, ObjectNodes, PairsJson
  <2>3. AllSpelled(PairNodes(p, d)) =
          {Node(Append(p, KeyText(d.pairs[i][1])), ToJson[d.pairs[i][2]]) : i \in DOMAIN d.pairs}
    <3> DEFINE N(i) == Node(Append(p, KeyText(d.pairs[i][1])), d.pairs[i][2])
               J(i) == Node(Append(p, KeyText(d.pairs[i][1])), ToJson[d.pairs[i][2]])
               D == DOMAIN d.pairs
    <3>1. \A i \in D : Spelled(N(i)) = J(i)
      BY <1>4, Zenon
    <3> HIDE DEF N, J, D
    <3>2. {Spelled(y) : y \in {N(i) : i \in D}} = {J(i) : i \in D}
      BY <3>1
    <3> QED BY <3>2, Zenon DEF N, J, D, AllSpelled, PairNodes
  <2>4. Leaf(d) = {}
    BY <1>6 DEF Leaf, ScalarKinds
  <2> QED BY <1>2, <1>6, <2>1, <2>2, <2>3, <2>4 DEF d, j
<1>7. CASE d.kind \in {"nil", "text", "literal"}
  <2>1. JsonChildren(Spelled(x)) = {}
    BY <1>1, <1>3, <1>7, JsonNodesAre
  <2>2. Children(x) = {}
    BY <1>2, <1>7 DEF ItemKinds
  <2>3. JsonLeaf(j) = Leaf(d)
    BY <1>1, <1>7, JsonNodesAre DEF Leaf, ScalarKinds
  <2>4. AllSpelled({}) = {}
    BY DEF AllSpelled
  <2> QED BY <2>1, <2>2, <2>3, <2>4 DEF d, j
<1> QED BY <1>1, <1>5, <1>6, <1>7

\* So do the levels.
LEMMA LevelsSpelled ==
  ASSUME NEW S, \A k \in 0..MaxDepth : \A x \in Below(S, k) : Good(x)
  PROVE  \A k \in 0..MaxDepth : JsonBelow(AllSpelled(S), k) = AllSpelled(Below(S, k))
<1> DEFINE T == {k \in Nat : k <= MaxDepth => JsonBelow(AllSpelled(S), k) = AllSpelled(Below(S, k))}
<1>1. 0 \in T
  BY BelowStep, JsonBelowStep
<1>2. ASSUME NEW k \in Nat, k \in T PROVE k + 1 \in T
  <2> SUFFICES ASSUME k + 1 <= MaxDepth
               PROVE  JsonBelow(AllSpelled(S), k + 1) = AllSpelled(Below(S, k + 1))
    OBVIOUS
  <2> DEFINE B == Below(S, k)
  <2>1. JsonBelow(AllSpelled(S), k) = AllSpelled(B) /\ k \in 0..MaxDepth
    BY <1>2, ReplyAssumption
  <2>2. JsonBelow(AllSpelled(S), k + 1) = JsonDown(AllSpelled(B))
    BY <2>1, JsonBelowStep
  <2>3. Below(S, k + 1) = Down(B)
    BY BelowStep
  <2>4. \A x \in B : Good(x)
    BY <2>1
  <2> HIDE DEF B
  <2>5. \A x \in B : JsonChildren(Spelled(x)) = AllSpelled(Children(x))
    BY <2>4, SpelledOut
  <2>6. \A z : z \in JsonDown(AllSpelled(B)) <=> \E x \in B : z \in JsonChildren(Spelled(x))
    BY DEF JsonDown, AllSpelled
  <2>7. \A z : z \in AllSpelled(Down(B)) <=> \E x \in B : z \in AllSpelled(Children(x))
    BY DEF AllSpelled, Down
  <2>8. \A z : z \in JsonDown(AllSpelled(B)) <=> z \in AllSpelled(Down(B))
    BY <2>5, <2>6, <2>7
  <2> QED BY <2>2, <2>3, <2>8
<1> HIDE DEF T
<1>3. Nat \subseteq T
  BY <1>1, <1>2, NatSetInduction
<1> QED BY <1>3 DEF T

\* The JSON of a reply has the leaves of the reply, each at its place.
LEMMA LeavesSpelled ==
  ASSUME NEW x, \A z \in Nodes({x}) : Good(z)
  PROVE  JsonLeavesOf(JsonNodes({Spelled(x)})) = LeavesOf(Nodes({x}))
<1> DEFINE N == Nodes({x})
<1>1. \A k \in 0..MaxDepth : \A z \in Below({x}, k) : Good(z)
  BY DEF Nodes
<1>2. \A k \in 0..MaxDepth : JsonBelow(AllSpelled({x}), k) = AllSpelled(Below({x}, k))
  BY <1>1, LevelsSpelled
<1>3. AllSpelled({x}) = {Spelled(x)}
  BY DEF AllSpelled
<1>4. JsonNodes({Spelled(x)}) = AllSpelled(N)
  <2>1. \A z : z \in JsonNodes({Spelled(x)}) <=> \E k \in 0..MaxDepth : z \in JsonBelow({Spelled(x)}, k)
    BY DEF JsonNodes
  <2>2. \A z : z \in AllSpelled(N) <=> \E k \in 0..MaxDepth : z \in AllSpelled(Below({x}, k))
    BY DEF AllSpelled, Nodes
  <2>3. \A k \in 0..MaxDepth : JsonBelow({Spelled(x)}, k) = AllSpelled(Below({x}, k))
    BY <1>2, <1>3
  <2>4. \A z : z \in JsonNodes({Spelled(x)}) <=> z \in AllSpelled(N)
    <3> HIDE DEF N
    <3> QED BY <2>1, <2>2, <2>3
  <2> HIDE DEF N
  <2> QED BY <2>4
<1> HIDE DEF N
<1>5. \A z \in N : JsonLeaf(ToJson[z.value]) = Leaf(Data[z.value])
  BY SpelledOut DEF N
<1>6. \A z : Spelled(z).path = z.path /\ Spelled(z).value = ToJson[z.value]
  BY NodeIs DEF Spelled
<1>7. \A l : l \in JsonLeavesOf(AllSpelled(N)) <=>
               \E z \in N : l \in {<<z.path, m>> : m \in JsonLeaf(ToJson[z.value])}
  BY <1>6 DEF JsonLeavesOf, AllSpelled
<1>8. \A l : l \in LeavesOf(N) <=> \E z \in N : l \in {<<z.path, m>> : m \in Leaf(Data[z.value])}
  BY DEF LeavesOf
<1>9. \A l : l \in JsonLeavesOf(AllSpelled(N)) <=> l \in LeavesOf(N)
  BY <1>5, <1>7, <1>8
<1> QED BY <1>4, <1>9 DEF N

\* The leaf that a value without parts is, and the cell that shows it.
LEMMA LeafShown ==
  ASSUME NEW u, u.kind \in {"nil"} \cup ScalarKinds, NEW p
  PROVE  CellLeaves(Cell(u), p) = {<<p, l>> : l \in Leaf(u)}
<1>1. CASE u.kind = "nil"
  <2>1. Cell(u) = NoCell
    BY <1>1 DEF Cell, CellFrom, ScalarKinds
  <2>2. Leaf(u) = {JNull}
    BY <1>1 DEF Leaf, ScalarKinds
  <2>3. CellLeaves(Cell(u), p) = {<<p, JNull>>}
    BY <2>1 DEF CellLeaves
  <2> QED BY <2>2, <2>3
<1>2. CASE u.kind \in ScalarKinds
  <2>1. Cell(u) = Some(Raw(ScalarText(u)))
    BY <1>2 DEF Cell, CellFrom, ScalarKinds
  <2>2. Leaf(u) = {Raw(ScalarText(u))}
    BY <1>2 DEF Leaf, ScalarKinds, ScalarText
  <2>3. Cell(u) # NoCell /\ Cell(u)[1] = Raw(ScalarText(u)) /\ DOMAIN Cell(u)[1] = {"raw"}
    <3>1. \A t : DOMAIN Raw(t) = {"raw"}
      BY DEF Raw
    <3>2. \A t : Some(t) # NoCell /\ Some(t)[1] = t
      BY DEF Some, NoCell
    <3> QED BY <2>1, <3>1, <3>2
  <2>4. CellLeaves(Cell(u), p) = {<<p, Cell(u)[1]>>}
    BY <2>3 DEF CellLeaves
  <2> QED BY <2>2, <2>3, <2>4
<1> QED BY <1>1, <1>2

\* What has no parts is its only node.
LEMMA OnlyNode ==
  ASSUME NEW x, x.value \in Trees, Data[x.value].kind \in {"nil"} \cup ScalarKinds
  PROVE  Nodes({x}) = {x}
<1>1. Data[x.value].kind \notin ItemKinds /\ Data[x.value].kind # "map"
  BY Kinds
<1>2. Children(x) = {}
  BY <1>1, ChildrenArms
<1>3. Nodes({x}) = {x} \cup UNION {Nodes({y}) : y \in {}}
  BY <1>2, NodesFrom
<1> QED BY <1>3

\* The leaves of nodes are those of each of them.
LEMMA LeavesEach ==
  /\ \A x : LeavesOf({x}) = {<<x.path, l>> : l \in Leaf(Data[x.value])}
  /\ \A A, B : LeavesOf(A \cup B) = LeavesOf(A) \cup LeavesOf(B)
  /\ \A A : LeavesOf(UNION A) = UNION {LeavesOf(B) : B \in A}
<1>1. \A A : \A l : l \in LeavesOf(A) <=> \E z \in A : l \in {<<z.path, m>> : m \in Leaf(Data[z.value])}
  BY DEF LeavesOf
<1>2. ASSUME NEW x PROVE LeavesOf({x}) = {<<x.path, l>> : l \in Leaf(Data[x.value])}
  <2> DEFINE L == {<<x.path, l>> : l \in Leaf(Data[x.value])}
  <2>1. \A l : l \in LeavesOf({x}) <=> l \in L
    BY <1>1
  <2> HIDE DEF L
  <2>2. LeavesOf({x}) = L
    BY <2>1
  <2> QED BY <2>2 DEF L
<1>3. ASSUME NEW A, NEW B PROVE LeavesOf(A \cup B) = LeavesOf(A) \cup LeavesOf(B)
  <2>1. \A l : l \in LeavesOf(A \cup B) <=> l \in LeavesOf(A) \/ l \in LeavesOf(B)
    BY <1>1
  <2> QED BY <2>1
<1>4. ASSUME NEW A PROVE LeavesOf(UNION A) = UNION {LeavesOf(B) : B \in A}
  <2>1. \A l : l \in LeavesOf(UNION A) <=> \E B \in A : l \in LeavesOf(B)
    BY <1>1
  <2>2. \A l : l \in UNION {LeavesOf(B) : B \in A} <=> \E B \in A : l \in LeavesOf(B)
    OBVIOUS
  <2>3. \A l : l \in LeavesOf(UNION A) <=> l \in UNION {LeavesOf(B) : B \in A}
    BY <2>1, <2>2
  <2> QED BY <2>3
<1> QED BY <1>2, <1>3, <1>4

\* A reply has one of the kinds.
LEMMA TreeKinds ==
  \A u \in Trees : u.kind \in {"nil"} \cup ScalarKinds \/ IsCompound(u)
BY PartsOfTree DEF Parts, IsCompound

\* A cell shows the leaves of its value, each at its place.
LEMMA CellShown ==
  ASSUME NEW x, x.value \in Trees, IsCompound(x.value) => Expressible(x.value)
  PROVE  CellLeaves(Cell(x.value), x.path) = LeavesOf(Nodes({x}))
<1> DEFINE u == x.value
<1>1. CASE u.kind \in {"nil"} \cup ScalarKinds
  <2>1. Data[u] = u
    BY <1>1, DataIs, Kinds
  <2>2. LeavesOf(Nodes({x})) = {<<x.path, l>> : l \in Leaf(u)}
    <3>1. Nodes({x}) = {x}
      BY <1>1, <2>1, OnlyNode
    <3>2. LeavesOf({x}) = {<<x.path, l>> : l \in Leaf(Data[x.value])}
      BY LeavesEach, Zenon
    <3> QED BY <2>1, <3>1, <3>2
  <2> QED BY <1>1, <2>2, LeafShown
<1>2. CASE IsCompound(u)
  <2>1. \A z \in Nodes({x}) : Good(z)
    <3> SUFFICES ASSUME NEW z \in Nodes({x}) PROVE Good(z)
      OBVIOUS
    <3>1. PICK k \in 0..MaxDepth : z \in Below({x}, k)
      BY DEF Nodes
    <3>2. k \in Nat
      BY ReplyAssumption
    <3>3. z.value \in Trees
      <4>1. Deep(MaxDepth, {x})
        BY DEF Deep, Trees
      <4> QED BY <3>1, <3>2, <4>1, BelowTrees DEF Deep, Trees
    <3>4. Same(x, Node(<<>>, u))
      BY NodeIs DEF Same
    <3>5. PICK w \in Below({Node(<<>>, u)}, k) : Same(z, w)
      BY <3>1, <3>2, <3>4, BelowAnywhere
    <3>6. w \in Nodes({Node(<<>>, u)})
      BY <3>5 DEF Nodes
    <3>7. Sayable(Data[w.value])
      BY <1>2, <3>6 DEF Expressible
    <3> QED BY <3>3, <3>5, <3>7 DEF Good, Same
  <2>2. JsonLeavesOf(JsonNodes({Spelled(x)})) = LeavesOf(Nodes({x}))
    BY <2>1, LeavesSpelled
  <2>3. Cell(u) = Some(ToJson[u])
    BY <1>2 DEF Cell, CellFrom, IsCompound, ScalarKinds, ItemKinds
  <2>4. DOMAIN ToJson[u] # {"raw"}
    <3>1. Good(x)
      <4>1. x \in Nodes({x})
        BY NodesFrom
      <4> QED BY <2>1, <4>1
    <3>2. \E s : ToJson[u] \in {JNull, JString(s), JLiteral(s), JArray(s), JObject(s)}
      BY <3>1, JsonOfData DEF Good
    <3>3. \A s : /\ "json" \in DOMAIN JNull /\ "json" \in DOMAIN JString(s)
                 /\ "json" \in DOMAIN JLiteral(s) /\ "json" \in DOMAIN JArray(s)
                 /\ "json" \in DOMAIN JObject(s)
      BY DEF JNull, JString, JLiteral, JArray, JObject
    <3>4. "json" \in DOMAIN ToJson[u]
      BY <3>2, <3>3
    <3> QED BY <3>4
  <2>5. Cell(u) # NoCell /\ Cell(u)[1] = ToJson[u]
    BY <2>3 DEF Some, NoCell
  <2>6. CellLeaves(Cell(u), x.path) = JsonLeavesOf(JsonNodes({Node(x.path, ToJson[u])}))
    BY <2>4, <2>5 DEF CellLeaves
  <2> QED BY <2>2, <2>6 DEF Spelled
<1> QED BY <1>1, <1>2, TreeKinds

\* reply_rows shows every scalar of a reply at its place, unless JSON cannot say
\* it: for replies of any width, nested as deep as MaxDepth.
THEOREM ReplyShown ==
  ASSUME NEW v \in Trees, \A u \in JsonParts(v) : Expressible(u)
  PROVE  UNION {RowLeaves(ReplyRows(v).rows[i]) : i \in DOMAIN ReplyRows(v).rows} = Leaves(v)
<1> DEFINE r == Node(<<>>, v)
           d == Data[v]
           rows == ReplyRows(v).rows
           shown(y) == LeavesOf(Nodes({y}))
<1>1. r.value = v /\ r.path = <<>>
  BY NodeIs
<1>2. d \in Trees /\ d.kind # "attribute"
  <2>1. MaxDepth \in Nat /\ MaxDepth <= MaxDepth /\ v \in TreesUpTo[MaxDepth]
    BY ReplyAssumption DEF Trees
  <2> QED BY <2>1, DataFound DEF IsData, Trees
<1>3. \A y \in Children(r) : y.value \in Trees
  <2>1. Deep(MaxDepth, {r})
    BY <1>1 DEF Deep, Trees
  <2>2. Deep(MaxDepth, Below({r}, 0 + 1))
    BY <2>1, BelowTrees
  <2>3. Below({r}, 0 + 1) = Down({r})
    BY BelowStep
  <2> QED BY <2>2, <2>3 DEF Deep, Trees, Down
<1>4. \A y \in Children(r) : CellLeaves(Cell(y.value), y.path) = shown(y)
  <2>1. \A y \in Children(r) : IsCompound(y.value) => Expressible(y.value)
    BY DEF JsonParts
  <2> QED BY <1>3, <2>1, CellShown
<1>5. Leaves(v) = {<<<<>>, l>> : l \in Leaf(d)} \cup UNION {shown(y) : y \in Children(r)}
  <2>1. Nodes({r}) = {r} \cup UNION {Nodes({y}) : y \in Children(r)}
    BY <1>1, NodesFrom
  <2>2. LeavesOf({r}) = {<<<<>>, l>> : l \in Leaf(d)}
    BY <1>1, LeavesEach
  <2>3. LeavesOf(UNION {Nodes({y}) : y \in Children(r)}) =
          UNION {LeavesOf(B) : B \in {Nodes({y}) : y \in Children(r)}}
    BY LeavesEach, Zenon
  <2>4. {LeavesOf(B) : B \in {Nodes({y}) : y \in Children(r)}} = {shown(y) : y \in Children(r)}
    OBVIOUS
  <2>5. Leaves(v) = LeavesOf({r}) \cup LeavesOf(UNION {Nodes({y}) : y \in Children(r)})
    BY <2>1, LeavesEach, Zenon DEF Leaves
  <2> QED BY <2>2, <2>3, <2>4, <2>5
<1>6. ReplyRows(v) = TableOf(d)
  BY DEF ReplyRows
<1>7. \A c, s : Table(c, s).rows = s
  BY DEF Table
<1>8. \A a, b : RowLeaves(<<Some(a), b>>) = CellLeaves(b, Append(<<>>, a))
  BY DEF RowLeaves, Some
<1>9. d = Data[r.value]
  BY <1>1
<1> HIDE DEF r, d, shown
<1>10. CASE d.kind \in {"nil"} \cup ScalarKinds
  <2>1. rows = <<<<Cell(d)>>>>
    BY <1>6, <1>7, <1>10 DEF TableOf, ItemKinds, ScalarKinds
  <2>2. RowLeaves(<<Cell(d)>>) = CellLeaves(Cell(d), <<>>)
    BY DEF RowLeaves
  <2>3. CellLeaves(Cell(d), <<>>) = {<<<<>>, l>> : l \in Leaf(d)}
    BY <1>10, LeafShown
  <2>4. Children(r) = {}
    BY <1>9, <1>10, ChildrenArms, Kinds
  <2>5. UNION {RowLeaves(rows[i]) : i \in DOMAIN rows} = RowLeaves(<<Cell(d)>>)
    <3>1. \A q : UNION {RowLeaves(<<q>>[i]) : i \in DOMAIN <<q>>} = RowLeaves(q)
      OBVIOUS
    <3> QED BY <2>1, <3>1, Zenon
  <2>6. Leaves(v) = {<<<<>>, l>> : l \in Leaf(d)}
    BY <1>5, <2>4
  <2> QED BY <2>2, <2>3, <2>5, <2>6
<1>11. CASE d.kind \in ItemKinds
  <2> DEFINE N(i) == Node(Append(<<>>, [index |-> i - 1]), d.items[i])
             row(i) == <<Some([index |-> i - 1]), Cell(d.items[i])>>
             D == DOMAIN d.items
  <2>1. rows = [i \in D |-> row(i)]
    BY <1>6, <1>7, <1>11 DEF TableOf, ItemKinds
  <2>2. Children(r) = {N(i) : i \in D}
    <3>1. Children(r) = ItemNodes(<<>>, d)
      BY <1>1, <1>9, <1>11, ChildrenArms
    <3> QED BY <3>1 DEF ItemNodes
  <2>3. \A i \in D : N(i).value = d.items[i] /\ N(i).path = Append(<<>>, [index |-> i - 1])
    BY NodeIs
  <2>4. \A i \in D : RowLeaves(row(i)) = CellLeaves(Cell(d.items[i]), Append(<<>>, [index |-> i - 1]))
    BY <1>8, Zenon
  <2>5. Leaf(d) = {}
    BY <1>11 DEF Leaf, ItemKinds, ScalarKinds
  <2>6. \A i \in D : N(i) \in Children(r)
    <3> HIDE DEF N
    <3> QED BY <2>2
  <2>7. \A i \in D : RowLeaves(row(i)) = shown(N(i))
    <3> HIDE DEF N, row, D
    <3> QED BY <1>4, <2>3, <2>4, <2>6
  <2> HIDE DEF N, row, D
  <2>8. {RowLeaves(rows[i]) : i \in DOMAIN rows} = {shown(N(i)) : i \in D}
    BY <2>1, <2>7
  <2>9. {shown(y) : y \in Children(r)} = {shown(N(i)) : i \in D}
    BY <2>2
  <2> QED BY <1>5, <2>5, <2>8, <2>9
<1>12. CASE d.kind = "map"
  <2> DEFINE N(i) == Node(Append(<<>>, KeyText(d.pairs[i][1])), d.pairs[i][2])
             row(i) == <<Some(KeyText(d.pairs[i][1])), Cell(d.pairs[i][2])>>
             D == DOMAIN d.pairs
  <2>1. rows = [i \in D |-> row(i)]
    BY <1>6, <1>7, <1>12 DEF TableOf, ItemKinds
  <2>2. Children(r) = {N(i) : i \in D}
    <3>1. Children(r) = PairNodes(<<>>, d)
      BY <1>1, <1>9, <1>12, ChildrenArms
    <3> QED BY <3>1 DEF PairNodes
  <2>3. \A i \in D : N(i).value = d.pairs[i][2] /\ N(i).path = Append(<<>>, KeyText(d.pairs[i][1]))
    BY NodeIs
  <2>4. \A i \in D : RowLeaves(row(i)) = CellLeaves(Cell(d.pairs[i][2]), Append(<<>>, KeyText(d.pairs[i][1])))
    BY <1>8, Zenon
  <2>5. Leaf(d) = {}
    BY <1>12 DEF Leaf, ScalarKinds
  <2>6. \A i \in D : N(i) \in Children(r)
    <3> HIDE DEF N
    <3> QED BY <2>2
  <2>7. \A i \in D : RowLeaves(row(i)) = shown(N(i))
    <3> HIDE DEF N, row, D
    <3> QED BY <1>4, <2>3, <2>4, <2>6
  <2> HIDE DEF N, row, D
  <2>8. {RowLeaves(rows[i]) : i \in DOMAIN rows} = {shown(N(i)) : i \in D}
    BY <2>1, <2>7
  <2>9. {shown(y) : y \in Children(r)} = {shown(N(i)) : i \in D}
    BY <2>2
  <2> QED BY <1>5, <2>5, <2>8, <2>9
<1>13. d.kind \in {"nil"} \cup ScalarKinds \/ d.kind \in ItemKinds \/ d.kind = "map"
  BY <1>2, TreeKinds DEF IsCompound
<1> QED BY <1>10, <1>11, <1>12, <1>13

\* The replies that calls are given are replies.
LEMMA RepliesAreTrees == \A v \in InnerReplies : \A r \in OuterReplies(v) : r \in Trees
<1> DEFINE T(n) == TreesUpTo[n]
<1>1. /\ \A S : S \subseteq Grown(S)
      /\ \A S, k, s : k \in ItemKinds /\ s \in Seq(S) => Items(k, s) \in Grown(S)
      /\ \A S, s : s \in Seq(S \X S) => Map(s) \in Grown(S)
      /\ \A S, v : v \in S => Attribute(v) \in Grown(S)
  <2>1. \A S, k, s : k \in ItemKinds /\ s \in Seq(S) => Items(k, s) \in [kind: ItemKinds, items: Seq(S)]
    BY DEF Items
  <2>2. \A S, s : s \in Seq(S \X S) => Map(s) \in [kind: {"map"}, pairs: Seq(S \X S)]
    BY DEF Map
  <2>3. \A S, v : v \in S => Attribute(v) \in [kind: {"attribute"}, data: S]
    BY DEF Attribute
  <2> QED BY <2>1, <2>2, <2>3, Zenon DEF Grown
<1>2. T(0) = Flat0 /\ T(1) = Grown(T(0)) /\ T(2) = Grown(T(1))
  <2>1. 0 \in Nat /\ 0 + 1 = 1 /\ 1 \in Nat /\ 1 + 1 = 2
    OBVIOUS
  <2> QED BY <2>1, TreesAre
<1> HIDE DEF T
<1>3. \A X, n : BoundedSeq(X, n) \subseteq Seq(X)
  BY DEF BoundedSeq, SeqOf
<1>4. \A A, B : A \subseteq B => Seq(A) \subseteq Seq(B)
  OBVIOUS
<1>5. Scalars \cup {Text(NullText), Text(2)} \subseteq T(0)
  BY <1>2, ReplyAssumption, ConversionsAssumption
     DEF Scalars, Flat0, ScalarKinds, Nil, Text, Literal, NonFinite
<1>6. ScalarSeqs \subseteq Seq(T(0))
  <2>1. ScalarSeqs \subseteq Seq(Scalars)
    BY <1>3 DEF ScalarSeqs
  <2>2. Seq(Scalars) \subseteq Seq(T(0))
    BY <1>4, <1>5
  <2> QED BY <2>1, <2>2
<1>7. ScalarPairs \subseteq Seq(T(0) \X T(0))
  <2> DEFINE P == {Nil, Text(NullText), Text(1), Text(2), Text(3), Literal(1)} \X Scalars
  <2>1. ScalarPairs \subseteq Seq(P)
    BY <1>3, Zenon DEF ScalarPairs
  <2>2. P \subseteq T(0) \X T(0)
    BY <1>5 DEF Scalars
  <2> HIDE DEF P
  <2>3. Seq(P) \subseteq Seq(T(0) \X T(0))
    BY <1>4, <2>2, Zenon
  <2> QED BY <2>1, <2>3
<1>8. InnerReplies \subseteq T(1)
  <2>1. Scalars \subseteq T(1)
    BY <1>1, <1>2, <1>5
  <2>2. ASSUME NEW k \in ItemKinds, NEW s \in ScalarSeqs PROVE Items(k, s) \in T(1)
    <3>1. s \in Seq(T(0))
      BY <1>6
    <3> QED BY <1>1, <1>2, <3>1
  <2>3. ASSUME NEW s \in ScalarPairs PROVE Map(s) \in T(1)
    <3>1. s \in Seq(T(0) \X T(0))
      BY <1>7
    <3> QED BY <1>1, <1>2, <3>1
  <2>4. ASSUME NEW v \in Scalars PROVE Attribute(v) \in T(1)
    BY <1>1, <1>2, <1>5
  <2> QED BY <2>1, <2>2, <2>3, <2>4 DEF InnerReplies
<1>9. ASSUME NEW v \in T(1), NEW r \in OuterReplies(v) PROVE r \in T(2)
  <2>1. Nil \in T(1) /\ Text(NullText) \in T(1)
    BY <1>1, <1>2, <1>5 DEF Scalars
  <2>2. v \in T(2) /\ Attribute(v) \in T(2)
    BY <1>1, <1>2
  <2>3. \A s : s \in Seq(T(1) \X T(1)) => Map(s) \in T(2)
    BY <1>1, <1>2
  <2>4. \A k, s : k \in ItemKinds /\ s \in Seq(T(1)) => Items(k, s) \in T(2)
    BY <1>1, <1>2
  <2>5. /\ <<v>> \in Seq(T(1)) /\ <<Nil, v>> \in Seq(T(1))
        /\ <<<<Nil, v>>>> \in Seq(T(1) \X T(1))
        /\ <<<<v, Nil>>>> \in Seq(T(1) \X T(1))
        /\ <<<<Text(NullText), v>>, <<Nil, Nil>>>> \in Seq(T(1) \X T(1))
    BY <2>1
  <2>6. /\ Map(<<<<Nil, v>>>>) \in T(2) /\ Map(<<<<v, Nil>>>>) \in T(2)
        /\ Map(<<<<Text(NullText), v>>, <<Nil, Nil>>>>) \in T(2)
    BY <2>3, <2>5, Zenon
  <2>7. \A k \in ItemKinds : Items(k, <<v>>) \in T(2) /\ Items(k, <<Nil, v>>) \in T(2)
    BY <2>4, <2>5, Zenon
  <2>8. \A z \in {Items(k, s) : k \in ItemKinds, s \in {<<v>>, <<Nil, v>>}} : z \in T(2)
    BY <2>7
  <2> DEFINE a == Map(<<<<Nil, v>>>>)
             b == Map(<<<<Text(NullText), v>>, <<Nil, Nil>>>>)
             c == Map(<<<<v, Nil>>>>)
             I == {Items(k, s) : k \in ItemKinds, s \in {<<v>>, <<Nil, v>>}}
  <2>9. OuterReplies(v) = {v, Attribute(v), a, b, c} \cup I
    BY DEF OuterReplies
  <2> HIDE DEF a, b, c, I
  <2>10. r = v \/ r = Attribute(v) \/ r = a \/ r = b \/ r = c \/ r \in I
    BY <2>9
  <2>11. a \in T(2) /\ b \in T(2) /\ c \in T(2)
    BY <2>6 DEF a, b, c
  <2>12. \A z \in I : z \in T(2)
    BY <2>8 DEF I
  <2> QED BY <2>2, <2>10, <2>11, <2>12
<1>10. T(2) \subseteq Trees
  BY DepthsGrow, ReplyAssumption, ConversionsAssumption DEF T, Trees
<1> QED BY <1>8, <1>9, <1>10

-----------------------------------------------------------------------------
(* The calls                                                                *)

\* What each call is given.
Given ==
    /\ case.op = "statement" => case.text \in StatementTexts
    /\ case.op = "command" => case.args \in Nat
    /\ case.op = "reply" => \E v \in InnerReplies : case.reply \in OuterReplies(v)
    /\ case.op = "result" => case.full \in FullRows
    /\ case.op = "collection" => /\ case.kind \in {"hash", "set", "list", "zset"}
                                 /\ case.content \in Contents(case.kind)
                                 /\ case.fetched \in Fetched(case.kind, case.content)
                                 /\ case.reply \in Replies(case.kind, case.content, case.fetched)
    /\ case.op = "string" => case.value \in StringValues

\* A call that has returned has answered what its function computes.
Answered ==
    done =>
        /\ case.op = "statement" => answer = ParseStatement(case.text)
        /\ case.op = "command" => answer = CommandMetadata(case.verb, case.args)
        /\ case.op = "reply" => answer = ReplyRows(case.reply)
        /\ case.op = "result" => answer = Finalize(<<"value">>, case.full)
        /\ case.op = "collection" => answer = PreviewOf(case.kind, case.reply)
        /\ case.op = "string" => answer = PreviewString(case.value)

CallInv == Given /\ Answered

\* A call keeps its input, and answers what its function computes.
THEOREM CallsAnswer == Spec => []CallInv
<1>1. Init => CallInv
  <2> SUFFICES ASSUME Init PROVE CallInv
    OBVIOUS
  <2>1. Answered
    BY DEF Init, Answered
  <2>2. ASSUME Picked PROVE Given
    <3>1. case.op \in {"form", "target", "view", "row_write", "memory", "memory_execute"}
      BY <2>2 DEF Picked
    <3> QED BY <3>1 DEF Given
  <2>3. ASSUME NEW t \in StatementTexts, case = [op |-> "statement", text |-> t] PROVE Given
    BY <2>3 DEF Given
  <2>4. ASSUME NEW v, NEW n \in 0..4, case = [op |-> "command", verb |-> v, args |-> n] PROVE Given
    BY <2>4 DEF Given
  <2>5. ASSUME NEW v \in InnerReplies, NEW r \in OuterReplies(v), case = [op |-> "reply", reply |-> r]
        PROVE  Given
    BY <2>5 DEF Given
  <2>6. ASSUME NEW f \in FullRows, case = [op |-> "result", full |-> f] PROVE Given
    BY <2>6 DEF Given
  <2>7. ASSUME NEW k \in {"hash", "set", "list", "zset"}, NEW c \in Contents(k),
               NEW f \in Fetched(k, c), NEW r \in Replies(k, c, f),
               case = [op |-> "collection", kind |-> k, content |-> c, fetched |-> f, reply |-> r]
        PROVE  Given
    BY <2>7 DEF Given
  <2>8. ASSUME NEW s \in StringValues, case = [op |-> "string", value |-> s] PROVE Given
    BY <2>8 DEF Given
  <2> QED BY <2>1, <2>2, <2>3, <2>4, <2>5, <2>6, <2>7, <2>8, Zenon DEF Init, CallInv
<1>2. ASSUME CallInv, [Next]_vars PROVE CallInv'
  <2>1. case' = case
    BY <1>2 DEF Next, RequestCalls, vars, BuildsTarget, OpensTarget, CollectsView, ParsesRowWrite,
            WritesMemory, ExecutesMemory, ParsesText, Classifies, Renders, Finalizes,
            PreviewsCollection, PreviewsString, Rest, Call
  <2>2. Given'
    BY <1>2, <2>1, Zenon DEF CallInv, Given
  <2>3. Answered'
    <3>1. CASE ParsesText
      BY <2>1, <3>1 DEF ParsesText, Call, Answered
    <3>2. CASE Classifies
      BY <2>1, <3>2 DEF Classifies, Call, Answered
    <3>3. CASE Renders
      BY <2>1, <3>3 DEF Renders, Call, Answered
    <3>4. CASE Finalizes
      BY <2>1, <3>4 DEF Finalizes, Call, Answered
    <3>5. CASE PreviewsCollection
      BY <2>1, <3>5 DEF PreviewsCollection, Call, Answered
    <3>6. CASE PreviewsString
      BY <2>1, <3>6 DEF PreviewsString, Call, Answered
    <3>7. CASE RequestCalls
      <4>1. case.op \in {"form", "target", "view", "row_write", "memory", "memory_execute"}
        BY <3>7 DEF RequestCalls, BuildsTarget, OpensTarget, CollectsView, ParsesRowWrite,
                WritesMemory, ExecutesMemory
      <4> QED BY <2>1, <4>1 DEF Answered
    <3>8. CASE UNCHANGED vars
      BY <1>2, <3>8, Zenon DEF CallInv, Answered, vars
    <3> QED BY <1>2, <3>1, <3>2, <3>3, <3>4, <3>5, <3>6, <3>7, <3>8 DEF Next, Rest
  <2> QED BY <2>2, <2>3 DEF CallInv
<1> QED BY <1>1, <1>2, PTL DEF Spec

\* parse_select accepts the sentences of the grammar, with a terminator or
\* none, with the offset and the limit they name, and refuses only what is
\* no sentence: for all inputs of a behaviour, whatever their numbers and
\* however long the tail.
THEOREM GrammarIsExact == Spec => []GrammarExact
<1>1. ASSUME CallInv PROVE GrammarExact
  <2> SUFFICES ASSUME Returned("statement")
               PROVE  LET ts == Split(case.text)
                      IN  /\ answer.kind = "select" =>
                               \E p \in Pages : /\ answer.offset = p.offset /\ answer.limit = p.limit
                                                /\ ts \in Accepted(p)
                          /\ answer.kind = "invalid" => \A p \in Pages : ts \notin Accepted(p)
    BY DEF GrammarExact
  <2>1. case.text \in TypedTexts(PieceTokens) /\ answer = ParseStatement(case.text)
    BY <1>1, TextsTyped DEF CallInv, Given, Answered, Returned
  <2> QED BY <2>1, PieceTypes, ParseExact, Zenon
<1> QED BY <1>1, CallsAnswer, PTL

\* The statement a result reports parses back to what was executed: with empty
\* arguments, comment signs and semicolons.
THEOREM StatementsReplay == Spec => []StatementReplays
<1>1. ASSUME CallInv PROVE StatementReplays
  <2> SUFFICES ASSUME Returned("statement"), answer.kind # "invalid", answer # Redis(<<>>)
               PROVE  ParseStatement(Reported(answer)) = answer
    BY DEF StatementReplays
  <2>1. case.text \in TypedTexts(PieceTokens) /\ answer = ParseStatement(case.text)
    BY <1>1, TextsTyped DEF CallInv, Given, Answered, Returned
  <2> QED BY <2>1, PieceTypes, ReportReplays, Zenon
<1> QED BY <1>1, CallsAnswer, PTL

\* Every statement is either replayable or sensitive, and sensitive where its
\* command carries a value.
THEOREM StatementsAreClassified == Spec => []StatementsClassified
<1>1. ASSUME CallInv PROVE StatementsClassified
  <2> SUFFICES ASSUME Returned("command") PROVE StatementsClassified
    BY DEF StatementsClassified
  <2>1. case.args \in Nat /\ answer = CommandMetadata(case.verb, case.args)
    BY <1>1 DEF CallInv, Given, Answered, Returned
  <2>2. IsClassified(case.verb, case.args, answer)
    BY <2>1, Classified, Zenon
  <2> QED BY <2>2, Zenon DEF IsClassified, StatementsClassified, Suggested
<1> QED BY <1>1, CallsAnswer, PTL

\* A result shows the first rows and all that fits of each cell: for every
\* MAX_ROWS and MAX_CELL, any number of rows and texts of any length.
THEOREM ResultsAreFaithful == Spec => []ResultFaithful
<1>1. ASSUME CallInv PROVE ResultFaithful
  <2> SUFFICES ASSUME Returned("result") PROVE ResultFaithful
    BY DEF ResultFaithful
  <2>1. case.full \in FullRows /\ answer = Finalize(<<"value">>, case.full)
    BY <1>1 DEF CallInv, Given, Answered, Returned
  <2>2. PICK R : /\ case.full \in Seq(R)
                 /\ \A r \in R : DOMAIN r = {1} /\ (r[1] = NoCell \/ \E t \in Seq(Nat) : r[1] = Some(t))
    BY <2>1, RowsTyped
  <2>3. IsFaithful(case.full, answer)
    BY <2>1, <2>2, FinalizeFaithful, Zenon
  <2> QED BY <2>3, Zenon DEF IsFaithful, ResultFaithful
<1> QED BY <1>1, CallsAnswer, PTL

\* The preview of a hash holds every field that HSCAN returned, that of a set
\* every member that SSCAN returned, in an order of their own, if none are
\* shown alike, and that of a list its first elements; that of a string is a
\* prefix that fits, with replacements only where the bytes are no text: for
\* collections and strings of any length and both shapes of the replies.
THEOREM PreviewsAreFaithful == Spec => []PreviewsFaithful
<1>1. ASSUME CallInv PROVE PreviewsFaithful
  <2> DEFINE c == case.content
             f == case.fetched
             r == case.reply
  <2>1. ASSUME Returned("collection")
        PROVE  /\ c \in TextPairs /\ f \in TextPairs
               /\ f \in Fetched(case.kind, c)
               /\ r \in Replies(case.kind, c, f) /\ answer = PreviewOf(case.kind, r)
    <3>1. /\ c \in Contents(case.kind) /\ f \in Fetched(case.kind, c)
          /\ r \in Replies(case.kind, c, f) /\ answer = PreviewOf(case.kind, r)
      BY <1>1, <2>1 DEF CallInv, Given, Answered, Returned
    <3>3. c \in Seq(Members \X Members)
      <4>1. c \in BoundedSeq(Members \X Members, MaxMember)
        BY <3>1 DEF Contents
      <4>2. \A X, n : BoundedSeq(X, n) \subseteq Seq(X)
        BY DEF BoundedSeq, SeqOf
      <4> QED BY <4>1, <4>2
    <3>4. Members \subseteq Texts
      BY ConversionsAssumption DEF Members
    <3>7. c \in TextPairs
      <4>1. Members \X Members \subseteq Texts \X Texts
        BY <3>4
      <4>2. \A A, B : A \subseteq B => Seq(A) \subseteq Seq(B)
        OBVIOUS
      <4> QED BY <3>3, <4>1, <4>2 DEF TextPairs
    <3>8. f \in TextPairs
      BY <3>1, <3>7, FetchedTexts
    <3> QED BY <3>1, <3>7, <3>8
  <2> HIDE DEF c, f, r
  <2> DEFINE cursor == IF f = c THEN 0 ELSE 1
  <2>2. ASSUME Returned("collection"), case.kind = "hash", DistinctTexts(f)
        PROVE  answer = Some(JObject(PairSet(f)))
    <3>1. r \in HScan(cursor, f) /\ answer = PreviewHash(r)
      BY <2>1, <2>2 DEF Replies, PreviewOf
    <3> HIDE DEF cursor
    <3> QED BY <2>1, <2>2, <3>1, HashShown
  <2>3. ASSUME Returned("collection"), case.kind = "list"
        PROVE  answer = Some(JArray([i \in 1..Min({Len(c), PreviewElements}) |->
                                       JString(Decoded[c[i][1]])]))
    <3>1. r \in LRange(f) /\ answer = PreviewList(r) /\ f = FirstElements(c)
      BY <2>1, <2>3 DEF Replies, PreviewOf, Fetched
    <3> QED BY <2>1, <2>3, <3>1, ListShown, Zenon
  <2>4. ASSUME Returned("collection"), case.kind = "set", DistinctTexts(f)
        PROVE  \E s \in [DOMAIN f -> {Decoded[p[1]] : p \in ToSet(f)}] :
                 /\ answer = Some(JArray([i \in DOMAIN s |-> JString(s[i])]))
                 /\ \A i, j \in DOMAIN s : i < j => s[i] < s[j]
    <3>1. r \in SScan(cursor, f) /\ answer = PreviewSet(r)
      BY <2>1, <2>4 DEF Replies, PreviewOf
    <3> HIDE DEF cursor
    <3> QED BY <2>1, <2>4, <3>1, SetShown, Zenon
  <2>5. ASSUME Returned("string") PROVE StringShown(case.value, answer)
    <3>1. case.value \in StringValues /\ answer = PreviewString(case.value)
      BY <1>1, <2>5 DEF CallInv, Given, Answered, Returned
    <3>2. case.value \in Seq(Chars)
      <4>1. \A X, n : BoundedSeq(X, n) \subseteq Seq(X)
        BY DEF BoundedSeq, SeqOf
      <4> QED BY <3>1, <4>1 DEF StringValues, Chars
    <3> QED BY <3>1, <3>2, PreviewStringFaithful, Zenon
  <2> QED BY <2>2, <2>3, <2>4, <2>5, Zenon DEF PreviewsFaithful, StringShown, c, f
<1> QED BY <1>1, CallsAnswer, PTL

\* The rows of a reply show every scalar of it at its place, decoded where it
\* is not UTF-8, wherever JSON can say it.
THEOREM ScalarsAreShown == Spec => []ScalarsShown
<1>1. ASSUME CallInv PROVE ScalarsShown
  <2> SUFFICES ASSUME Returned("reply"), \A v \in JsonParts(case.reply) : Expressible(v)
               PROVE  UNION {RowLeaves(answer.rows[i]) : i \in DOMAIN answer.rows} = Leaves(case.reply)
    BY DEF ScalarsShown
  <2>1. answer = ReplyRows(case.reply) /\ \E v \in InnerReplies : case.reply \in OuterReplies(v)
    BY <1>1 DEF CallInv, Given, Answered, Returned
  <2>2. case.reply \in Trees
    BY <2>1, RepliesAreTrees
  <2>3. UNION {RowLeaves(ReplyRows(case.reply).rows[i]) : i \in DOMAIN ReplyRows(case.reply).rows} =
          Leaves(case.reply)
    BY <2>2, ReplyShown
  <2> QED BY <2>1, <2>3
<1> QED BY <1>1, CallsAnswer, PTL
=============================================================================
