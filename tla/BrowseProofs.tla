--------------------------- MODULE BrowseProofs ---------------------------
(***************************************************************************)
(* Machine-checked proofs about Browse, for any number of keys, any limit, *)
(* offset and display cap, and any writes of other clients: no key that    *)
(* stays in the database is missed, the pages of a calm database are the   *)
(* sorted names piece by piece, and a page is returned once its keys are    *)
(* collected.                                                              *)
(***************************************************************************)
EXTENDS Browse, Induction, FiniteSetTheorems, SequenceTheorems, TLAPS

TypesSeen == Kinds \cup {"none", "unknown"}
Rows == [key: Keys, type: TypesSeen, preview: {"null", "empty", "shown"}]

\* The page that belongs to the collected keys.
Whole == Page(Sort(keys))

BrowseTypes ==
    /\ store \in [Keys -> Kinds \cup {Absent}]
    /\ limit \in Nat \cup {NoLimit} /\ offset \in Nat /\ first \in Nat
    /\ pc \in {"idle", "scan", "type", "preview", "done", "failed"}
    /\ keys \in [Keys -> Nat]
    /\ page \in Seq(Keys) /\ type \in TypesSeen /\ rows \in Seq(Rows)
    /\ result \in [rows: Seq(Rows), has_more: BOOLEAN] /\ delivered \in Seq(Keys)
    /\ stable \subseteq Keys /\ pending \subseteq stable
    /\ calm \in BOOLEAN

Fetched == {"type", "preview", "done"}

\* SCAN has returned the stable keys, except the pending ones while it runs,
\* and their names are in the vector.
Collected ==
    /\ pc = "scan" => \A k \in stable \ pending : keys[Name[k]] >= 1
    /\ pc \in Fetched => \A k \in stable : keys[Name[k]] >= 1

\* The rows so far and the keys still to be fetched make up the page.
Fetching ==
    /\ pc = "scan" => rows = <<>>
    /\ pc \in {"type", "preview"} =>
         /\ page # <<>>
         /\ Len(rows) + Len(page) = Len(Whole)
         /\ \A i \in 1..Len(rows) : rows[i].key = Whole[i]
         /\ \A i \in 1..Len(page) : page[i] = Whole[Len(rows) + i]

\* What is returned is the page up to the display cap, and has_more says
\* whether the vector goes on behind it.
Delivered ==
    pc = "done" =>
      /\ Len(result.rows) = Shown(Whole)
      /\ \A i \in 1..Len(result.rows) : result.rows[i].key = Whole[i]
      /\ result.has_more = (SaturatingAdd(offset, Len(result.rows)) < Total(keys))

\* While nobody writes, no name is repeated and no scan cut short, the vector
\* holds names of the database once, and what was delivered so far ends where this page begins
\* or, once it is returned, ends.
Calm ==
    calm =>
      /\ pc # "idle" =>
           /\ stable = Present
           /\ \A k \in Keys : keys[k] <= 1 /\ (keys[k] = 1 => k \in Listed)
      /\ first + Len(delivered) = offset + IF pc = "done" THEN Len(result.rows) ELSE 0
      /\ \A i \in 1..Len(delivered) : delivered[i] = SortedNames[first + i]
      /\ delivered # <<>> => first + Len(delivered) <= Cardinality(Listed)

BrowseInv == BrowseTypes /\ Collected /\ Fetching /\ Delivered /\ Calm

-----------------------------------------------------------------------------
(* The sorted vector                                                        *)

\* The running sum of a bag exists, however many keys there are.
LEMMA SumExists ==
  \A b : \A n \in Nat : \E g : g = [j \in 0..n |-> IF j = 0 THEN 0 ELSE g[j - 1] + b[j]]
<1> SUFFICES ASSUME NEW b
             PROVE  \A n \in Nat : \E g : g = [j \in 0..n |-> IF j = 0 THEN 0 ELSE g[j - 1] + b[j]]
  OBVIOUS
<1> DEFINE Sums(n, g) == g = [j \in 0..n |-> IF j = 0 THEN 0 ELSE g[j - 1] + b[j]]
           S == {n \in Nat : \E g : Sums(n, g)}
<1>1. 0 \in S
  <2> DEFINE g == [j \in 0..0 |-> 0]
  <2>1. g = [j \in 0..0 |-> IF j = 0 THEN 0 ELSE g[j - 1] + b[j]]
    OBVIOUS
  <2> QED BY <2>1
<1>2. ASSUME NEW n \in Nat, n \in S PROVE n + 1 \in S
  <2>1. PICK g : Sums(n, g)
    BY <1>2
  <2> DEFINE k == [j \in 0..(n + 1) |-> IF j = 0 THEN 0 ELSE g[j - 1] + b[j]]
  <2>2. \A j \in 0..n : g[j] = IF j = 0 THEN 0 ELSE g[j - 1] + b[j]
    BY <2>1
  <2>3. \A j \in 0..n : k[j] = g[j]
    BY <2>2
  <2>4. ASSUME NEW j \in 0..(n + 1)
        PROVE  k[j] = IF j = 0 THEN 0 ELSE k[j - 1] + b[j]
    <3>1. k[j] = IF j = 0 THEN 0 ELSE g[j - 1] + b[j]
      OBVIOUS
    <3>2. j # 0 => j - 1 \in 0..n
      OBVIOUS
    <3> HIDE DEF k
    <3>3. j # 0 => k[j - 1] = g[j - 1]
      BY <2>3, <3>2
    <3> QED BY <3>1, <3>3
  <2>5. k = [j \in 0..(n + 1) |-> IF j = 0 THEN 0 ELSE k[j - 1] + b[j]]
    <3>1. k = [j \in 0..(n + 1) |-> k[j]]
      OBVIOUS
    <3> HIDE DEF k
    <3>2. [j \in 0..(n + 1) |-> k[j]]
            = [j \in 0..(n + 1) |-> IF j = 0 THEN 0 ELSE k[j - 1] + b[j]]
      BY <2>4
    <3> QED BY <3>1, <3>2
  <2> HIDE DEF k
  <2> QED BY <2>5
<1> HIDE DEF S
<1>3. Nat \subseteq S
  BY <1>1, <1>2, NatSetInduction
<1> QED BY <1>3 DEF S

\* UpTo is that sum.
LEMMA UpToStep ==
  \A bag : UpTo(bag, 0) = 0 /\ \A k \in Keys : UpTo(bag, k) = UpTo(bag, k - 1) + bag[k]
<1> SUFFICES ASSUME NEW bag
             PROVE  UpTo(bag, 0) = 0 /\ \A k \in Keys : UpTo(bag, k) = UpTo(bag, k - 1) + bag[k]
  OBVIOUS
<1> DEFINE g == CHOOSE g : g = [j \in 0..NumKeys |-> IF j = 0 THEN 0 ELSE g[j - 1] + bag[j]]
<1>1. \A k : UpTo(bag, k) = g[k]
  BY DEF UpTo
<1>2. \E f : f = [j \in 0..NumKeys |-> IF j = 0 THEN 0 ELSE f[j - 1] + bag[j]]
  BY SumExists, NumbersAssumption
<1>3. g = [j \in 0..NumKeys |-> IF j = 0 THEN 0 ELSE g[j - 1] + bag[j]]
  BY <1>2, Zenon
<1> HIDE DEF g
<1>4. \A j \in 0..NumKeys : g[j] = IF j = 0 THEN 0 ELSE g[j - 1] + bag[j]
  BY <1>3
<1> QED BY <1>1, <1>4, NumbersAssumption DEF Keys

\* It is a number.
LEMMA UpToNat ==
  ASSUME NEW bag \in [Keys -> Nat]
  PROVE  \A k \in 0..NumKeys : UpTo(bag, k) \in Nat
<1> DEFINE S == {n \in Nat : n <= NumKeys => UpTo(bag, n) \in Nat}
<1>1. 0 \in S
  BY UpToStep
<1>2. ASSUME NEW n \in Nat, n \in S PROVE n + 1 \in S
  <2> SUFFICES ASSUME n + 1 <= NumKeys PROVE UpTo(bag, n + 1) \in Nat
    OBVIOUS
  <2>1. UpTo(bag, n) \in Nat
    BY <1>2, NumbersAssumption
  <2>2. n + 1 \in Keys /\ (n + 1) - 1 = n
    BY NumbersAssumption DEF Keys
  <2>3. UpTo(bag, n + 1) = UpTo(bag, n) + bag[n + 1]
    BY <2>2, UpToStep
  <2>4. bag[n + 1] \in Nat
    BY <2>2
  <2> QED BY <2>1, <2>3, <2>4
<1> HIDE DEF S
<1>3. Nat \subseteq S
  BY <1>1, <1>2, NatSetInduction
<1> QED BY <1>3, NumbersAssumption DEF S

\* It grows with the key.
LEMMA UpToGrows ==
  ASSUME NEW bag \in [Keys -> Nat]
  PROVE  \A k \in 0..NumKeys : \A j \in 0..k : UpTo(bag, j) <= UpTo(bag, k)
<1> DEFINE S == {n \in Nat : n <= NumKeys => \A j \in 0..n : UpTo(bag, j) <= UpTo(bag, n)}
<1>1. 0 \in S
  BY UpToStep
<1>2. ASSUME NEW n \in Nat, n \in S PROVE n + 1 \in S
  <2> SUFFICES ASSUME n + 1 <= NumKeys, NEW j \in 0..(n + 1)
               PROVE  UpTo(bag, j) <= UpTo(bag, n + 1)
    OBVIOUS
  <2>1. n \in 0..NumKeys /\ j \in 0..NumKeys /\ n + 1 \in 0..NumKeys
    BY NumbersAssumption
  <2>2. UpTo(bag, n) \in Nat /\ UpTo(bag, j) \in Nat /\ UpTo(bag, n + 1) \in Nat
    BY <2>1, UpToNat
  <2>3. j \in 0..n => UpTo(bag, j) <= UpTo(bag, n)
    BY <1>2, <2>1
  <2>4. n + 1 \in Keys /\ (n + 1) - 1 = n
    BY NumbersAssumption DEF Keys
  <2>5. UpTo(bag, n + 1) = UpTo(bag, n) + bag[n + 1] /\ bag[n + 1] \in Nat
    BY <2>4, UpToStep
  <2>6. j \in 0..n \/ j = n + 1
    OBVIOUS
  <2> QED BY <2>2, <2>3, <2>5, <2>6
<1> HIDE DEF S
<1>3. Nat \subseteq S
  BY <1>1, <1>2, NatSetInduction
<1> QED BY <1>3, NumbersAssumption DEF S

\* Position i of the sorted vector: the first key with i elements up to it.
LEMMA SortAt ==
  ASSUME NEW bag \in [Keys -> Nat], NEW i \in 1..Total(bag)
  PROVE  /\ Sort(bag)[i] \in Keys
         /\ UpTo(bag, Sort(bag)[i]) >= i
         /\ \A k \in Keys : UpTo(bag, k) >= i => Sort(bag)[i] <= k
<1> DEFINE T == {k \in Keys : UpTo(bag, k) >= i}
<1>1. Sort(bag)[i] = Min(T)
  BY DEF Sort
<1>2. NumKeys \in T
  <2>1. NumKeys \in 0..NumKeys /\ UpTo(bag, 0) = 0
    BY UpToStep, NumbersAssumption
  <2>2. UpTo(bag, NumKeys) \in Nat
    BY <2>1, UpToNat
  <2>3. UpTo(bag, NumKeys) >= i
    BY DEF Total
  <2>4. NumKeys # 0
    BY <2>1, <2>2, <2>3
  <2> QED BY <2>3, <2>4, NumbersAssumption DEF Keys
<1>3. T \subseteq Nat
  BY NumbersAssumption DEF Keys
<1>4. \E x \in T : \A y \in T : x <= y
  <2> HIDE DEF T
  <2> QED BY <1>2, <1>3, LeastNat
<1>5. Min(T) \in T /\ \A y \in T : Min(T) <= y
  BY <1>4, Zenon DEF Min
<1> QED BY <1>1, <1>5

\* A key that occurs stands at the position its sum names.
LEMMA SortOf ==
  ASSUME NEW bag \in [Keys -> Nat], NEW k \in Keys, bag[k] >= 1
  PROVE  UpTo(bag, k) \in 1..Total(bag) /\ Sort(bag)[UpTo(bag, k)] = k
<1>1. /\ k \in 0..NumKeys /\ NumKeys \in 0..NumKeys /\ k \in 0..NumKeys /\ k - 1 \in 0..NumKeys
      /\ k \in Nat
  BY NumbersAssumption DEF Keys
<1>2. UpTo(bag, k) \in Nat /\ UpTo(bag, k - 1) \in Nat /\ Total(bag) \in Nat
  BY <1>1, UpToNat DEF Total
<1>3. UpTo(bag, k) = UpTo(bag, k - 1) + bag[k] /\ bag[k] \in Nat
  BY UpToStep
<1>4. UpTo(bag, k) <= Total(bag)
  BY <1>1, UpToGrows DEF Total
<1>5. UpTo(bag, k) \in 1..Total(bag)
  BY <1>2, <1>3, <1>4
<1> DEFINE m == Sort(bag)[UpTo(bag, k)]
<1>6. m \in Keys /\ UpTo(bag, m) >= UpTo(bag, k) /\ m <= k
  BY <1>2, <1>5, SortAt
<1> HIDE DEF m
<1>7. m < k => UpTo(bag, m) <= UpTo(bag, k - 1)
  <2> SUFFICES ASSUME m < k PROVE UpTo(bag, m) <= UpTo(bag, k - 1)
    OBVIOUS
  <2>1. m \in 0..(k - 1)
    BY <1>1, <1>6 DEF Keys
  <2> QED BY <1>1, <2>1, UpToGrows
<1>8. UpTo(bag, m) \in Nat /\ m \in Nat
  BY <1>6, UpToNat, NumbersAssumption DEF Keys
<1>9. m = k
  BY <1>1, <1>2, <1>3, <1>6, <1>7, <1>8
<1> QED BY <1>5, <1>9 DEF m

\* A sequence of keys.
LEMMA SortSeq ==
  ASSUME NEW bag \in [Keys -> Nat]
  PROVE  Sort(bag) \in Seq(Keys) /\ Len(Sort(bag)) = Total(bag) /\ Total(bag) \in Nat
<1>1. Total(bag) \in Nat
  BY UpToNat, NumbersAssumption DEF Total
<1>2. \A i \in 1..Total(bag) : Sort(bag)[i] \in Keys
  BY SortAt
<1>3. Sort(bag) = [i \in 1..Total(bag) |-> Sort(bag)[i]]
  BY DEF Sort
<1> HIDE DEF Sort
<1> QED BY <1>1, <1>2, <1>3

\* The lesser of two numbers.
LEMMA MinOfTwo ==
  ASSUME NEW a \in Nat, NEW b \in Nat
  PROVE  Min({a, b}) = IF a <= b THEN a ELSE b
<1>1. \E x \in {a, b} : \A y \in {a, b} : x <= y
  OBVIOUS
<1>2. Min({a, b}) \in {a, b} /\ \A y \in {a, b} : Min({a, b}) <= y
  BY <1>1, Zenon DEF Min
<1> QED BY <1>2

\* The page: the piece of the vector behind the offset.
LEMMA PageOf ==
  ASSUME BrowseTypes, NEW s \in Seq(Keys)
  PROVE  /\ Page(s) \in Seq(Keys)
         /\ \A i \in 1..Len(Page(s)) : Page(s)[i] = s[offset + i] /\ offset + i \in 1..Len(s)
<1> DEFINE n == IF limit = NoLimit THEN Len(s) ELSE Min({Len(s), offset + limit})
<1>1. n \in Nat /\ n <= Len(s)
  <2>1. Len(s) \in Nat /\ offset \in Nat /\ (limit # NoLimit => limit \in Nat)
    BY DEF BrowseTypes
  <2>2. limit # NoLimit => Min({Len(s), offset + limit})
                             = IF Len(s) <= offset + limit THEN Len(s) ELSE offset + limit
    <3> SUFFICES ASSUME limit # NoLimit
                 PROVE  Min({Len(s), offset + limit})
                          = IF Len(s) <= offset + limit THEN Len(s) ELSE offset + limit
      OBVIOUS
    <3>1. offset + limit \in Nat
      BY <2>1
    <3> QED BY <2>1, <3>1, MinOfTwo
  <2> QED BY <2>1, <2>2
<1>2. Page(s) = SubSeq(s, offset + 1, n)
  BY DEF Page
<1> HIDE DEF n
<1>3. Len(s) \in Nat /\ offset \in Nat
  BY DEF BrowseTypes
<1>4. \A i \in (offset + 1)..n : i \in 1..Len(s)
  BY <1>1, <1>3
<1>5. /\ Page(s) \in Seq(Keys) /\ Len(Page(s)) = IF offset + 1 <= n THEN n - offset ELSE 0
      /\ \A i \in 1..Len(Page(s)) : Page(s)[i] = s[offset + i]
  BY <1>1, <1>2, <1>3, <1>4
<1> QED BY <1>1, <1>3, <1>5

-----------------------------------------------------------------------------
(* The reference: the sorted keys of the database                           *)

KeysUpTo(P, k) == {j \in P : j <= k}
Nth(P, i) == CHOOSE k \in P : Cardinality({j \in P : j <= k}) = i

\* A bag with each key of P once counts the keys of P.
LEMMA CountedOnce ==
  ASSUME NEW P \in SUBSET Keys, NEW bag \in [Keys -> Nat],
         \A k \in Keys : bag[k] = IF k \in P THEN 1 ELSE 0
  PROVE  \A k \in 0..NumKeys : UpTo(bag, k) = Cardinality(KeysUpTo(P, k))
<1> DEFINE S == {n \in Nat : n <= NumKeys => UpTo(bag, n) = Cardinality(KeysUpTo(P, n))}
<1>1. 0 \in S
  <2>1. \A j \in P : j \in 1..NumKeys
    BY DEF Keys
  <2>2. \A j \in P : ~(j <= 0)
    BY <2>1, NumbersAssumption
  <2>3. KeysUpTo(P, 0) = {}
    BY <2>2 DEF KeysUpTo
  <2> QED BY <2>3, UpToStep, FS_EmptySet
<1>2. ASSUME NEW n \in Nat, n \in S PROVE n + 1 \in S
  <2> SUFFICES ASSUME n + 1 <= NumKeys
               PROVE  UpTo(bag, n + 1) = Cardinality(KeysUpTo(P, n + 1))
    OBVIOUS
  <2>1. UpTo(bag, n) = Cardinality(KeysUpTo(P, n))
    BY <1>2, NumbersAssumption
  <2>2. n + 1 \in Keys /\ (n + 1) - 1 = n /\ n \in 0..NumKeys
    BY NumbersAssumption DEF Keys
  <2>3. UpTo(bag, n + 1) = UpTo(bag, n) + bag[n + 1] /\ UpTo(bag, n) \in Nat
    BY <2>2, UpToStep, UpToNat
  <2>4. IsFiniteSet(KeysUpTo(P, n))
    <3>1. IsFiniteSet(1..NumKeys)
      BY FS_Interval, NumbersAssumption
    <3>2. KeysUpTo(P, n) \in SUBSET (1..NumKeys)
      BY DEF KeysUpTo, Keys
    <3> QED BY <3>1, <3>2, FS_Subset
  <2>5. \A j \in P : j \in Nat
    BY NumbersAssumption DEF Keys
  <2>6. CASE n + 1 \in P
    <3>1. KeysUpTo(P, n + 1) = KeysUpTo(P, n) \cup {n + 1}
      BY <2>5, <2>6 DEF KeysUpTo
    <3>2. n + 1 \notin KeysUpTo(P, n)
      BY DEF KeysUpTo
    <3>3. Cardinality(KeysUpTo(P, n) \cup {n + 1}) = Cardinality(KeysUpTo(P, n)) + 1
      BY <2>4, <3>2, FS_AddElement
    <3> QED BY <2>1, <2>2, <2>3, <2>6, <3>1, <3>3
  <2>7. CASE n + 1 \notin P
    <3>1. KeysUpTo(P, n + 1) = KeysUpTo(P, n)
      BY <2>5, <2>7 DEF KeysUpTo
    <3> QED BY <2>1, <2>2, <2>3, <2>7, <3>1
  <2> QED BY <2>6, <2>7
<1> HIDE DEF S
<1>3. Nat \subseteq S
  BY <1>1, <1>2, NatSetInduction
<1> QED BY <1>3, NumbersAssumption DEF S

\* Such a bag sorts to the keys of P in order.
LEMMA SortIsReference ==
  ASSUME NEW P \in SUBSET Keys, NEW bag \in [Keys -> Nat],
         \A k \in Keys : bag[k] = IF k \in P THEN 1 ELSE 0
  PROVE  /\ Total(bag) = Cardinality(P)
         /\ \A i \in 1..Total(bag) : Sort(bag)[i] = Nth(P, i)
<1>1. bag \in [Keys -> Nat] /\ P \in SUBSET Keys /\ NumKeys \in 0..NumKeys
  BY NumbersAssumption
<1>2. \A k \in 0..NumKeys : UpTo(bag, k) = Cardinality(KeysUpTo(P, k))
  BY <1>1, CountedOnce
<1>3. KeysUpTo(P, NumKeys) = P
  <2>1. \A j \in P : j \in 1..NumKeys
    BY <1>1 DEF Keys
  <2>2. \A j \in P : j <= NumKeys
    BY <2>1, NumbersAssumption
  <2> QED BY <2>2 DEF KeysUpTo
<1>4. Total(bag) = Cardinality(P)
  BY <1>1, <1>2, <1>3 DEF Total
<1>5. ASSUME NEW i \in 1..Total(bag) PROVE Sort(bag)[i] = Nth(P, i)
  <2> DEFINE m == Sort(bag)[i]
  <2>1. m \in Keys /\ UpTo(bag, m) >= i /\ \A k \in Keys : UpTo(bag, k) >= i => m <= k
    BY <1>1, <1>5, SortAt
  <2> HIDE DEF m
  <2>2. m \in Nat /\ m \in 0..NumKeys /\ m - 1 \in 0..NumKeys /\ m >= 1
    BY <2>1, NumbersAssumption DEF Keys
  <2>3. UpTo(bag, m) \in Nat /\ UpTo(bag, m - 1) \in Nat
    BY <1>1, <2>2, UpToNat
  <2>4. UpTo(bag, m) = UpTo(bag, m - 1) + bag[m]
    BY <2>1, UpToStep
  <2>5. UpTo(bag, m - 1) < i
    <3>1. CASE m = 1
      BY <3>1, UpToStep
    <3>2. CASE m # 1
      <4>1. m - 1 \in Keys /\ ~(m <= m - 1)
        BY <2>1, <2>2, <3>2, NumbersAssumption DEF Keys
      <4> QED BY <2>1, <2>3, <4>1
    <3> QED BY <3>1, <3>2
  <2>6. m \in P /\ UpTo(bag, m) = i
    BY <2>1, <2>3, <2>4, <2>5
  <2>7. Cardinality({j \in P : j <= m}) = i
    BY <1>2, <2>2, <2>6 DEF KeysUpTo
  <2>8. ASSUME NEW k \in P, Cardinality({j \in P : j <= k}) = i PROVE k = m
    <3>1. k \in Keys /\ k \in 0..NumKeys /\ k \in Nat /\ bag[k] = 1
      BY <1>1, NumbersAssumption DEF Keys
    <3>2. UpTo(bag, k) = i
      BY <1>2, <2>8, <3>1 DEF KeysUpTo
    <3>3. m <= k
      BY <2>1, <3>1, <3>2
    <3>4. Sort(bag)[UpTo(bag, k)] = k
      BY <1>1, <3>1, SortOf
    <3> QED BY <3>2, <3>4 DEF m
  <2>9. (CHOOSE k \in P : Cardinality({j \in P : j <= k}) = i) = m
    BY <2>6, <2>7, <2>8
  <2>10. Nth(P, i) = CHOOSE k \in P : Cardinality({j \in P : j <= k}) = i
    BY DEF Nth
  <2> QED BY <2>9, <2>10 DEF m
<1> QED BY <1>4, <1>5

-----------------------------------------------------------------------------
(* Steps                                                                    *)

\* Names are keys.
LEMMA ListedKeys == Present \in SUBSET Keys /\ Listed \in SUBSET Keys
BY NameAssumption DEF Present, Listed

\* The page after a step that leaves limit and offset.
LEMMA WholeAt ==
  ASSUME BrowseTypes, keys' \in [Keys -> Nat], UNCHANGED <<limit, offset>>
  PROVE  /\ Whole' = Page(Sort(keys')) /\ Whole' \in Seq(Keys)
         /\ \A i \in 1..Len(Whole') :
              Whole'[i] = Sort(keys')[offset + i] /\ offset + i \in 1..Total(keys')
<1>1. Whole' = Page(Sort(keys'))
  BY DEF Whole, Page
<1>2. Sort(keys') \in Seq(Keys) /\ Len(Sort(keys')) = Total(keys')
  BY SortSeq
<1> QED BY <1>1, <1>2, PageOf

\* What run_select returns, once it has a row for every key of the page.
LEMMA Delivering ==
  ASSUME BrowseTypes, keys' \in [Keys -> Nat], UNCHANGED <<limit, offset>>,
         rows' \in Seq(Rows), Len(rows') = Len(Whole'),
         \A i \in 1..Len(rows') : rows'[i].key = Whole'[i],
         Deliver(rows', Total(keys'))
  PROVE  /\ result' \in [rows: Seq(Rows), has_more: BOOLEAN] /\ delivered' \in Seq(Keys)
         /\ Delivered'
         /\ Len(delivered') = Len(delivered) + Len(result'.rows)
         /\ \A i \in 1..Len(delivered) : delivered'[i] = delivered[i]
         /\ \A i \in 1..Len(result'.rows) : delivered'[Len(delivered) + i] = Whole'[i]
<1> DEFINE n == Shown(rows')
           new == [i \in 1..n |-> rows'[i].key]
<1>1. n = IF Len(rows') <= MaxRows THEN Len(rows') ELSE MaxRows
  BY MinOfTwo, NumbersAssumption DEF Shown
<1>2. n \in Nat /\ n <= Len(rows')
  BY <1>1, NumbersAssumption
<1>3. n = Shown(Whole')
  BY DEF Shown
<1>4. result' = [rows |-> SubSeq(rows', 1, n), has_more |-> SaturatingAdd(offset, n) < Total(keys')]
  BY DEF Deliver, HasMore
<1>5. delivered' = delivered \o new
  BY DEF Deliver
<1> HIDE DEF n
<1>6. /\ SubSeq(rows', 1, n) \in Seq(Rows) /\ Len(SubSeq(rows', 1, n)) = n
      /\ \A i \in 1..n : SubSeq(rows', 1, n)[i] = rows'[i]
  BY <1>2
<1>7. /\ result' \in [rows: Seq(Rows), has_more: BOOLEAN] /\ Len(result'.rows) = n
      /\ \A i \in 1..n : result'.rows[i].key = Whole'[i]
      /\ result'.has_more = (SaturatingAdd(offset, Len(result'.rows)) < Total(keys'))
  BY <1>2, <1>4, <1>6
<1>8. Whole' \in Seq(Keys)
  BY WholeAt
<1>9. new \in Seq(Keys) /\ Len(new) = n /\ \A i \in 1..n : new[i] = Whole'[i]
  <2>1. \A i \in 1..n : i \in 1..Len(rows') /\ i \in 1..Len(Whole')
    BY <1>2
  <2>2. \A i \in 1..n : rows'[i].key = Whole'[i] /\ Whole'[i] \in Keys
    BY <1>8, <2>1
  <2>3. new \in [1..n -> Keys]
    BY <2>2
  <2> QED BY <1>2, <2>2, <2>3
<1> HIDE DEF new
<1>10. /\ delivered' \in Seq(Keys) /\ Len(delivered') = Len(delivered) + n
       /\ \A i \in 1..Len(delivered) : delivered'[i] = delivered[i]
       /\ \A i \in 1..n : delivered'[Len(delivered) + i] = new[i]
  <2>1. delivered \in Seq(Keys) /\ Len(delivered) \in Nat
    BY DEF BrowseTypes
  <2>2. /\ delivered' \in Seq(Keys) /\ Len(delivered') = Len(delivered) + n
        /\ \A i \in 1..(Len(delivered) + n) :
             delivered'[i] = IF i <= Len(delivered) THEN delivered[i] ELSE new[i - Len(delivered)]
    <3>1. \A s1, s2 \in Seq(Keys) :
            /\ s1 \o s2 \in Seq(Keys) /\ Len(s1 \o s2) = Len(s1) + Len(s2)
            /\ \A i \in 1..(Len(s1) + Len(s2)) :
                 (s1 \o s2)[i] = IF i <= Len(s1) THEN s1[i] ELSE s2[i - Len(s1)]
      BY ConcatProperties, Zenon
    <3>2. new \in Seq(Keys) /\ Len(new) = n
      BY <1>9
    <3> QED BY <1>5, <2>1, <3>1, <3>2, Zenon
  <2>3. \A i \in 1..Len(delivered) : delivered'[i] = delivered[i]
    BY <1>2, <2>1, <2>2
  <2>4. ASSUME NEW i \in 1..n PROVE delivered'[Len(delivered) + i] = new[i]
    <3>1. /\ Len(delivered) + i \in 1..(Len(delivered) + n) /\ ~(Len(delivered) + i <= Len(delivered))
          /\ (Len(delivered) + i) - Len(delivered) = i
      BY <1>2, <2>1
    <3> QED BY <2>2, <3>1
  <2> QED BY <2>2, <2>3, <2>4
<1>11. Delivered'
  <2>1. offset' = offset
    OBVIOUS
  <2> QED BY <1>3, <1>7, <2>1 DEF Delivered, SaturatingAdd
<1> QED BY <1>7, <1>9, <1>10, <1>11

\* While nobody writes, what is delivered continues the sorted names.
LEMMA CalmDelivering ==
  ASSUME BrowseTypes, Calm, calm, keys' \in [Keys -> Nat], UNCHANGED <<limit, offset, store, first>>,
         pc \notin {"idle", "done"}, pc' = "done", Listed \subseteq Keys,
         \A k \in Keys : keys'[k] = IF k \in Listed THEN 1 ELSE 0,
         result' \in [rows: Seq(Rows), has_more: BOOLEAN], delivered' \in Seq(Keys),
         Len(result'.rows) = Shown(Whole'), stable' = stable,
         Len(delivered') = Len(delivered) + Len(result'.rows),
         \A i \in 1..Len(delivered) : delivered'[i] = delivered[i],
         \A i \in 1..Len(result'.rows) : delivered'[Len(delivered) + i] = Whole'[i]
  PROVE  Calm'
<1>1. Present' = Present /\ Listed' = Listed /\ SortedNames' = SortedNames
  BY DEF Present, Listed, SortedNames
<1>2. /\ stable = Present /\ first + Len(delivered) = offset
      /\ \A i \in 1..Len(delivered) : delivered[i] = SortedNames[first + i]
      /\ delivered # <<>> => offset <= Cardinality(Listed)
  BY DEF Calm, BrowseTypes
<1>3. /\ offset \in Nat /\ first \in Nat /\ Len(delivered) \in Nat /\ Len(result'.rows) \in Nat
      /\ Len(Whole') \in Nat /\ Len(result'.rows) <= Len(Whole')
  <2>1. Len(Whole') \in Nat
    BY WholeAt
  <2>2. Shown(Whole') <= Len(Whole')
    <3>1. MaxRows \in Nat
      BY NumbersAssumption
    <3>2. Shown(Whole') = IF Len(Whole') <= MaxRows THEN Len(Whole') ELSE MaxRows
      BY <2>1, <3>1, MinOfTwo DEF Shown
    <3> QED BY <2>1, <3>1, <3>2
  <2> QED BY <2>1, <2>2 DEF BrowseTypes
<1>4. Total(keys') = Cardinality(Listed) /\ \A i \in 1..Total(keys') : Sort(keys')[i] = Nth(Listed, i)
  BY SortIsReference
<1>5. ASSUME NEW i \in 1..Len(result'.rows) PROVE Whole'[i] = SortedNames[offset + i]
  <2>1. i \in 1..Len(Whole')
    BY <1>3
  <2>2. Whole'[i] = Sort(keys')[offset + i] /\ offset + i \in 1..Total(keys')
    BY <2>1, WholeAt
  <2>3. SortedNames[offset + i] = Nth(Listed, offset + i)
    BY <1>4, <2>2 DEF SortedNames, Nth
  <2> QED BY <1>4, <2>2, <2>3
<1>6. ASSUME NEW i \in 1..Len(delivered') PROVE delivered'[i] = SortedNames[first + i]
  <2>1. CASE i <= Len(delivered)
    <3>1. i \in 1..Len(delivered)
      BY <1>3, <2>1
    <3> QED BY <1>2, <3>1
  <2>2. CASE ~(i <= Len(delivered))
    <3> DEFINE j == i - Len(delivered)
    <3>1. j \in 1..Len(result'.rows) /\ i = Len(delivered) + j
      BY <1>3, <2>2
    <3> HIDE DEF j
    <3>2. delivered'[i] = SortedNames[offset + j]
      BY <1>5, <3>1
    <3>3. offset + j = first + i
      <4>1. j \in Nat /\ offset = first + Len(delivered) /\ i = Len(delivered) + j
        BY <1>2, <1>3, <3>1
      <4> QED BY <1>3, <4>1
    <3> QED BY <3>2, <3>3
  <2> QED BY <2>1, <2>2
<1>7. first + Len(delivered') = offset + Len(result'.rows)
  BY <1>2, <1>3
<1>8. delivered' # <<>> => offset + Len(result'.rows) <= Cardinality(Listed)
  <2>1. CASE Len(result'.rows) = 0
    <3>1. delivered' # <<>> => delivered # <<>>
      BY <1>3, <2>1 DEF BrowseTypes
    <3> QED BY <1>2, <1>3, <2>1, <3>1
  <2>2. CASE Len(result'.rows) # 0
    <3>1. Len(result'.rows) \in 1..Len(Whole')
      BY <1>3, <2>2
    <3>2. offset + Len(result'.rows) \in 1..Total(keys')
      BY <3>1, WholeAt
    <3>3. Total(keys') \in Nat
      BY SortSeq
    <3> QED BY <1>4, <3>2, <3>3
  <2> QED BY <2>1, <2>2
<1> QED BY <1>1, <1>2, <1>6, <1>7, <1>8 DEF Calm

-----------------------------------------------------------------------------
(* The invariant                                                            *)

\* A host that has not asked yet.
LEMMA BrowseInit == Init => BrowseInv
<1> SUFFICES ASSUME Init PROVE BrowseInv
  OBVIOUS
<1>1. BrowseTypes
  BY NumbersAssumption DEF Init, BrowseTypes, NothingCollected, TypesSeen
<1>2. Collected /\ Fetching /\ Delivered
  BY DEF Init, Collected, Fetching, Delivered, Fetched
<1>3. Calm
  <2>1. first = offset /\ Len(delivered) = 0 /\ pc = "idle" /\ offset \in Nat
    BY <1>1 DEF Init, BrowseTypes
  <2>2. first + Len(delivered) = offset + IF pc = "done" THEN Len(result.rows) ELSE 0
    BY <2>1
  <2> QED BY <2>1, <2>2 DEF Calm
<1> QED BY <1>1, <1>2, <1>3 DEF BrowseInv

\* A new page: the collection starts again, where the last page ended.
LEMMA BeginKeeps ==
  ASSUME BrowseInv, BrowseTable \/ NextPage
  PROVE  BrowseInv'
<1>1. /\ offset \in Nat /\ Len(result.rows) \in Nat /\ pc \in {"idle", "done"}
      /\ result.rows \in Seq(Rows)
  BY DEF BrowseInv, BrowseTypes, BrowseTable, NextPage
<1>2. /\ offset' = offset + IF pc = "done" THEN Len(result.rows) ELSE 0
      /\ pc' = "scan" /\ keys' = NothingCollected /\ stable' = Present /\ pending' = Present
      /\ rows' = <<>>
      /\ UNCHANGED <<store, limit, first, page, type, result, delivered, calm>>
  BY <1>1 DEF BrowseTable, NextPage, Begin, database, answer
<1>3. Present' = Present /\ Listed' = Listed /\ SortedNames' = SortedNames
  BY <1>2 DEF Present, Listed, SortedNames
<1>4. BrowseTypes'
  BY <1>1, <1>2 DEF BrowseInv, BrowseTypes, NothingCollected, Present
<1>5. Collected' /\ Fetching' /\ Delivered'
  BY <1>2 DEF Collected, Fetching, Delivered, Fetched
<1>6. Calm'
  <2> SUFFICES ASSUME calm PROVE Calm'
    BY <1>2 DEF Calm
  <2>1. \A k \in Keys : keys'[k] <= 1 /\ keys'[k] # 1
    BY <1>2 DEF NothingCollected
  <2>2. /\ first + Len(delivered) = offset'
        /\ \A i \in 1..Len(delivered) : delivered[i] = SortedNames[first + i]
    BY <1>2 DEF BrowseInv, Calm
  <2>3. first' + Len(delivered') = offset' + IF pc' = "done" THEN Len(result'.rows) ELSE 0
    BY <1>2, <1>4, <2>2 DEF BrowseTypes
  <2>4. delivered # <<>> => first + Len(delivered) <= Cardinality(Listed)
    BY DEF BrowseInv, Calm
  <2> QED BY <1>2, <1>3, <2>1, <2>2, <2>3, <2>4 DEF Calm
<1> QED BY <1>4, <1>5, <1>6 DEF BrowseInv

\* The names of a batch are counted.
LEMMA CountIs ==
  ASSUME NEW batch \in SUBSET Keys, NEW k \in Keys
  PROVE  /\ Cardinality({j \in batch : Name[j] = k}) \in Nat
         /\ (\E j \in batch : Name[j] = k) <=> Cardinality({j \in batch : Name[j] = k}) >= 1
<1> DEFINE T == {j \in batch : Name[j] = k}
<1>1. IsFiniteSet(T)
  <2>1. IsFiniteSet(1..NumKeys)
    BY FS_Interval, NumbersAssumption
  <2>2. T \in SUBSET (1..NumKeys)
    BY DEF Keys
  <2> QED BY <2>1, <2>2, FS_Subset
<1>2. T = {} <=> ~\E j \in batch : Name[j] = k
  OBVIOUS
<1> HIDE DEF T
<1>3. Cardinality(T) \in Nat /\ (Cardinality(T) = 0 <=> T = {})
  BY <1>1, FS_CardinalityType, FS_EmptySet
<1>4. Cardinality(T) >= 1 <=> T # {}
  BY <1>3
<1> QED BY <1>2, <1>3, <1>4 DEF T

\* A vector that holds the names of the keys in P and, once, nothing else.
LEMMA OnceEach ==
  ASSUME NEW P \in SUBSET Keys, NEW bag \in [Keys -> Nat],
         \A k \in Keys : bag[k] <= 1 /\ (bag[k] = 1 => k \in {Name[j] : j \in P}),
         \A j \in P : bag[Name[j]] >= 1
  PROVE  \A k \in Keys : bag[k] = IF k \in {Name[j] : j \in P} THEN 1 ELSE 0
<1> SUFFICES ASSUME NEW k \in Keys
             PROVE  bag[k] = IF k \in {Name[j] : j \in P} THEN 1 ELSE 0
  OBVIOUS
<1>1. bag[k] \in Nat /\ bag[k] <= 1
  OBVIOUS
<1>2. k \in {Name[j] : j \in P} => bag[k] >= 1
  OBVIOUS
<1> QED BY <1>1, <1>2

\* A batch of names; with the last one the name of every stable key has been
\* collected, unless the scan is cut short and no key is stable.
LEMMA CollectKeeps ==
  ASSUME BrowseInv, NEW batch \in SUBSET Keys, NEW last \in BOOLEAN, Collect(batch, last),
         pending' \subseteq stable', stable' \subseteq Keys, calm' \in BOOLEAN,
         \A k \in stable' : k \notin pending' => keys'[Name[k]] >= 1,
         last => \A k \in stable' : keys'[Name[k]] >= 1,
         calm' => /\ calm /\ stable' = stable
                  /\ \A k \in Keys : keys'[k] <= 1 /\ (keys'[k] = 1 => k \in Listed)
  PROVE  BrowseInv'
<1> USE DEF BrowseInv
<1>1. /\ pc = "scan"
      /\ keys' = [k \in Keys |-> keys[k] + Cardinality({j \in batch : Name[j] = k})]
      /\ UNCHANGED <<store, limit, offset, first, type, rows>>
  BY DEF Collect, database, request
<1>2. keys' \in [Keys -> Nat]
  <2>1. \A k \in Keys : Cardinality({j \in batch : Name[j] = k}) \in Nat
    BY CountIs
  <2>2. \A k \in Keys : keys[k] \in Nat
    BY DEF BrowseTypes
  <2>3. \A k \in Keys : keys[k] + Cardinality({j \in batch : Name[j] = k}) \in Nat
    BY <2>1, <2>2
  <2> QED BY <1>1, <2>3
<1>4. Present' = Present /\ Listed' = Listed /\ SortedNames' = SortedNames
  BY <1>1 DEF Present, Listed, SortedNames
<1>7. CASE ~last
  <2>1. UNCHANGED <<pc, page, result, delivered>>
    BY <1>7 DEF Collect, answer
  <2>2. BrowseTypes'
    BY <1>1, <1>2, <2>1 DEF BrowseTypes
  <2>3. Collected' /\ Fetching' /\ Delivered'
    BY <1>1, <2>1 DEF Collected, Fetching, Delivered, Fetched
  <2>4. Calm'
    BY <1>1, <1>4, <2>1 DEF Calm
  <2> QED BY <2>2, <2>3, <2>4
<1>8. CASE last
  <2>1. /\ page' = Page(Sort(keys'))
        /\ IF page' = <<>> THEN Deliver(<<>>, Total(keys'))
                           ELSE pc' = "type" /\ UNCHANGED <<result, delivered>>
    BY <1>1, <1>8 DEF Collect, answer
  <2>2. \A k \in stable' : keys'[Name[k]] >= 1
    BY <1>8
  <2>3. Whole' = page' /\ page' \in Seq(Keys)
    BY <1>1, <1>2, <2>1, WholeAt
  <2>4. rows' = <<>> /\ rows' \in Seq(Rows) /\ Len(rows') = 0
    BY <1>1 DEF Fetching
  <2>5. ASSUME page' # <<>> PROVE BrowseInv'
    <3>1. pc' = "type" /\ UNCHANGED <<result, delivered>>
      BY <2>1, <2>5
    <3>2. BrowseTypes'
      BY <1>1, <1>2, <2>3, <2>4, <3>1 DEF BrowseTypes
    <3>3. Collected' /\ Delivered'
      BY <1>1, <2>2, <3>1 DEF Collected, Delivered
    <3>4. Fetching'
      BY <2>3, <2>4, <2>5, <3>1 DEF Fetching
    <3>5. Calm'
      BY <1>1, <1>4, <3>1 DEF Calm
    <3> QED BY <3>2, <3>3, <3>4, <3>5
  <2>6. ASSUME page' = <<>> PROVE BrowseInv'
    <3>1. Deliver(rows', Total(keys')) /\ pc' = "done"
      BY <2>1, <2>4, <2>6 DEF Deliver
    <3>2. Len(rows') = Len(Whole') /\ \A i \in 1..Len(rows') : rows'[i].key = Whole'[i]
      BY <2>3, <2>4, <2>6
    <3>3. /\ result' \in [rows: Seq(Rows), has_more: BOOLEAN] /\ delivered' \in Seq(Keys)
          /\ Delivered'
          /\ Len(delivered') = Len(delivered) + Len(result'.rows)
          /\ \A i \in 1..Len(delivered) : delivered'[i] = delivered[i]
          /\ \A i \in 1..Len(result'.rows) : delivered'[Len(delivered) + i] = Whole'[i]
      BY <1>1, <1>2, <2>4, <3>1, <3>2, Delivering
    <3>4. BrowseTypes'
      BY <1>1, <1>2, <2>3, <2>4, <3>1, <3>3 DEF BrowseTypes
    <3>5. Collected' /\ Fetching'
      BY <1>1, <2>2, <3>1 DEF Collected, Fetching
    <3>6. Calm'
      <4> SUFFICES ASSUME calm' PROVE Calm'
        BY DEF Calm
      <4>1. calm /\ stable' = stable /\ stable = Present
        BY <1>1 DEF Calm
      <4>2. \A k \in Keys : keys'[k] = IF k \in Listed THEN 1 ELSE 0
        <5>1. Present \in SUBSET Keys /\ Listed = {Name[j] : j \in Present}
          BY DEF Present, Listed
        <5>2. /\ \A k \in Keys : keys'[k] <= 1 /\ (keys'[k] = 1 => k \in {Name[j] : j \in Present})
              /\ \A j \in Present : keys'[Name[j]] >= 1
          BY <2>2, <4>1, <5>1
        <5> QED BY <1>2, <5>1, <5>2, OnceEach
      <4>3. Listed \subseteq Keys /\ Len(result'.rows) = Shown(Whole')
        BY <3>1, <3>3, ListedKeys DEF Delivered
      <4> QED BY <1>1, <1>2, <3>1, <3>3, <4>1, <4>2, <4>3, CalmDelivering
    <3> QED BY <3>3, <3>4, <3>5, <3>6
  <2> QED BY <2>5, <2>6
<1> QED BY <1>7, <1>8

\* A reply to SCAN: what is no longer pending has been collected.
LEMMA ScanKeeps ==
  ASSUME BrowseInv, NEW cursor \in {0, 1}, NEW batch \in SUBSET Keys, ScanReply(cursor, batch)
  PROVE  BrowseInv'
<1>1. /\ Collect(batch, LastBatch(cursor, batch)) /\ ScanAnswers(cursor, batch)
      /\ LastBatch(cursor, batch) \in BOOLEAN
      /\ pending' = pending \ batch /\ stable' = stable
      /\ calm' = (calm /\ \A k \in Keys : keys'[k] <= 1)
      /\ keys' = [k \in Keys |-> keys[k] + Cardinality({j \in batch : Name[j] = k})]
      /\ pc = "scan"
  BY DEF ScanReply, Collect, LastBatch
<1>2. BrowseTypes /\ Collected /\ Calm
  BY DEF BrowseInv
<1>3. pending' \subseteq stable' /\ stable' \subseteq Keys /\ calm' \in BOOLEAN
  BY <1>1, <1>2 DEF BrowseTypes
<1>4. ASSUME NEW k \in stable', k \notin pending' PROVE keys'[Name[k]] >= 1
  <2>1. k \in Keys /\ Name[k] \in Keys
    BY <1>3, NameAssumption
  <2>2. /\ keys[Name[k]] \in Nat /\ Cardinality({j \in batch : Name[j] = Name[k]}) \in Nat
        /\ keys'[Name[k]] = keys[Name[k]] + Cardinality({j \in batch : Name[j] = Name[k]})
    BY <1>1, <1>2, <2>1, CountIs DEF BrowseTypes
  <2>3. CASE k \in batch
    <3>1. Cardinality({j \in batch : Name[j] = Name[k]}) >= 1
      BY <2>1, <2>3, CountIs
    <3> QED BY <2>2, <3>1
  <2>4. CASE k \notin batch
    <3>1. keys[Name[k]] >= 1
      BY <1>1, <1>2, <1>4, <2>4 DEF Collected
    <3> QED BY <2>2, <3>1
  <2> QED BY <2>3, <2>4
<1>5. ASSUME LastBatch(cursor, batch), NEW k \in stable' PROVE keys'[Name[k]] >= 1
  <2>1. k \notin pending'
    BY <1>1, <1>5 DEF LastBatch, ScanAnswers
  <2> QED BY <1>4, <2>1
<1>6. ASSUME calm', NEW k \in Keys PROVE keys'[k] <= 1 /\ (keys'[k] = 1 => k \in Listed)
  <2>1. calm /\ keys'[k] <= 1
    BY <1>1, <1>6
  <2>2. keys[k] \in Nat /\ (keys[k] = 1 => k \in Listed)
    BY <1>1, <1>2, <2>1 DEF Calm, BrowseTypes
  <2>3. /\ Cardinality({j \in batch : Name[j] = k}) \in Nat
        /\ keys'[k] = keys[k] + Cardinality({j \in batch : Name[j] = k})
        /\ Cardinality({j \in batch : Name[j] = k}) >= 1 => \E j \in batch : Name[j] = k
    BY <1>1, CountIs
  <2>4. (\E j \in batch : Name[j] = k) => k \in Listed
    BY <1>1 DEF ScanAnswers, Listed
  <2> QED BY <2>1, <2>2, <2>3, <2>4
<1>7. calm' => calm /\ stable' = stable
  BY <1>1
<1> QED BY <1>1, <1>3, <1>4, <1>5, <1>6, <1>7, CollectKeeps

\* A reply that cuts the scan short.
LEMMA CutShortKeeps ==
  ASSUME BrowseInv, NEW batch \in SUBSET Keys, ScanCutShort(batch)
  PROVE  BrowseInv'
<1>1. Collect(batch, TRUE) /\ stable' = {} /\ pending' = {} /\ calm' = FALSE
  BY DEF ScanCutShort
<1> QED BY <1>1, CollectKeeps

\* The row of one more key; with the last one the page is returned.
LEMMA PushRowKeeps ==
  ASSUME BrowseInv, pc \in {"type", "preview"}, type' \in TypesSeen,
         NEW t \in TypesSeen, NEW p \in {"null", "empty", "shown"}, PushRow(t, p)
  PROVE  BrowseInv'
<1> USE DEF BrowseInv
<1> DEFINE row == [key |-> Head(page), type |-> t, preview |-> p]
<1>1. /\ rows' = Append(rows, row) /\ page' = Tail(page)
      /\ IF page' = <<>> THEN Deliver(rows', Total(keys'))
                         ELSE pc' = "type" /\ UNCHANGED <<result, delivered>>
      /\ UNCHANGED <<store, limit, offset, first, keys, stable, pending, calm>>
  BY DEF PushRow, database, request, scanning, answer
<1>2. /\ page \in Seq(Keys) /\ page # <<>> /\ rows \in Seq(Rows)
      /\ Len(rows) + Len(page) = Len(Whole)
      /\ \A i \in 1..Len(rows) : rows[i].key = Whole[i]
      /\ \A i \in 1..Len(page) : page[i] = Whole[Len(rows) + i]
  BY DEF Fetching, BrowseTypes
<1>3. keys' \in [Keys -> Nat] /\ Whole' = Whole
  BY <1>1 DEF BrowseTypes, Whole, Page
<1>4. Head(page) = page[1] /\ Len(page) \in Nat /\ Len(page) >= 1 /\ Head(page) \in Keys
  BY <1>2
<1>5. row \in Rows /\ row.key = Whole[Len(rows) + 1]
  BY <1>2, <1>4 DEF Rows
<1> HIDE DEF row
<1>6. /\ rows' \in Seq(Rows) /\ Len(rows') = Len(rows) + 1
      /\ \A i \in 1..Len(rows') : rows'[i].key = Whole'[i]
  <2>1. rows' \in Seq(Rows) /\ Len(rows') = Len(rows) + 1 /\ rows'[Len(rows) + 1] = row
    BY <1>1, <1>2, <1>5
  <2>2. \A i \in 1..Len(rows) : rows'[i] = rows[i]
    BY <1>1, <1>2
  <2>3. \A i \in 1..Len(rows') : i \in 1..Len(rows) \/ i = Len(rows) + 1
    BY <1>2, <2>1
  <2> QED BY <1>2, <1>3, <1>5, <2>1, <2>2, <2>3
<1>7. /\ page' \in Seq(Keys) /\ Len(page') = Len(page) - 1
      /\ \A i \in 1..Len(page') : page'[i] = page[i + 1]
  BY <1>1, <1>2
<1>8. Len(rows') + Len(page') = Len(Whole')
  <2>1. Len(rows) \in Nat /\ Len(page) \in Nat /\ Len(rows) + Len(page) = Len(Whole')
    BY <1>2, <1>3, <1>4
  <2>2. Len(rows') = Len(rows) + 1 /\ Len(page') = Len(page) - 1
    BY <1>6, <1>7
  <2> QED BY <2>1, <2>2
<1>9. ASSUME page' # <<>> PROVE BrowseInv'
  <2>1. pc' = "type" /\ UNCHANGED <<result, delivered>>
    BY <1>1, <1>9
  <2>2. BrowseTypes'
    BY <1>1, <1>3, <1>6, <1>7, <2>1 DEF BrowseTypes
  <2>3. Collected' /\ Delivered'
    BY <1>1, <2>1 DEF Collected, Delivered, Fetched
  <2>4. ASSUME NEW i \in 1..Len(page') PROVE page'[i] = Whole'[Len(rows') + i]
    <3>1. page'[i] = page[i + 1] /\ i + 1 \in 1..Len(page)
      BY <1>4, <1>7
    <3>2. page[i + 1] = Whole[Len(rows) + (i + 1)]
      BY <1>2, <3>1
    <3>3. Len(rows) + (i + 1) = Len(rows') + i
      BY <1>2, <1>6
    <3> QED BY <1>3, <3>1, <3>2, <3>3
  <2>5. Fetching'
    BY <1>6, <1>8, <1>9, <2>1, <2>4 DEF Fetching
  <2>6. Present' = Present /\ Listed' = Listed /\ SortedNames' = SortedNames
    BY <1>1 DEF Present, Listed, SortedNames
  <2>7. Calm'
    BY <1>1, <2>1, <2>6 DEF Calm
  <2> QED BY <2>2, <2>3, <2>5, <2>7
<1>10. ASSUME page' = <<>> PROVE BrowseInv'
  <2>1. Deliver(rows', Total(keys')) /\ pc' = "done"
    BY <1>1, <1>10 DEF Deliver
  <2>2. Len(rows') = Len(Whole')
    BY <1>6, <1>8, <1>10, <1>2
  <2>3. /\ result' \in [rows: Seq(Rows), has_more: BOOLEAN] /\ delivered' \in Seq(Keys)
        /\ Delivered'
        /\ Len(delivered') = Len(delivered) + Len(result'.rows)
        /\ \A i \in 1..Len(delivered) : delivered'[i] = delivered[i]
        /\ \A i \in 1..Len(result'.rows) : delivered'[Len(delivered) + i] = Whole'[i]
    BY <1>1, <1>3, <1>6, <2>1, <2>2, Delivering
  <2>4. BrowseTypes'
    BY <1>1, <1>3, <1>6, <1>7, <2>1, <2>3 DEF BrowseTypes
  <2>5. Collected' /\ Fetching'
    BY <1>1, <2>1 DEF Collected, Fetching, Fetched
  <2>6. Calm'
    <3> SUFFICES ASSUME calm PROVE Calm'
      BY <1>1 DEF Calm
    <3>1. stable = Present /\ \A k \in Keys : keys[k] <= 1 /\ (keys[k] = 1 => k \in Listed)
      BY DEF Calm
    <3>2. \A k \in Keys : keys'[k] = IF k \in Listed THEN 1 ELSE 0
      <4>1. Present \in SUBSET Keys /\ Listed = {Name[j] : j \in Present}
        BY DEF Present, Listed
      <4>2. /\ keys \in [Keys -> Nat] /\ \A j \in Present : keys[Name[j]] >= 1
            /\ \A k \in Keys : keys[k] <= 1 /\ (keys[k] = 1 => k \in {Name[j] : j \in Present})
        BY <3>1, <4>1 DEF Collected, BrowseTypes, Fetched
      <4>3. \A k \in Keys : keys[k] = IF k \in {Name[j] : j \in Present} THEN 1 ELSE 0
        BY <4>1, <4>2, OnceEach
      <4> QED BY <1>1, <4>1, <4>3
    <3>3. Listed \subseteq Keys /\ Len(result'.rows) = Shown(Whole')
      BY <2>1, <2>3, ListedKeys DEF Delivered
    <3> QED BY <1>1, <1>3, <2>1, <2>3, <3>2, <3>3, CalmDelivering
  <2> QED BY <2>3, <2>4, <2>5, <2>6
<1> QED BY <1>9, <1>10

\* The steps that end in PushRow.
LEMMA RowStep ==
  ASSUME BrowseInv,
         (TypeReply /\ pc' # "preview") \/ TypeFails \/ PreviewReply \/ PreviewFails
  PROVE  /\ pc \in {"type", "preview"} /\ type' \in TypesSeen
         /\ \E t \in TypesSeen, p \in {"null", "empty", "shown"} : PushRow(t, p)
<1>1. type \in TypesSeen
  BY DEF BrowseInv, BrowseTypes
<1>2. CASE TypeReply /\ pc' # "preview"
  <2> DEFINE t == IF store[Head(page)] = Absent THEN "none" ELSE store[Head(page)]
  <2>1. pc = "type" /\ type' = t /\ PushRow(t, "null")
    BY <1>2 DEF TypeReply
  <2>2. Head(page) \in Keys
    BY <2>1 DEF BrowseInv, BrowseTypes, Fetching
  <2>3. t \in TypesSeen
    BY <2>2 DEF BrowseInv, BrowseTypes, TypesSeen
  <2> QED BY <2>1, <2>3
<1>3. CASE TypeFails
  <2>1. pc = "type" /\ type' = type /\ PushRow("unknown", "null") /\ "unknown" \in TypesSeen
    BY <1>3 DEF TypeFails, TypesSeen
  <2> QED BY <1>1, <2>1
<1>4. CASE PreviewReply
  <2> DEFINE p == CASE store[Head(page)] = Absent -> "empty"
                    [] store[Head(page)] = type -> "shown"
                    [] OTHER -> "null"
  <2>1. pc = "preview" /\ type' = type /\ PushRow(type, p)
    BY <1>4 DEF PreviewReply
  <2>2. p \in {"null", "empty", "shown"}
    OBVIOUS
  <2> HIDE DEF p
  <2> QED BY <1>1, <2>1, <2>2
<1>5. CASE PreviewFails
  <2>1. pc = "preview" /\ type' = type /\ PushRow(type, "null")
    BY <1>5 DEF PreviewFails
  <2> QED BY <1>1, <2>1
<1> QED BY <1>2, <1>3, <1>4, <1>5

\* Every step keeps the invariant.
LEMMA BrowseNext == BrowseInv /\ [Next]_vars => BrowseInv'
<1> SUFFICES ASSUME BrowseInv, [Next]_vars PROVE BrowseInv'
  OBVIOUS
<1>1. CASE BrowseTable \/ NextPage
  BY <1>1, BeginKeeps
<1>2. CASE \E cursor \in {0, 1}, batch \in SUBSET Keys : ScanReply(cursor, batch)
  BY <1>2, ScanKeeps
<1>8. CASE \E batch \in SUBSET Keys : ScanCutShort(batch)
  BY <1>8, CutShortKeeps
<1>3. CASE ScanFails
  <2>1. pc' = "failed" /\ pc = "scan"
        /\ UNCHANGED <<store, limit, offset, first, keys, stable, pending, page, type, rows, result,
                       delivered, calm>>
    BY <1>3 DEF ScanFails, database, request, scanning, fetching, answer
  <2>2. Present' = Present /\ Listed' = Listed /\ SortedNames' = SortedNames
    BY <2>1 DEF Present, Listed, SortedNames
  <2>3. BrowseTypes'
    BY <2>1 DEF BrowseInv, BrowseTypes
  <2>4. Collected' /\ Fetching' /\ Delivered'
    BY <2>1 DEF Collected, Fetching, Delivered, Fetched
  <2>5. Calm'
    BY <2>1, <2>2 DEF BrowseInv, Calm
  <2> QED BY <2>3, <2>4, <2>5 DEF BrowseInv
<1>4. CASE (TypeReply /\ pc' # "preview") \/ TypeFails \/ PreviewReply \/ PreviewFails
  <2>1. /\ pc \in {"type", "preview"} /\ type' \in TypesSeen
        /\ \E t \in TypesSeen, p \in {"null", "empty", "shown"} : PushRow(t, p)
    BY <1>4, RowStep
  <2> QED BY <2>1, PushRowKeeps
<1>5. CASE TypeReply /\ pc' = "preview"
  <2> DEFINE t == IF store[Head(page)] = Absent THEN "none" ELSE store[Head(page)]
  <2>1. /\ pc = "type" /\ type' = t
        /\ UNCHANGED <<store, limit, offset, first, keys, stable, pending, page, rows, result,
                       delivered, calm>>
    BY <1>5 DEF TypeReply, PushRow, Deliver, database, request, scanning, answer
  <2>2. Head(page) \in Keys
    BY <2>1 DEF BrowseInv, BrowseTypes, Fetching
  <2>3. t \in TypesSeen
    BY <2>2 DEF BrowseInv, BrowseTypes, TypesSeen
  <2> HIDE DEF t
  <2>4. Present' = Present /\ Listed' = Listed /\ SortedNames' = SortedNames /\ Whole' = Whole
    BY <2>1 DEF Present, Listed, SortedNames, Whole, Page
  <2>5. BrowseTypes'
    BY <1>5, <2>1, <2>3 DEF BrowseInv, BrowseTypes
  <2>6. Collected' /\ Fetching' /\ Delivered'
    BY <1>5, <2>1, <2>4 DEF BrowseInv, Collected, Fetching, Delivered, Fetched
  <2>7. Calm'
    BY <1>5, <2>1, <2>4 DEF BrowseInv, Calm
  <2> QED BY <2>5, <2>6, <2>7 DEF BrowseInv
<1>6. ASSUME NEW k \in Keys, NEW e \in Kinds \cup {Absent}, Write(k, e) PROVE BrowseInv'
  <2>1. /\ store' = [store EXCEPT ![k] = e] /\ ~calm'
        /\ stable' \subseteq stable /\ pending' \subseteq stable'
        /\ \A j \in stable' : j \notin pending' => j \in stable /\ j \notin pending
        /\ UNCHANGED <<limit, offset, first, pc, keys, page, type, rows, result, delivered>>
    BY <1>6 DEF Write, request, fetching, answer, BrowseInv, BrowseTypes
  <2>2. Whole' = Whole
    BY <2>1 DEF Whole, Page
  <2>3. BrowseTypes'
    BY <1>6, <2>1 DEF Write, BrowseInv, BrowseTypes
  <2>4. Collected'
    BY <2>1 DEF BrowseInv, Collected
  <2>5. Fetching' /\ Delivered'
    BY <2>1, <2>2 DEF BrowseInv, Fetching, Delivered, SaturatingAdd
  <2>6. Calm'
    BY <2>1 DEF Calm
  <2> QED BY <2>3, <2>4, <2>5, <2>6 DEF BrowseInv
<1>7. CASE Over \/ UNCHANGED vars
  <2>1. UNCHANGED <<store, limit, offset, first, pc, keys, stable, pending, page, type, rows, result,
                    delivered, calm>>
    BY <1>7 DEF Over, vars, database, request, scanning, fetching, answer
  <2>2. Present' = Present /\ Listed' = Listed /\ SortedNames' = SortedNames /\ Whole' = Whole
    BY <2>1 DEF Present, Listed, SortedNames, Whole, Page
  <2> QED BY <2>1, <2>2 DEF BrowseInv, BrowseTypes, Collected, Fetching, Delivered, Calm, SaturatingAdd
<1> QED BY <1>1, <1>2, <1>3, <1>4, <1>5, <1>6, <1>7, <1>8 DEF Next, Answered

\* It holds in every state.
LEMMA BrowseAlways == Spec => []BrowseInv
BY BrowseInit, BrowseNext, PTL DEF Spec

-----------------------------------------------------------------------------
(* Results                                                                  *)

\* The page in the current state.
LEMMA WholeIs ==
  ASSUME BrowseTypes
  PROVE  /\ Whole \in Seq(Keys)
         /\ \A i \in 1..Len(Whole) : Whole[i] = Sort(keys)[offset + i] /\ offset + i \in 1..Total(keys)
<1>1. Sort(keys) \in Seq(Keys) /\ Len(Sort(keys)) = Total(keys)
  BY SortSeq DEF BrowseTypes
<1> QED BY <1>1, PageOf DEF Whole

\* The name of a key that is in the database from the first SCAN of a browse
\* to the last, where no reply cut it short, is on the page, before its
\* offset, or behind its end with has_more set: sort, skip, take, the display cap and the saturating addition together
\* lose none, whatever other clients write meanwhile.
THEOREM NoStableKeyMissed == Spec => []StableKeysListed
<1>1. BrowseInv => StableKeysListed
  <2> SUFFICES ASSUME BrowseInv, pc = "done", NEW k \in stable
               PROVE  \/ \E i \in DOMAIN result.rows : result.rows[i].key = Name[k]
                      \/ UpTo(keys, Name[k]) <= offset
                      \/ UpTo(keys, Name[k]) > offset + Len(result.rows) /\ result.has_more
    BY DEF StableKeysListed
  <2> DEFINE m == Name[k]
             p == UpTo(keys, m)
             n == Len(result.rows)
  <2>1. BrowseTypes /\ keys \in [Keys -> Nat] /\ m \in Keys /\ keys[m] >= 1
    BY NameAssumption DEF BrowseInv, BrowseTypes, Collected, Fetched
  <2>2. p \in 1..Total(keys) /\ Sort(keys)[p] = m /\ Total(keys) \in Nat
    BY <2>1, SortOf, SortSeq
  <2>3. offset \in Nat /\ n \in Nat /\ DOMAIN result.rows = 1..n
    BY <2>1 DEF BrowseTypes
  <2>4. /\ n = Shown(Whole) /\ \A i \in 1..n : result.rows[i].key = Whole[i]
        /\ result.has_more = (SaturatingAdd(offset, n) < Total(keys))
    BY DEF BrowseInv, Delivered
  <2>5. n <= Len(Whole) /\ Len(Whole) \in Nat
    <3>1. Len(Whole) \in Nat /\ MaxRows \in Nat
      BY <2>1, WholeIs, NumbersAssumption
    <3>2. Shown(Whole) = IF Len(Whole) <= MaxRows THEN Len(Whole) ELSE MaxRows
      BY <3>1, MinOfTwo DEF Shown
    <3> QED BY <2>4, <3>1, <3>2
  <2> HIDE DEF m, p, n
  <2>6. CASE p > offset + n
    <3>1. offset + n \in Nat /\ UsizeMax \in Nat
      BY <2>3, NumbersAssumption
    <3>2. SaturatingAdd(offset, n) = IF offset + n <= UsizeMax THEN offset + n ELSE UsizeMax
      BY <3>1, MinOfTwo DEF SaturatingAdd
    <3>3. SaturatingAdd(offset, n) < Total(keys)
      BY <2>2, <2>6, <3>1, <3>2
    <3> QED BY <2>4, <2>6, <3>3 DEF m, p, n
  <2>7. CASE offset < p /\ p <= offset + n
    <3> DEFINE i == p - offset
    <3>1. i \in 1..n /\ i \in 1..Len(Whole) /\ offset + i = p
      BY <2>2, <2>3, <2>5, <2>7
    <3> HIDE DEF i
    <3>2. Whole[i] = Sort(keys)[offset + i]
      BY <2>1, <3>1, WholeIs
    <3>3. result.rows[i].key = m
      BY <2>2, <2>4, <3>1, <3>2
    <3> QED BY <2>3, <3>1, <3>3 DEF m
  <2> QED BY <2>2, <2>3, <2>6, <2>7 DEF m, p
<1> QED BY <1>1, BrowseAlways, PTL

\* Paging by has_more through a database nobody writes to, whose keys have
\* names of their own and whose scans are whole, delivers the sorted names
\* from the first offset on, each once and in order, and has_more goes
\* out exactly with the last one.
THEOREM PagesInOrder == Spec => []PagesPartition
<1>1. BrowseInv => PagesPartition
  <2> SUFFICES ASSUME BrowseInv, calm
               PROVE  /\ delivered = [i \in 1..Len(delivered) |-> SortedNames[first + i]]
                      /\ delivered # <<>> => first + Len(delivered) <= Cardinality(Listed)
                      /\ pc = "done" =>
                           (result.has_more <=> first + Len(delivered) < Cardinality(Listed))
    BY DEF PagesPartition
  <2>1. /\ delivered \in Seq(Keys) /\ keys \in [Keys -> Nat] /\ offset \in Nat
        /\ Len(result.rows) \in Nat /\ Listed \in SUBSET Keys
    BY ListedKeys DEF BrowseInv, BrowseTypes
  <2>2. /\ \A i \in 1..Len(delivered) : delivered[i] = SortedNames[first + i]
        /\ delivered # <<>> => first + Len(delivered) <= Cardinality(Listed)
    BY DEF BrowseInv, Calm
  <2>3. delivered = [i \in 1..Len(delivered) |-> SortedNames[first + i]]
    <3>1. delivered = [i \in 1..Len(delivered) |-> delivered[i]]
      BY <2>1
    <3>2. [i \in 1..Len(delivered) |-> delivered[i]]
            = [i \in 1..Len(delivered) |-> SortedNames[first + i]]
      BY <2>2
    <3> QED BY <3>1, <3>2
  <2>4. ASSUME pc = "done"
        PROVE  result.has_more <=> first + Len(delivered) < Cardinality(Listed)
    <3>1. /\ stable = Present /\ \A k \in Keys : keys[k] <= 1 /\ (keys[k] = 1 => k \in Listed)
          /\ first + Len(delivered) = offset + Len(result.rows)
      BY <2>4 DEF BrowseInv, Calm
    <3>2. \A k \in Keys : keys[k] = IF k \in Listed THEN 1 ELSE 0
      <4>1. Present \in SUBSET Keys /\ Listed = {Name[j] : j \in Present}
        BY DEF Present, Listed
      <4>2. /\ \A j \in Present : keys[Name[j]] >= 1
            /\ \A k \in Keys : keys[k] <= 1 /\ (keys[k] = 1 => k \in {Name[j] : j \in Present})
        BY <2>4, <3>1, <4>1 DEF BrowseInv, Collected, Fetched
      <4> QED BY <2>1, <4>1, <4>2, OnceEach
    <3>3. Total(keys) = Cardinality(Listed)
      BY <2>1, <3>2, SortIsReference
    <3>4. Cardinality(Listed) \in Nat /\ Cardinality(Listed) <= UsizeMax
      <4>1. IsFiniteSet(1..NumKeys) /\ Cardinality(1..NumKeys) = NumKeys
        BY FS_Interval, NumbersAssumption
      <4>2. Cardinality(Listed) <= NumKeys
        <5>1. Listed \in SUBSET (1..NumKeys)
          BY <2>1 DEF Keys
        <5>2. Cardinality(Listed) <= Cardinality(1..NumKeys)
          BY <4>1, <5>1, FS_Subset
        <5> QED BY <4>1, <5>2
      <4>3. Total(keys) \in Nat
        BY <2>1, SortSeq
      <4> QED BY <3>3, <4>2, <4>3, NumbersAssumption
    <3>5. offset + Len(result.rows) \in Nat /\ UsizeMax \in Nat
      BY <2>1, NumbersAssumption
    <3>6. SaturatingAdd(offset, Len(result.rows))
            = IF offset + Len(result.rows) <= UsizeMax THEN offset + Len(result.rows) ELSE UsizeMax
      BY <3>5, MinOfTwo DEF SaturatingAdd
    <3>7. result.has_more = (SaturatingAdd(offset, Len(result.rows)) < Total(keys))
      BY <2>4 DEF BrowseInv, Delivered
    <3>8. (SaturatingAdd(offset, Len(result.rows)) < Total(keys))
            <=> (offset + Len(result.rows) < Cardinality(Listed))
      BY <3>3, <3>4, <3>5, <3>6
    <3>9. first + Len(delivered) = offset + Len(result.rows)
      BY <3>1
    <3> QED BY <3>7, <3>8, <3>9, Zenon
  <2> QED BY <2>2, <2>3, <2>4
<1> QED BY <1>1, BrowseAlways, PTL

\* Once the keys are collected, browse_page returns one row for each key of
\* the page up to the display cap: no failing TYPE or preview fails it.
THEOREM PageIsReturned == Spec => PageReturned
<1> DEFINE PageStep ==
      (pc \in {"type", "preview"}) =>
         /\ pc' # "failed"
         /\ pc' = "done" =>
              LET whole == Page(Sort(keys))
              IN  result'.rows = [i \in 1..Min({Len(whole), MaxRows}) |->
                                    [result'.rows[i] EXCEPT !.key = whole[i]]]
<1>1. ASSUME BrowseInv, BrowseInv', [Next]_vars PROVE [PageStep]_vars
  <2> SUFFICES ASSUME pc \in {"type", "preview"}, ~UNCHANGED vars PROVE PageStep
    OBVIOUS
  <2>1. pc' # "failed" /\ UNCHANGED <<limit, offset, keys>>
    <3>1. CASE TypeReply \/ TypeFails \/ PreviewReply \/ PreviewFails
      BY <3>1 DEF TypeReply, TypeFails, PreviewReply, PreviewFails, PushRow, Deliver, request, scanning
    <3>2. ASSUME NEW k \in Keys, NEW e \in Kinds \cup {Absent}, Write(k, e)
          PROVE  pc' # "failed" /\ UNCHANGED <<limit, offset, keys>>
      BY <3>2 DEF Write, request
    <3> QED BY <1>1, <3>1, <3>2 DEF Next, Answered, BrowseTable, NextPage, ScanReply, ScanCutShort,
                                            Collect, ScanFails, Over
  <2>2. ASSUME pc' = "done"
        PROVE  result'.rows = [i \in 1..Min({Len(Page(Sort(keys))), MaxRows}) |->
                                 [result'.rows[i] EXCEPT !.key = Page(Sort(keys))[i]]]
    <3>1. Whole' = Page(Sort(keys))
      BY <2>1 DEF Whole, Page
    <3>2. /\ Len(result'.rows) = Shown(Whole')
          /\ \A i \in 1..Len(result'.rows) : result'.rows[i].key = Whole'[i]
      BY <1>1, <2>2 DEF BrowseInv, Delivered
    <3>3. result'.rows \in Seq(Rows)
      BY <1>1 DEF BrowseInv, BrowseTypes
    <3>4. \A i \in 1..Len(result'.rows) :
            result'.rows[i] = [result'.rows[i] EXCEPT !.key = Page(Sort(keys))[i]]
      <4>1. \A r \in Rows : r = [r EXCEPT !.key = r.key]
        BY DEF Rows
      <4>2. \A i \in 1..Len(result'.rows) : result'.rows[i] \in Rows
        BY <3>3
      <4> QED BY <3>1, <3>2, <4>1, <4>2
    <3>5. Len(result'.rows) = Min({Len(Page(Sort(keys))), MaxRows})
      BY <3>1, <3>2 DEF Shown
    <3>6. result'.rows = [i \in 1..Len(result'.rows) |-> result'.rows[i]]
      BY <3>3
    <3>7. [i \in 1..Len(result'.rows) |-> result'.rows[i]]
            = [i \in 1..Len(result'.rows) |->
                 [result'.rows[i] EXCEPT !.key = Page(Sort(keys))[i]]]
      BY <3>4
    <3> QED BY <3>5, <3>6, <3>7
  <2> QED BY <2>1, <2>2
<1>2. BrowseInv /\ BrowseInv' /\ [Next]_vars => [PageStep]_vars
  BY <1>1
<1>3. [][PageStep]_vars => PageReturned
  BY DEF PageReturned
<1> HIDE DEF PageStep
<1> QED BY <1>2, <1>3, BrowseAlways, PTL DEF Spec
=============================================================================
