-------------------------- MODULE LlmsFile_proofs --------------------------
(***************************************************************************)
(* The theorems of LlmsFile, for any pages, templates, bodies and answers  *)
(* of the model.                                                           *)
(*                                                                         *)
(* The argument of ListedOnce: every step from the pages in hand to the    *)
(* index keeps a set of pages.  Well(S, O, X) says that sections S and     *)
(* optional pages O hold each page of X once, in sections of different     *)
(* names.  Grouping, sorting, consolidating, ordering and the rebuild from *)
(* rows give such sections (SectionedSays, OrderedHolds, RowsHold), and    *)
(* the links of an index rendered from them are those of X (LinksAre).     *)
(*                                                                         *)
(* The argument of EditsSettle: what store_result writes back are the      *)
(* places of the sections it rendered (Stamped), so the rows sort, group   *)
(* and fall aside as those sections do (StampedSame), and the sections     *)
(* made from them render to the same file (BuiltAgain).  Settled says that *)
(* of the rows as they stand, and is inductive.                            *)
(*                                                                         *)
(* The argument of FullKeepsWhatMatters: a budget is spent from the front, *)
(* so what is left out found no room behind what came before it (Fills,    *)
(* FillsFits, FillsSum), and what a page costs is counted in the file that *)
(* holds it (FullTextSays).  The marks of the file are those of the pages  *)
(* taken, as a body that is clear says no other (QuietBears, MarksAre).    *)
(* The blocks the renderer finds shared, over pages by importance, are the *)
(* ones the property counts, over links of the index (SharedSays): links   *)
(* and pages are matched one to one (Matched), also after an edit, which   *)
(* reads its pages from the rows (EditKeeps).                              *)
(*                                                                         *)
(* Induction over a sequence is done with sets and functions (Induct,      *)
(* Recursion): no prover here can instantiate an operator.                 *)
(***************************************************************************)
EXTENDS LlmsFile, FiniteSetTheorems, SequenceTheorems, WellFoundedInduction, TLAPS

-----------------------------------------------------------------------------
(* Induction and recursion along a sequence, stated with sets and          *)
(* functions: the theorems of the library take an operator, which no       *)
(* prover here can instantiate.                                            *)

\* A set of numbers that is not empty has a least.
LEMMA HasLeast ==
  ASSUME NEW S \in SUBSET Nat, S # {}
  PROVE  \E n \in S : \A m \in S : n <= m
  <1>1. PICK n \in S : \A m \in S : ~(<<m, n>> \in OpToRel(<, Nat))
    BY NatLessThanWellFounded, WFMin
  <1>2. n \in Nat /\ \A m \in S : m \in Nat
    OBVIOUS
  <1>3. \A m \in S : ~(m < n)
    BY <1>1, <1>2 DEF OpToRel
  <1>4. \A m \in S : n <= m
    BY <1>2, <1>3
  <1> QED BY <1>4

\* A set that holds 0 and the successor of what it holds is all the numbers.
LEMMA Induct ==
  ASSUME NEW S, 0 \in S, \A n \in Nat : n \in S => n + 1 \in S
  PROVE  \A n \in Nat : n \in S
  <1> SUFFICES ASSUME NEW k \in Nat, k \notin S PROVE FALSE
    OBVIOUS
  <1> DEFINE Out == {n \in Nat : n \notin S}
  <1>1. PICK n \in Out : \A m \in Out : n <= m
    <2>1. Out \in SUBSET Nat /\ Out # {}
      OBVIOUS
    <2> HIDE DEF Out
    <2> QED BY <2>1, HasLeast
  <1>2. n \in Nat /\ n # 0 /\ n - 1 \in Nat /\ (n - 1) + 1 = n
    OBVIOUS
  <1>3. n - 1 \in S
    <2>1. ~(n <= n - 1)
      BY <1>2
    <2> QED BY <1>1, <1>2, <2>1
  <1> QED BY <1>1, <1>2, <1>3

\* A recursion over 0..n has a value where each of its steps has one.
Recursive(n, base, step, w) ==
    w = [i \in 0..n |-> IF i = 0 THEN base ELSE step[i][w[i - 1]]]

\* A recursion along 1..n has a solution.
LEMMA Recursion ==
  ASSUME NEW n \in Nat, NEW A, NEW base \in A, NEW step \in [1..n -> [A -> A]]
  PROVE  \E w \in [0..n -> A] : Recursive(n, base, step, w)
  <1> DEFINE Has(k, w) == /\ w \in [0..k -> A] /\ w[0] = base
                          /\ \A i \in 1..k : w[i] = step[i][w[i - 1]]
             S == {k \in Nat : k <= n => \E w : Has(k, w)}
  <1>1. 0 \in S
    <2>1. Has(0, [i \in 0..0 |-> base])
      OBVIOUS
    <2> QED BY <2>1
  <1>2. ASSUME NEW k \in Nat, k \in S PROVE k + 1 \in S
    <2> SUFFICES ASSUME k + 1 <= n PROVE \E w : Has(k + 1, w)
      OBVIOUS
    <2>1. PICK w : Has(k, w)
      BY <1>2
    <2> DEFINE v == [i \in 0..(k + 1) |-> IF i = k + 1 THEN step[k + 1][w[k]] ELSE w[i]]
    <2>2. step[k + 1][w[k]] \in A
      BY <2>1
    <2>3. v \in [0..(k + 1) -> A]
      BY <2>1, <2>2
    <2>4. v[0] = base /\ v[k + 1] = step[k + 1][w[k]] /\ \A i \in 0..k : v[i] = w[i]
      BY <2>1
    <2> HIDE DEF v
    <2>5. \A i \in 1..(k + 1) : v[i] = step[i][v[i - 1]]
      <3> SUFFICES ASSUME NEW i \in 1..(k + 1) PROVE v[i] = step[i][v[i - 1]]
        OBVIOUS
      <3>1. CASE i = k + 1
        BY <2>4, <3>1
      <3>2. CASE i # k + 1
        <4>1. i \in 1..k /\ i \in 0..k /\ i - 1 \in 0..k
          BY <3>2
        <4> QED BY <2>1, <2>4, <4>1
      <3> QED BY <3>1, <3>2
    <2> QED BY <2>3, <2>4, <2>5
  <1> HIDE DEF S
  <1>3. n \in S
    BY <1>1, <1>2, Induct
  <1>4. PICK w : Has(n, w)
    BY <1>3 DEF S
  <1>5. w = [i \in 0..n |-> IF i = 0 THEN base ELSE step[i][w[i - 1]]]
    BY <1>4
  <1> QED BY <1>4, <1>5 DEF Recursive

-----------------------------------------------------------------------------
(* Sequences. *)

\* A function of 1..n is a sequence.
LEMMA IsSeq ==
  ASSUME NEW n \in Nat, NEW T, NEW f \in [1..n -> T]
  PROVE  f \in Seq(T) /\ Len(f) = n /\ DOMAIN f = 1..n
  OBVIOUS

\* What it is to be a sequence of elements of a set.
LEMMA SeqIs ==
  ASSUME NEW T, NEW s \in Seq(T)
  PROVE  /\ Len(s) \in Nat /\ DOMAIN s = 1..Len(s) /\ s \in [1..Len(s) -> T]
         /\ s \in Seq(ToSet(s)) /\ ToSet(s) \subseteq T
         /\ \A i \in 1..Len(s) : s[i] \in T /\ s[i] \in ToSet(s)
  <1>1. Len(s) \in Nat /\ DOMAIN s = 1..Len(s) /\ s \in [1..Len(s) -> T]
    BY LenProperties
  <1>2. s \in [1..Len(s) -> ToSet(s)] /\ ToSet(s) \subseteq T
    BY <1>1 DEF ToSet
  <1>3. s \in Seq(ToSet(s))
    BY <1>1, <1>2, IsSeq
  <1> QED BY <1>1, <1>2, <1>3

\* One sequence after another.
Cat(s, t) == s \o t

Follows(T, s, t, r) ==
    /\ r \in Seq(T) /\ ToSet(r) = ToSet(s) \cup ToSet(t)
    /\ Len(r) = Len(s) + Len(t)
    /\ \A i \in 1..Len(s) : r[i] = s[i]
    /\ \A i \in 1..Len(t) : r[Len(s) + i] = t[i]

\* One sequence behind another.
LEMMA ConcatSays ==
  ASSUME NEW T, NEW s \in Seq(T), NEW t \in Seq(T)
  PROVE  Follows(T, s, t, Cat(s, t))
  <1>1. /\ s \o t \in Seq(T) /\ Len(s \o t) = Len(s) + Len(t)
        /\ \A i \in 1..(Len(s) + Len(t)) :
              (s \o t)[i] = IF i <= Len(s) THEN s[i] ELSE t[i - Len(s)]
    BY ConcatProperties
  <1>2. /\ Len(s) \in Nat /\ DOMAIN s = 1..Len(s)
        /\ Len(t) \in Nat /\ DOMAIN t = 1..Len(t)
        /\ DOMAIN (s \o t) = 1..(Len(s) + Len(t))
    BY <1>1, SeqIs
  <1>3. \A i \in 1..Len(s) : i \in 1..(Len(s) + Len(t)) /\ (s \o t)[i] = s[i]
    BY <1>1, <1>2
  <1>4. \A i \in 1..Len(t) : Len(s) + i \in 1..(Len(s) + Len(t)) /\ (s \o t)[Len(s) + i] = t[i]
    BY <1>1, <1>2
  <1>5. \A i \in 1..(Len(s) + Len(t)) : i \in 1..Len(s) \/ \E j \in 1..Len(t) : i = Len(s) + j
    <2> SUFFICES ASSUME NEW i \in 1..(Len(s) + Len(t)), i \notin 1..Len(s)
                 PROVE  \E j \in 1..Len(t) : i = Len(s) + j
      OBVIOUS
    <2>1. i - Len(s) \in 1..Len(t) /\ i = Len(s) + (i - Len(s))
      BY <1>2
    <2> QED BY <2>1
  <1>6. ToSet(s \o t) = ToSet(s) \cup ToSet(t)
    <2>1. ASSUME NEW x \in ToSet(s \o t) PROVE x \in ToSet(s) \cup ToSet(t)
      <3>1. PICK i \in 1..(Len(s) + Len(t)) : x = (s \o t)[i]
        BY <1>2 DEF ToSet
      <3>2. CASE i \in 1..Len(s)
        BY <1>2, <1>3, <3>1, <3>2 DEF ToSet
      <3>3. CASE \E j \in 1..Len(t) : i = Len(s) + j
        BY <1>2, <1>4, <3>1, <3>3 DEF ToSet
      <3> QED BY <1>5, <3>2, <3>3
    <2>2. ASSUME NEW x \in ToSet(s) PROVE x \in ToSet(s \o t)
      BY <1>2, <1>3 DEF ToSet
    <2>3. ASSUME NEW x \in ToSet(t) PROVE x \in ToSet(s \o t)
      BY <1>2, <1>4 DEF ToSet
    <2> QED BY <2>1, <2>2, <2>3
  <1> QED BY <1>1, <1>3, <1>4, <1>6 DEF Cat, Follows
-----------------------------------------------------------------------------
(* Orders.  `ahead` says of each member of a set which ones come before it. *)

\* A numbering of a set: each of its members once.
Numbers(n, S, e) ==
    /\ n \in Nat /\ e \in [1..n -> S] /\ IsInjective(e)
    /\ \A x \in S : \E k \in 1..n : e[k] = x

InTurn(n, e, ahead) == \A k, l \in 1..n : k < l => e[k] \in ahead[e[l]]

Linear(S, ahead) ==
    /\ ahead \in [S -> SUBSET S]
    /\ \A i \in S : i \notin ahead[i]
    /\ \A i, j \in S : i # j => i \in ahead[j] \/ j \in ahead[i]
    /\ \A i, j \in S : i \in ahead[j] => ahead[i] \subseteq ahead[j]

\* A numbered set is finite, and has as many members as it has numbers.
LEMMA NumbersCount ==
  ASSUME NEW n, NEW S, NEW e, Numbers(n, S, e)
  PROVE  IsFiniteSet(S) /\ Cardinality(S) = n
  <1>1. e \in Bijection(1..n, S) /\ n \in Nat
    BY DEF Numbers, Bijection, Injection, Surjection
  <1>2. ExistsBijection(1..n, S)
    BY <1>1 DEF ExistsBijection
  <1>3. IsFiniteSet(1..n) /\ Cardinality(1..n) = n
    BY <1>1, FS_Interval
  <1> QED BY <1>2, <1>3, FS_Bijection

\* InOrder is a numbering, in turn.
LEMMA InOrderSays ==
  ASSUME NEW S, IsFiniteSet(S), NEW ahead, Linear(S, ahead)
  PROVE  /\ Numbers(Cardinality(S), S, InOrder(S, ahead))
         /\ InTurn(Cardinality(S), InOrder(S, ahead), ahead)
  <1> DEFINE n == Cardinality(S)
             c == [i \in S |-> Cardinality(ahead[i]) + 1]
             e == InOrder(S, ahead)
  <1>1. n \in Nat
    BY FS_CardinalityType
  <1>2. \A i \in S : /\ ahead[i] \subseteq S /\ IsFiniteSet(ahead[i])
                     /\ Cardinality(ahead[i]) \in Nat /\ Cardinality(ahead[i]) < n
    <2> SUFFICES ASSUME NEW i \in S
                 PROVE  /\ ahead[i] \subseteq S /\ IsFiniteSet(ahead[i])
                        /\ Cardinality(ahead[i]) \in Nat /\ Cardinality(ahead[i]) < n
      OBVIOUS
    <2>1. ahead[i] \in SUBSET S /\ ahead[i] # S
      BY DEF Linear
    <2>2. IsFiniteSet(ahead[i]) /\ Cardinality(ahead[i]) <= n /\ Cardinality(ahead[i]) # n
      BY <2>1, FS_Subset
    <2>3. Cardinality(ahead[i]) \in Nat
      BY <2>2, FS_CardinalityType
    <2> HIDE DEF n
    <2> QED BY <1>1, <2>1, <2>2, <2>3
  <1>3. \A i, j \in S : i \in ahead[j] => c[i] < c[j]
    <2> SUFFICES ASSUME NEW i \in S, NEW j \in S, i \in ahead[j] PROVE c[i] < c[j]
      OBVIOUS
    <2>1. ahead[i] \in SUBSET ahead[j] /\ i \notin ahead[i]
      BY DEF Linear
    <2>2. ahead[i] # ahead[j]
      BY <2>1
    <2>3. Cardinality(ahead[i]) <= Cardinality(ahead[j]) /\ Cardinality(ahead[i]) # Cardinality(ahead[j])
      BY <1>2, <2>1, <2>2, FS_Subset
    <2> QED BY <1>2, <2>3
  <1>4. c \in [S -> 1..n] /\ \A i, j \in S : c[i] = c[j] => i = j
    <2>1. c \in [S -> 1..n]
      <3> HIDE DEF n
      <3> QED BY <1>1, <1>2
    <2>2. ASSUME NEW i \in S, NEW j \in S, c[i] = c[j], i # j PROVE FALSE
      <3>1. i \in ahead[j] \/ j \in ahead[i]
        BY <2>2 DEF Linear
      <3>2. c[i] < c[j] \/ c[j] < c[i]
        BY <1>3, <3>1
      <3> HIDE DEF c
      <3>3. c[i] \in 1..n /\ c[j] \in 1..n
        BY <2>1
      <3> QED BY <1>1, <2>2, <3>2, <3>3
    <2> QED BY <2>1, <2>2
  <1> HIDE DEF c
  <1>5. \A k \in 1..n : \E i \in S : c[i] = k
    <2>1. c \in Injection(S, 1..n)
      BY <1>4 DEF Injection, IsInjective
    <2>2. IsFiniteSet(1..n) /\ Cardinality(1..n) = n
      <3> HIDE DEF n
      <3> QED BY <1>1, FS_Interval
    <2>3. c \in Surjection(S, 1..n)
      BY <2>1, <2>2, FS_Injection
    <2> QED BY <2>3 DEF Surjection
  <1>6. \A k \in 1..n : e[k] \in S /\ c[e[k]] = k
    <2> SUFFICES ASSUME NEW k \in 1..n PROVE e[k] \in S /\ c[e[k]] = k
      OBVIOUS
    <2>1. e[k] = CHOOSE i \in S : Cardinality(ahead[i]) = k - 1
      BY DEF InOrder
    <2>2. PICK i \in S : c[i] = k
      BY <1>5
    <2>3. \A j \in S : Cardinality(ahead[j]) = k - 1 <=> c[j] = k
      <3> HIDE DEF n
      <3> QED BY <1>1, <1>2 DEF c
    <2>4. Cardinality(ahead[i]) = k - 1
      BY <2>2, <2>3
    <2> HIDE DEF e
    <2>5. e[k] \in S /\ Cardinality(ahead[e[k]]) = k - 1
      BY <2>1, <2>4
    <2> QED BY <2>3, <2>5
  <1>7. e = [k \in 1..n |-> e[k]]
    BY DEF InOrder
  <1> HIDE DEF e, n
  <1>8. e \in [1..n -> S]
    BY <1>6, <1>7
  <1>9. IsInjective(e)
    BY <1>6, <1>8 DEF IsInjective
  <1>10. \A x \in S : \E k \in 1..n : e[k] = x
    <2> SUFFICES ASSUME NEW x \in S PROVE \E k \in 1..n : e[k] = x
      OBVIOUS
    <2>1. c[x] \in 1..n
      BY <1>4
    <2>2. c[e[c[x]]] = c[x] /\ e[c[x]] \in S
      BY <1>6, <2>1
    <2>3. e[c[x]] = x
      BY <1>4, <2>2
    <2> QED BY <2>1, <2>3
  <1>11. Numbers(n, S, e)
    BY <1>1, <1>8, <1>9, <1>10 DEF Numbers
  <1>12. InTurn(n, e, ahead)
    <2> SUFFICES ASSUME NEW k \in 1..n, NEW l \in 1..n, k < l PROVE e[k] \in ahead[e[l]]
      BY DEF InTurn
    <2>1. e[k] \in S /\ e[l] \in S /\ c[e[k]] = k /\ c[e[l]] = l
      BY <1>6
    <2>2. e[k] # e[l] /\ ~(c[e[l]] < c[e[k]])
      BY <1>1, <2>1
    <2>3. e[l] \notin ahead[e[k]]
      BY <1>3, <2>1, <2>2
    <2> QED BY <2>1, <2>2, <2>3 DEF Linear
  <1> QED BY <1>11, <1>12 DEF e, n

\* There is but one.
LEMMA OneOrder ==
  ASSUME NEW S, NEW ahead, Linear(S, ahead),
         NEW n, NEW e, Numbers(n, S, e), InTurn(n, e, ahead),
         NEW m, NEW d, Numbers(m, S, d), InTurn(m, d, ahead)
  PROVE  m = n /\ d = e
  <1>1. m = n /\ n \in Nat
    <2>1. Cardinality(S) = n /\ Cardinality(S) = m
      BY NumbersCount
    <2> QED BY <2>1 DEF Numbers
  <1>2. /\ e \in [1..n -> S] /\ d \in [1..n -> S]
        /\ \A k, l \in 1..n : (e[k] = e[l] => k = l) /\ (d[k] = d[l] => k = l)
        /\ \A x \in S : (\E k \in 1..n : e[k] = x) /\ (\E k \in 1..n : d[k] = x)
    BY <1>1 DEF Numbers, IsInjective
  <1>3. ASSUME NEW x \in S, NEW y \in S, x \in ahead[y], y \in ahead[x] PROVE FALSE
    BY <1>3 DEF Linear
  <1>4. \A k \in 1..n : e[k] = d[k]
    <2> SUFFICES ASSUME NEW j \in 1..n, e[j] # d[j] PROVE FALSE
      OBVIOUS
    <2> DEFINE D == {i \in Nat : i \in 1..n /\ e[i] # d[i]}
    <2>1. PICK k \in D : \A i \in D : k <= i
      <3>1. D \in SUBSET Nat /\ D # {}
        BY <1>1
      <3> HIDE DEF D
      <3> QED BY <3>1, HasLeast
    <2>2. k \in 1..n /\ e[k] # d[k] /\ \A i \in 1..n : i < k => e[i] = d[i]
      BY <1>1, <2>1
    <2>3. d[k] \in S /\ e[k] \in S
      BY <1>2, <2>2
    <2>4. PICK a \in 1..n : e[a] = d[k]
      BY <1>2, <2>3
    <2>5. PICK b \in 1..n : d[b] = e[k]
      BY <1>2, <2>3
    <2>6. k < a /\ k < b
      <3>1. ~(a < k) /\ ~(b < k) /\ a # k /\ b # k
        BY <1>2, <2>2, <2>4, <2>5
      <3> QED BY <1>1, <2>2, <3>1
    <2>7. e[k] \in ahead[d[k]] /\ d[k] \in ahead[e[k]]
      BY <1>1, <2>2, <2>4, <2>5, <2>6 DEF InTurn
    <2> QED BY <1>3, <2>3, <2>7
  <1> QED BY <1>1, <1>2, <1>4

\* The numbers of a finite set in order.
LEMMA AscendingSays ==
  ASSUME NEW S \in SUBSET Nat, IsFiniteSet(S)
  PROVE  /\ Numbers(Cardinality(S), S, Ascending(S))
         /\ \A k, l \in 1..Cardinality(S) : k < l => Ascending(S)[k] < Ascending(S)[l]
  <1> DEFINE ahead == [i \in S |-> {j \in S : j < i}]
  <1>1. Linear(S, ahead)
    <2>1. ahead \in [S -> SUBSET S] /\ \A i, j \in S : j \in ahead[i] <=> j < i
      OBVIOUS
    <2>2. \A i, j \in S : i # j => i < j \/ j < i
      OBVIOUS
    <2>3. \A i, j, k \in S : ~(i < i) /\ (i < j /\ j < k => i < k)
      OBVIOUS
    <2> HIDE DEF ahead
    <2> QED BY <2>1, <2>2, <2>3 DEF Linear
  <1>2. Ascending(S) = InOrder(S, ahead)
    BY DEF Ascending
  <1> HIDE DEF ahead
  <1>3. /\ Numbers(Cardinality(S), S, Ascending(S))
        /\ InTurn(Cardinality(S), Ascending(S), ahead)
    BY <1>1, <1>2, InOrderSays
  <1>4. ASSUME NEW k \in 1..Cardinality(S), NEW l \in 1..Cardinality(S), k < l
        PROVE  Ascending(S)[k] < Ascending(S)[l]
    <2>1. Ascending(S)[k] \in ahead[Ascending(S)[l]] /\ Ascending(S)[l] \in S
      BY <1>3, <1>4 DEF InTurn, Numbers
    <2> QED BY <2>1 DEF ahead
  <1> QED BY <1>3, <1>4

-----------------------------------------------------------------------------
(* What is kept of a sequence. *)

At(s, m, e) == [k \in 1..m |-> s[e[k]]]

KeptBy(s, places, m, e) ==
    /\ Numbers(m, places, e)
    /\ \A k, l \in 1..m : k < l => e[k] < e[l]

\* The elements at some places are those of an increasing numbering of the places.
LEMMA KeptAtIs ==
  ASSUME NEW T, NEW s \in Seq(T), NEW places \in SUBSET (1..Len(s))
  PROVE  \E m, e : /\ KeptBy(s, places, m, e)
                   /\ KeptAt(s, places) = At(s, m, e)
  <1> DEFINE order == Ascending(places)
             m == Cardinality(places)
  <1>1. places \in SUBSET Nat /\ IsFiniteSet(places)
    <2>1. Len(s) \in Nat /\ IsFiniteSet(1..Len(s))
      BY SeqIs, FS_Interval
    <2>2. IsFiniteSet(places)
      BY <2>1, FS_Subset
    <2>3. places \in SUBSET Nat
      OBVIOUS
    <2> QED BY <2>2, <2>3
  <1>2. Numbers(m, places, order) /\ \A k, l \in 1..m : k < l => order[k] < order[l]
    BY <1>1, AscendingSays
  <1>3. KeptAt(s, places) = [k \in DOMAIN order |-> s[order[k]]]
    BY DEF KeptAt
  <1> HIDE DEF order, m
  <1>4. DOMAIN order = 1..m
    BY <1>2 DEF Numbers
  <1>5. KeptAt(s, places) = At(s, m, order)
    BY <1>3, <1>4 DEF At
  <1> QED BY <1>2, <1>5 DEF KeptBy

\* They are of the sequence, and each once if it has each once.
LEMMA KeptAtSays ==
  ASSUME NEW T, NEW s \in Seq(T), NEW places \in SUBSET (1..Len(s))
  PROVE  /\ KeptAt(s, places) \in Seq(T)
         /\ ToSet(KeptAt(s, places)) = {s[i] : i \in places}
         /\ IsInjective(s) => IsInjective(KeptAt(s, places))
  <1> DEFINE out == KeptAt(s, places)
  <1>1. PICK m, e : KeptBy(s, places, m, e) /\ out = At(s, m, e)
    BY KeptAtIs
  <1> HIDE DEF out
  <1>2. m \in Nat /\ e \in [1..m -> places] /\ IsInjective(e)
    BY <1>1 DEF KeptBy, Numbers
  <1>3. DOMAIN s = 1..Len(s) /\ \A i \in 1..Len(s) : s[i] \in T
    BY SeqIs
  <1>4. out \in [1..m -> T] /\ \A k \in 1..m : out[k] = s[e[k]]
    BY <1>1, <1>2, <1>3 DEF At
  <1>5. out \in Seq(T) /\ DOMAIN out = 1..m
    BY <1>2, <1>4, IsSeq
  <1>6. ToSet(out) = {s[i] : i \in places}
    <2>1. \A k \in 1..m : e[k] \in places
      BY <1>2
    <2>2. \A p \in places : \E k \in 1..m : e[k] = p
      BY <1>1 DEF KeptBy, Numbers
    <2>3. ASSUME NEW x \in ToSet(out) PROVE x \in {s[i] : i \in places}
      <3>1. PICK k \in 1..m : x = out[k]
        BY <1>5 DEF ToSet
      <3>2. x = s[e[k]] /\ e[k] \in places
        BY <1>4, <2>1, <3>1
      <3> QED BY <3>2
    <2>4. ASSUME NEW p \in places PROVE s[p] \in ToSet(out)
      BY <1>4, <1>5, <2>2 DEF ToSet
    <2> QED BY <2>3, <2>4
  <1>7. IsInjective(s) => IsInjective(out)
    <2>1. \A k \in 1..m : e[k] \in places /\ e[k] \in 1..Len(s)
      BY <1>2
    <2>2. \A k, l \in 1..m : e[k] = e[l] => k = l
      BY <1>2 DEF IsInjective
    <2> QED BY <1>3, <1>4, <1>5, <2>1, <2>2 DEF IsInjective
  <1> QED BY <1>5, <1>6, <1>7 DEF out

\* ... in short.
LEMMA CatOf ==
  ASSUME NEW T, NEW s \in Seq(T), NEW t \in Seq(T)
  PROVE  /\ Cat(s, t) \in Seq(T) /\ ToSet(Cat(s, t)) = ToSet(s) \cup ToSet(t)
         /\ Len(Cat(s, t)) = Len(s) + Len(t)
  <1>1. Follows(T, s, t, Cat(s, t))
    BY ConcatSays
  <1> QED BY <1>1 DEF Follows

LEMMA OneOf ==
  ASSUME NEW T, NEW x \in T
  PROVE  <<x>> \in Seq(T) /\ Len(<<x>>) = 1 /\ DOMAIN <<x>> = {1} /\ <<x>>[1] = x
         /\ ToSet(<<x>>) = {x}
  BY DEF ToSet

\* Nothing, and something behind it.
LEMMA CatNothing ==
  ASSUME NEW T, NEW t \in Seq(T)
  PROVE  Cat(<<>>, t) = t /\ Cat(t, <<>>) = t
  <1>1. <<>> \in Seq(T) /\ Len(<<>>) = 0 /\ Len(t) \in Nat
    BY SeqIs
  <1>2. Follows(T, <<>>, t, Cat(<<>>, t)) /\ Follows(T, t, <<>>, Cat(t, <<>>))
    BY <1>1, ConcatSays
  <1>3. /\ Cat(<<>>, t) \in Seq(T) /\ Len(Cat(<<>>, t)) = 0 + Len(t)
        /\ \A i \in 1..Len(t) : Cat(<<>>, t)[0 + i] = t[i]
    BY <1>1, <1>2 DEF Follows
  <1>4. Cat(t, <<>>) \in Seq(T) /\ Len(Cat(t, <<>>)) = Len(t) + 0
        /\ \A i \in 1..Len(t) : Cat(t, <<>>)[i] = t[i]
    BY <1>1, <1>2 DEF Follows
  <1>5. \A r \in Seq(T) : (Len(r) = Len(t) /\ \A i \in 1..Len(t) : r[i] = t[i]) => r = t
    BY SeqEqual
  <1>6. \A i \in 1..Len(t) : 0 + i = i
    BY <1>1
  <1> QED BY <1>1, <1>3, <1>4, <1>5, <1>6

\* A row of sequences, put together from the left.
Runs(n, ss, v) == v[0] = <<>> /\ \A k \in 1..n : v[k] = Cat(v[k - 1], ss[k])

LEMMA FlattenRuns ==
  ASSUME NEW T, NEW ss \in Seq(Seq(T))
  PROVE  \E v \in [0..Len(ss) -> Seq(T)] : Runs(Len(ss), ss, v) /\ FlattenSeq(ss) = v[Len(ss)]
  <1> DEFINE n == Len(ss)
             A == Seq(T)
             flat == CHOOSE f : f = [i \in 1..Len(ss) |->
                                       IF i = 1 THEN ss[i] ELSE Cat(f[i - 1], ss[i])]
             step == [i \in 1..n |-> [d \in A |-> Cat(d, ss[i])]]
  <1>1. n \in Nat /\ DOMAIN ss = 1..n /\ \A i \in 1..n : ss[i] \in A
    BY SeqIs
  <1>2. step \in [1..n -> [A -> A]] /\ <<>> \in A
    <2>1. ASSUME NEW i \in 1..n, NEW d \in A PROVE Cat(d, ss[i]) \in A
      <3> HIDE DEF n
      <3>1. ss[i] \in Seq(T) /\ d \in Seq(T)
        BY <1>1
      <3> QED BY <3>1, ConcatSays DEF Follows
    <2>2. <<>> \in A
      OBVIOUS
    <2> HIDE DEF A
    <2> QED BY <2>1, <2>2
  <1>3. PICK w \in [0..n -> A] : Recursive(n, <<>>, step, w)
    <2> HIDE DEF step, n, A
    <2> QED BY <1>1, <1>2, Recursion, Zenon
  <1>4. w[0] = <<>> /\ \A i \in 1..n : w[i - 1] \in A /\ w[i] = Cat(w[i - 1], ss[i])
    <2>1. 0 \in 0..n /\ \A i \in 1..n : i \in 0..n /\ i - 1 \in 0..n /\ i # 0
      BY <1>1
    <2>2. w[0] = <<>> /\ \A i \in 1..n : w[i] = step[i][w[i - 1]] /\ w[i - 1] \in A
      <3> HIDE DEF step, n, A
      <3> QED BY <1>3, <2>1 DEF Recursive
    <2> QED BY <2>2
  <1>5. Runs(n, ss, w)
    BY <1>4 DEF Runs
  <1>6. CASE n = 0
    <2>1. FlattenSeq(ss) = ss
      BY <1>6 DEF FlattenSeq
    <2>2. ss = <<>>
      BY <1>1, <1>6
    <2> QED BY <1>3, <1>4, <1>5, <1>6, <2>1, <2>2
  <1>7. CASE n # 0
    <2>1. FlattenSeq(ss) = flat[n]
      BY <1>7 DEF FlattenSeq, Cat
    <2> DEFINE g == [i \in 1..n |-> w[i]]
    <2>2. g = [i \in 1..n |-> IF i = 1 THEN ss[i] ELSE Cat(g[i - 1], ss[i])]
      <3>1. \A i \in 1..n : i # 1 => i - 1 \in 1..n
        BY <1>1
      <3>2. \A i \in 1..n : i # 1 => g[i - 1] = w[i - 1]
        <4> HIDE DEF n
        <4> QED BY <3>1
      <3>3. \A i \in 1..n : i = 1 => w[i] = ss[i]
        <4> SUFFICES ASSUME 1 \in 1..n PROVE w[1] = ss[1]
          OBVIOUS
        <4>1. w[1] = Cat(w[0], ss[1]) /\ 1 - 1 = 0
          <5>1. w[1] = Cat(w[1 - 1], ss[1])
            BY <1>4
          <5> QED BY <5>1
        <4>2. ss[1] \in Seq(T)
          BY <1>1
        <4> QED BY <1>4, <4>1, <4>2, CatNothing
      <3>4. \A i \in 1..n : w[i] = IF i = 1 THEN ss[i] ELSE Cat(g[i - 1], ss[i])
        <4> HIDE DEF g, n
        <4> QED BY <1>4, <3>2, <3>3
      <3> QED BY <3>4, Zenon
    <2> HIDE DEF g
    <2>3. flat = [i \in 1..n |-> IF i = 1 THEN ss[i] ELSE Cat(flat[i - 1], ss[i])]
      BY <2>2, Zenon
    <2> HIDE DEF flat
    <2> DEFINE S == {k \in Nat : k > 0 /\ k <= n => flat[k] = w[k]}
    <2>4. ASSUME NEW k \in Nat, k \in S PROVE k + 1 \in S
      <3> SUFFICES ASSUME k + 1 <= n PROVE flat[k + 1] = w[k + 1]
        OBVIOUS
      <3> HIDE DEF n, A
      <3>1. k + 1 \in 1..n /\ (k + 1) - 1 = k /\ k >= 0 /\ k <= n
        BY <1>1
      <3>2. flat[k + 1] = IF k + 1 = 1 THEN ss[k + 1] ELSE Cat(flat[(k + 1) - 1], ss[k + 1])
        BY <2>3, <3>1
      <3>3. w[k + 1] = Cat(w[k], ss[k + 1])
        <4>1. w[k + 1] = Cat(w[(k + 1) - 1], ss[k + 1])
          BY <1>4, <3>1
        <4> QED BY <3>1, <4>1
      <3>4. CASE k = 0
        <4>1. ss[1] \in Seq(T)
          BY <1>1, <3>1, <3>4 DEF A
        <4>2. flat[1] = ss[1] /\ w[1] = Cat(<<>>, ss[1])
          BY <1>4, <3>2, <3>3, <3>4
        <4>3. w[1] = ss[1]
          BY <4>1, <4>2, CatNothing
        <4> QED BY <3>4, <4>2, <4>3
      <3>5. CASE k # 0
        <4>1. flat[k] = w[k]
          BY <2>4, <3>1, <3>5
        <4>2. k + 1 # 1
          BY <3>5
        <4> QED BY <3>1, <3>2, <3>3, <4>1, <4>2
      <3> QED BY <3>4, <3>5
    <2>5. 0 \in S
      OBVIOUS
    <2> HIDE DEF S
    <2>6. n \in S
      BY <1>1, <2>4, <2>5, Induct
    <2>7. flat[n] = w[n]
      BY <1>1, <1>7, <2>6 DEF S
    <2> QED BY <1>3, <1>5, <2>1, <2>7
  <1> QED BY <1>6, <1>7

-----------------------------------------------------------------------------
(* What a sequence bears. *)

\* Of the things in K, a sequence has those in W, each once.
Bears(s, K, W) ==
    /\ \A i, j \in DOMAIN s : s[i] \in K /\ s[i] = s[j] => i = j
    /\ \A i \in DOMAIN s : s[i] \in K => s[i] \in W
    /\ \A x \in W : x \in K /\ \E i \in DOMAIN s : s[i] = x

LEMMA BearsNothing ==
  ASSUME NEW s, NEW K, \A i \in DOMAIN s : s[i] \notin K
  PROVE  Bears(s, K, {})
  BY DEF Bears

LEMMA BearsCat ==
  ASSUME NEW T, NEW s \in Seq(T), NEW t \in Seq(T), NEW K, NEW V, NEW W,
         Bears(s, K, V), Bears(t, K, W), V \cap W = {}
  PROVE  Bears(Cat(s, t), K, V \cup W)
  <1> DEFINE r == Cat(s, t)
  <1>1. Follows(T, s, t, r)
    BY ConcatSays
  <1>2. /\ Len(s) \in Nat /\ DOMAIN s = 1..Len(s) /\ Len(t) \in Nat /\ DOMAIN t = 1..Len(t)
    BY SeqIs
  <1> HIDE DEF r
  <1>3. /\ DOMAIN r = 1..(Len(s) + Len(t))
        /\ \A i \in 1..Len(s) : r[i] = s[i]
        /\ \A i \in 1..Len(t) : r[Len(s) + i] = t[i]
    <2>1. r \in Seq(T) /\ Len(r) = Len(s) + Len(t)
      BY <1>1 DEF Follows
    <2>2. DOMAIN r = 1..Len(r)
      BY <2>1, SeqIs
    <2> QED BY <1>1, <2>1, <2>2 DEF Follows
  <1>4. \A i \in DOMAIN r : \/ i \in DOMAIN s /\ r[i] = s[i]
                            \/ \E j \in DOMAIN t : i = Len(s) + j /\ r[i] = t[j]
    <2> SUFFICES ASSUME NEW i \in DOMAIN r, i \notin DOMAIN s
                 PROVE  \E j \in DOMAIN t : i = Len(s) + j /\ r[i] = t[j]
      BY <1>2, <1>3
    <2>1. i - Len(s) \in DOMAIN t /\ i = Len(s) + (i - Len(s))
      BY <1>2, <1>3
    <2> QED BY <1>2, <1>3, <2>1
  <1>5. \A i \in DOMAIN s : i \in DOMAIN r /\ r[i] = s[i]
    BY <1>2, <1>3
  <1>6. \A j \in DOMAIN t : Len(s) + j \in DOMAIN r /\ r[Len(s) + j] = t[j]
    BY <1>2, <1>3
  <1>7. ASSUME NEW i \in DOMAIN r, NEW j \in DOMAIN r, r[i] \in K, r[i] = r[j] PROVE i = j
    <2>1. CASE i \in DOMAIN s /\ r[i] = s[i]
      <3>1. r[i] \in V
        BY <1>7, <2>1 DEF Bears
      <3>2. ~ \E b \in DOMAIN t : j = Len(s) + b /\ r[j] = t[b]
        BY <1>7, <3>1 DEF Bears
      <3>3. j \in DOMAIN s /\ r[j] = s[j]
        BY <1>4, <1>7, <3>2
      <3> QED BY <1>7, <2>1, <3>3 DEF Bears
    <2>2. CASE \E a \in DOMAIN t : i = Len(s) + a /\ r[i] = t[a]
      <3>1. PICK a \in DOMAIN t : i = Len(s) + a /\ r[i] = t[a]
        BY <2>2
      <3>2. r[i] \in W
        BY <1>7, <3>1 DEF Bears
      <3>3. ~(j \in DOMAIN s /\ r[j] = s[j])
        BY <1>7, <3>2 DEF Bears
      <3>4. PICK b \in DOMAIN t : j = Len(s) + b /\ r[j] = t[b]
        BY <1>4, <1>7, <3>3
      <3>5. a = b
        BY <1>7, <3>1, <3>4 DEF Bears
      <3> QED BY <3>1, <3>4, <3>5
    <2> QED BY <1>4, <1>7, <2>1, <2>2
  <1>8. \A i \in DOMAIN r : r[i] \in K => r[i] \in V \cup W
    BY <1>4 DEF Bears
  <1>9. \A x \in V \cup W : x \in K /\ \E i \in DOMAIN r : r[i] = x
    BY <1>5, <1>6 DEF Bears
  <1> QED BY <1>7, <1>8, <1>9 DEF Bears, r

UnionOf(F, D) == UNION {F[k] : k \in D}

LEMMA BearsFlatten ==
  ASSUME NEW T, NEW ss \in Seq(Seq(T)), NEW K, NEW F,
         \A k \in DOMAIN ss : Bears(ss[k], K, F[k]),
         \A k, l \in DOMAIN ss : k # l => F[k] \cap F[l] = {}
  PROVE  Bears(FlattenSeq(ss), K, UnionOf(F, DOMAIN ss))
  <1> DEFINE n == Len(ss)
             Of(k) == UNION {F[i] : i \in 1..k}
  <1>1. n \in Nat /\ DOMAIN ss = 1..n /\ \A i \in 1..n : ss[i] \in Seq(T)
    BY SeqIs
  <1>2. PICK v \in [0..n -> Seq(T)] : Runs(n, ss, v) /\ FlattenSeq(ss) = v[n]
    BY FlattenRuns
  <1> DEFINE S == {k \in Nat : k <= n => Bears(v[k], K, Of(k))}
  <1>3. 0 \in S
    <2>1. v[0] = <<>> /\ Of(0) = {}
      BY <1>2 DEF Runs
    <2>2. Bears(<<>>, K, {})
      BY DEF Bears
    <2> QED BY <2>1, <2>2
  <1>4. ASSUME NEW k \in Nat, k \in S PROVE k + 1 \in S
    <2> SUFFICES ASSUME k + 1 <= n PROVE Bears(v[k + 1], K, Of(k + 1))
      OBVIOUS
    <2> HIDE DEF n
    <2>1. k + 1 \in 1..n /\ (k + 1) - 1 = k /\ k \in 0..n /\ k <= n
      BY <1>1
    <2>2. v[k + 1] = Cat(v[k], ss[k + 1])
      <3>1. v[k + 1] = Cat(v[(k + 1) - 1], ss[k + 1])
        BY <1>2, <2>1 DEF Runs
      <3> QED BY <2>1, <3>1
    <2>3. Bears(v[k], K, Of(k)) /\ Bears(ss[k + 1], K, F[k + 1])
      BY <1>1, <1>4, <2>1
    <2>4. Of(k + 1) = Of(k) \cup F[k + 1]
      <3>1. 1..(k + 1) = 1..k \cup {k + 1}
        OBVIOUS
      <3> QED BY <3>1
    <2>5. Of(k) \cap F[k + 1] = {}
      <3>1. \A i \in 1..k : i \in DOMAIN ss /\ i # k + 1 /\ k + 1 \in DOMAIN ss
        BY <1>1, <2>1
      <3> QED BY <3>1
    <2>6. v[k] \in Seq(T) /\ ss[k + 1] \in Seq(T)
      BY <1>1, <1>2, <2>1
    <2> HIDE DEF Of
    <2>7. Bears(Cat(v[k], ss[k + 1]), K, Of(k) \cup F[k + 1])
      BY <2>3, <2>5, <2>6, BearsCat
    <2> QED BY <2>2, <2>4, <2>7
  <1> HIDE DEF S
  <1>5. n \in S
    BY <1>1, <1>3, <1>4, Induct
  <1>6. Bears(v[n], K, Of(n))
    <2> HIDE DEF Of
    <2> QED BY <1>1, <1>5 DEF S
  <1>7. Of(n) = UnionOf(F, DOMAIN ss)
    BY <1>1 DEF UnionOf
  <1> HIDE DEF Of
  <1> QED BY <1>2, <1>6, <1>7

-----------------------------------------------------------------------------
(* The order of pages. *)

LEMMA ImportanceIsNumber ==
  ASSUME NEW page \in PageEntry
  PROVE  Importance(page) \in Int
  <1> DEFINE d == EffectiveDepth(page)
             depth == Most(0, 100 - 20 * d)
             content == IF page.words > 0 THEN Least(page.words, 1000) ELSE 500
             inlinks == Least(10 * page.inlinks, 100)
  <1>1. page.words \in Nat /\ page.inlinks \in Nat /\ page.link \in Nat /\ page.depth \in Int
        /\ page.url.path \in Seq(STRING)
    BY DEF PageEntry, Address, Text
  <1>2. Len(page.url.path) \in Nat
    BY <1>1, SeqIs
  <1>3. d \in Int
    BY <1>1, <1>2 DEF EffectiveDepth
  <1>4. \A a, b \in Int : Most(a, b) \in Int /\ Least(a, b) \in Int
    BY DEF Most, Least
  <1>5. 0 \in Int /\ 100 - 20 * d \in Int /\ 10 * page.inlinks \in Int /\ 100 \in Int
        /\ page.words \in Int /\ 1000 \in Int
    <2> HIDE DEF d
    <2> QED BY <1>1, <1>3
  <1>6. depth \in Int /\ content \in Int /\ inlinks \in Int
    <2>1. depth \in Int
      BY <1>4, <1>5, Zenon
    <2>2. inlinks \in Int
      BY <1>4, <1>5, Zenon
    <2>3. Least(page.words, 1000) \in Int
      BY <1>1 DEF Least
    <2>4. content \in Int
      <3> HIDE DEF d
      <3> QED BY <2>3
    <2> QED BY <2>1, <2>2, <2>4
  <1>7. Importance(page) = IF page.link > 0 \/ page.inlinks > 0
                           THEN 3 * (20 * depth + content + 40 * page.link + 30 * inlinks)
                           ELSE 10 * (20 * depth + content)
    BY Zenon DEF Importance
  <1> HIDE DEF depth, content, inlinks, d
  <1> QED BY <1>1, <1>6, <1>7

\* ByImportance numbers the pages anew, so that importance does not rise.
Ranked(pages, e) ==
    /\ Numbers(Len(pages), 1..Len(pages), e)
    /\ \A k, l \in 1..Len(pages) : k < l => Importance(pages[e[k]]) >= Importance(pages[e[l]])

LEMMA ByImportanceIs ==
  ASSUME NEW pages \in Seq(PageEntry)
  PROVE  \E e : Ranked(pages, e) /\ ByImportance(pages) = At(pages, Len(pages), e)
  <1> DEFINE n == Len(pages)
             v == [i \in 1..n |-> Importance(pages[i])]
             Ahead(i, j) == \/ Importance(pages[i]) > Importance(pages[j])
                            \/ Importance(pages[i]) = Importance(pages[j]) /\ i < j
             ahead == [i \in 1..n |-> {j \in 1..n : Ahead(j, i)}]
             e == InOrder(1..n, ahead)
  <1>1. n \in Nat /\ DOMAIN pages = 1..n /\ \A i \in 1..n : pages[i] \in PageEntry
    BY SeqIs
  <1>2. v \in [1..n -> Int]
    <2> HIDE DEF n
    <2> QED BY <1>1, ImportanceIsNumber
  <1>3. /\ ahead \in [1..n -> SUBSET (1..n)]
        /\ \A i, j \in 1..n : j \in ahead[i] <=> (v[j] > v[i] \/ (v[j] = v[i] /\ j < i))
    OBVIOUS
  <1>4. Linear(1..n, ahead)
    <2>1. \A i, j \in 1..n : i # j => i < j \/ j < i
      BY <1>1
    <2>2. \A i \in 1..n : v[i] \in Int
      BY <1>2
    <2> HIDE DEF ahead, v, n
    <2>3. \A i \in 1..n : i \notin ahead[i]
      BY <1>1, <1>3, <2>2
    <2>4. \A i, j \in 1..n : i # j => i \in ahead[j] \/ j \in ahead[i]
      BY <1>1, <1>3, <2>1, <2>2
    <2>5. \A i, j, k \in 1..n : k \in ahead[i] /\ i \in ahead[j] => k \in ahead[j]
      BY <1>1, <1>3, <2>2
    <2> QED BY <1>3, <2>3, <2>4, <2>5 DEF Linear
  <1>5. IsFiniteSet(1..n) /\ Cardinality(1..n) = n
    <2> HIDE DEF n
    <2> QED BY <1>1, FS_Interval
  <1>6. Numbers(n, 1..n, e) /\ InTurn(n, e, ahead)
    <2>1. /\ Numbers(Cardinality(1..n), 1..n, e)
          /\ InTurn(Cardinality(1..n), e, ahead)
      <3> HIDE DEF n, ahead
      <3> QED BY <1>4, <1>5, InOrderSays
    <2> HIDE DEF n, ahead, e
    <2> QED BY <1>5, <2>1
  <1>7. ByImportance(pages) = [p \in DOMAIN pages |-> pages[e[p]]]
    <2>1. DOMAIN pages = 1..n
      BY <1>1
    <2> HIDE DEF n
    <2> QED BY <2>1, Zenon DEF ByImportance
  <1>8. ByImportance(pages) = At(pages, n, e)
    <2> HIDE DEF e, n
    <2> QED BY <1>1, <1>7 DEF At
  <1>9. ASSUME NEW k \in 1..n, NEW l \in 1..n, k < l
        PROVE  Importance(pages[e[k]]) >= Importance(pages[e[l]])
    <2>1. e[k] \in ahead[e[l]] /\ e[k] \in 1..n /\ e[l] \in 1..n
      <3> HIDE DEF e, ahead, n
      <3> QED BY <1>6, <1>9 DEF InTurn, Numbers
    <2> HIDE DEF e, n
    <2>2. v[e[k]] > v[e[l]] \/ v[e[k]] = v[e[l]]
      <3> HIDE DEF v, ahead
      <3> QED BY <1>3, <2>1
    <2>3. v[e[k]] \in Int /\ v[e[l]] \in Int
      <3> HIDE DEF v
      <3> QED BY <1>2, <2>1
    <2>4. v[e[k]] >= v[e[l]]
      <3> HIDE DEF v
      <3> QED BY <2>2, <2>3
    <2> QED BY <2>1, <2>4
  <1> HIDE DEF e, n
  <1> QED BY <1>6, <1>8, <1>9 DEF Ranked, n

\* What a numbering of all places leaves as it was.
LEMMA Renumbered ==
  ASSUME NEW T, NEW s \in Seq(T), NEW e, Numbers(Len(s), 1..Len(s), e)
  PROVE  LET r == At(s, Len(s), e)
         IN  /\ r \in Seq(T) /\ Len(r) = Len(s) /\ ToSet(r) = ToSet(s)
             /\ IsInjective(s) => IsInjective(r)
  <1> DEFINE r == At(s, Len(s), e)
             n == Len(s)
  <1>1. n \in Nat /\ DOMAIN s = 1..n /\ \A i \in 1..n : s[i] \in T
    BY SeqIs
  <1>2. e \in [1..n -> 1..n] /\ IsInjective(e) /\ \A i \in 1..n : \E k \in 1..n : e[k] = i
    BY DEF Numbers
  <1> HIDE DEF n
  <1>3. r \in [1..n -> T] /\ \A k \in 1..n : r[k] = s[e[k]]
    BY <1>1, <1>2 DEF At, n
  <1> HIDE DEF r
  <1>4. r \in Seq(T) /\ Len(r) = n /\ DOMAIN r = 1..n
    BY <1>1, <1>3, IsSeq
  <1>5. ToSet(r) = ToSet(s)
    <2>1. ASSUME NEW x \in ToSet(r) PROVE x \in ToSet(s)
      <3>1. PICK k \in 1..n : x = r[k]
        BY <1>4 DEF ToSet
      <3>2. e[k] \in 1..n /\ x = s[e[k]]
        BY <1>2, <1>3, <3>1
      <3> QED BY <1>1, <3>2 DEF ToSet
    <2>2. ASSUME NEW x \in ToSet(s) PROVE x \in ToSet(r)
      <3>1. PICK i \in 1..n : x = s[i]
        BY <1>1 DEF ToSet
      <3>2. PICK k \in 1..n : e[k] = i
        BY <1>2
      <3> QED BY <1>3, <1>4, <3>1, <3>2 DEF ToSet
    <2> QED BY <2>1, <2>2
  <1>6. ASSUME IsInjective(s) PROVE IsInjective(r)
    <2>1. \A k, l \in 1..n : e[k] = e[l] => k = l
      BY <1>2 DEF IsInjective
    <2>2. \A k, l \in 1..n : s[k] = s[l] => k = l
      BY <1>1, <1>6 DEF IsInjective
    <2>3. ASSUME NEW k \in 1..n, NEW l \in 1..n, r[k] = r[l] PROVE k = l
      <3>1. e[k] \in 1..n /\ e[l] \in 1..n /\ s[e[k]] = s[e[l]]
        BY <1>2, <1>3, <2>3
      <3> QED BY <2>1, <2>2, <3>1
    <2> QED BY <1>4, <2>3 DEF IsInjective
  <1> QED BY <1>4, <1>5, <1>6 DEF n, r

LEMMA ByImportanceSays ==
  ASSUME NEW pages \in Seq(PageEntry)
  PROVE  /\ ByImportance(pages) \in Seq(PageEntry)
         /\ Len(ByImportance(pages)) = Len(pages)
         /\ ToSet(ByImportance(pages)) = ToSet(pages)
         /\ IsInjective(pages) => IsInjective(ByImportance(pages))
  <1>1. PICK e : Ranked(pages, e) /\ ByImportance(pages) = At(pages, Len(pages), e)
    BY ByImportanceIs
  <1>2. Numbers(Len(pages), 1..Len(pages), e)
    BY <1>1 DEF Ranked
  <1> QED BY <1>1, <1>2, Renumbered

-----------------------------------------------------------------------------
(* Groups. *)

NamedSo(named, name) == {i \in DOMAIN named : named[i] = name}

\* Groups under names: a name has one group, which holds what has that name.
GroupsOf(g, T, N, things, named) ==
    /\ g \in Seq([name : N, pages : Seq(T)])
    /\ \A k, l \in DOMAIN g : g[k].name = g[l].name => k = l
    /\ \A k \in DOMAIN g : /\ g[k].pages = KeptAt(things, NamedSo(named, g[k].name))
                           /\ \E i \in DOMAIN named : named[i] = g[k].name
    /\ \A i \in DOMAIN named : \E k \in DOMAIN g : g[k].name = named[i]
    /\ 1 \in DOMAIN named => 1 \in DOMAIN g /\ g[1].name = named[1]

LEMMA GroupedSays ==
  ASSUME NEW T, NEW N, NEW things \in Seq(T), NEW named \in Seq(N), Len(named) = Len(things)
  PROVE  GroupsOf(Grouped(things, named), T, N, things, named)
  <1> DEFINE n == Len(named)
             fresh == {i \in DOMAIN things : \A j \in 1..(i - 1) : named[j] # named[i]}
             heads == KeptAt(named, fresh)
             g == Grouped(things, named)
  <1>1. /\ n \in Nat /\ DOMAIN named = 1..n /\ DOMAIN things = 1..n
        /\ \A i \in 1..n : named[i] \in N
    BY SeqIs
  <1>2. fresh \in SUBSET (1..n)
    BY <1>1
  <1>3. PICK m, e : KeptBy(named, fresh, m, e) /\ heads = At(named, m, e)
    <2>1. named \in Seq(N) /\ fresh \in SUBSET (1..Len(named))
      BY <1>2
    <2> HIDE DEF fresh
    <2> QED BY <2>1, KeptAtIs
  <1>4. g = [k \in DOMAIN heads |->
                Section(heads[k], KeptAt(things, {i \in DOMAIN things : named[i] = heads[k]}))]
    BY DEF Grouped
  <1>5. m \in Nat /\ e \in [1..m -> fresh] /\ DOMAIN heads = 1..m
    <2> HIDE DEF fresh, heads
    <2> QED BY <1>3 DEF KeptBy, Numbers, At
  <1>6. \A k \in 1..m : heads[k] = named[e[k]] /\ e[k] \in fresh /\ e[k] \in 1..n
    <2> HIDE DEF fresh, heads, n
    <2> QED BY <1>2, <1>3, <1>5 DEF At
  <1>7. \A k \in 1..m : /\ g[k].name = heads[k]
                        /\ g[k].pages = KeptAt(things, NamedSo(named, heads[k]))
    <2> SUFFICES ASSUME NEW k \in 1..m
                 PROVE  /\ g[k].name = heads[k]
                        /\ g[k].pages = KeptAt(things, NamedSo(named, heads[k]))
      OBVIOUS
    <2>1. NamedSo(named, heads[k]) = {i \in DOMAIN things : named[i] = heads[k]}
      <3> HIDE DEF n, heads
      <3> QED BY <1>1 DEF NamedSo
    <2> HIDE DEF heads, g, n, fresh
    <2>2. g[k] = Section(heads[k], KeptAt(things, {i \in DOMAIN things : named[i] = heads[k]}))
      BY <1>4, <1>5
    <2> QED BY <2>1, <2>2 DEF Section
  <1>8. \A k \in 1..m : g[k] \in [name : N, pages : Seq(T)]
    <2> SUFFICES ASSUME NEW k \in 1..m PROVE g[k] \in [name : N, pages : Seq(T)]
      OBVIOUS
    <2>1. NamedSo(named, heads[k]) \in SUBSET (1..Len(things))
      <3> HIDE DEF heads
      <3> QED BY <1>1 DEF NamedSo
    <2>2. KeptAt(things, NamedSo(named, heads[k])) \in Seq(T)
      <3> HIDE DEF heads
      <3> QED BY <2>1, KeptAtSays
    <2>3. heads[k] \in N
      <3> HIDE DEF heads, fresh
      <3> QED BY <1>1, <1>6
    <2>4. NamedSo(named, heads[k]) = {i \in DOMAIN things : named[i] = heads[k]}
      <3> HIDE DEF n, heads
      <3> QED BY <1>1 DEF NamedSo
    <2>5. g[k] = Section(heads[k], KeptAt(things, NamedSo(named, heads[k])))
      <3> HIDE DEF heads, g, n, fresh
      <3> QED BY <1>4, <1>5, <2>4
    <2> HIDE DEF heads, g, n, fresh
    <2> QED BY <2>2, <2>3, <2>5 DEF Section
  <1>9. g \in Seq([name : N, pages : Seq(T)]) /\ DOMAIN g = 1..m
    <2>1. g = [k \in 1..m |-> g[k]]
      <3> HIDE DEF heads, fresh, n
      <3>1. DOMAIN g = 1..m
        <4> HIDE DEF g
        <4> QED BY <1>4, <1>5
      <3> QED BY <1>4, <1>5
    <2> HIDE DEF g, heads, n
    <2>2. g \in [1..m -> [name : N, pages : Seq(T)]]
      BY <1>8, <2>1
    <2> QED BY <1>5, <2>2, IsSeq
  <1>10. \A k, l \in 1..m : heads[k] = heads[l] => k = l
    <2> SUFFICES ASSUME NEW k \in 1..m, NEW l \in 1..m, heads[k] = heads[l], k < l PROVE FALSE
      <3> HIDE DEF heads
      <3>1. \A k, l \in 1..m : k = l \/ k < l \/ l < k
        BY <1>5
      <3> QED BY <3>1
    <2>1. e[k] < e[l] /\ e[k] \in 1..n /\ e[l] \in 1..n /\ named[e[k]] = named[e[l]]
      <3> HIDE DEF heads, fresh, n
      <3> QED BY <1>3, <1>6 DEF KeptBy
    <2>2. e[k] \in 1..(e[l] - 1)
      <3> HIDE DEF n
      <3> QED BY <1>1, <2>1
    <2>3. e[l] \in fresh
      BY <1>6
    <2> HIDE DEF n, heads
    <2> QED BY <2>1, <2>2, <2>3
  <1>11. \A i \in 1..n : \E k \in 1..m : heads[k] = named[i]
    <2> SUFFICES ASSUME NEW i \in 1..n PROVE \E k \in 1..m : heads[k] = named[i]
      OBVIOUS
    <2> DEFINE J == {j \in Nat : j \in 1..n /\ named[j] = named[i]}
    <2>1. PICK j \in J : \A l \in J : j <= l
      <3>1. J \in SUBSET Nat /\ J # {}
        BY <1>1
      <3> HIDE DEF J
      <3> QED BY <3>1, HasLeast
    <2>2. j \in 1..n /\ named[j] = named[i]
      BY <2>1
    <2>3. \A l \in 1..(j - 1) : l \in 1..n /\ l \in Nat /\ l < j
      <3> HIDE DEF n
      <3> QED BY <1>1, <2>2
    <2>4. \A l \in 1..(j - 1) : named[l] # named[j]
      <3> SUFFICES ASSUME NEW l \in 1..(j - 1), named[l] = named[j] PROVE FALSE
        OBVIOUS
      <3>1. l \in J
        BY <2>2, <2>3
      <3>2. j <= l
        <4> HIDE DEF J
        <4> QED BY <2>1, <3>1
      <3> HIDE DEF n
      <3> QED BY <1>1, <2>2, <2>3, <3>2
    <2>5. j \in fresh
      <3> HIDE DEF n
      <3> QED BY <1>1, <2>2, <2>4
    <2>6. PICK k \in 1..m : e[k] = j
      <3> HIDE DEF fresh, heads, n
      <3> QED BY <1>3, <2>5 DEF KeptBy, Numbers
    <2> HIDE DEF heads
    <2> QED BY <1>6, <2>2, <2>6
  <1>12. ASSUME 1 \in 1..n PROVE 1 \in 1..m /\ heads[1] = named[1]
    <2>1. 1 \in fresh
      <3>1. \A j \in 1..(1 - 1) : FALSE
        OBVIOUS
      <3> HIDE DEF n
      <3> QED BY <1>1, <1>12, <3>1
    <2>2. PICK k \in 1..m : e[k] = 1
      <3> HIDE DEF fresh, heads, n
      <3> QED BY <1>3, <2>1 DEF KeptBy, Numbers
    <2>3. k = 1
      <3> SUFFICES ASSUME 1 < k PROVE FALSE
        <4> HIDE DEF n
        <4> QED BY <1>5
      <3>1. 1 \in 1..m
        <4> HIDE DEF n
        <4> QED BY <1>5
      <3>2. e[1] < e[k] /\ e[1] \in 1..n
        <4> HIDE DEF fresh, heads, n
        <4> QED BY <1>3, <1>6, <3>1 DEF KeptBy
      <3> HIDE DEF n
      <3>3. e[1] < 1 /\ e[1] >= 1
        BY <1>1, <2>2, <3>2
      <3>4. e[1] \in Int
        BY <1>1, <3>2
      <3> QED BY <3>3, <3>4
    <2> HIDE DEF heads
    <2> QED BY <1>6, <2>2, <2>3
  <1> HIDE DEF g, heads, n, fresh
  <1>13. \A k \in 1..m : \E i \in 1..n : named[i] = heads[k]
    BY <1>6
  <1>14. \A k, l \in DOMAIN g : g[k].name = g[l].name => k = l
    BY <1>7, <1>9, <1>10
  <1>15. \A k \in DOMAIN g : /\ g[k].pages = KeptAt(things, NamedSo(named, g[k].name))
                             /\ \E i \in DOMAIN named : named[i] = g[k].name
    BY <1>1, <1>7, <1>9, <1>13
  <1>16. \A i \in DOMAIN named : \E k \in DOMAIN g : g[k].name = named[i]
    BY <1>1, <1>7, <1>9, <1>11
  <1>17. 1 \in DOMAIN named => 1 \in DOMAIN g /\ g[1].name = named[1]
    BY <1>1, <1>7, <1>9, <1>12
  <1>18. GroupsOf(g, T, N, things, named)
    BY <1>9, <1>14, <1>15, <1>16, <1>17 DEF GroupsOf
  <1> QED BY <1>18 DEF g

-----------------------------------------------------------------------------
(* Sections. *)

SectionRec == [name : SectionNames, pages : Seq(PageEntry)]

\* Sections of different names, and pages each in one place of one section.
FineSet(X) ==
    /\ X \subseteq SectionRec
    /\ \A s, t \in X : s.name = t.name => s = t
    /\ \A s \in X : IsInjective(s.pages)
    /\ \A s, t \in X : s # t => ToSet(s.pages) \cap ToSet(t.pages) = {}

Fine(S) == S \in Seq(SectionRec) /\ IsInjective(S) /\ FineSet(ToSet(S))

Held(X) == UNION {ToSet(s.pages) : s \in X}

LEMMA BearsAll ==
  ASSUME NEW T, NEW s \in Seq(T), NEW W
  PROVE  Bears(s, T, W) <=> IsInjective(s) /\ ToSet(s) = W
  <1>1. \A i \in DOMAIN s : s[i] \in T /\ s[i] \in ToSet(s)
    BY SeqIs
  <1>2. \A x \in ToSet(s) : \E i \in DOMAIN s : s[i] = x
    BY DEF ToSet
  <1>3. ASSUME Bears(s, T, W) PROVE IsInjective(s) /\ ToSet(s) = W
    <2>1. IsInjective(s)
      BY <1>1, <1>3 DEF Bears, IsInjective
    <2>2. \A x : x \in ToSet(s) <=> x \in W
      BY <1>1, <1>2, <1>3 DEF Bears
    <2> QED BY <2>1, <2>2
  <1>4. ASSUME IsInjective(s), ToSet(s) = W PROVE Bears(s, T, W)
    BY <1>1, <1>2, <1>4 DEF Bears, IsInjective
  <1> QED BY <1>3, <1>4

\* What a section of a sequence is.
LEMMA SectionIs ==
  ASSUME NEW S \in Seq(SectionRec), NEW k \in DOMAIN S
  PROVE  /\ S[k] \in ToSet(S) /\ S[k] \in SectionRec
         /\ S[k].name \in SectionNames /\ S[k].pages \in Seq(PageEntry)
  <1>1. S[k] \in ToSet(S) /\ S[k] \in SectionRec
    BY SeqIs
  <1> QED BY <1>1 DEF SectionRec

\* A selection of sections is fine.
LEMMA FinePart ==
  ASSUME NEW S, Fine(S), NEW places \in SUBSET (DOMAIN S)
  PROVE  /\ Fine(KeptAt(S, places))
         /\ ToSet(KeptAt(S, places)) = {S[k] : k \in places}
         /\ ToSet(KeptAt(S, places)) \subseteq ToSet(S)
  <1>1. S \in Seq(SectionRec) /\ places \in SUBSET (1..Len(S))
    BY SeqIs DEF Fine
  <1>2. /\ KeptAt(S, places) \in Seq(SectionRec)
        /\ ToSet(KeptAt(S, places)) = {S[k] : k \in places}
        /\ IsInjective(KeptAt(S, places))
    BY <1>1, KeptAtSays DEF Fine
  <1>3. ToSet(KeptAt(S, places)) \subseteq ToSet(S)
    BY <1>2 DEF ToSet
  <1>4. FineSet(ToSet(KeptAt(S, places)))
    BY <1>3 DEF Fine, FineSet
  <1> QED BY <1>2, <1>3, <1>4 DEF Fine

\* The groups of pages, each page once, are fine sections of these pages.
LEMMA GroupedFine ==
  ASSUME NEW pages \in Seq(PageEntry), IsInjective(pages),
         NEW named \in Seq(SectionNames), Len(named) = Len(pages)
  PROVE  /\ Fine(Grouped(pages, named))
         /\ Held(ToSet(Grouped(pages, named))) = ToSet(pages)
  <1> DEFINE g == Grouped(pages, named)
             n == Len(pages)
  <1>1. GroupsOf(g, PageEntry, SectionNames, pages, named)
    BY GroupedSays
  <1> HIDE DEF g
  <1>2. /\ n \in Nat /\ DOMAIN pages = 1..n /\ DOMAIN named = 1..n
        /\ \A i \in 1..n : pages[i] \in PageEntry /\ named[i] \in SectionNames
    BY SeqIs
  <1>3. g \in Seq(SectionRec) /\ \A k, l \in DOMAIN g : g[k].name = g[l].name => k = l
    BY <1>1 DEF GroupsOf, SectionRec
  <1>4. \A k \in DOMAIN g :
          /\ IsInjective(g[k].pages)
          /\ \A x \in ToSet(g[k].pages) : \E i \in 1..n : named[i] = g[k].name /\ pages[i] = x
          /\ \A i \in 1..n : named[i] = g[k].name => pages[i] \in ToSet(g[k].pages)
    <2> SUFFICES ASSUME NEW k \in DOMAIN g
                 PROVE
          /\ IsInjective(g[k].pages)
          /\ \A x \in ToSet(g[k].pages) : \E i \in 1..n : named[i] = g[k].name /\ pages[i] = x
          /\ \A i \in 1..n : named[i] = g[k].name => pages[i] \in ToSet(g[k].pages)
      OBVIOUS
    <2> DEFINE places == NamedSo(named, g[k].name)
    <2>1. places \in SUBSET (1..Len(pages)) /\ \A i \in 1..n : i \in places <=> named[i] = g[k].name
      BY <1>2 DEF NamedSo
    <2>2. g[k].pages = KeptAt(pages, places)
      BY <1>1 DEF GroupsOf
    <2> HIDE DEF places, n
    <2>3. IsInjective(g[k].pages) /\ ToSet(g[k].pages) = {pages[i] : i \in places}
      BY <2>1, <2>2, KeptAtSays
    <2>4. places \subseteq 1..n
      BY <2>1 DEF n
    <2> QED BY <2>1, <2>3, <2>4
  <1> HIDE DEF n
  <1>5. \A s \in ToSet(g) : \E k \in DOMAIN g : s = g[k]
    BY DEF ToSet
  <1>6. \A i, j \in 1..n : pages[i] = pages[j] => i = j
    BY <1>2 DEF IsInjective
  <1>7. IsInjective(g)
    BY <1>3 DEF IsInjective
  <1>8. FineSet(ToSet(g))
    <2>1. ToSet(g) \subseteq SectionRec
      BY <1>3, SeqIs
    <2>2. \A s, t \in ToSet(g) : s.name = t.name => s = t
      BY <1>3, <1>5
    <2>3. \A s \in ToSet(g) : IsInjective(s.pages)
      BY <1>4, <1>5
    <2>4. ASSUME NEW s \in ToSet(g), NEW t \in ToSet(g), s # t,
                 NEW x \in ToSet(s.pages) \cap ToSet(t.pages)
          PROVE  FALSE
      <3>1. s.name # t.name
        BY <2>2, <2>4
      <3>2. (\E i \in 1..n : named[i] = s.name /\ pages[i] = x)
            /\ (\E i \in 1..n : named[i] = t.name /\ pages[i] = x)
        <4>1. PICK k \in DOMAIN g, l \in DOMAIN g : s = g[k] /\ t = g[l]
          BY <1>5
        <4>2. x \in ToSet(g[k].pages) /\ x \in ToSet(g[l].pages)
          BY <2>4, <4>1
        <4> QED BY <1>4, <4>1, <4>2
      <3> QED BY <1>6, <3>1, <3>2
    <2> QED BY <2>1, <2>2, <2>3, <2>4 DEF FineSet
  <1>9. Held(ToSet(g)) = ToSet(pages)
    <2>1. ASSUME NEW s \in ToSet(g), NEW x \in ToSet(s.pages) PROVE x \in ToSet(pages)
      <3>1. \E i \in 1..n : pages[i] = x
        <4>1. PICK k \in DOMAIN g : s = g[k]
          BY <1>5
        <4> QED BY <1>4, <2>1, <4>1
      <3> QED BY <1>2, <3>1 DEF ToSet
    <2>2. ASSUME NEW x \in ToSet(pages) PROVE \E s \in ToSet(g) : x \in ToSet(s.pages)
      <3>1. PICK i \in 1..n : pages[i] = x
        BY <1>2 DEF ToSet
      <3>2. PICK k \in DOMAIN g : g[k].name = named[i]
        BY <1>1, <1>2 DEF GroupsOf
      <3>3. x \in ToSet(g[k].pages) /\ g[k] \in ToSet(g)
        BY <1>4, <3>1, <3>2 DEF ToSet
      <3> QED BY <3>3
    <2> QED BY <2>1, <2>2 DEF Held
  <1> QED BY <1>3, <1>7, <1>8, <1>9 DEF Fine, g

\* To rank the pages of each section keeps sections and pages.
LEMMA SortedFine ==
  ASSUME NEW S, Fine(S)
  PROVE  /\ Fine(Sorted(S)) /\ Held(ToSet(Sorted(S))) = Held(ToSet(S))
         /\ DOMAIN Sorted(S) = DOMAIN S
         /\ \A k \in DOMAIN S : /\ Sorted(S)[k].name = S[k].name
                                /\ ToSet(Sorted(S)[k].pages) = ToSet(S[k].pages)
  <1> DEFINE R == Sorted(S)
  <1>1. S \in Seq(SectionRec) /\ IsInjective(S) /\ FineSet(ToSet(S))
    BY DEF Fine
  <1>2. DOMAIN R = DOMAIN S /\ \A k \in DOMAIN S : R[k] = [S[k] EXCEPT !.pages = ByImportance(S[k].pages)]
    BY DEF Sorted
  <1>3. R = [k \in DOMAIN S |-> R[k]]
    BY DEF Sorted
  <1> HIDE DEF R
  <1>4. \A k \in DOMAIN S :
          /\ R[k] \in SectionRec /\ R[k].name = S[k].name
          /\ R[k].pages = ByImportance(S[k].pages)
          /\ ToSet(R[k].pages) = ToSet(S[k].pages) /\ IsInjective(R[k].pages)
    <2> SUFFICES ASSUME NEW k \in DOMAIN S
                 PROVE  /\ R[k] \in SectionRec /\ R[k].name = S[k].name
                        /\ R[k].pages = ByImportance(S[k].pages)
                        /\ ToSet(R[k].pages) = ToSet(S[k].pages) /\ IsInjective(R[k].pages)
      OBVIOUS
    <2>1. S[k] \in SectionRec /\ S[k].pages \in Seq(PageEntry) /\ IsInjective(S[k].pages)
      BY <1>1, SectionIs DEF FineSet
    <2>2. /\ ByImportance(S[k].pages) \in Seq(PageEntry)
          /\ ToSet(ByImportance(S[k].pages)) = ToSet(S[k].pages)
          /\ IsInjective(ByImportance(S[k].pages))
      BY <2>1, ByImportanceSays
    <2> QED BY <1>2, <2>1, <2>2 DEF SectionRec
  <1>5. R \in Seq(SectionRec)
    <2>1. Len(S) \in Nat /\ DOMAIN S = 1..Len(S)
      BY <1>1, SeqIs
    <2>2. R \in [1..Len(S) -> SectionRec]
      BY <1>3, <1>4, <2>1
    <2> QED BY <2>1, <2>2, IsSeq
  <1>6. \A k, l \in DOMAIN S : S[k].name = S[l].name => k = l
    <2> SUFFICES ASSUME NEW k \in DOMAIN S, NEW l \in DOMAIN S, S[k].name = S[l].name PROVE k = l
      OBVIOUS
    <2>1. S[k] \in ToSet(S) /\ S[l] \in ToSet(S)
      BY DEF ToSet
    <2>2. S[k] = S[l]
      BY <1>1, <2>1 DEF FineSet
    <2> QED BY <1>1, <2>2 DEF IsInjective
  <1>7. IsInjective(R)
    BY <1>2, <1>4, <1>6 DEF IsInjective
  <1>8. (\A s \in ToSet(R) : \E k \in DOMAIN S : s = R[k])
        /\ (\A s \in ToSet(S) : \E k \in DOMAIN S : s = S[k])
        /\ \A k \in DOMAIN S : R[k] \in ToSet(R) /\ S[k] \in ToSet(S)
    BY <1>2 DEF ToSet
  <1>9. FineSet(ToSet(R))
    <2>1. ToSet(R) \subseteq SectionRec /\ \A s \in ToSet(R) : IsInjective(s.pages)
      BY <1>4, <1>8
    <2>2. \A s, t \in ToSet(R) : s.name = t.name => s = t
      BY <1>4, <1>6, <1>8
    <2>3. ASSUME NEW k \in DOMAIN S, NEW l \in DOMAIN S, R[k] # R[l]
          PROVE  ToSet(R[k].pages) \cap ToSet(R[l].pages) = {}
      <3>1. S[k] # S[l]
        BY <1>2, <2>3
      <3>2. ToSet(S[k].pages) \cap ToSet(S[l].pages) = {}
        BY <1>1, <1>8, <3>1 DEF FineSet
      <3>3. ToSet(R[k].pages) = ToSet(S[k].pages) /\ ToSet(R[l].pages) = ToSet(S[l].pages)
        BY <1>4
      <3> QED BY <3>2, <3>3
    <2>4. \A s, t \in ToSet(R) : s # t => ToSet(s.pages) \cap ToSet(t.pages) = {}
      BY <1>8, <2>3
    <2> QED BY <2>1, <2>2, <2>4 DEF FineSet
  <1>10. Held(ToSet(R)) = Held(ToSet(S))
    BY <1>4, <1>8 DEF Held
  <1> QED BY <1>2, <1>4, <1>5, <1>7, <1>9, <1>10 DEF Fine, R

\* The pages of sections, one section after the other.
LEMMA PagesOfSays ==
  ASSUME NEW S, Fine(S)
  PROVE  /\ PagesOf(S) \in Seq(PageEntry) /\ IsInjective(PagesOf(S))
         /\ ToSet(PagesOf(S)) = Held(ToSet(S))
  <1> DEFINE ss == [k \in DOMAIN S |-> S[k].pages]
             F == [k \in DOMAIN S |-> ToSet(S[k].pages)]
  <1>1. S \in Seq(SectionRec) /\ IsInjective(S) /\ FineSet(ToSet(S))
    BY DEF Fine
  <1>2. \A k \in DOMAIN S : S[k] \in ToSet(S) /\ S[k].pages \in Seq(PageEntry)
    BY <1>1, SectionIs
  <1>3. ss \in Seq(Seq(PageEntry)) /\ DOMAIN ss = DOMAIN S
    <2>1. Len(S) \in Nat /\ DOMAIN S = 1..Len(S)
      BY <1>1, SeqIs
    <2>2. ss \in [1..Len(S) -> Seq(PageEntry)]
      BY <1>2, <2>1
    <2> HIDE DEF ss
    <2> QED BY <2>1, <2>2, IsSeq
  <1>4. PagesOf(S) = FlattenSeq(ss)
    BY DEF PagesOf, Concat
  <1>5. \A k \in DOMAIN S : ss[k] = S[k].pages /\ F[k] = ToSet(S[k].pages)
    OBVIOUS
  <1> HIDE DEF ss, F
  <1>6. \A k \in DOMAIN ss : Bears(ss[k], PageEntry, F[k])
    <2> SUFFICES ASSUME NEW k \in DOMAIN ss PROVE Bears(ss[k], PageEntry, F[k])
      OBVIOUS
    <2>1. IsInjective(S[k].pages) /\ S[k].pages \in Seq(PageEntry)
      BY <1>1, <1>2, <1>3 DEF FineSet
    <2> QED BY <1>3, <1>5, <2>1, BearsAll
  <1>7. \A k, l \in DOMAIN ss : k # l => F[k] \cap F[l] = {}
    <2> SUFFICES ASSUME NEW k \in DOMAIN ss, NEW l \in DOMAIN ss, k # l PROVE F[k] \cap F[l] = {}
      OBVIOUS
    <2>1. S[k] # S[l]
      BY <1>1, <1>3 DEF IsInjective
    <2> QED BY <1>1, <1>2, <1>3, <1>5, <2>1 DEF FineSet
  <1>8. Bears(FlattenSeq(ss), PageEntry, UnionOf(F, DOMAIN ss))
    BY <1>3, <1>6, <1>7, BearsFlatten
  <1>9. FlattenSeq(ss) \in Seq(PageEntry)
    <2>1. PICK v \in [0..Len(ss) -> Seq(PageEntry)] : FlattenSeq(ss) = v[Len(ss)]
      BY <1>3, FlattenRuns
    <2>2. Len(ss) \in 0..Len(ss)
      BY <1>3, SeqIs
    <2> QED BY <2>1, <2>2
  <1>10. UnionOf(F, DOMAIN ss) = Held(ToSet(S))
    <2>1. \A s \in ToSet(S) : \E k \in DOMAIN S : s = S[k]
      BY DEF ToSet
    <2>2. ASSUME NEW x \in Held(ToSet(S)) PROVE x \in UnionOf(F, DOMAIN ss)
      <3>1. PICK s \in ToSet(S) : x \in ToSet(s.pages)
        BY <2>2 DEF Held
      <3>2. PICK k \in DOMAIN S : s = S[k]
        BY <2>1
      <3> QED BY <1>3, <1>5, <3>1, <3>2 DEF UnionOf
    <2>3. ASSUME NEW x \in UnionOf(F, DOMAIN ss) PROVE x \in Held(ToSet(S))
      <3>1. PICK k \in DOMAIN S : x \in F[k]
        BY <1>3, <2>3 DEF UnionOf
      <3>2. S[k] \in ToSet(S) /\ x \in ToSet(S[k].pages)
        BY <1>2, <1>5, <3>1
      <3> QED BY <3>2 DEF Held
    <2> QED BY <2>2, <2>3
  <1> QED BY <1>4, <1>8, <1>9, <1>10, BearsAll

-----------------------------------------------------------------------------
(* The order of sections. *)

HasName(X, name) == \E s \in X : s.name = name
Wanted(X, names) ==
    {i \in DOMAIN names : HasName(X, names[i]) /\ \A j \in 1..(i - 1) : names[j] # names[i]}

\* What is picked is a matter of which sections there are.
LEMMA PickedIs ==
  ASSUME NEW S, NEW names
  PROVE  Picked(S, names) = [k \in DOMAIN KeptAt(names, Wanted(ToSet(S), names)) |->
                                NamedBy(S, KeptAt(names, Wanted(ToSet(S), names))[k])]
  <1> DEFINE W == {i \in DOMAIN names : /\ \E k \in DOMAIN S : S[k].name = names[i]
                                        /\ \A j \in 1..(i - 1) : names[j] # names[i]}
  <1>1. \A name : HasName(ToSet(S), name) <=> \E k \in DOMAIN S : S[k].name = name
    BY DEF HasName, ToSet
  <1>2. W = Wanted(ToSet(S), names)
    BY <1>1 DEF Wanted
  <1>3. Picked(S, names) = [k \in DOMAIN KeptAt(names, W) |-> NamedBy(S, KeptAt(names, W)[k])]
    BY DEF Picked
  <1> HIDE DEF W
  <1> QED BY <1>2, <1>3

\* A section is found by its name.
LEMMA NamedByIs ==
  ASSUME NEW S, Fine(S), NEW s \in ToSet(S)
  PROVE  NamedBy(S, s.name) = s
  <1> DEFINE its == {k \in DOMAIN S : S[k].name = s.name}
             c == CHOOSE k \in its : \A j \in its : j <= k
  <1>1. S \in Seq(SectionRec) /\ FineSet(ToSet(S)) /\ IsInjective(S)
    BY DEF Fine
  <1>2. DOMAIN S \subseteq Nat
    BY <1>1, SeqIs
  <1>3. \A k \in its : S[k] = s
    <2>1. \A k \in DOMAIN S : S[k] \in ToSet(S)
      BY DEF ToSet
    <2> QED BY <1>1, <2>1 DEF FineSet
  <1>4. PICK k \in its : TRUE
    BY DEF ToSet
  <1>5. \A j \in its : j <= k
    <2>1. \A j \in its : j = k
      BY <1>1, <1>3 DEF IsInjective
    <2>2. k <= k
      BY <1>2
    <2> QED BY <2>1, <2>2
  <1>6. c \in its
    <2> HIDE DEF its
    <2> QED BY <1>4, <1>5
  <1>7. NamedBy(S, s.name) = S[c]
    BY DEF NamedBy
  <1> HIDE DEF c, its
  <1> QED BY <1>3, <1>6, <1>7

\* Picking from the same sections gives the same.
LEMMA PickedSame ==
  ASSUME NEW S, Fine(S), NEW R, Fine(R), ToSet(R) = ToSet(S), NEW names \in Seq(STRING)
  PROVE  Picked(R, names) = Picked(S, names)
  <1> DEFINE W == Wanted(ToSet(S), names)
             listed == KeptAt(names, W)
  <1>1. /\ Picked(S, names) = [k \in DOMAIN listed |-> NamedBy(S, listed[k])]
        /\ Picked(R, names) = [k \in DOMAIN listed |-> NamedBy(R, listed[k])]
    BY PickedIs
  <1>2. W \in SUBSET (1..Len(names))
    BY SeqIs DEF Wanted
  <1>3. ToSet(listed) = {names[i] : i \in W} /\ listed \in Seq(STRING)
    <2> HIDE DEF W
    <2> QED BY <1>2, KeptAtSays
  <1>4. ASSUME NEW k \in DOMAIN listed PROVE NamedBy(S, listed[k]) = NamedBy(R, listed[k])
    <2>1. listed[k] \in ToSet(listed)
      BY DEF ToSet
    <2>2. PICK i \in W : listed[k] = names[i]
      <3> HIDE DEF W, listed
      <3> QED BY <1>3, <2>1
    <2>3. PICK s \in ToSet(S) : s.name = names[i]
      BY DEF Wanted, HasName
    <2> HIDE DEF W, listed
    <2>4. NamedBy(S, s.name) = s /\ NamedBy(R, s.name) = s
      BY NamedByIs
    <2> QED BY <2>2, <2>3, <2>4
  <1> HIDE DEF listed
  <1> QED BY <1>1, <1>4, Zenon

\* What has a name on the list is picked, once.
LEMMA PickedFine ==
  ASSUME NEW S, Fine(S), NEW T, NEW names \in Seq(T), \A s \in ToSet(S) : s.name \in ToSet(names)
  PROVE  Fine(Picked(S, names)) /\ ToSet(Picked(S, names)) = ToSet(S)
  <1> DEFINE W == Wanted(ToSet(S), names)
             listed == KeptAt(names, W)
             P == Picked(S, names)
  <1>1. P = [k \in DOMAIN listed |-> NamedBy(S, listed[k])]
    BY PickedIs
  <1>2. Len(names) \in Nat /\ DOMAIN names = 1..Len(names) /\ W \in SUBSET (1..Len(names))
    BY SeqIs DEF Wanted
  <1>3. PICK m, e : KeptBy(names, W, m, e) /\ listed = At(names, m, e)
    <2> HIDE DEF W
    <2> QED BY <1>2, KeptAtIs
  <1> HIDE DEF listed, P
  <1>4. /\ m \in Nat /\ DOMAIN listed = 1..m
        /\ \A k \in 1..m : e[k] \in W /\ listed[k] = names[e[k]]
        /\ \A i \in W : \E k \in 1..m : e[k] = i
    <2> HIDE DEF W
    <2> QED BY <1>3 DEF KeptBy, Numbers, At
  <1>5. \A k \in 1..m : P[k] \in ToSet(S) /\ P[k].name = names[e[k]]
    <2> SUFFICES ASSUME NEW k \in 1..m PROVE P[k] \in ToSet(S) /\ P[k].name = names[e[k]]
      OBVIOUS
    <2>1. HasName(ToSet(S), names[e[k]])
      BY <1>4 DEF Wanted
    <2>2. PICK s \in ToSet(S) : s.name = names[e[k]]
      BY <2>1 DEF HasName
    <2>3. P[k] = NamedBy(S, s.name)
      BY <1>1, <1>4, <2>2
    <2> QED BY <2>2, <2>3, NamedByIs
  <1>6. \A k, l \in 1..m : names[e[k]] = names[e[l]] => k = l
    <2> SUFFICES ASSUME NEW k \in 1..m, NEW l \in 1..m, k < l, names[e[k]] = names[e[l]] PROVE FALSE
      <3>1. \A k, l \in 1..m : k = l \/ k < l \/ l < k
        BY <1>4
      <3> QED BY <3>1
    <2>1. e[k] < e[l] /\ e[k] \in W /\ e[l] \in W
      BY <1>3, <1>4 DEF KeptBy
    <2>2. e[k] \in 1..(e[l] - 1)
      BY <1>2, <2>1
    <2> QED BY <2>1, <2>2 DEF Wanted
  <1>7. DOMAIN P = 1..m /\ P = [k \in 1..m |-> P[k]]
    BY <1>1, <1>4
  <1>8. ToSet(P) = ToSet(S)
    <2>1. ASSUME NEW x \in ToSet(P) PROVE x \in ToSet(S)
      BY <1>5, <1>7 DEF ToSet
    <2>2. ASSUME NEW s \in ToSet(S) PROVE s \in ToSet(P)
      <3> DEFINE J == {j \in Nat : j \in DOMAIN names /\ names[j] = s.name}
      <3>1. PICK j \in J : \A i \in J : j <= i
        <4>1. s.name \in ToSet(names)
          OBVIOUS
        <4>2. J \in SUBSET Nat /\ J # {}
          BY <1>2, <4>1 DEF ToSet
        <4> HIDE DEF J
        <4> QED BY <4>2, HasLeast
      <3>2. j \in DOMAIN names /\ names[j] = s.name /\ j \in 1..Len(names)
        BY <1>2, <3>1
      <3>3. ASSUME NEW i \in 1..(j - 1), names[i] = names[j] PROVE FALSE
        <4>1. i \in Nat /\ i \in 1..Len(names) /\ i < j
          BY <1>2, <3>2
        <4>2. i \in J
          BY <1>2, <3>2, <3>3, <4>1
        <4> HIDE DEF J
        <4>3. j <= i
          BY <3>1, <4>2
        <4> QED BY <3>2, <4>1, <4>3
      <3>4. HasName(ToSet(S), names[j])
        BY <3>2 DEF HasName
      <3>5. j \in W
        BY <3>2, <3>3, <3>4 DEF Wanted
      <3>6. PICK k \in 1..m : e[k] = j
        <4> HIDE DEF W
        <4> QED BY <1>4, <3>5
      <3>7. P[k] \in ToSet(S) /\ P[k].name = s.name
        BY <1>5, <3>2, <3>6
      <3>8. P[k] = s
        BY <3>7 DEF Fine, FineSet
      <3> QED BY <1>7, <3>8 DEF ToSet
    <2> QED BY <2>1, <2>2
  <1>9. P \in Seq(SectionRec)
    <2>1. ToSet(S) \subseteq SectionRec
      BY DEF Fine, FineSet
    <2>2. P \in [1..m -> SectionRec]
      BY <1>5, <1>7, <2>1
    <2> QED BY <1>4, <2>2, IsSeq
  <1>10. IsInjective(P)
    <2> SUFFICES ASSUME NEW k \in 1..m, NEW l \in 1..m, P[k] = P[l] PROVE k = l
      BY <1>7 DEF IsInjective
    <2>1. names[e[k]] = names[e[l]]
      BY <1>5
    <2> QED BY <1>6, <2>1
  <1> QED BY <1>8, <1>9, <1>10 DEF Fine, P

\* The names order_sections goes by.
OrderNames(p) ==
    LET pinned == {"Main", "Contact", "Optional"}
        Free(name) == name \notin pinned
        Rest(name) == Free(name) /\ name \notin ToSet(TemplateOrder(p))
    IN  <<"Main">> \o Those(TemplateOrder(p), Free) \o Those(Alphabet, Rest) \o <<"Contact">>

Shows(s) == s.name # "Optional" /\ s.pages # <<>>
ShownOf(S) == KeptAt(S, {k \in DOMAIN S : Shows(S[k])})

LEMMA OrderedIs ==
  ASSUME NEW S, NEW p
  PROVE  Ordered(S, p) = Picked(ShownOf(S), OrderNames(p))
  BY Zenon DEF Ordered, OrderNames, ShownOf, Shows, Those

LEMMA OrderNamesSay ==
  ASSUME NEW p \in DOMAIN Templates
  PROVE  /\ OrderNames(p) \in Seq(STRING)
         /\ \A name \in SectionNames : name # "Optional" => name \in ToSet(OrderNames(p))
  <1> DEFINE t == Templates[p]
             pinned == {"Main", "Contact", "Optional"}
             A == {i \in DOMAIN t : t[i] \notin pinned}
             B == {i \in DOMAIN Alphabet : Alphabet[i] \notin pinned /\ Alphabet[i] \notin ToSet(t)}
             a == KeptAt(t, A)
             b == KeptAt(Alphabet, B)
             m == <<"Main">>
             c == <<"Contact">>
  <1>1. Alphabet \in Seq(STRING) /\ t \in Seq(STRING)
    <2>1. t \in Seq(SectionNames) /\ Alphabet \in Seq(STRING)
      BY NamesAssumption DEF SectionNames
    <2>2. SectionNames \subseteq STRING
      BY <2>1, SeqIs DEF SectionNames
    <2>3. Len(t) \in Nat /\ t \in [1..Len(t) -> SectionNames]
      BY <2>1, SeqIs
    <2>4. t \in [1..Len(t) -> STRING]
      BY <2>2, <2>3
    <2> QED BY <2>1, <2>3, <2>4, IsSeq
  <1>2. OrderNames(p) = Cat(Cat(Cat(m, a), b), c)
    <2>1. TemplateOrder(p) = t
      BY DEF TemplateOrder
    <2> QED BY <2>1, Zenon DEF OrderNames, Cat, Those
  <1>3. A \in SUBSET (1..Len(t)) /\ B \in SUBSET (1..Len(Alphabet))
    BY <1>1, SeqIs
  <1>4. /\ a \in Seq(STRING) /\ ToSet(a) = {t[i] : i \in A}
        /\ b \in Seq(STRING) /\ ToSet(b) = {Alphabet[i] : i \in B}
    <2> HIDE DEF A, B, t
    <2> QED BY <1>1, <1>3, KeptAtSays
  <1>5. m \in Seq(STRING) /\ c \in Seq(STRING) /\ "Main" \in ToSet(m) /\ "Contact" \in ToSet(c)
    <2>1. "Main" \in STRING /\ "Contact" \in STRING
      <3>1. "Main" \in SectionNames /\ "Contact" \in SectionNames
        BY NamesAssumption DEF SectionNames
      <3>2. SectionNames \subseteq STRING
        BY NamesAssumption, SeqIs DEF SectionNames
      <3> QED BY <3>1, <3>2
    <2>2. \A x \in STRING : <<x>> \in Seq(STRING) /\ ToSet(<<x>>) = {x}
      BY OneOf
    <2>3. m \in Seq(STRING) /\ ToSet(m) = {"Main"} /\ c \in Seq(STRING) /\ ToSet(c) = {"Contact"}
      BY <2>1, <2>2
    <2> HIDE DEF m, c
    <2> QED BY <2>3
  <1> HIDE DEF a, b, m, c
  <1>6. /\ OrderNames(p) \in Seq(STRING)
        /\ ToSet(OrderNames(p)) = (ToSet(m) \cup ToSet(a) \cup ToSet(b)) \cup ToSet(c)
    <2>1. a \in Seq(STRING) /\ b \in Seq(STRING) /\ m \in Seq(STRING) /\ c \in Seq(STRING)
      BY <1>4, <1>5
    <2> HIDE DEF A, B, t, pinned
    <2>2. \A s, r \in Seq(STRING) : Cat(s, r) \in Seq(STRING) /\ ToSet(Cat(s, r)) = ToSet(s) \cup ToSet(r)
      BY CatOf
    <2>3. PICK x : x = Cat(m, a)
      OBVIOUS
    <2>4. x \in Seq(STRING) /\ ToSet(x) = ToSet(m) \cup ToSet(a)
      BY <2>1, <2>2, <2>3
    <2>5. PICK y : y = Cat(x, b)
      OBVIOUS
    <2>6. y \in Seq(STRING) /\ ToSet(y) = ToSet(x) \cup ToSet(b)
      BY <2>1, <2>2, <2>4, <2>5
    <2>7. OrderNames(p) = Cat(y, c)
      BY <1>2, <2>3, <2>5
    <2>8. OrderNames(p) \in Seq(STRING) /\ ToSet(OrderNames(p)) = ToSet(y) \cup ToSet(c)
      BY <2>1, <2>2, <2>6, <2>7
    <2> QED BY <2>4, <2>6, <2>8
  <1>9. ASSUME NEW name \in SectionNames, name # "Optional" PROVE name \in ToSet(OrderNames(p))
    <2>1. PICK i \in DOMAIN Alphabet : name = Alphabet[i]
      BY DEF SectionNames, ToSet
    <2>2. CASE name \in pinned
      BY <1>5, <1>6, <1>9, <2>2
    <2>3. CASE name \notin pinned /\ name \in ToSet(t)
      <3>1. name \in ToSet(a)
        <4>1. PICK j \in DOMAIN t : name = t[j]
          BY <2>3 DEF ToSet
        <4>2. j \in A
          BY <2>3, <4>1
        <4> HIDE DEF A, t
        <4> QED BY <1>4, <4>1, <4>2
      <3> QED BY <1>6, <3>1
    <2>4. CASE name \notin pinned /\ name \notin ToSet(t)
      <3>1. name \in ToSet(b)
        <4>1. i \in B
          BY <2>1, <2>4
        <4> HIDE DEF B
        <4> QED BY <1>4, <2>1, <4>1
      <3> QED BY <1>6, <3>1
    <2> QED BY <2>2, <2>3, <2>4
  <1> QED BY <1>6, <1>9

\* order_sections keeps what it shows, and does it for good.
LEMMA OrderedSays ==
  ASSUME NEW S, Fine(S), NEW p \in DOMAIN Templates
  PROVE  /\ Fine(Ordered(S, p))
         /\ ToSet(Ordered(S, p)) = {s \in ToSet(S) : Shows(s)}
  <1> DEFINE places == {k \in DOMAIN S : Shows(S[k])}
             R == ShownOf(S)
  <1>1. R = KeptAt(S, places) /\ places \in SUBSET (DOMAIN S)
    BY DEF ShownOf
  <1>2. Fine(R) /\ ToSet(R) = {S[k] : k \in places}
    <2> HIDE DEF places, R
    <2> QED BY <1>1, FinePart
  <1>3. ToSet(R) = {s \in ToSet(S) : Shows(s)}
    BY <1>2 DEF ToSet
  <1> HIDE DEF R, places
  <1>4. \A s \in ToSet(R) : s.name \in ToSet(OrderNames(p))
    <2>1. \A s \in ToSet(R) : s \in SectionRec /\ s.name # "Optional"
      BY <1>2, <1>3 DEF Fine, FineSet, Shows
    <2> QED BY <2>1, OrderNamesSay DEF SectionRec
  <1>5. OrderNames(p) \in Seq(STRING)
    BY OrderNamesSay
  <1>6. Fine(Picked(R, OrderNames(p))) /\ ToSet(Picked(R, OrderNames(p))) = ToSet(R)
    BY <1>2, <1>4, <1>5, PickedFine
  <1>7. Ordered(S, p) = Picked(R, OrderNames(p))
    BY OrderedIs DEF R
  <1> QED BY <1>3, <1>6, <1>7

LEMMA OrderedSame ==
  ASSUME NEW S, Fine(S), NEW R, Fine(R), NEW p \in DOMAIN Templates,
         \A s : s \in ToSet(S) /\ Shows(s) <=> s \in ToSet(R) /\ Shows(s)
  PROVE  Ordered(S, p) = Ordered(R, p)
  <1>1. ASSUME NEW Q, Fine(Q)
        PROVE  Fine(ShownOf(Q)) /\ ToSet(ShownOf(Q)) = {s \in ToSet(Q) : Shows(s)}
    <2> DEFINE places == {k \in DOMAIN Q : Shows(Q[k])}
    <2>1. ShownOf(Q) = KeptAt(Q, places) /\ places \in SUBSET (DOMAIN Q)
      BY DEF ShownOf
    <2>2. Fine(ShownOf(Q)) /\ ToSet(ShownOf(Q)) = {Q[k] : k \in places}
      <3> HIDE DEF places
      <3> QED BY <1>1, <2>1, FinePart
    <2>3. ToSet(ShownOf(Q)) = {s \in ToSet(Q) : Shows(s)}
      BY <2>2 DEF ToSet
    <2> QED BY <2>2, <2>3
  <1>2. Fine(ShownOf(S)) /\ Fine(ShownOf(R)) /\ ToSet(ShownOf(R)) = ToSet(ShownOf(S))
    <2>1. ToSet(ShownOf(S)) = {s \in ToSet(S) : Shows(s)} /\ Fine(ShownOf(S))
      BY <1>1
    <2>2. ToSet(ShownOf(R)) = {s \in ToSet(R) : Shows(s)} /\ Fine(ShownOf(R))
      BY <1>1
    <2> QED BY <2>1, <2>2
  <1>3. Picked(ShownOf(S), OrderNames(p)) = Picked(ShownOf(R), OrderNames(p))
    BY <1>2, OrderNamesSay, PickedSame
  <1> QED BY <1>3, OrderedIs

\* An order by hand leaves the sections what they are.
LEMMA ManuallyOrderedSays ==
  ASSUME NEW S, Fine(S), NEW T, NEW names \in Seq(T)
  PROVE  Fine(ManuallyOrdered(S, names)) /\ ToSet(ManuallyOrdered(S, names)) = ToSet(S)
  <1> DEFINE B == {i \in DOMAIN Alphabet : Alphabet[i] \notin ToSet(names)}
             b == KeptAt(Alphabet, B)
             all == Cat(names, b)
  <1>1. Alphabet \in Seq(STRING)
    BY NamesAssumption
  <1>2. B \in SUBSET (1..Len(Alphabet))
    BY <1>1, SeqIs
  <1>3. b \in Seq(STRING) /\ ToSet(b) = {Alphabet[i] : i \in B}
    <2> HIDE DEF B
    <2> QED BY <1>1, <1>2, KeptAtSays
  <1> DEFINE U == T \cup STRING
  <1>7. names \in Seq(U) /\ b \in Seq(U)
    <2> HIDE DEF b
    <2>1. Len(names) \in Nat /\ names \in [1..Len(names) -> T]
          /\ Len(b) \in Nat /\ b \in [1..Len(b) -> STRING]
      BY <1>3, SeqIs
    <2>2. names \in [1..Len(names) -> U] /\ b \in [1..Len(b) -> U]
      BY <2>1
    <2> QED BY <2>1, <2>2, IsSeq
  <1>4. ManuallyOrdered(S, names) = Picked(S, all)
    BY Zenon DEF ManuallyOrdered, Cat, Those
  <1> HIDE DEF b, all, U
  <1>5. all \in Seq(U) /\ ToSet(all) = ToSet(names) \cup ToSet(b)
    BY <1>7, CatOf DEF all
  <1>6. ASSUME NEW s \in ToSet(S) PROVE s.name \in ToSet(all)
    <2>1. s.name \in SectionNames
      BY DEF Fine, FineSet, SectionRec
    <2>2. PICK i \in DOMAIN Alphabet : s.name = Alphabet[i]
      BY <2>1 DEF SectionNames, ToSet
    <2>3. i \in B => s.name \in ToSet(b)
      <3> HIDE DEF B
      <3> QED BY <1>3, <2>2
    <2> QED BY <1>5, <2>2, <2>3
  <1> QED BY <1>4, <1>5, <1>6, PickedFine


-----------------------------------------------------------------------------
(* Sections by their places. *)

Sections(n, R) ==
    /\ n \in Nat /\ R \in [1..n -> SectionRec]
    /\ \A k, l \in 1..n : R[k].name = R[l].name => k = l
    /\ \A k \in 1..n : IsInjective(R[k].pages)
    /\ \A k, l \in 1..n : k # l => ToSet(R[k].pages) \cap ToSet(R[l].pages) = {}

LEMMA SectionsFine ==
  ASSUME NEW n, NEW R, Sections(n, R)
  PROVE  /\ Fine(R) /\ DOMAIN R = 1..n
         /\ \A x : x \in Held(ToSet(R)) <=> \E k \in 1..n : x \in ToSet(R[k].pages)
  <1>1. n \in Nat /\ R \in [1..n -> SectionRec] /\ DOMAIN R = 1..n
    BY DEF Sections
  <1>2. R \in Seq(SectionRec)
    BY <1>1, IsSeq
  <1>3. (\A s \in ToSet(R) : \E k \in 1..n : s = R[k]) /\ \A k \in 1..n : R[k] \in ToSet(R)
    BY <1>1 DEF ToSet
  <1>4. IsInjective(R)
    BY <1>1 DEF Sections, IsInjective
  <1>5. ToSet(R) \subseteq SectionRec
    BY <1>2, SeqIs
  <1>6. \A s, t \in ToSet(R) : s.name = t.name => s = t
    BY <1>3 DEF Sections
  <1>7. \A s \in ToSet(R) : IsInjective(s.pages)
    BY <1>3 DEF Sections
  <1>8. \A s, t \in ToSet(R) : s # t => ToSet(s.pages) \cap ToSet(t.pages) = {}
    BY <1>3 DEF Sections
  <1>9. Fine(R)
    BY <1>2, <1>4, <1>5, <1>6, <1>7, <1>8 DEF Fine, FineSet
  <1>10. ASSUME NEW x PROVE x \in Held(ToSet(R)) <=> \E k \in 1..n : x \in ToSet(R[k].pages)
    <2>1. x \in Held(ToSet(R)) <=> \E s \in ToSet(R) : x \in ToSet(s.pages)
      BY DEF Held
    <2> QED BY <1>3, <2>1
  <1> QED BY <1>1, <1>9, <1>10

LEMMA FineSections ==
  ASSUME NEW S, Fine(S)
  PROVE  /\ Sections(Len(S), S) /\ DOMAIN S = 1..Len(S)
         /\ \A x : x \in Held(ToSet(S)) <=> \E k \in 1..Len(S) : x \in ToSet(S[k].pages)
  <1>1. S \in Seq(SectionRec) /\ IsInjective(S) /\ FineSet(ToSet(S))
    BY DEF Fine
  <1>2. /\ Len(S) \in Nat /\ DOMAIN S = 1..Len(S) /\ S \in [1..Len(S) -> SectionRec]
        /\ \A k \in 1..Len(S) : S[k] \in ToSet(S)
    BY <1>1, SeqIs
  <1>3. \A k, l \in 1..Len(S) : S[k].name = S[l].name => k = l
    BY <1>1, <1>2 DEF FineSet, IsInjective
  <1>4. \A k, l \in 1..Len(S) : k # l => S[k] # S[l]
    BY <1>1, <1>2 DEF IsInjective
  <1>5. Sections(Len(S), S)
    BY <1>1, <1>2, <1>3, <1>4 DEF FineSet, Sections
  <1> QED BY <1>2, <1>5, SectionsFine

\* The pages of a section, and others behind them, ranked.
LEMMA Swelling ==
  ASSUME NEW s \in Seq(PageEntry), NEW t \in Seq(PageEntry), IsInjective(s), IsInjective(t),
         ToSet(s) \cap ToSet(t) = {}
  PROVE  /\ ByImportance(Cat(s, t)) \in Seq(PageEntry) /\ IsInjective(ByImportance(Cat(s, t)))
         /\ ToSet(ByImportance(Cat(s, t))) = ToSet(s) \cup ToSet(t)
         /\ Cat(s, t) \in Seq(PageEntry) /\ IsInjective(Cat(s, t))
         /\ ToSet(Cat(s, t)) = ToSet(s) \cup ToSet(t)
  <1>1. Cat(s, t) \in Seq(PageEntry) /\ ToSet(Cat(s, t)) = ToSet(s) \cup ToSet(t)
    BY CatOf
  <1>2. Bears(s, PageEntry, ToSet(s)) /\ Bears(t, PageEntry, ToSet(t))
    BY BearsAll
  <1>3. Bears(Cat(s, t), PageEntry, ToSet(s) \cup ToSet(t))
    BY <1>2, BearsCat
  <1>4. IsInjective(Cat(s, t))
    BY <1>1, <1>3, BearsAll
  <1> QED BY <1>1, <1>4, ByImportanceSays

\* The selection of sections that are so, and of those that are not.
LEMMA Halves ==
  ASSUME NEW S, Fine(S), NEW A \in SUBSET (DOMAIN S), NEW B,
         B = DOMAIN S \ A
  PROVE  /\ Fine(KeptAt(S, A)) /\ Fine(KeptAt(S, B))
         /\ Held(ToSet(S)) = Held(ToSet(KeptAt(S, A))) \cup Held(ToSet(KeptAt(S, B)))
         /\ Held(ToSet(KeptAt(S, A))) \cap Held(ToSet(KeptAt(S, B))) = {}
  <1> DEFINE a == KeptAt(S, A)
             b == KeptAt(S, B)
  <1>1. /\ Fine(a) /\ ToSet(a) = {S[k] : k \in A}
        /\ Fine(b) /\ ToSet(b) = {S[k] : k \in B}
    BY FinePart
  <1> HIDE DEF a, b
  <1>2. Sections(Len(S), S) /\ DOMAIN S = 1..Len(S)
        /\ \A x : x \in Held(ToSet(S)) <=> \E k \in 1..Len(S) : x \in ToSet(S[k].pages)
    BY FineSections
  <1>3. \A x : x \in Held(ToSet(a)) <=> \E k \in A : x \in ToSet(S[k].pages)
    BY <1>1 DEF Held
  <1>4. \A x : x \in Held(ToSet(b)) <=> \E k \in B : x \in ToSet(S[k].pages)
    BY <1>1 DEF Held
  <1>5. \A k \in A, l \in B : ToSet(S[k].pages) \cap ToSet(S[l].pages) = {}
    BY <1>2 DEF Sections
  <1>6. Held(ToSet(S)) = Held(ToSet(a)) \cup Held(ToSet(b))
    BY <1>2, <1>3, <1>4
  <1>7. Held(ToSet(a)) \cap Held(ToSet(b)) = {}
    BY <1>3, <1>4, <1>5
  <1> QED BY <1>1, <1>6, <1>7 DEF a, b

\* To merge small sections loses no page.
LEMMA ConsolidatedFine ==
  ASSUME NEW S, Fine(S)
  PROVE  Fine(Consolidated(S)) /\ Held(ToSet(Consolidated(S))) = Held(ToSet(S))
  <1> DEFINE Single(s) == Len(s.pages) < 2 /\ s.name # "Contact"
             A == {k \in DOMAIN S : Single(S[k])}
             B == {k \in DOMAIN S : ~Single(S[k])}
             singles == KeptAt(S, A)
             kept == KeptAt(S, B)
             merged == PagesOf(singles)
             P == "Pages"
             Swollen(s) == IF s.name = P THEN Section(P, ByImportance(Cat(s.pages, merged))) ELSE s
             R2 == [k \in DOMAIN kept |-> Swollen(kept[k])]
             R3 == Append(kept, Section(P, ByImportance(merged)))
  <1>1. Consolidated(S) = IF Len(S) < 3 \/ 5 * Len(singles) < 3 * Len(S) THEN S
                          ELSE IF \E k \in DOMAIN kept : kept[k].name = P THEN R2 ELSE R3
    BY Zenon DEF Consolidated, Those, Cat, PagesOf
  <1>2. A \in SUBSET (DOMAIN S) /\ B = DOMAIN S \ A
    OBVIOUS
  <1> HIDE DEF A, B
  <1>3. /\ Fine(singles) /\ Fine(kept)
        /\ Held(ToSet(S)) = Held(ToSet(singles)) \cup Held(ToSet(kept))
        /\ Held(ToSet(singles)) \cap Held(ToSet(kept)) = {}
    BY <1>2, Halves
  <1> HIDE DEF singles, kept
  <1>4. merged \in Seq(PageEntry) /\ IsInjective(merged) /\ ToSet(merged) = Held(ToSet(singles))
    BY <1>3, PagesOfSays
  <1> HIDE DEF merged
  <1>5. /\ Sections(Len(kept), kept) /\ DOMAIN kept = 1..Len(kept)
        /\ \A x : x \in Held(ToSet(kept)) <=> \E k \in 1..Len(kept) : x \in ToSet(kept[k].pages)
    BY <1>3, FineSections
  <1>6. /\ Len(kept) \in Nat
        /\ \A k \in 1..Len(kept) : /\ kept[k] \in SectionRec /\ kept[k].pages \in Seq(PageEntry)
                                   /\ IsInjective(kept[k].pages)
                                   /\ ToSet(kept[k].pages) \cap ToSet(merged) = {}
    <2>1. \A k \in 1..Len(kept) : ToSet(kept[k].pages) \cap ToSet(merged) = {}
      BY <1>3, <1>4, <1>5
    <2>2. \A k \in 1..Len(kept) : kept[k] \in SectionRec /\ IsInjective(kept[k].pages)
      BY <1>5 DEF Sections
    <2> QED BY <1>5, <2>1, <2>2 DEF Sections, SectionRec
  <1>7. P \in SectionNames
    BY NamesAssumption
  <1> HIDE DEF P
  <1>8. ASSUME NEW a \in DOMAIN kept, kept[a].name = P
        PROVE  Fine(R2) /\ Held(ToSet(R2)) = Held(ToSet(S))
    <2> DEFINE n == Len(kept)
    <2>1. a \in 1..n /\ \A k \in 1..n : k # a => kept[k].name # P
      BY <1>5, <1>8 DEF Sections
    <2>2. DOMAIN R2 = 1..n /\ R2 = [k \in 1..n |-> R2[k]] /\ \A k \in 1..n : k # a => R2[k] = kept[k]
      BY <1>5, <2>1
    <2>3. R2[a] = Section(P, ByImportance(Cat(kept[a].pages, merged)))
      BY <1>8
    <2> HIDE DEF R2
    <2>4. /\ R2[a] \in SectionRec /\ R2[a].name = P /\ IsInjective(R2[a].pages)
          /\ ToSet(R2[a].pages) = ToSet(kept[a].pages) \cup ToSet(merged)
      <3> DEFINE q == ByImportance(Cat(kept[a].pages, merged))
      <3>1. q \in Seq(PageEntry) /\ IsInjective(q) /\ ToSet(q) = ToSet(kept[a].pages) \cup ToSet(merged)
        BY <1>4, <1>6, <2>1, Swelling
      <3> HIDE DEF q
      <3>2. R2[a] = Section(P, q)
        BY <2>3 DEF q
      <3> QED BY <1>7, <3>1, <3>2 DEF Section, SectionRec
    <2>5. \A k \in 1..n : /\ R2[k] \in SectionRec /\ R2[k].name = kept[k].name
                          /\ IsInjective(R2[k].pages)
      BY <1>6, <1>8, <2>2, <2>4
    <2>6. R2 \in [1..n -> SectionRec]
      BY <2>2, <2>5
    <2>7. \A k, l \in 1..n : k # l => ToSet(R2[k].pages) \cap ToSet(R2[l].pages) = {}
      <3> SUFFICES ASSUME NEW k \in 1..n, NEW l \in 1..n, k # l
                   PROVE  ToSet(R2[k].pages) \cap ToSet(R2[l].pages) = {}
        OBVIOUS
      <3>1. ToSet(kept[k].pages) \cap ToSet(kept[l].pages) = {}
        BY <1>5 DEF Sections
      <3>2. ToSet(kept[k].pages) \cap ToSet(merged) = {} /\ ToSet(kept[l].pages) \cap ToSet(merged) = {}
        BY <1>6
      <3>3. CASE k = a
        BY <2>2, <2>4, <3>1, <3>2, <3>3
      <3>4. CASE l = a
        BY <2>2, <2>4, <3>1, <3>2, <3>4
      <3>5. CASE k # a /\ l # a
        BY <2>2, <3>1, <3>5
      <3> QED BY <3>3, <3>4, <3>5
    <2>8. Sections(n, R2)
      BY <1>5, <1>6, <2>5, <2>6, <2>7 DEF Sections
    <2>9. Fine(R2) /\ \A x : x \in Held(ToSet(R2)) <=> \E k \in 1..n : x \in ToSet(R2[k].pages)
      BY <2>8, SectionsFine
    <2>10. \A x : x \in Held(ToSet(R2)) <=> x \in Held(ToSet(S))
      <3> SUFFICES ASSUME NEW x PROVE x \in Held(ToSet(R2)) <=> x \in Held(ToSet(S))
        OBVIOUS
      <3>1. x \in Held(ToSet(S)) <=> x \in ToSet(merged) \/ \E k \in 1..n : x \in ToSet(kept[k].pages)
        BY <1>3, <1>4, <1>5
      <3>2. (\E k \in 1..n : x \in ToSet(R2[k].pages))
            <=> x \in ToSet(merged) \/ \E k \in 1..n : x \in ToSet(kept[k].pages)
        BY <2>1, <2>2, <2>4
      <3> QED BY <2>9, <3>1, <3>2
    <2> QED BY <2>9, <2>10
  <1>9. ASSUME \A k \in DOMAIN kept : kept[k].name # P
        PROVE  Fine(R3) /\ Held(ToSet(R3)) = Held(ToSet(S))
    <2> DEFINE n == Len(kept)
               q == ByImportance(merged)
               s == Section(P, q)
    <2>1. q \in Seq(PageEntry) /\ IsInjective(q) /\ ToSet(q) = ToSet(merged)
      BY <1>4, ByImportanceSays
    <2>2. s \in SectionRec /\ s.name = P /\ s.pages = q
      <3> HIDE DEF q
      <3> QED BY <1>7, <2>1 DEF Section, SectionRec
    <2>3. R3 = Append(kept, s)
      OBVIOUS
    <2> HIDE DEF q, s, R3
    <2>4. kept \in Seq(SectionRec) /\ n \in Nat
      BY <1>3, <1>6 DEF Fine
    <2>5. R3 \in Seq(SectionRec) /\ Len(R3) = n + 1 /\ R3[n + 1] = s /\ \A k \in 1..n : R3[k] = kept[k]
      BY <2>2, <2>3, <2>4
    <2>6. R3 \in [1..(n + 1) -> SectionRec] /\ n + 1 \in Nat
      BY <2>4, <2>5, SeqIs
    <2> HIDE DEF n
    <2>7. \A k \in 1..(n + 1) : k \in 1..n \/ k = n + 1
      BY <2>4
    <2>8. \A k \in 1..n : kept[k].name # P /\ k # n + 1
      BY <1>5, <1>9, <2>4 DEF n
    <2>9. \A k, l \in 1..(n + 1) : R3[k].name = R3[l].name => k = l
      <3>1. \A k, l \in 1..n : kept[k].name = kept[l].name => k = l
        BY <1>5 DEF Sections, n
      <3> QED BY <2>2, <2>5, <2>7, <2>8, <3>1
    <2>10. \A k \in 1..n : IsInjective(kept[k].pages) /\ ToSet(kept[k].pages) \cap ToSet(merged) = {}
      BY <1>6 DEF n
    <2>11. \A k \in 1..(n + 1) : IsInjective(R3[k].pages)
      BY <2>1, <2>2, <2>5, <2>7, <2>10
    <2>12. \A k, l \in 1..(n + 1) : k # l => ToSet(R3[k].pages) \cap ToSet(R3[l].pages) = {}
      <3>1. \A k, l \in 1..n : k # l => ToSet(kept[k].pages) \cap ToSet(kept[l].pages) = {}
        BY <1>5 DEF Sections, n
      <3>2. ToSet(s.pages) = ToSet(merged)
        BY <2>1, <2>2
      <3> SUFFICES ASSUME NEW k \in 1..(n + 1), NEW l \in 1..(n + 1), k # l
                   PROVE  ToSet(R3[k].pages) \cap ToSet(R3[l].pages) = {}
        OBVIOUS
      <3>3. CASE k = n + 1
        <4>1. l \in 1..n
          BY <2>7, <3>3
        <4> QED BY <2>5, <2>10, <3>2, <3>3, <4>1
      <3>4. CASE l = n + 1
        <4>1. k \in 1..n
          BY <2>7, <3>4
        <4> QED BY <2>5, <2>10, <3>2, <3>4, <4>1
      <3>5. CASE k \in 1..n /\ l \in 1..n
        BY <2>5, <3>1, <3>5
      <3> QED BY <2>7, <3>3, <3>4, <3>5
    <2>13. Sections(n + 1, R3)
      BY <2>6, <2>9, <2>11, <2>12 DEF Sections
    <2>14. Fine(R3) /\ \A x : x \in Held(ToSet(R3)) <=> \E k \in 1..(n + 1) : x \in ToSet(R3[k].pages)
      BY <2>13, SectionsFine
    <2>15. \A x : x \in Held(ToSet(R3)) <=> x \in Held(ToSet(S))
      <3> SUFFICES ASSUME NEW x PROVE x \in Held(ToSet(R3)) <=> x \in Held(ToSet(S))
        OBVIOUS
      <3>1. x \in Held(ToSet(S)) <=> x \in ToSet(merged) \/ \E k \in 1..n : x \in ToSet(kept[k].pages)
        BY <1>3, <1>4, <1>5 DEF n
      <3>2. n + 1 \in 1..(n + 1) /\ \A k \in 1..n : k \in 1..(n + 1)
        BY <2>4
      <3>3. (\E k \in 1..(n + 1) : x \in ToSet(R3[k].pages))
            <=> x \in ToSet(merged) \/ \E k \in 1..n : x \in ToSet(kept[k].pages)
        BY <2>1, <2>2, <2>5, <2>7, <3>2
      <3> QED BY <2>14, <3>1, <3>3
    <2> QED BY <2>14, <2>15
  <1> HIDE DEF R2, R3
  <1> QED BY <1>1, <1>8, <1>9

-----------------------------------------------------------------------------
(* Lists of pages, one for an address. *)

Unmixed(pages) ==
    /\ pages \in Seq(PageEntry)
    /\ \A i, j \in DOMAIN pages : pages[i].url = pages[j].url => i = j

\* Pages that rank alike and have the same body.
Alike(x, y) ==
    /\ x.url = y.url /\ x.words = y.words /\ x.depth = y.depth /\ x.inlinks = y.inlinks
    /\ x.link = y.link /\ x.markdown = y.markdown

\* The pages at some places, in their order.
LEMMA PagesKept ==
  ASSUME NEW pages, Unmixed(pages), NEW places, places \subseteq DOMAIN pages
  PROVE  /\ Unmixed(KeptAt(pages, places)) /\ IsInjective(KeptAt(pages, places))
         /\ ToSet(KeptAt(pages, places)) = {pages[i] : i \in places}
         /\ IsInjective(pages)
  <1> DEFINE out == KeptAt(pages, places)
  <1>1. pages \in Seq(PageEntry) /\ DOMAIN pages = 1..Len(pages) /\ places \in SUBSET (1..Len(pages))
    BY SeqIs DEF Unmixed
  <1>2. IsInjective(pages)
    BY DEF Unmixed, IsInjective
  <1>3. out \in Seq(PageEntry) /\ IsInjective(out) /\ ToSet(out) = {pages[i] : i \in places}
    BY <1>1, <1>2, KeptAtSays
  <1> HIDE DEF out
  <1>4. ASSUME NEW k \in DOMAIN out, NEW l \in DOMAIN out, out[k].url = out[l].url PROVE k = l
    <2>1. out[k] \in ToSet(out) /\ out[l] \in ToSet(out)
      BY DEF ToSet
    <2>2. PICK i \in places : out[k] = pages[i]
      BY <1>3, <2>1
    <2>3. PICK j \in places : out[l] = pages[j]
      BY <1>3, <2>1
    <2>4. i = j
      BY <1>4, <2>2, <2>3 DEF Unmixed
    <2> QED BY <1>3, <2>2, <2>3, <2>4 DEF IsInjective
  <1> QED BY <1>2, <1>3, <1>4 DEF Unmixed, out

LEMMA SubText ==
  ASSUME NEW T, NEW s \in Seq(T), NEW m \in Nat, m <= Len(s)
  PROVE  SubSeq(s, 1, m) \in Seq(T)
  <1>1. \A i \in 1..m : s[i] \in T
    OBVIOUS
  <1> QED BY <1>1, SubSeqProperties

LEMMA PairOf ==
  ASSUME NEW T, NEW x \in T, NEW y \in T
  PROVE  <<x, y>> \in Seq(T)
  <1>1. <<x, y>> \in [1..2 -> T] /\ 2 \in Nat
    OBVIOUS
  <1>2. \A f \in [1..2 -> T] : f \in Seq(T)
    BY <1>1, IsSeq
  <1> QED BY <1>1, <1>2, Zenon

LEMMA TripleOf ==
  ASSUME NEW T, NEW x \in T, NEW y \in T, NEW z \in T
  PROVE  <<x, y, z>> \in Seq(T)
  <1>1. <<x, y, z>> \in [1..3 -> T] /\ 3 \in Nat
    OBVIOUS
  <1>2. \A f \in [1..3 -> T] : f \in Seq(T)
    BY <1>1, IsSeq
  <1> QED BY <1>1, <1>2, Zenon

LEMMA TruncatedIsText ==
  ASSUME NEW text \in Text, NEW most \in Nat
  PROVE  Truncated(text, most) \in Text
  <1> DEFINE places(mark) == {i \in 1..Least(most, Len(text)) : text[i] = mark /\ 5 * i > 2 * most}
  <1>1. Len(text) \in Nat /\ text \in Seq(STRING)
    BY SeqIs DEF Text
  <1>2. Least(most, Len(text)) \in Nat /\ Least(most, Len(text)) <= Len(text)
        /\ Least(most, Len(text)) <= most
    BY <1>1 DEF Least
  <1>3. ASSUME NEW mark PROVE LastMark(text, mark, most) \in 0..Least(most, Len(text))
    <2>1. CASE places(mark) = {}
      BY <1>2, <2>1 DEF LastMark
    <2>2. CASE places(mark) # {}
      <3> DEFINE down == {n \in Nat : \E i \in places(mark) : n = Len(text) - i}
      <3>1. down \in SUBSET Nat /\ down # {}
        <4>1. PICK i \in places(mark) : TRUE
          BY <2>2
        <4>2. i \in Nat /\ i <= Len(text)
          BY <1>1, <1>2, <4>1
        <4>3. Len(text) - i \in down
          BY <1>1, <4>1, <4>2
        <4> QED BY <4>3
      <3>2. PICK n \in down : \A m \in down : n <= m
        <4> HIDE DEF down
        <4> QED BY <3>1, HasLeast
      <3>3. PICK i \in places(mark) : n = Len(text) - i
        BY <3>2
      <3>4. ASSUME NEW j \in places(mark) PROVE j <= i
        <4>1. j \in Nat /\ j <= Len(text) /\ i \in Nat /\ i <= Len(text)
          BY <1>1, <1>2, <3>3, <3>4
        <4>2. Len(text) - j \in down
          BY <1>1, <3>4, <4>1
        <4>3. n <= Len(text) - j
          <5> HIDE DEF down
          <5> QED BY <3>2, <4>2
        <4> QED BY <1>1, <3>3, <4>1, <4>3
      <3> DEFINE S == places(mark)
                 c == CHOOSE k \in S : \A j \in S : j <= k
      <3>5. i \in S /\ \A j \in S : j <= i
        BY <3>3, <3>4
      <3>6. c \in S
        <4> HIDE DEF S
        <4> QED BY <3>5
      <3>7. LastMark(text, mark, most) = c
        BY <2>2 DEF LastMark
      <3>8. S \subseteq 1..Least(most, Len(text))
        OBVIOUS
      <3> HIDE DEF c, S
      <3> QED BY <1>2, <3>6, <3>7, <3>8
    <2> QED BY <2>1, <2>2
  <1> DEFINE stop == LastMark(text, ".", most)
             comma == LastMark(text, ",", most)
             m == IF stop > 0 THEN stop ELSE IF comma > 0 THEN comma - 1 ELSE most
  <1>4. stop \in 0..Least(most, Len(text)) /\ comma \in 0..Least(most, Len(text))
    BY <1>3
  <1>5. Truncated(text, most) = IF Len(text) <= most THEN text ELSE SubSeq(text, 1, m)
    BY DEF Truncated
  <1> HIDE DEF stop, comma
  <1>6. ASSUME ~(Len(text) <= most) PROVE m \in Nat /\ m <= Len(text)
    BY <1>1, <1>2, <1>4, <1>6
  <1> HIDE DEF m
  <1>7. ASSUME ~(Len(text) <= most) PROVE SubSeq(text, 1, m) \in Seq(STRING)
    BY <1>1, <1>6, <1>7, SubText
  <1> QED BY <1>5, <1>7 DEF Text

LEMMA ShortTitleIsText ==
  ASSUME NEW text \in Text
  PROVE  ShortTitle(text) \in Text
  <1> DEFINE bars == {i \in 2..Len(text) : text[i] = "|" /\ i <= MaxTitle + 1}
             c == CHOOSE i \in bars : \A j \in bars : i <= j
  <1>1. Len(text) \in Nat /\ text \in Seq(STRING) /\ MaxTitle \in Nat
    BY SeqIs, TextAssumption DEF Text
  <1>2. CASE bars # {}
    <2>1. bars \in SUBSET Nat /\ bars \subseteq 2..Len(text)
      BY <1>1
    <2> HIDE DEF bars
    <2>2. PICK i \in bars : \A j \in bars : i <= j
      BY <1>2, <2>1, HasLeast
    <2>3. c \in bars
      BY <2>2
    <2>4. ShortTitle(text) = SubSeq(text, 1, c - 1)
      BY <1>2 DEF ShortTitle, bars
    <2> HIDE DEF c
    <2>5. c - 1 \in Nat /\ c - 1 <= Len(text)
      BY <1>1, <2>1, <2>3
    <2>6. SubSeq(text, 1, c - 1) \in Seq(STRING)
      BY <1>1, <2>5, SubText
    <2> QED BY <2>4, <2>6 DEF Text
  <1>3. CASE bars = {}
    <2>1. ShortTitle(text) = Truncated(text, MaxTitle)
      BY <1>3 DEF ShortTitle
    <2> QED BY <1>1, <2>1, TruncatedIsText
  <1> QED BY <1>2, <1>3

\* Fallback copy is copy, and nothing else of a page changes.
LEMMA WithFallbackSays ==
  ASSUME NEW page \in PageEntry
  PROVE  WithFallback(page) \in PageEntry /\ Alike(WithFallback(page), page)
         /\ WithFallback(page).markdown = page.markdown
  <1> DEFINE t == IF ShortTitle(DisplayTitle(page)) # <<>> THEN ShortTitle(DisplayTitle(page))
                  ELSE TitleFromUrl(page.url)
             d == IF page.description # <<>> THEN Truncated(page.description, MaxDescription)
                  ELSE DescriptionFromUrl(page.url)
  <1>1. /\ page.title \in Text /\ page.h1 \in Text /\ page.description \in Text
        /\ page.url.path \in Seq(STRING) /\ page.url \in Address
    BY DEF PageEntry, Address, Text
  <1>2. DisplayTitle(page) \in Text
    BY <1>1 DEF DisplayTitle
  <1>3. "Home" \in STRING /\ "Homepage" \in STRING /\ ">" \in STRING
    BY WordAssumption, Zenon
  <1>4. \A x \in STRING : <<x>> \in Text
    BY OneOf DEF Text
  <1>5. \A x, y, z \in STRING : <<x, y, z>> \in Text
    BY TripleOf DEF Text
  <1>6. TitleFromUrl(page.url) \in Text
    <2>1. CASE page.url.path = <<>>
      BY <1>3, <1>4, <2>1 DEF TitleFromUrl
    <2>2. CASE page.url.path # <<>>
      <3>1. Len(page.url.path) \in Nat /\ page.url.path[Len(page.url.path)] \in STRING
        BY <1>1, <2>2
      <3>2. TitleFromUrl(page.url) = <<page.url.path[Len(page.url.path)]>>
        BY <2>2 DEF TitleFromUrl, Last
      <3> QED BY <1>4, <3>1, <3>2
    <2> QED BY <2>1, <2>2
  <1>7. DescriptionFromUrl(page.url) \in Text
    <2> DEFINE n == Len(page.url.path)
               q == page.url.path
    <2>1. n \in Nat /\ \A i \in 1..n : q[i] \in STRING
      BY <1>1
    <2>2. CASE n = 0
      BY <1>3, <1>4, <2>2 DEF DescriptionFromUrl
    <2>3. CASE n = 1
      BY <1>1, <2>3 DEF DescriptionFromUrl, Text
    <2>4. CASE n # 0 /\ n # 1
      <3>1. DescriptionFromUrl(page.url) = <<q[n - 1], ">", q[n]>>
        BY <2>4 DEF DescriptionFromUrl
      <3>2. n - 1 \in 1..n /\ n \in 1..n
        <4> HIDE DEF n
        <4> QED BY <2>1, <2>4
      <3>3. q[n - 1] \in STRING /\ q[n] \in STRING
        BY <2>1, <3>2
      <3> HIDE DEF q, n
      <3>4. <<q[n - 1], ">", q[n]>> \in Text
        BY <1>3, <1>5, <3>3
      <3> QED BY <3>1, <3>4
    <2> QED BY <2>2, <2>3, <2>4
  <1>8. t \in Text
    BY <1>2, <1>6, ShortTitleIsText
  <1>9. d \in Text
    <2>1. MaxDescription \in Nat
      BY TextAssumption
    <2> QED BY <1>1, <1>7, <2>1, TruncatedIsText
  <1>10. WithFallback(page) = [page EXCEPT !.title = t, !.description = d]
    BY Zenon DEF WithFallback
  <1> HIDE DEF t, d
  <1>11. WithFallback(page) \in PageEntry
    BY <1>8, <1>9, <1>10 DEF PageEntry
  <1>12. /\ WithFallback(page).url = page.url /\ WithFallback(page).words = page.words
         /\ WithFallback(page).depth = page.depth /\ WithFallback(page).inlinks = page.inlinks
         /\ WithFallback(page).link = page.link /\ WithFallback(page).markdown = page.markdown
    BY <1>10 DEF PageEntry
  <1> QED BY <1>11, <1>12 DEF Alike

\* What the filters leave of some pages, and what fallback copy makes of these.
LEMMA ShortlistSays ==
  ASSUME NEW pages, Unmixed(pages)
  PROVE  /\ Unmixed(Filtered(pages, TaskFilters)) /\ Unmixed(Shortlist(pages))
         /\ ToSet(Filtered(pages, TaskFilters)) \subseteq ToSet(pages)
         /\ Urls(Shortlist(pages)) = Urls(Filtered(pages, TaskFilters))
         /\ \A x \in ToSet(Shortlist(pages)) : \E y \in ToSet(pages) : Alike(x, y)
  <1> DEFINE kept == Filtered(pages, TaskFilters)
             dist == Deduplicated(pages)
             out == Shortlist(pages)
  <1>1. PICK A : A \subseteq DOMAIN pages /\ dist = KeptAt(pages, A)
    <2> DEFINE Canonical(i) == pages[i].canonical = pages[i].url \/ pages[i].canonical \notin Urls(pages)
               First(i) == \/ pages[i].hash = Unset
                           \/ \A j \in 1..(i - 1) : Canonical(j) => pages[j].hash # pages[i].hash
               A == {i \in DOMAIN pages : Canonical(i) /\ First(i)}
    <2>1. dist = KeptAt(pages, A)
      BY Zenon DEF Deduplicated
    <2>2. A \subseteq DOMAIN pages
      OBVIOUS
    <2> HIDE DEF A
    <2> QED BY <2>1, <2>2
  <1> HIDE DEF dist
  <1>2. PICK B : B \subseteq DOMAIN dist /\ kept = KeptAt(dist, B)
    <2> DEFINE Thick(page) == page.words = 0 \/ page.words >= MinWords
               B == {i \in DOMAIN dist : Thick(dist[i])}
    <2>1. kept = Substantial(dist)
      BY DEF Filtered, TaskFilters, dist
    <2>2. Substantial(dist) = KeptAt(dist, B)
      BY Zenon DEF Substantial, Those
    <2>3. B \subseteq DOMAIN dist
      OBVIOUS
    <2> HIDE DEF B, kept
    <2> QED BY <2>1, <2>2, <2>3
  <1> HIDE DEF kept
  <1>3. Unmixed(dist) /\ ToSet(dist) \subseteq ToSet(pages)
    <2>1. Unmixed(dist) /\ ToSet(dist) = {pages[i] : i \in A}
      BY <1>1, PagesKept
    <2> QED BY <1>1, <2>1 DEF ToSet
  <1>4. Unmixed(kept) /\ ToSet(kept) \subseteq ToSet(pages)
    <2>1. Unmixed(kept) /\ ToSet(kept) = {dist[i] : i \in B}
      BY <1>2, <1>3, PagesKept
    <2>2. ToSet(kept) \subseteq ToSet(dist)
      BY <1>2, <2>1 DEF ToSet
    <2> QED BY <1>3, <2>1, <2>2
  <1>5. DOMAIN out = DOMAIN kept /\ out = [i \in DOMAIN kept |-> WithFallback(kept[i])]
    BY DEF Shortlist, kept
  <1> HIDE DEF out
  <1>6. /\ Len(kept) \in Nat /\ DOMAIN kept = 1..Len(kept)
        /\ \A i \in 1..Len(kept) : kept[i] \in PageEntry /\ kept[i] \in ToSet(pages)
    <2>1. kept \in Seq(PageEntry)
      BY <1>4 DEF Unmixed
    <2>2. \A i \in 1..Len(kept) : kept[i] \in ToSet(kept) /\ kept[i] \in PageEntry
      BY <2>1, SeqIs
    <2> QED BY <1>4, <2>1, <2>2, SeqIs
  <1>7. \A i \in 1..Len(kept) : /\ out[i] \in PageEntry /\ Alike(out[i], kept[i])
                                /\ out[i].url = kept[i].url
    <2> SUFFICES ASSUME NEW i \in 1..Len(kept)
                 PROVE  out[i] \in PageEntry /\ Alike(out[i], kept[i]) /\ out[i].url = kept[i].url
      OBVIOUS
    <2>1. out[i] = WithFallback(kept[i])
      BY <1>5, <1>6
    <2>2. WithFallback(kept[i]) \in PageEntry /\ Alike(WithFallback(kept[i]), kept[i])
      BY <1>6, WithFallbackSays
    <2> QED BY <2>1, <2>2 DEF Alike
  <1>8. out \in Seq(PageEntry) /\ DOMAIN out = 1..Len(kept)
    <2>1. out \in [1..Len(kept) -> PageEntry]
      BY <1>5, <1>6, <1>7
    <2> QED BY <1>6, <2>1, IsSeq
  <1>9. Unmixed(out)
    <2>1. \A i, j \in 1..Len(kept) : kept[i].url = kept[j].url => i = j
      BY <1>4, <1>6 DEF Unmixed
    <2> QED BY <1>7, <1>8, <2>1 DEF Unmixed
  <1>10. Urls(out) = Urls(kept)
    BY <1>6, <1>7, <1>8 DEF Urls
  <1>11. \A x \in ToSet(out) : \E y \in ToSet(pages) : Alike(x, y)
    BY <1>6, <1>7, <1>8 DEF ToSet
  <1> QED BY <1>4, <1>9, <1>10, <1>11 DEF kept, out

-----------------------------------------------------------------------------
(* Sections and the optional pages: together they hold the pages of a set, *)
(* each in one place.                                                      *)

Well(S, O, X) ==
    /\ Fine(S) /\ O \in Seq(PageEntry) /\ IsInjective(O)
    /\ Held(ToSet(S)) \cap ToSet(O) = {}
    /\ Held(ToSet(S)) \cup ToSet(O) = X

\* What is kept of pages by a condition, and by its opposite.
LEMMA PagesSplit ==
  ASSUME NEW pages, Unmixed(pages), NEW A, A \subseteq DOMAIN pages, NEW B, B = DOMAIN pages \ A
  PROVE  /\ Unmixed(KeptAt(pages, A)) /\ IsInjective(KeptAt(pages, A))
         /\ Unmixed(KeptAt(pages, B)) /\ IsInjective(KeptAt(pages, B))
         /\ ToSet(KeptAt(pages, A)) \cup ToSet(KeptAt(pages, B)) = ToSet(pages)
         /\ ToSet(KeptAt(pages, A)) \cap ToSet(KeptAt(pages, B)) = {}
  <1>1. /\ Unmixed(KeptAt(pages, A)) /\ IsInjective(KeptAt(pages, A))
        /\ ToSet(KeptAt(pages, A)) = {pages[i] : i \in A}
        /\ Unmixed(KeptAt(pages, B)) /\ IsInjective(KeptAt(pages, B))
        /\ ToSet(KeptAt(pages, B)) = {pages[i] : i \in B}
    BY PagesKept
  <1>2. ToSet(pages) = {pages[i] : i \in DOMAIN pages}
    BY DEF ToSet
  <1>3. \A i, j \in DOMAIN pages : pages[i] = pages[j] => i = j
    BY DEF Unmixed
  <1> QED BY <1>1, <1>2, <1>3

\* group_by_url places every page.
LEMMA GroupedByUrlSays ==
  ASSUME NEW pages, Unmixed(pages),
         \A i \in DOMAIN pages : SectionOfUrl(pages[i].url) \in SectionNames
  PROVE  Well(GroupedByUrl(pages).sections, GroupedByUrl(pages).optional, ToSet(pages))
  <1> DEFINE Name(page) == IF LooksContact(page) THEN "Contact" ELSE SectionOfUrl(page.url)
             A == {i \in DOMAIN pages : ~LooksOptional(pages[i])}
             B == {i \in DOMAIN pages : LooksOptional(pages[i])}
             main == KeptAt(pages, A)
             rest == KeptAt(pages, B)
             named == [i \in DOMAIN main |-> Name(main[i])]
             g == Grouped(main, named)
  <1>1. GroupedByUrl(pages) = [sections |-> Consolidated(Sorted(g)), optional |-> ByImportance(rest)]
    BY Zenon DEF GroupedByUrl, Those
  <1>2. A \subseteq DOMAIN pages /\ B = DOMAIN pages \ A
    OBVIOUS
  <1>3. \A x \in ToSet(main) : \E i \in DOMAIN pages : x = pages[i]
    <2> HIDE DEF A
    <2>1. ToSet(main) = {pages[i] : i \in A}
      BY <1>2, PagesKept
    <2> QED BY <1>2, <2>1
  <1> HIDE DEF A, B
  <1>4. /\ Unmixed(main) /\ IsInjective(main) /\ Unmixed(rest) /\ IsInjective(rest)
        /\ ToSet(main) \cup ToSet(rest) = ToSet(pages) /\ ToSet(main) \cap ToSet(rest) = {}
    BY <1>2, PagesSplit
  <1> HIDE DEF main, rest
  <1>5. main \in Seq(PageEntry) /\ Len(main) \in Nat /\ DOMAIN main = 1..Len(main)
        /\ rest \in Seq(PageEntry)
    BY <1>4, SeqIs DEF Unmixed
  <1>6. named \in Seq(SectionNames) /\ Len(named) = Len(main)
    <2>1. "Contact" \in SectionNames
      BY NamesAssumption
    <2>2. ASSUME NEW i \in DOMAIN main PROVE Name(main[i]) \in SectionNames
      <3>1. main[i] \in ToSet(main)
        BY DEF ToSet
      <3>2. PICK j \in DOMAIN pages : main[i] = pages[j]
        BY <1>3, <3>1
      <3>3. SectionOfUrl(main[i].url) \in SectionNames
        BY <3>2
      <3> QED BY <2>1, <3>3
    <2> HIDE DEF Name
    <2>3. named \in [1..Len(main) -> SectionNames]
      BY <1>5, <2>2
    <2> HIDE DEF named
    <2> QED BY <1>5, <2>3, IsSeq
  <1> HIDE DEF named
  <1>7. Fine(g) /\ Held(ToSet(g)) = ToSet(main)
    BY <1>4, <1>5, <1>6, GroupedFine
  <1> HIDE DEF g
  <1>8. Fine(Consolidated(Sorted(g))) /\ Held(ToSet(Consolidated(Sorted(g)))) = ToSet(main)
    <2>1. Fine(Sorted(g)) /\ Held(ToSet(Sorted(g))) = ToSet(main)
      BY <1>7, SortedFine
    <2> QED BY <2>1, ConsolidatedFine
  <1>9. /\ ByImportance(rest) \in Seq(PageEntry) /\ IsInjective(ByImportance(rest))
        /\ ToSet(ByImportance(rest)) = ToSet(rest)
    BY <1>4, <1>5, ByImportanceSays
  <1>10. GroupedByUrl(pages).sections = Consolidated(Sorted(g))
         /\ GroupedByUrl(pages).optional = ByImportance(rest)
    BY <1>1
  <1> QED BY <1>4, <1>8, <1>9, <1>10 DEF Well

\* The section that _sections_from gives a page.
PlaceOf(pages, x) ==
    IF x.section = Unset THEN Head(Those(pages, Assigned)).section ELSE x.section

\* _sections_from places every page, under its own name or the first.
LEMMA SectionsFromSays ==
  ASSUME NEW pages, Unmixed(pages), ByModel(pages)
  PROVE  /\ Well(SectionsFrom(pages).sections, SectionsFrom(pages).optional, ToSet(pages))
         /\ \A s \in ToSet(SectionsFrom(pages).sections), x \in PageEntry :
               x \in ToSet(s.pages) => s.name = PlaceOf(pages, x) /\ ~x.optional
         /\ \A x \in ToSet(SectionsFrom(pages).optional) : x.optional
  <1> DEFINE A == {i \in DOMAIN pages : Assigned(pages[i])}
             B == {i \in DOMAIN pages : pages[i].section = Unset /\ ~pages[i].optional}
             C == {i \in DOMAIN pages : pages[i].optional}
             assigned == KeptAt(pages, A)
             skipped == KeptAt(pages, B)
             optional == KeptAt(pages, C)
             named == [i \in DOMAIN assigned |-> assigned[i].section]
             g == Grouped(assigned, named)
             h == [g EXCEPT ![1].pages = Cat(g[1].pages, skipped)]
  <1>1. SectionsFrom(pages) = [sections |-> Sorted(h), optional |-> optional]
    BY Zenon DEF SectionsFrom, Those, Cat
  <1>2. A \subseteq DOMAIN pages /\ B \subseteq DOMAIN pages /\ C \subseteq DOMAIN pages
    OBVIOUS
  <1>3. /\ \A i \in DOMAIN pages : i \in A \/ i \in B \/ i \in C
        /\ \A i \in A : i \notin B /\ i \notin C /\ Assigned(pages[i])
        /\ \A i \in B : i \notin C /\ pages[i].section = Unset /\ ~pages[i].optional
        /\ \A i \in C : pages[i].optional
        /\ \A i \in A : pages[i].section # Unset /\ ~pages[i].optional
    BY DEF Assigned
  <1>4. A # {}
    BY DEF ByModel
  <1>5. \A i, j \in DOMAIN pages : pages[i] = pages[j] => i = j
    BY DEF Unmixed
  <1>6. assigned = Those(pages, Assigned)
    BY Zenon DEF Those
  <1> HIDE DEF A, B, C
  <1>7. /\ Unmixed(assigned) /\ IsInjective(assigned) /\ ToSet(assigned) = {pages[i] : i \in A}
        /\ Unmixed(skipped) /\ IsInjective(skipped) /\ ToSet(skipped) = {pages[i] : i \in B}
        /\ Unmixed(optional) /\ IsInjective(optional) /\ ToSet(optional) = {pages[i] : i \in C}
    BY <1>2, PagesKept
  <1> HIDE DEF assigned, skipped, optional
  <1>8. /\ ToSet(pages) = ToSet(assigned) \cup ToSet(skipped) \cup ToSet(optional)
        /\ ToSet(assigned) \cap ToSet(skipped) = {}
        /\ ToSet(assigned) \cap ToSet(optional) = {} /\ ToSet(skipped) \cap ToSet(optional) = {}
    <2>1. ToSet(pages) = {pages[i] : i \in DOMAIN pages}
      BY DEF ToSet
    <2> QED BY <1>2, <1>3, <1>5, <1>7, <2>1
  <1>9. /\ assigned \in Seq(PageEntry) /\ Len(assigned) \in Nat /\ DOMAIN assigned = 1..Len(assigned)
        /\ \A i \in 1..Len(assigned) : assigned[i] \in PageEntry /\ assigned[i] \in ToSet(assigned)
        /\ skipped \in Seq(PageEntry) /\ optional \in Seq(PageEntry)
    BY <1>7, SeqIs DEF Unmixed
  <1>10. \A i \in 1..Len(assigned) : /\ assigned[i].section # Unset /\ ~assigned[i].optional
                                     /\ assigned[i].section \in SectionNames
    <2> SUFFICES ASSUME NEW i \in 1..Len(assigned)
                 PROVE  /\ assigned[i].section # Unset /\ ~assigned[i].optional
                        /\ assigned[i].section \in SectionNames
      OBVIOUS
    <2>1. PICK j \in A : assigned[i] = pages[j]
      BY <1>7, <1>9
    <2>2. assigned[i].section \in SectionNames \cup {Unset}
      BY <1>9 DEF PageEntry
    <2> QED BY <1>3, <2>1, <2>2
  <1>11. named \in Seq(SectionNames) /\ Len(named) = Len(assigned) /\ DOMAIN named = 1..Len(assigned)
         /\ \A i \in 1..Len(assigned) : named[i] = assigned[i].section
    <2>1. named \in [1..Len(assigned) -> SectionNames]
          /\ \A i \in 1..Len(assigned) : named[i] = assigned[i].section
      BY <1>9, <1>10
    <2> HIDE DEF named
    <2> QED BY <1>9, <2>1, IsSeq
  <1> HIDE DEF named
  <1>12. Fine(g) /\ Held(ToSet(g)) = ToSet(assigned)
    BY <1>7, <1>9, <1>11, GroupedFine
  <1>13. GroupsOf(g, PageEntry, SectionNames, assigned, named)
    BY <1>9, <1>11, GroupedSays
  <1> HIDE DEF g
  <1>14. /\ Sections(Len(g), g) /\ DOMAIN g = 1..Len(g) /\ Len(g) \in Nat
         /\ \A x : x \in Held(ToSet(g)) <=> \E k \in 1..Len(g) : x \in ToSet(g[k].pages)
    BY <1>12, FineSections DEF Sections
  <1>15. \A k \in 1..Len(g) : \A x \in ToSet(g[k].pages) : x.section = g[k].name /\ ~x.optional
                                                           /\ x.section # Unset
    <2> SUFFICES ASSUME NEW k \in 1..Len(g), NEW x \in ToSet(g[k].pages)
                 PROVE  x.section = g[k].name /\ ~x.optional /\ x.section # Unset
      OBVIOUS
    <2> DEFINE places == NamedSo(named, g[k].name)
    <2>1. g[k].pages = KeptAt(assigned, places)
      BY <1>13, <1>14 DEF GroupsOf
    <2>2. places \subseteq DOMAIN assigned /\ \A i \in places : named[i] = g[k].name
      BY <1>9, <1>11 DEF NamedSo
    <2> HIDE DEF places
    <2>3. ToSet(g[k].pages) = {assigned[i] : i \in places}
      BY <1>7, <2>1, <2>2, PagesKept
    <2>4. PICK i \in places : x = assigned[i]
      BY <2>3
    <2> QED BY <1>9, <1>10, <1>11, <2>2, <2>4
  <1>16. 1 \in 1..Len(assigned)
    <2>1. PICK j \in A : TRUE
      BY <1>4
    <2>2. pages[j] \in ToSet(assigned)
      BY <1>7, <2>1
    <2>3. PICK i \in DOMAIN assigned : assigned[i] = pages[j]
      BY <2>2 DEF ToSet
    <2> QED BY <1>9, <2>3
  <1>17. 1 \in 1..Len(g) /\ g[1].name = Head(Those(pages, Assigned)).section
    <2>1. 1 \in DOMAIN g /\ g[1].name = named[1]
      BY <1>11, <1>13, <1>16 DEF GroupsOf
    <2>2. Head(assigned) = assigned[1]
      BY <1>9, <1>16
    <2> QED BY <1>6, <1>11, <1>14, <1>16, <2>1, <2>2
  <1> DEFINE n == Len(g)
  <1>18. DOMAIN h = 1..n /\ h = [k \in 1..n |-> h[k]]
         /\ \A k \in 1..n : h[k] = IF k = 1 THEN [g[1] EXCEPT !.pages = Cat(g[1].pages, skipped)]
                                   ELSE g[k]
    BY <1>14
  <1> HIDE DEF h
  <1>19. /\ \A k \in 1..n : /\ g[k] \in SectionRec /\ g[k].pages \in Seq(PageEntry)
                            /\ IsInjective(g[k].pages) /\ g[k].name \in SectionNames
                            /\ ToSet(g[k].pages) \cap ToSet(skipped) = {}
         /\ \A k, l \in 1..n : g[k].name = g[l].name => k = l
         /\ \A k, l \in 1..n : k # l => ToSet(g[k].pages) \cap ToSet(g[l].pages) = {}
    <2>1. \A k \in 1..n : ToSet(g[k].pages) \cap ToSet(skipped) = {}
      BY <1>8, <1>12, <1>14
    <2>2. \A k \in 1..n : g[k] \in SectionRec /\ IsInjective(g[k].pages)
      BY <1>14 DEF Sections
    <2> QED BY <1>14, <2>1, <2>2 DEF Sections, SectionRec
  <1>20. /\ h[1] \in SectionRec /\ h[1].name = g[1].name /\ IsInjective(h[1].pages)
         /\ ToSet(h[1].pages) = ToSet(g[1].pages) \cup ToSet(skipped)
    <2> DEFINE q == Cat(g[1].pages, skipped)
    <2>1. q \in Seq(PageEntry) /\ IsInjective(q) /\ ToSet(q) = ToSet(g[1].pages) \cup ToSet(skipped)
      BY <1>7, <1>9, <1>17, <1>19, Swelling
    <2>2. h[1] = [g[1] EXCEPT !.pages = q] /\ g[1] \in SectionRec
      BY <1>17, <1>18, <1>19
    <2> HIDE DEF q
    <2> QED BY <2>1, <2>2 DEF SectionRec
  <1>21. \A k \in 1..n : k # 1 => h[k] = g[k]
    BY <1>18
  <1> HIDE DEF n
  <1>22. h \in [1..n -> SectionRec]
    BY <1>18, <1>19, <1>20, <1>21
  <1>23. \A k \in 1..n : h[k].name = g[k].name /\ IsInjective(h[k].pages)
    BY <1>19, <1>20, <1>21
  <1>24. \A k, l \in 1..n : k # l => ToSet(h[k].pages) \cap ToSet(h[l].pages) = {}
    <2> SUFFICES ASSUME NEW k \in 1..n, NEW l \in 1..n, k # l
                 PROVE  ToSet(h[k].pages) \cap ToSet(h[l].pages) = {}
      OBVIOUS
    <2>1. /\ ToSet(g[k].pages) \cap ToSet(g[l].pages) = {}
          /\ ToSet(g[k].pages) \cap ToSet(skipped) = {} /\ ToSet(g[l].pages) \cap ToSet(skipped) = {}
      BY <1>19
    <2>2. CASE k = 1
      <3>1. h[l] = g[l]
        BY <1>21, <2>2
      <3> QED BY <1>20, <2>1, <2>2, <3>1
    <2>3. CASE l = 1
      <3>1. h[k] = g[k]
        BY <1>21, <2>3
      <3> QED BY <1>20, <2>1, <2>3, <3>1
    <2>4. CASE k # 1 /\ l # 1
      BY <1>21, <2>1, <2>4
    <2> QED BY <2>2, <2>3, <2>4
  <1>25. Sections(n, h)
    BY <1>14, <1>19, <1>22, <1>23, <1>24 DEF Sections, n
  <1>26. /\ Fine(h) /\ DOMAIN h = 1..n
         /\ \A x : x \in Held(ToSet(h)) <=> \E k \in 1..n : x \in ToSet(h[k].pages)
    BY <1>25, SectionsFine
  <1>27. Held(ToSet(h)) = ToSet(assigned) \cup ToSet(skipped)
    <2> SUFFICES ASSUME NEW x
                 PROVE  x \in Held(ToSet(h)) <=> x \in ToSet(assigned) \/ x \in ToSet(skipped)
      OBVIOUS
    <2>1. x \in ToSet(assigned) <=> \E k \in 1..n : x \in ToSet(g[k].pages)
      BY <1>12, <1>14 DEF n
    <2>2. (\E k \in 1..n : x \in ToSet(h[k].pages))
          <=> x \in ToSet(skipped) \/ \E k \in 1..n : x \in ToSet(g[k].pages)
      <3>1. 1 \in 1..n
        BY <1>17 DEF n
      <3> QED BY <1>20, <1>21, <3>1
    <2> QED BY <1>26, <2>1, <2>2
  <1>28. \A k \in 1..n : \A x \in ToSet(h[k].pages) : h[k].name = PlaceOf(pages, x) /\ ~x.optional
    <2> SUFFICES ASSUME NEW k \in 1..n, NEW x \in ToSet(h[k].pages)
                 PROVE  h[k].name = PlaceOf(pages, x) /\ ~x.optional
      OBVIOUS
    <2>1. CASE x \in ToSet(g[k].pages)
      <3>1. x.section = g[k].name /\ ~x.optional /\ x.section # Unset
        BY <1>15, <2>1 DEF n
      <3> QED BY <1>23, <3>1 DEF PlaceOf
    <2>2. CASE x \notin ToSet(g[k].pages)
      <3>1. k = 1 /\ x \in ToSet(skipped)
        BY <1>20, <1>21, <2>2
      <3>2. PICK i \in B : x = pages[i]
        BY <1>7, <3>1
      <3>3. x.section = Unset /\ ~x.optional
        BY <1>3, <3>2
      <3>4. h[1].name = Head(Those(pages, Assigned)).section
        BY <1>17, <1>20
      <3> QED BY <3>1, <3>3, <3>4 DEF PlaceOf
    <2> QED BY <2>1, <2>2
  <1>29. /\ Fine(Sorted(h)) /\ Held(ToSet(Sorted(h))) = Held(ToSet(h))
         /\ DOMAIN Sorted(h) = 1..n
         /\ \A k \in 1..n : /\ Sorted(h)[k].name = h[k].name
                            /\ ToSet(Sorted(h)[k].pages) = ToSet(h[k].pages)
    BY <1>26, SortedFine
  <1>30. ASSUME NEW s \in ToSet(Sorted(h)), NEW x \in ToSet(s.pages)
         PROVE  s.name = PlaceOf(pages, x) /\ ~x.optional
    <2>1. PICK k \in DOMAIN Sorted(h) : s = Sorted(h)[k]
      BY DEF ToSet
    <2>2. k \in 1..n /\ s.name = h[k].name /\ x \in ToSet(h[k].pages)
      BY <1>29, <1>30, <2>1
    <2> QED BY <1>28, <2>2
  <1>31. SectionsFrom(pages).sections = Sorted(h) /\ SectionsFrom(pages).optional = optional
    BY <1>1
  <1>32. \A x \in ToSet(optional) : x.optional
    BY <1>3, <1>7
  <1>33. Well(Sorted(h), optional, ToSet(pages))
    BY <1>7, <1>8, <1>9, <1>27, <1>29 DEF Well
  <1> QED BY <1>30, <1>31, <1>32, <1>33

-----------------------------------------------------------------------------
(* The index. *)

Apart(X) == \A x, y \in X : x.url = y.url => x = y

LinkLine == [kind : {"link"}, level : Nat, text : Text, url : Address, description : Text]
IndexLine == BodyLine \cup LinkLine
LinkLines == {line \in IndexLine : line.kind = "link"}

LinksOf(pages) == [i \in DOMAIN pages |-> Link(pages[i])]
LinkSet(X) == {Link(x) : x \in X}
PartOf(name, pages) == Cat(<<Blank, Heading(2, <<name>>), Blank>>, LinksOf(pages))

\* What a sequence has of some things, taken out of it.
LEMMA TakenOut ==
  ASSUME NEW T, NEW s \in Seq(T), NEW K, NEW W, Bears(s, K, W),
         NEW places, places = {i \in DOMAIN s : s[i] \in K}
  PROVE  /\ KeptAt(s, places) \in Seq(T) /\ ToSet(KeptAt(s, places)) = W
         /\ IsInjective(KeptAt(s, places))
  <1> DEFINE out == KeptAt(s, places)
  <1>1. places \in SUBSET (1..Len(s)) /\ DOMAIN s = 1..Len(s)
    BY SeqIs
  <1>2. PICK m, e : KeptBy(s, places, m, e) /\ out = At(s, m, e)
    BY <1>1, KeptAtIs
  <1>3. out \in Seq(T) /\ ToSet(out) = {s[i] : i \in places}
    BY <1>1, KeptAtSays
  <1> HIDE DEF out
  <1>4. DOMAIN out = 1..m /\ \A k \in 1..m : e[k] \in places /\ out[k] = s[e[k]]
    BY <1>2 DEF At, KeptBy, Numbers
  <1>5. IsInjective(out)
    <2>1. \A i, j \in places : s[i] = s[j] => i = j
      BY <1>1 DEF Bears
    <2>2. \A k, l \in 1..m : e[k] = e[l] => k = l
      BY <1>2 DEF KeptBy, Numbers, IsInjective
    <2> QED BY <1>4, <2>1, <2>2 DEF IsInjective
  <1>6. \A x : x \in ToSet(out) <=> x \in W
    BY <1>3 DEF Bears
  <1> QED BY <1>3, <1>5, <1>6 DEF out

LEMMA NoUrlIs == NoUrl \in Address
  BY DEF NoUrl, Url, Address, Text

LEMMA LineIs ==
  ASSUME NEW kind \in LineKind, NEW level \in Nat, NEW text \in Text, NEW url \in Address
  PROVE  Line(kind, level, text, url) \in BodyLine /\ Line(kind, level, text, url).kind = kind
         /\ Line(kind, level, text, url).url = url
  BY DEF Line, BodyLine

LEMMA PlainIs ==
  /\ Blank \in BodyLine /\ Blank.kind = "blank"
  /\ \A kind \in LineKind : Plain(kind) \in BodyLine /\ Plain(kind).kind = kind
  /\ \A level \in Nat, text \in Text :
        Heading(level, text) \in BodyLine /\ Heading(level, text).kind = "heading"
  /\ \A text \in Text : Prose(text) \in BodyLine /\ Prose(text).kind = "prose"
  <1>1. <<>> \in Text /\ 0 \in Nat /\ NoUrl \in Address
    BY NoUrlIs DEF Text
  <1>2. "blank" \in LineKind /\ "heading" \in LineKind /\ "prose" \in LineKind
    BY DEF LineKind
  <1>3. \A kind \in LineKind : Plain(kind) \in BodyLine /\ Plain(kind).kind = kind
    <2> SUFFICES ASSUME NEW kind \in LineKind PROVE Plain(kind) \in BodyLine /\ Plain(kind).kind = kind
      OBVIOUS
    <2>1. Plain(kind) = Line(kind, 0, <<>>, NoUrl)
      BY DEF Plain
    <2> QED BY <1>1, <2>1, LineIs
  <1>4. Blank \in BodyLine /\ Blank.kind = "blank"
    BY <1>2, <1>3 DEF Blank
  <1>5. \A level \in Nat, text \in Text :
          Heading(level, text) \in BodyLine /\ Heading(level, text).kind = "heading"
    BY <1>1, <1>2, LineIs DEF Heading
  <1>6. \A text \in Text : Prose(text) \in BodyLine /\ Prose(text).kind = "prose"
    BY <1>1, <1>2, LineIs DEF Prose
  <1> QED BY <1>3, <1>4, <1>5, <1>6

LEMMA LinkIs ==
  ASSUME NEW x \in PageEntry
  PROVE  Link(x) \in LinkLine /\ Link(x) \in LinkLines /\ Link(x) \in IndexLine /\ Link(x).url = x.url
  <1>1. DisplayTitle(x) \in Text
    BY DEF DisplayTitle, PageEntry
  <1>2. Link(x) \in LinkLine /\ Link(x).kind = "link" /\ Link(x).url = x.url
    BY <1>1 DEF Link, LinkLine, PageEntry
  <1> QED BY <1>2 DEF IndexLine, LinkLines

\* Lines that are no links.
LEMMA BodyBearsNone ==
  ASSUME NEW s \in Seq(BodyLine), \A i \in 1..Len(s) : s[i].kind # "link"
  PROVE  s \in Seq(IndexLine) /\ Bears(s, LinkLines, {})
  <1>1. /\ Len(s) \in Nat /\ DOMAIN s = 1..Len(s) /\ s \in [1..Len(s) -> BodyLine]
    BY SeqIs
  <1>2. s \in [1..Len(s) -> IndexLine]
    BY <1>1 DEF IndexLine
  <1>3. s \in Seq(IndexLine)
    BY <1>1, <1>2, IsSeq
  <1>4. \A i \in DOMAIN s : s[i] \notin LinkLines
    BY <1>1 DEF LinkLines
  <1> QED BY <1>3, <1>4, BearsNothing

\* The lines of one section.
LEMMA PartBears ==
  ASSUME NEW name \in STRING, NEW pages \in Seq(PageEntry), IsInjective(pages), Apart(ToSet(pages))
  PROVE  /\ PartOf(name, pages) \in Seq(IndexLine)
         /\ Bears(PartOf(name, pages), LinkLines, LinkSet(ToSet(pages)))
  <1> DEFINE a == <<Blank, Heading(2, <<name>>), Blank>>
             b == LinksOf(pages)
             h == Heading(2, <<name>>)
  <1>1. h \in BodyLine /\ h.kind = "heading" /\ Blank \in BodyLine /\ Blank.kind = "blank"
    <2>1. <<name>> \in Text
      BY OneOf DEF Text
    <2> QED BY <2>1, PlainIs
  <1>2. a \in Seq(BodyLine)
    <2> HIDE DEF h
    <2>1. <<Blank, h, Blank>> \in Seq(BodyLine)
      BY <1>1, TripleOf
    <2> QED BY <2>1 DEF h
  <1>3. Len(a) = 3 /\ \A i \in 1..3 : a[i].kind # "link"
    <2> HIDE DEF h
    <2>1. Len(<<Blank, h, Blank>>) = 3 /\ \A i \in 1..3 : <<Blank, h, Blank>>[i] = Blank \/ <<Blank, h, Blank>>[i] = h
      OBVIOUS
    <2>2. a = <<Blank, h, Blank>>
      BY DEF h
    <2> HIDE DEF a
    <2> QED BY <1>1, <2>1, <2>2
  <1> HIDE DEF a, h
  <1>4. a \in Seq(IndexLine) /\ Bears(a, LinkLines, {})
    BY <1>2, <1>3, BodyBearsNone
  <1>5. /\ Len(pages) \in Nat /\ DOMAIN pages = 1..Len(pages)
        /\ \A i \in 1..Len(pages) : pages[i] \in PageEntry
        /\ \A i \in 1..Len(pages) : pages[i] \in ToSet(pages)
    BY SeqIs
  <1>6. DOMAIN b = 1..Len(pages) /\ (\A i \in 1..Len(pages) : b[i] = Link(pages[i]))
        /\ b = [i \in 1..Len(pages) |-> b[i]]
    BY <1>5 DEF LinksOf
  <1> HIDE DEF b
  <1>7. \A i \in 1..Len(pages) : b[i] \in IndexLine /\ b[i] \in LinkLines /\ b[i].url = pages[i].url
    BY <1>5, <1>6, LinkIs
  <1>8. b \in Seq(IndexLine)
    <2>1. b \in [1..Len(pages) -> IndexLine]
      BY <1>6, <1>7
    <2> QED BY <1>5, <2>1, IsSeq
  <1>9. Bears(b, LinkLines, LinkSet(ToSet(pages)))
    <2>1. ASSUME NEW i \in DOMAIN b, NEW j \in DOMAIN b, b[i] = b[j] PROVE i = j
      <3>1. pages[i].url = pages[j].url /\ i \in 1..Len(pages) /\ j \in 1..Len(pages)
        BY <1>6, <1>7, <2>1
      <3>2. pages[i] = pages[j]
        BY <1>5, <3>1 DEF Apart
      <3> QED BY <1>5, <3>1, <3>2 DEF IsInjective
    <2>2. \A i \in DOMAIN b : b[i] \in LinkSet(ToSet(pages))
      BY <1>5, <1>6 DEF LinkSet
    <2>3. ASSUME NEW y \in LinkSet(ToSet(pages)) PROVE y \in LinkLines /\ \E i \in DOMAIN b : b[i] = y
      <3>1. PICK x \in ToSet(pages) : y = Link(x)
        BY DEF LinkSet
      <3>2. PICK i \in DOMAIN pages : x = pages[i]
        BY DEF ToSet
      <3> QED BY <1>5, <1>6, <1>7, <3>1, <3>2
    <2> QED BY <2>1, <2>2, <2>3 DEF Bears
  <1>10. Bears(Cat(a, b), LinkLines, {} \cup LinkSet(ToSet(pages))) /\ Cat(a, b) \in Seq(IndexLine)
    <2>1. Cat(a, b) \in Seq(IndexLine)
      BY <1>4, <1>8, CatOf
    <2>2. {} \cap LinkSet(ToSet(pages)) = {}
      OBVIOUS
    <2>3. Bears(Cat(a, b), LinkLines, {} \cup LinkSet(ToSet(pages)))
      BY <1>4, <1>8, <1>9, <2>2, BearsCat
    <2> QED BY <2>1, <2>3
  <1>11. PartOf(name, pages) = Cat(a, b) /\ {} \cup LinkSet(ToSet(pages)) = LinkSet(ToSet(pages))
    BY DEF PartOf, a, b, h
  <1> QED BY <1>10, <1>11

ShownPages(S) == Held({s \in ToSet(S) : Shows(s)})

\* What an index lists: the pages of the sections it shows, and the optional
\* ones, each once.
LEMMA IndexBears ==
  ASSUME NEW S, NEW O, NEW X, Well(S, O, X), Apart(X), NEW p \in DOMAIN Templates,
         NEW name \in Text, NEW summary \in Text
  PROVE  /\ RenderIndex(name, summary, S, O, p) \in Seq(IndexLine)
         /\ Bears(RenderIndex(name, summary, S, O, p), LinkLines,
                  LinkSet(ShownPages(S) \cup ToSet(O)))
  <1> DEFINE ordered == Ordered(S, p)
             index == RenderIndex(name, summary, S, O, p)
             q == Line("quote", 0, IF summary # <<>> THEN summary ELSE <<"Official">>, NoUrl)
             r == Prose(<<"For full page content, see", "llms-full.txt">>)
             h == Heading(1, name)
             a == <<h, Blank, q, Blank, r>>
             F == [k \in DOMAIN ordered |-> LinkSet(ToSet(ordered[k].pages))]
             bs == [k \in DOMAIN ordered |-> PartOf(ordered[k].name, ordered[k].pages)]
             b == FlattenSeq(bs)
             c == IF O = <<>> THEN <<>> ELSE PartOf("Optional", O)
             d == <<Blank, Plain("break"), Plain("footer")>>
  <1>1. index = Cat(Cat(Cat(a, b), c), d)
    BY Zenon DEF RenderIndex, Cat, PartOf, LinksOf, Concat, Section
  <1>2. /\ Fine(ordered) /\ ToSet(ordered) = {s \in ToSet(S) : Shows(s)}
        /\ Fine(S) /\ O \in Seq(PageEntry) /\ IsInjective(O)
        /\ Held(ToSet(S)) \cap ToSet(O) = {} /\ Held(ToSet(S)) \cup ToSet(O) = X
    BY OrderedSays DEF Well
  <1> HIDE DEF ordered, index
  <1>3. /\ Sections(Len(ordered), ordered) /\ DOMAIN ordered = 1..Len(ordered)
        /\ \A x : x \in Held(ToSet(ordered)) <=> \E k \in 1..Len(ordered) : x \in ToSet(ordered[k].pages)
    BY <1>2, FineSections
  <1>4. Held(ToSet(ordered)) \subseteq Held(ToSet(S)) /\ Held(ToSet(ordered)) = ShownPages(S)
    BY <1>2 DEF Held, ShownPages
  <1>5. /\ Len(ordered) \in Nat
        /\ \A k \in 1..Len(ordered) :
              /\ ordered[k].name \in STRING /\ ordered[k].pages \in Seq(PageEntry)
              /\ IsInjective(ordered[k].pages) /\ Apart(ToSet(ordered[k].pages))
              /\ ToSet(ordered[k].pages) \subseteq X
              /\ ToSet(ordered[k].pages) \cap ToSet(O) = {}
    <2>1. \A k \in 1..Len(ordered) : ordered[k] \in SectionRec /\ IsInjective(ordered[k].pages)
      BY <1>3 DEF Sections
    <2>2. \A k \in 1..Len(ordered) : ToSet(ordered[k].pages) \subseteq Held(ToSet(S))
      BY <1>3, <1>4
    <2>3. SectionNames \subseteq STRING
      BY NamesAssumption, SeqIs DEF SectionNames
    <2>4. \A k \in 1..Len(ordered) : Apart(ToSet(ordered[k].pages))
      BY <1>2, <2>2 DEF Apart
    <2> QED BY <1>2, <1>3, <2>1, <2>2, <2>3, <2>4 DEF Sections, SectionRec
  <1>6. \A x, y \in X : Link(x) = Link(y) => x = y
    <2>1. X \subseteq PageEntry
      <3>1. ToSet(O) \subseteq PageEntry
        BY <1>2, SeqIs
      <3>2. Held(ToSet(S)) \subseteq PageEntry
        <4>1. \A s \in ToSet(S) : s.pages \in Seq(PageEntry)
          BY <1>2 DEF Fine, FineSet, SectionRec
        <4>2. \A s \in ToSet(S) : ToSet(s.pages) \subseteq PageEntry
          BY <4>1, SeqIs
        <4> QED BY <4>2 DEF Held
      <3> QED BY <1>2, <3>1, <3>2
    <2> QED BY <2>1, LinkIs DEF Apart
  <1>7. bs \in Seq(Seq(IndexLine)) /\ DOMAIN bs = 1..Len(ordered)
        /\ \A k \in 1..Len(ordered) : Bears(bs[k], LinkLines, F[k])
    <2>1. \A k \in 1..Len(ordered) :
             /\ PartOf(ordered[k].name, ordered[k].pages) \in Seq(IndexLine)
             /\ Bears(PartOf(ordered[k].name, ordered[k].pages), LinkLines, LinkSet(ToSet(ordered[k].pages)))
      BY <1>5, PartBears
    <2>2. DOMAIN bs = 1..Len(ordered) /\ bs \in [1..Len(ordered) -> Seq(IndexLine)]
      BY <1>3, <2>1
    <2>3. \A k \in 1..Len(ordered) : bs[k] = PartOf(ordered[k].name, ordered[k].pages)
                                     /\ F[k] = LinkSet(ToSet(ordered[k].pages))
      BY <1>3
    <2>4. \A k \in 1..Len(ordered) : Bears(bs[k], LinkLines, F[k])
      <3> HIDE DEF bs, F
      <3> QED BY <2>1, <2>3
    <2> HIDE DEF bs
    <2> QED BY <1>5, <2>2, <2>4, IsSeq
  <1>8. \A k, l \in 1..Len(ordered) : k # l => F[k] \cap F[l] = {}
    <2> SUFFICES ASSUME NEW k \in 1..Len(ordered), NEW l \in 1..Len(ordered), k # l,
                        NEW z, z \in F[k], z \in F[l]
                 PROVE  FALSE
      OBVIOUS
    <2>1. F[k] = LinkSet(ToSet(ordered[k].pages)) /\ F[l] = LinkSet(ToSet(ordered[l].pages))
      BY <1>3
    <2> HIDE DEF F
    <2>2. PICK x \in ToSet(ordered[k].pages) : z = Link(x)
      BY <2>1 DEF LinkSet
    <2>3. PICK y \in ToSet(ordered[l].pages) : z = Link(y)
      BY <2>1 DEF LinkSet
    <2>4. x = y
      BY <1>5, <1>6, <2>2, <2>3
    <2>5. ToSet(ordered[k].pages) \cap ToSet(ordered[l].pages) = {}
      BY <1>3 DEF Sections
    <2> QED BY <2>2, <2>3, <2>4, <2>5
  <1>9. UnionOf(F, 1..Len(ordered)) = LinkSet(ShownPages(S))
    <2>1. \A k \in 1..Len(ordered) : F[k] = LinkSet(ToSet(ordered[k].pages))
      BY <1>3
    <2> HIDE DEF F
    <2>2. ASSUME NEW z PROVE z \in UnionOf(F, 1..Len(ordered)) <=> z \in LinkSet(ShownPages(S))
      <3>1. z \in UnionOf(F, 1..Len(ordered)) <=> \E k \in 1..Len(ordered) : z \in F[k]
        BY DEF UnionOf
      <3>2. \A k \in 1..Len(ordered) : z \in F[k] <=> \E x \in ToSet(ordered[k].pages) : z = Link(x)
        BY <2>1 DEF LinkSet
      <3>3. z \in LinkSet(ShownPages(S)) <=> \E x \in ShownPages(S) : z = Link(x)
        BY DEF LinkSet
      <3>4. \A x : x \in ShownPages(S) <=> \E k \in 1..Len(ordered) : x \in ToSet(ordered[k].pages)
        BY <1>3, <1>4
      <3> QED BY <3>1, <3>2, <3>3, <3>4
    <2> QED BY <2>2
  <1>10. Bears(b, LinkLines, LinkSet(ShownPages(S))) /\ b \in Seq(IndexLine)
    <2> HIDE DEF bs, F
    <2>1. Bears(b, LinkLines, UnionOf(F, DOMAIN bs))
      BY <1>7, <1>8, BearsFlatten
    <2>2. b \in Seq(IndexLine)
      <3>1. PICK v \in [0..Len(bs) -> Seq(IndexLine)] : b = v[Len(bs)]
        BY <1>7, FlattenRuns
      <3>2. Len(bs) \in 0..Len(bs)
        BY <1>7, SeqIs
      <3> QED BY <3>1, <3>2
    <2> QED BY <1>7, <1>9, <2>1, <2>2
  <1> HIDE DEF b, bs, F
  <1>11. c \in Seq(IndexLine) /\ Bears(c, LinkLines, LinkSet(ToSet(O)))
    <2>1. CASE O = <<>>
      <3>1. ToSet(O) = {} /\ c = <<>>
        BY <2>1 DEF ToSet
      <3>2. LinkSet(ToSet(O)) = {}
        BY <3>1 DEF LinkSet
      <3>3. Bears(<<>>, LinkLines, {}) /\ <<>> \in Seq(IndexLine)
        BY BearsNothing
      <3> QED BY <3>1, <3>2, <3>3
    <2>2. CASE O # <<>>
      <3>1. "Optional" \in STRING
        BY WordAssumption, Zenon
      <3>2. Apart(ToSet(O))
        BY <1>2 DEF Apart
      <3>3. c = PartOf("Optional", O)
        BY <2>2
      <3> HIDE DEF c
      <3> QED BY <1>2, <3>1, <3>2, <3>3, PartBears
    <2> QED BY <2>1, <2>2
  <1> HIDE DEF c
  <1>12. a \in Seq(IndexLine) /\ Bears(a, LinkLines, {})
    <2>1. h \in BodyLine /\ h.kind = "heading" /\ Blank \in BodyLine /\ Blank.kind = "blank"
      <3>1. 1 \in Nat
        OBVIOUS
      <3> QED BY <3>1, PlainIs
    <2>2. "Official" \in STRING /\ "For full page content, see" \in STRING /\ "llms-full.txt" \in STRING
      BY WordAssumption, Zenon
    <2>3. r \in BodyLine /\ r.kind = "prose"
      <3>1. \A x, y \in STRING : <<x, y>> \in Seq(STRING)
        BY PairOf
      <3>2. <<"For full page content, see", "llms-full.txt">> \in Text
        BY <2>2, <3>1, Zenon DEF Text
      <3>3. \A text \in Text : Prose(text) \in BodyLine /\ Prose(text).kind = "prose"
        BY PlainIs
      <3> QED BY <3>2, <3>3, Zenon
    <2>4. q \in BodyLine /\ q.kind = "quote"
      <3> DEFINE t == IF summary # <<>> THEN summary ELSE <<"Official">>
      <3>1. t \in Text
        BY <2>2, OneOf DEF Text
      <3>2. "quote" \in LineKind /\ 0 \in Nat /\ NoUrl \in Address
        BY NoUrlIs DEF LineKind
      <3>3. q = Line("quote", 0, t, NoUrl)
        BY Zenon
      <3> HIDE DEF q, t
      <3> QED BY <3>1, <3>2, <3>3, LineIs
    <2> HIDE DEF q, r, h
    <2>5. a \in [1..5 -> BodyLine] /\ 5 \in Nat
      BY <2>1, <2>3, <2>4
    <2>6. \A i \in 1..5 : a[i].kind # "link"
      BY <2>1, <2>3, <2>4
    <2> HIDE DEF a
    <2>7. a \in Seq(BodyLine) /\ Len(a) = 5
      BY <2>5, IsSeq
    <2> QED BY <2>6, <2>7, BodyBearsNone
  <1>13. d \in Seq(IndexLine) /\ Bears(d, LinkLines, {})
    <2> DEFINE br == Plain("break")
               ft == Plain("footer")
    <2>1. /\ Blank \in BodyLine /\ Blank.kind = "blank" /\ br \in BodyLine /\ br.kind = "break"
          /\ ft \in BodyLine /\ ft.kind = "footer"
      BY PlainIs DEF LineKind
    <2>2. d = <<Blank, br, ft>>
      OBVIOUS
    <2> HIDE DEF br, ft, d
    <2>3. d \in [1..3 -> BodyLine] /\ 3 \in Nat
      BY <2>1, <2>2
    <2>4. \A i \in 1..3 : d[i].kind # "link"
      BY <2>1, <2>2
    <2>5. d \in Seq(BodyLine) /\ Len(d) = 3
      BY <2>3, IsSeq
    <2> QED BY <2>4, <2>5, BodyBearsNone
  <1> HIDE DEF a, d
  <1>14. LinkSet(ShownPages(S)) \cap LinkSet(ToSet(O)) = {}
    <2> SUFFICES ASSUME NEW z, z \in LinkSet(ShownPages(S)), z \in LinkSet(ToSet(O)) PROVE FALSE
      OBVIOUS
    <2>1. PICK x \in ShownPages(S) : z = Link(x)
      BY DEF LinkSet
    <2>2. PICK y \in ToSet(O) : z = Link(y)
      BY DEF LinkSet
    <2>3. x \in X /\ y \in X /\ x # y
      BY <1>2, <1>4
    <2> QED BY <1>6, <2>1, <2>2, <2>3
  <1> DEFINE V == LinkSet(ShownPages(S))
             W == LinkSet(ToSet(O))
  <1>15. PICK t : t = Cat(a, b)
    OBVIOUS
  <1>16. t \in Seq(IndexLine) /\ Bears(t, LinkLines, {} \cup V)
    <2> HIDE DEF V
    <2>1. {} \cap V = {} /\ Bears(b, LinkLines, V)
      BY <1>10 DEF V
    <2>2. Bears(Cat(a, b), LinkLines, {} \cup V)
      BY <1>10, <1>12, <2>1, BearsCat
    <2> QED BY <1>10, <1>12, <1>15, <2>2, CatOf
  <1>17. PICK u : u = Cat(t, c)
    OBVIOUS
  <1>18. u \in Seq(IndexLine) /\ Bears(u, LinkLines, V \cup W)
    <2>1. {} \cup V = V /\ V \cap W = {}
      BY <1>14
    <2>2. Bears(t, LinkLines, V) /\ Bears(c, LinkLines, W)
      BY <1>11, <1>16, <2>1
    <2> HIDE DEF V, W
    <2>3. Bears(Cat(t, c), LinkLines, V \cup W)
      BY <1>11, <1>16, <2>1, <2>2, BearsCat
    <2> QED BY <1>11, <1>16, <1>17, <2>3, CatOf
  <1>19. index \in Seq(IndexLine) /\ Bears(index, LinkLines, (V \cup W) \cup {})
    <2> HIDE DEF V, W
    <2>1. (V \cup W) \cap {} = {} /\ index = Cat(u, d)
      BY <1>1, <1>15, <1>17
    <2>2. Bears(Cat(u, d), LinkLines, (V \cup W) \cup {})
      BY <1>13, <1>18, <2>1, BearsCat
    <2> QED BY <1>13, <1>18, <2>1, <2>2, CatOf
  <1>20. (V \cup W) \cup {} = LinkSet(ShownPages(S) \cup ToSet(O))
    BY DEF LinkSet
  <1> HIDE DEF V, W
  <1> QED BY <1>19, <1>20 DEF index

-----------------------------------------------------------------------------
(* Rows and the sections they give. *)

RowNames == SectionNames \ {"Optional"}
RowRec == [title : Text, description : Text, section : RowNames \cup {Unset},
           optional : BOOLEAN, position : Nat, included : BOOLEAN]

\* Which rows come before a row.
Turn(t) ==
    [i \in DOMAIN t |-> {j \in DOMAIN t : \/ t[j].position < t[i].position
                                          \/ t[j].position = t[i].position /\ j < i}]

NameIn(t, i) == IF t[i].section = Unset THEN "Pages" ELSE t[i].section

Mapped(W, s) == [k \in DOMAIN s |-> W[s[k]]]
ImageOf(W, I) == {W[i] : i \in I}

\* The pages of some places, in turn.
Lists(pages, W, I, ahead) ==
    \E m, e : Numbers(m, I, e) /\ InTurn(m, e, ahead) /\ pages = Mapped(W, e)

\* The pages of a run, by place.
Pages(n, W) ==
    /\ n \in Nat /\ W \in [1..n -> PageEntry]
    /\ \A i, j \in 1..n : W[i].url = W[j].url => i = j

LEMMA TurnLinear ==
  ASSUME NEW n \in Nat, NEW t \in [1..n -> RowRec]
  PROVE  Linear(1..n, Turn(t))
  <1> DEFINE v == [i \in 1..n |-> t[i].position]
             A == Turn(t)
  <1>1. v \in [1..n -> Nat]
    BY DEF RowRec
  <1>2. /\ A \in [1..n -> SUBSET (1..n)]
        /\ \A i, j \in 1..n : j \in A[i] <=> (v[j] < v[i] \/ (v[j] = v[i] /\ j < i))
    BY DEF Turn
  <1> HIDE DEF A, v
  <1>3. \A i \in 1..n : v[i] \in Nat
    BY <1>1
  <1>4. \A i \in 1..n : i \notin A[i]
    BY <1>2, <1>3
  <1>5. \A i, j \in 1..n : i # j => i \in A[j] \/ j \in A[i]
    BY <1>2, <1>3
  <1>6. \A i, j, k \in 1..n : k \in A[i] /\ i \in A[j] => k \in A[j]
    BY <1>2, <1>3
  <1>7. Linear(1..n, A)
    BY <1>2, <1>4, <1>5, <1>6 DEF Linear
  <1> QED BY <1>7 DEF A

\* A selection from an order is in order.
LEMMA SelectInTurn ==
  ASSUME NEW I, NEW m, NEW s, Numbers(m, I, s), NEW ahead, InTurn(m, s, ahead),
         NEW places, places \subseteq 1..m, NEW J, J = {s[k] : k \in places}
  PROVE  \E l : Numbers(l, J, KeptAt(s, places)) /\ InTurn(l, KeptAt(s, places), ahead)
                /\ KeptAt(s, places) \in Seq(J)
  <1> DEFINE r == KeptAt(s, places)
  <1>1. m \in Nat /\ s \in [1..m -> I] /\ IsInjective(s)
    BY DEF Numbers
  <1>2. s \in Seq(I) /\ Len(s) = m /\ DOMAIN s = 1..m
    BY <1>1, IsSeq
  <1>3. PICK l, e : KeptBy(s, places, l, e) /\ r = At(s, l, e)
    BY <1>2, KeptAtIs
  <1>4. IsInjective(r)
    BY <1>1, <1>2, KeptAtSays
  <1> HIDE DEF r
  <1>5. l \in Nat /\ \A k \in 1..l : e[k] \in places /\ e[k] \in 1..m
    BY <1>3 DEF KeptBy, Numbers
  <1>6. DOMAIN r = 1..l /\ \A k \in 1..l : r[k] = s[e[k]]
    BY <1>3 DEF At
  <1>7. r \in [1..l -> J]
    <2>1. r = [k \in 1..l |-> r[k]]
      BY <1>3, <1>6 DEF At
    <2> QED BY <1>5, <1>6, <2>1
  <1>8. ASSUME NEW x \in J PROVE \E k \in 1..l : r[k] = x
    <2>1. PICK q \in places : x = s[q]
      OBVIOUS
    <2>2. PICK k \in 1..l : e[k] = q
      BY <1>3, <2>1 DEF KeptBy, Numbers
    <2> QED BY <1>6, <2>1, <2>2
  <1>9. Numbers(l, J, r)
    BY <1>4, <1>5, <1>7, <1>8 DEF Numbers
  <1>10. InTurn(l, r, ahead)
    <2> SUFFICES ASSUME NEW j \in 1..l, NEW k \in 1..l, j < k PROVE r[j] \in ahead[r[k]]
      BY DEF InTurn
    <2>1. e[j] < e[k] /\ e[j] \in 1..m /\ e[k] \in 1..m
      BY <1>3, <1>5 DEF KeptBy
    <2> QED BY <1>6, <2>1 DEF InTurn
  <1>11. r \in Seq(J)
    BY <1>5, <1>7, IsSeq
  <1> QED BY <1>9, <1>10, <1>11 DEF r

\* What a list of places is kept of is what the places kept are a list of.
LEMMA KeptAtMap ==
  ASSUME NEW I, NEW s \in Seq(I), NEW W, NEW places \in SUBSET (1..Len(s))
  PROVE  KeptAt(Mapped(W, s), places) = Mapped(W, KeptAt(s, places))
  <1> DEFINE o == Ascending(places)
  <1>1. DOMAIN s = 1..Len(s)
    BY SeqIs
  <1>2. \A k \in DOMAIN o : o[k] \in 1..Len(s)
    <2>1. Len(s) \in Nat /\ IsFiniteSet(1..Len(s))
      BY SeqIs, FS_Interval
    <2>2. IsFiniteSet(places) /\ places \in SUBSET Nat
      <3>1. IsFiniteSet(places)
        BY <2>1, FS_Subset
      <3> QED BY <3>1
    <2>3. Numbers(Cardinality(places), places, o)
      BY <2>2, AscendingSays
    <2> HIDE DEF o
    <2> QED BY <2>3 DEF Numbers
  <1>3. KeptAt(s, places) = [k \in DOMAIN o |-> s[o[k]]]
    BY DEF KeptAt
  <1>4. KeptAt(Mapped(W, s), places) = [k \in DOMAIN o |-> Mapped(W, s)[o[k]]]
    BY DEF KeptAt
  <1> HIDE DEF o
  <1>5. \A k \in DOMAIN o : Mapped(W, s)[o[k]] = W[s[o[k]]]
    BY <1>1, <1>2 DEF Mapped
  <1>6. Mapped(W, KeptAt(s, places)) = [k \in DOMAIN o |-> W[s[o[k]]]]
    BY <1>3 DEF Mapped
  <1> QED BY <1>4, <1>5, <1>6

LEMMA ListsSays ==
  ASSUME NEW n, NEW W, Pages(n, W), NEW I \in SUBSET (1..n), NEW ahead, NEW pages,
         Lists(pages, W, I, ahead)
  PROVE  /\ pages \in Seq(PageEntry) /\ IsInjective(pages) /\ ToSet(pages) = ImageOf(W, I)
         /\ (pages = <<>> <=> I = {})
  <1>1. PICK m, e : Numbers(m, I, e) /\ InTurn(m, e, ahead) /\ pages = Mapped(W, e)
    BY DEF Lists
  <1>2. /\ m \in Nat /\ e \in [1..m -> I] /\ (\A x \in I : \E k \in 1..m : e[k] = x)
        /\ \A k, l \in 1..m : e[k] = e[l] => k = l
    BY <1>1 DEF Numbers, IsInjective
  <1>3. /\ W \in [1..n -> PageEntry] /\ \A i, j \in 1..n : W[i] = W[j] => i = j
    BY DEF Pages
  <1>4. /\ pages \in [1..m -> PageEntry] /\ \A k \in 1..m : e[k] \in I /\ pages[k] = W[e[k]]
    <2>1. pages = [k \in 1..m |-> W[e[k]]]
      BY <1>1, <1>2 DEF Mapped
    <2>2. \A k \in 1..m : e[k] \in I /\ W[e[k]] \in PageEntry
      BY <1>2, <1>3
    <2> QED BY <2>1, <2>2
  <1>5. pages \in Seq(PageEntry) /\ DOMAIN pages = 1..m /\ Len(pages) = m
    BY <1>2, <1>4, IsSeq
  <1>6. IsInjective(pages)
    <2> SUFFICES ASSUME NEW k \in 1..m, NEW l \in 1..m, pages[k] = pages[l] PROVE k = l
      BY <1>5 DEF IsInjective
    <2>1. W[e[k]] = W[e[l]] /\ e[k] \in 1..n /\ e[l] \in 1..n
      BY <1>4
    <2> QED BY <1>2, <1>3, <2>1
  <1>7. ToSet(pages) = ImageOf(W, I)
    <2>1. ASSUME NEW x \in ToSet(pages) PROVE x \in ImageOf(W, I)
      <3>1. PICK k \in 1..m : x = pages[k]
        BY <1>5 DEF ToSet
      <3>2. e[k] \in I /\ x = W[e[k]]
        BY <1>4, <3>1
      <3> QED BY <3>2 DEF ImageOf
    <2>2. \A x \in ImageOf(W, I) : x \in ToSet(pages)
      BY <1>2, <1>4, <1>5 DEF ToSet, ImageOf
    <2> QED BY <2>1, <2>2
  <1>8. pages = <<>> <=> I = {}
    <2>1. pages = <<>> <=> m = 0
      BY <1>2, <1>5
    <2>2. m = 0 => I = {}
      BY <1>2
    <2>3. I = {} => m = 0
      <3>1. m # 0 => 1 \in 1..m
        BY <1>2
      <3> QED BY <1>2, <3>1
    <2> QED BY <2>1, <2>2, <2>3
  <1> QED BY <1>5, <1>6, <1>7, <1>8

\* Where two orders agree, they list the same.
LEMMA ListsSame ==
  ASSUME NEW n, NEW A, Linear(1..n, A), NEW I \in SUBSET (1..n), NEW B,
         \A i, j \in I : i \in A[j] <=> i \in B[j],
         NEW W, NEW a, Lists(a, W, I, A), NEW b, Lists(b, W, I, B)
  PROVE  a = b
  <1> DEFINE C == [i \in I |-> {j \in I : j \in A[i]}]
  <1>1. Linear(I, C)
    <2>1. C \in [I -> SUBSET I] /\ \A i, j \in I : i \in C[j] <=> i \in A[j]
      OBVIOUS
    <2>2. \A i, j \in 1..n : i \in A[j] => A[i] \subseteq A[j]
      BY DEF Linear
    <2>3. \A i, j \in I : i \in C[j] => C[i] \subseteq C[j]
      BY <2>2
    <2> HIDE DEF C
    <2> QED BY <2>1, <2>3 DEF Linear
  <1>2. \A i, j \in I : i \in C[j] <=> i \in A[j]
    OBVIOUS
  <1> HIDE DEF C
  <1>3. PICK m, e : Numbers(m, I, e) /\ InTurn(m, e, A) /\ a = Mapped(W, e)
    BY DEF Lists
  <1>4. PICK l, d : Numbers(l, I, d) /\ InTurn(l, d, B) /\ b = Mapped(W, d)
    BY DEF Lists
  <1>5. InTurn(m, e, C)
    <2>1. \A k \in 1..m : e[k] \in I
      BY <1>3 DEF Numbers
    <2> QED BY <1>2, <1>3, <2>1 DEF InTurn
  <1>6. InTurn(l, d, C)
    <2>1. \A k \in 1..l : d[k] \in I
      BY <1>4 DEF Numbers
    <2> QED BY <1>2, <1>4, <2>1 DEF InTurn
  <1>7. d = e
    BY <1>1, <1>3, <1>4, <1>5, <1>6, OneOrder
  <1> QED BY <1>3, <1>4, <1>7

-----------------------------------------------------------------------------
(* What _result_from_rows and rebuild make of rows. *)

RowOrder(t) == InOrder(DOMAIN t, Turn(t))
RowMain(t) == KeptAt(RowOrder(t), {k \in DOMAIN RowOrder(t) : ~t[RowOrder(t)[k]].optional})
RowRest(t) == KeptAt(RowOrder(t), {k \in DOMAIN RowOrder(t) : t[RowOrder(t)[k]].optional})
RowNamed(t) == [k \in DOMAIN RowMain(t) |-> NameIn(t, RowMain(t)[k])]
RowGroups(t) == Grouped(RowMain(t), RowNamed(t))

\* The rows of a section, and the optional ones, among those that are kept.
In(t, keep, name) == {i \in keep : ~t[i].optional /\ NameIn(t, i) = name}
OptIn(t, keep) == {i \in keep : t[i].optional}

Staying(pages, off) == KeptAt(pages, {k \in DOMAIN pages : pages[k].url \notin off})
RowSections(W, t, off) ==
    [k \in DOMAIN RowGroups(t) |->
        Section(RowGroups(t)[k].name, Staying(Mapped(W, RowGroups(t)[k].pages), off))]
RowKept(W, t, off) ==
    KeptAt(RowSections(W, t, off), {k \in DOMAIN RowSections(W, t, off) :
                                       RowSections(W, t, off)[k].pages # <<>>})
RowOptional(W, t, off) == Staying(Mapped(W, RowRest(t)), off)

\* Sections, and optional pages, that are what the rows say.
RowsGive(S, O, W, t, keep) ==
    /\ Fine(S)
    /\ \A s \in ToSet(S) : /\ s.name \in RowNames /\ s.pages # <<>>
                           /\ Lists(s.pages, W, In(t, keep, s.name), Turn(t))
    /\ \A i \in keep : ~t[i].optional => \E s \in ToSet(S) : s.name = NameIn(t, i)
    /\ Lists(O, W, OptIn(t, keep), Turn(t))

\* What is left of a list once the pages that go have gone.
LEMMA StayingLists ==
  ASSUME NEW n, NEW W, Pages(n, W), NEW keep \in SUBSET (1..n), NEW off,
         \A i \in 1..n : W[i].url \notin off <=> i \in keep,
         NEW I \in SUBSET (1..n), NEW m, NEW e, Numbers(m, I, e), NEW ahead, InTurn(m, e, ahead),
         NEW J, J = {i \in I : i \in keep}
  PROVE  Lists(Staying(Mapped(W, e), off), W, J, ahead)
  <1> DEFINE places == {k \in DOMAIN Mapped(W, e) : Mapped(W, e)[k].url \notin off}
  <1>1. m \in Nat /\ e \in [1..m -> I] /\ (\A x \in I : \E k \in 1..m : e[k] = x)
    BY DEF Numbers
  <1>2. e \in Seq(I) /\ Len(e) = m /\ DOMAIN e = 1..m
    BY <1>1, IsSeq
  <1>3. places \subseteq 1..m /\ \A k \in 1..m : k \in places <=> e[k] \in keep
    BY <1>1, <1>2 DEF Mapped
  <1>4. Staying(Mapped(W, e), off) = KeptAt(Mapped(W, e), places)
    BY DEF Staying
  <1> HIDE DEF places
  <1>5. KeptAt(Mapped(W, e), places) = Mapped(W, KeptAt(e, places))
    BY <1>2, <1>3, KeptAtMap
  <1>6. J = {e[k] : k \in places}
    BY <1>1, <1>3
  <1>7. PICK l : Numbers(l, J, KeptAt(e, places)) /\ InTurn(l, KeptAt(e, places), ahead)
    BY <1>3, <1>6, SelectInTurn
  <1> QED BY <1>4, <1>5, <1>7 DEF Lists

LEMMA RowOrderSays ==
  ASSUME NEW n \in Nat, NEW t \in [1..n -> RowRec]
  PROVE  Numbers(n, 1..n, RowOrder(t)) /\ InTurn(n, RowOrder(t), Turn(t))
  <1>1. IsFiniteSet(1..n) /\ Cardinality(1..n) = n
    BY FS_Interval
  <1>2. Linear(1..n, Turn(t))
    BY TurnLinear
  <1>3. /\ Numbers(Cardinality(1..n), 1..n, InOrder(1..n, Turn(t)))
        /\ InTurn(Cardinality(1..n), InOrder(1..n, Turn(t)), Turn(t))
    BY <1>1, <1>2, InOrderSays
  <1>4. RowOrder(t) = InOrder(1..n, Turn(t))
    BY DEF RowOrder
  <1> QED BY <1>1, <1>3, <1>4

LEMMA NameInIs ==
  ASSUME NEW n \in Nat, NEW t \in [1..n -> RowRec], NEW i \in 1..n
  PROVE  NameIn(t, i) \in RowNames
  <1>1. "Pages" \in RowNames
    BY NamesAssumption DEF RowNames
  <1> QED BY <1>1 DEF NameIn, RowRec

\* The rows in their groups.
LEMMA RowGroupsSay ==
  ASSUME NEW n \in Nat, NEW t \in [1..n -> RowRec]
  PROVE  LET g == RowGroups(t)
         IN  /\ \E m \in Nat : DOMAIN g = 1..m
             /\ \A k, l \in DOMAIN g : g[k].name = g[l].name => k = l
             /\ \A k \in DOMAIN g :
                   /\ g[k].name \in RowNames
                   /\ \E m : /\ Numbers(m, In(t, 1..n, g[k].name), g[k].pages)
                             /\ InTurn(m, g[k].pages, Turn(t))
             /\ \A i \in 1..n : ~t[i].optional => \E k \in DOMAIN g : g[k].name = NameIn(t, i)
             /\ \E m : Numbers(m, OptIn(t, 1..n), RowRest(t)) /\ InTurn(m, RowRest(t), Turn(t))
  <1> DEFINE o == RowOrder(t)
             A == {k \in DOMAIN o : ~t[o[k]].optional}
             B == {k \in DOMAIN o : t[o[k]].optional}
             I == {i \in 1..n : ~t[i].optional}
             main == RowMain(t)
             named == RowNamed(t)
             g == RowGroups(t)
  <1>1. Numbers(n, 1..n, o) /\ InTurn(n, o, Turn(t))
    BY RowOrderSays
  <1>2. main = KeptAt(o, A) /\ RowRest(t) = KeptAt(o, B)
    BY DEF RowMain, RowRest
  <1> HIDE DEF o, main
  <1>3. o \in [1..n -> 1..n] /\ \A i \in 1..n : \E k \in 1..n : o[k] = i
    BY <1>1 DEF Numbers
  <1>4. A \subseteq 1..n /\ B \subseteq 1..n /\ I = {o[k] : k \in A}
        /\ OptIn(t, 1..n) = {o[k] : k \in B}
    BY <1>3 DEF OptIn
  <1> HIDE DEF A, B
  <1>5. PICK l : Numbers(l, I, main) /\ InTurn(l, main, Turn(t)) /\ main \in Seq(I)
    <2> HIDE DEF I
    <2>1. \E l : Numbers(l, I, KeptAt(o, A)) /\ InTurn(l, KeptAt(o, A), Turn(t))
                 /\ KeptAt(o, A) \in Seq(I)
      BY <1>1, <1>4, SelectInTurn
    <2> QED BY <1>2, <2>1
  <1>6. \E m : Numbers(m, OptIn(t, 1..n), RowRest(t)) /\ InTurn(m, RowRest(t), Turn(t))
    <2>1. \E m : Numbers(m, OptIn(t, 1..n), KeptAt(o, B)) /\ InTurn(m, KeptAt(o, B), Turn(t))
      BY <1>1, <1>4, SelectInTurn
    <2> QED BY <1>2, <2>1
  <1>7. l \in Nat /\ main \in [1..l -> I] /\ DOMAIN main = 1..l /\ Len(main) = l
        /\ \A i \in I : \E k \in 1..l : main[k] = i
    <2>1. l \in Nat /\ main \in [1..l -> I] /\ \A i \in I : \E k \in 1..l : main[k] = i
      BY <1>5 DEF Numbers
    <2> QED BY <2>1, IsSeq
  <1>8. /\ named \in Seq(RowNames) /\ Len(named) = l /\ DOMAIN named = 1..l
        /\ \A k \in 1..l : named[k] = NameIn(t, main[k])
    <2>1. DOMAIN named = 1..l /\ named = [k \in 1..l |-> named[k]]
          /\ \A k \in 1..l : named[k] = NameIn(t, main[k])
      BY <1>7 DEF RowNamed, main
    <2> HIDE DEF named
    <2>2. \A k \in 1..l : NameIn(t, main[k]) \in RowNames
      BY <1>7, NameInIs
    <2>3. named \in [1..l -> RowNames]
      BY <2>1, <2>2
    <2> QED BY <1>7, <2>1, <2>3, IsSeq
  <1>9. g = Grouped(main, named)
    BY DEF RowGroups, main
  <1> HIDE DEF named, g
  <1>10. GroupsOf(g, I, RowNames, main, named)
    <2> HIDE DEF I
    <2> QED BY <1>5, <1>7, <1>8, <1>9, GroupedSays
  <1>11. PICK m \in Nat : DOMAIN g = 1..m
    <2>1. g \in Seq([name : RowNames, pages : Seq(I)])
      BY <1>10 DEF GroupsOf
    <2> QED BY <2>1, SeqIs
  <1>12. \A k \in DOMAIN g : g[k].name \in RowNames
    <2> SUFFICES ASSUME NEW k \in DOMAIN g PROVE g[k].name \in RowNames
      OBVIOUS
    <2> DEFINE R == [name : RowNames, pages : Seq(I)]
    <2>1. g \in Seq(R)
      BY <1>10 DEF GroupsOf
    <2>2. R = [name : RowNames, pages : Seq(I)]
      OBVIOUS
    <2> HIDE DEF R
    <2>3. DOMAIN g = 1..Len(g) /\ \A j \in 1..Len(g) : g[j] \in R
      BY <2>1, SeqIs
    <2>4. g[k] \in R
      BY <2>3
    <2> QED BY <2>2, <2>4
  <1>13. ASSUME NEW k \in DOMAIN g
         PROVE  \E j : Numbers(j, In(t, 1..n, g[k].name), g[k].pages) /\ InTurn(j, g[k].pages, Turn(t))
    <2> DEFINE places == NamedSo(named, g[k].name)
               J == In(t, 1..n, g[k].name)
    <2>1. g[k].pages = KeptAt(main, places)
      BY <1>10, <1>13 DEF GroupsOf
    <2>2. places \subseteq 1..l /\ \A j \in 1..l : j \in places <=> named[j] = g[k].name
      BY <1>8 DEF NamedSo
    <2> HIDE DEF places
    <2>3. J = {main[j] : j \in places}
      <3>1. ASSUME NEW i \in J PROVE i \in {main[j] : j \in places}
        <4>1. i \in I /\ NameIn(t, i) = g[k].name
          BY DEF In
        <4>2. PICK j \in 1..l : main[j] = i
          BY <1>7, <4>1
        <4> QED BY <1>8, <2>2, <4>1, <4>2
      <3>2. ASSUME NEW j \in places PROVE main[j] \in J
        <4>1. j \in 1..l /\ named[j] = g[k].name /\ main[j] \in I
          BY <1>7, <2>2
        <4> QED BY <1>8, <4>1 DEF In
      <3> QED BY <3>1, <3>2
    <2> HIDE DEF J, I
    <2>4. \E j : Numbers(j, J, KeptAt(main, places)) /\ InTurn(j, KeptAt(main, places), Turn(t))
      BY <1>5, <2>2, <2>3, SelectInTurn
    <2> QED BY <2>1, <2>4 DEF J
  <1>14. \A i \in 1..n : ~t[i].optional => \E k \in DOMAIN g : g[k].name = NameIn(t, i)
    <2> SUFFICES ASSUME NEW i \in 1..n, ~t[i].optional PROVE \E k \in DOMAIN g : g[k].name = NameIn(t, i)
      OBVIOUS
    <2>1. PICK j \in 1..l : main[j] = i
      BY <1>7
    <2>2. PICK k \in DOMAIN g : g[k].name = named[j]
      BY <1>8, <1>10 DEF GroupsOf
    <2> QED BY <1>8, <2>1, <2>2
  <1>15. \A k, j \in DOMAIN g : g[k].name = g[j].name => k = j
    BY <1>10 DEF GroupsOf
  <1> QED BY <1>6, <1>11, <1>12, <1>13, <1>14, <1>15 DEF g

\* The sections of the rows that are kept are what these rows say.
LEMMA RowsGiveSections ==
  ASSUME NEW n, NEW W, Pages(n, W), NEW t \in [1..n -> RowRec], NEW keep \in SUBSET (1..n),
         NEW off, \A i \in 1..n : W[i].url \notin off <=> i \in keep
  PROVE  RowsGive(RowKept(W, t, off), RowOptional(W, t, off), W, t, keep)
  <1> DEFINE g == RowGroups(t)
             S1 == RowSections(W, t, off)
             filled == {k \in DOMAIN S1 : S1[k].pages # <<>>}
             K == RowKept(W, t, off)
             O == RowOptional(W, t, off)
  <1>1. n \in Nat
    BY DEF Pages
  <1>2. /\ \E m \in Nat : DOMAIN g = 1..m
        /\ \A k, l \in DOMAIN g : g[k].name = g[l].name => k = l
        /\ \A k \in DOMAIN g :
              /\ g[k].name \in RowNames
              /\ \E m : /\ Numbers(m, In(t, 1..n, g[k].name), g[k].pages)
                        /\ InTurn(m, g[k].pages, Turn(t))
        /\ \A i \in 1..n : ~t[i].optional => \E k \in DOMAIN g : g[k].name = NameIn(t, i)
        /\ \E m : Numbers(m, OptIn(t, 1..n), RowRest(t)) /\ InTurn(m, RowRest(t), Turn(t))
    BY <1>1, RowGroupsSay
  <1>3. PICK m \in Nat : DOMAIN g = 1..m
    BY <1>2
  <1>4. DOMAIN S1 = 1..m /\ S1 = [k \in 1..m |-> S1[k]]
        /\ \A k \in 1..m : S1[k] = Section(g[k].name, Staying(Mapped(W, g[k].pages), off))
    BY <1>3 DEF RowSections
  <1>5. K = KeptAt(S1, filled) /\ filled \subseteq 1..m
    BY <1>4 DEF RowKept
  <1> HIDE DEF g, S1, K
  <1>6. \A k \in 1..m : /\ S1[k].name = g[k].name /\ g[k].name \in RowNames
                        /\ S1[k] = Section(g[k].name, S1[k].pages)
                        /\ Lists(S1[k].pages, W, In(t, keep, g[k].name), Turn(t))
    <2> SUFFICES ASSUME NEW k \in 1..m
                 PROVE  /\ S1[k].name = g[k].name /\ g[k].name \in RowNames
                        /\ S1[k] = Section(g[k].name, S1[k].pages)
                        /\ Lists(S1[k].pages, W, In(t, keep, g[k].name), Turn(t))
      OBVIOUS
    <2>1. PICK j : /\ Numbers(j, In(t, 1..n, g[k].name), g[k].pages)
                   /\ InTurn(j, g[k].pages, Turn(t))
      BY <1>2, <1>3
    <2>2. In(t, 1..n, g[k].name) \in SUBSET (1..n)
          /\ In(t, keep, g[k].name) = {i \in In(t, 1..n, g[k].name) : i \in keep}
      BY DEF In
    <2>3. Lists(Staying(Mapped(W, g[k].pages), off), W, In(t, keep, g[k].name), Turn(t))
      BY <2>1, <2>2, StayingLists
    <2>4. S1[k].name = g[k].name /\ S1[k].pages = Staying(Mapped(W, g[k].pages), off)
          /\ S1[k] = Section(g[k].name, S1[k].pages)
      BY <1>4 DEF Section
    <2> QED BY <1>2, <1>3, <2>3, <2>4
  <1>7. \A k \in 1..m : In(t, keep, g[k].name) \in SUBSET (1..n)
    BY DEF In
  <1>8. \A k \in 1..m : /\ S1[k].pages \in Seq(PageEntry) /\ IsInjective(S1[k].pages)
                        /\ ToSet(S1[k].pages) = ImageOf(W, In(t, keep, g[k].name))
                        /\ (S1[k].pages = <<>> <=> In(t, keep, g[k].name) = {})
    <2> SUFFICES ASSUME NEW k \in 1..m
                 PROVE  /\ S1[k].pages \in Seq(PageEntry) /\ IsInjective(S1[k].pages)
                        /\ ToSet(S1[k].pages) = ImageOf(W, In(t, keep, g[k].name))
                        /\ (S1[k].pages = <<>> <=> In(t, keep, g[k].name) = {})
      OBVIOUS
    <2>1. Lists(S1[k].pages, W, In(t, keep, g[k].name), Turn(t))
          /\ In(t, keep, g[k].name) \in SUBSET (1..n)
      BY <1>6, <1>7
    <2> QED BY <2>1, ListsSays
  <1>9. Sections(m, S1)
    <2>1. S1 \in [1..m -> SectionRec]
      <3>1. ASSUME NEW k \in 1..m PROVE S1[k] \in SectionRec
        <4>1. /\ g[k].name \in SectionNames /\ S1[k].pages \in Seq(PageEntry)
              /\ S1[k] = Section(g[k].name, S1[k].pages)
          BY <1>6, <1>8 DEF RowNames
        <4>2. Section(g[k].name, S1[k].pages) \in SectionRec
          BY <4>1 DEF Section, SectionRec
        <4> QED BY <4>1, <4>2
      <3> QED BY <1>4, <3>1
    <2>2. \A k, l \in 1..m : S1[k].name = S1[l].name => k = l
      BY <1>2, <1>3, <1>6
    <2>3. ASSUME NEW k \in 1..m, NEW l \in 1..m, k # l
          PROVE  ToSet(S1[k].pages) \cap ToSet(S1[l].pages) = {}
      <3> SUFFICES ASSUME NEW x, x \in ToSet(S1[k].pages), x \in ToSet(S1[l].pages) PROVE FALSE
        OBVIOUS
      <3>1. x \in ImageOf(W, In(t, keep, g[k].name)) /\ x \in ImageOf(W, In(t, keep, g[l].name))
        BY <1>8
      <3>2. PICK i \in In(t, keep, g[k].name) : x = W[i]
        BY <3>1 DEF ImageOf
      <3>3. PICK j \in In(t, keep, g[l].name) : x = W[j]
        BY <3>1 DEF ImageOf
      <3>4. i \in 1..n /\ j \in 1..n /\ NameIn(t, i) = g[k].name /\ NameIn(t, j) = g[l].name
        BY DEF In
      <3>5. i = j
        BY <3>2, <3>3, <3>4 DEF Pages
      <3> QED BY <1>2, <1>3, <2>3, <3>4, <3>5
    <2> QED BY <1>8, <2>1, <2>2, <2>3 DEF Sections
  <1>10. Fine(S1)
    BY <1>9, SectionsFine
  <1> HIDE DEF filled
  <1>11. Fine(K) /\ ToSet(K) = {S1[k] : k \in filled}
    BY <1>4, <1>5, <1>10, FinePart
  <1>12. \A s \in ToSet(K) : /\ s.name \in RowNames /\ s.pages # <<>>
                             /\ Lists(s.pages, W, In(t, keep, s.name), Turn(t))
    <2> SUFFICES ASSUME NEW s \in ToSet(K)
                 PROVE  /\ s.name \in RowNames /\ s.pages # <<>>
                        /\ Lists(s.pages, W, In(t, keep, s.name), Turn(t))
      OBVIOUS
    <2>1. PICK k \in filled : s = S1[k]
      BY <1>11
    <2>2. k \in 1..m /\ S1[k].pages # <<>>
      BY <1>4, <1>5 DEF filled
    <2> QED BY <1>6, <2>1, <2>2
  <1>13. \A i \in keep : ~t[i].optional => \E s \in ToSet(K) : s.name = NameIn(t, i)
    <2> SUFFICES ASSUME NEW i \in keep, ~t[i].optional PROVE \E s \in ToSet(K) : s.name = NameIn(t, i)
      OBVIOUS
    <2>1. PICK k \in 1..m : g[k].name = NameIn(t, i)
      BY <1>2, <1>3
    <2>2. i \in In(t, keep, g[k].name)
      BY <2>1 DEF In
    <2>3. S1[k].pages # <<>>
      BY <1>8, <2>2
    <2>4. k \in filled
      BY <1>4, <2>3 DEF filled
    <2> QED BY <1>6, <1>11, <2>1, <2>4
  <1>14. Lists(O, W, OptIn(t, keep), Turn(t))
    <2>1. PICK j : Numbers(j, OptIn(t, 1..n), RowRest(t)) /\ InTurn(j, RowRest(t), Turn(t))
      BY <1>2
    <2>2. OptIn(t, 1..n) \in SUBSET (1..n) /\ OptIn(t, keep) = {i \in OptIn(t, 1..n) : i \in keep}
      BY DEF OptIn
    <2> QED BY <2>1, <2>2, StayingLists DEF RowOptional
  <1> QED BY <1>11, <1>12, <1>13, <1>14 DEF RowsGive, K

-----------------------------------------------------------------------------
(* Types. *)

TypeInv ==
    /\ stage \in {"crawled", "triaged", "written", "complete"}
    /\ pattern \in DOMAIN Templates /\ wantsFull \in BOOLEAN
    /\ Unmixed(entries)
    /\ \A i \in DOMAIN entries : SectionOfUrl(entries[i].url) \in SectionNames
    /\ rows \in [1..Len(entries) -> RowRec]
    /\ file.name \in Text /\ file.summary \in Text /\ file.index \in Seq(IndexLine)
    /\ edits.count \in Nat /\ (stage # "complete" => edits.count = 0)

\* Pages with other contents at the same addresses.
LEMMA Reentered ==
  ASSUME NEW E, Unmixed(E), \A i \in DOMAIN E : SectionOfUrl(E[i].url) \in SectionNames,
         NEW F, F = [i \in DOMAIN E |-> F[i]],
         \A i \in DOMAIN E : F[i] \in PageEntry /\ F[i].url = E[i].url
  PROVE  /\ Unmixed(F) /\ Len(F) = Len(E) /\ DOMAIN F = DOMAIN E
         /\ \A i \in DOMAIN F : SectionOfUrl(F[i].url) \in SectionNames
  <1>1. E \in Seq(PageEntry) /\ \A i, j \in DOMAIN E : E[i].url = E[j].url => i = j
    BY DEF Unmixed
  <1>2. Len(E) \in Nat /\ DOMAIN E = 1..Len(E)
    BY <1>1, SeqIs
  <1>3. F \in [1..Len(E) -> PageEntry]
    BY <1>2
  <1>4. F \in Seq(PageEntry) /\ Len(F) = Len(E) /\ DOMAIN F = 1..Len(E)
    BY <1>2, <1>3, IsSeq
  <1> QED BY <1>1, <1>2, <1>4 DEF Unmixed

LEMMA EntryIs ==
  ASSUME Unmixed(entries), NEW i \in DOMAIN entries
  PROVE  entries[i] \in PageEntry
  <1>1. entries \in Seq(PageEntry)
    BY DEF Unmixed
  <1> QED BY <1>1, SeqIs

LEMMA InitTypes == Init => TypeInv
  <1> SUFFICES ASSUME Init PROVE TypeInv
    OBVIOUS
  <1>1. /\ stage = "crawled" /\ pattern \in DOMAIN Templates /\ wantsFull \in FullAsked
        /\ file = NoFile /\ edits = Untouched
        /\ rows = [i \in DOMAIN entries |-> Stored(entries[i])]
    BY DEF Init
  <1>2. wantsFull \in BOOLEAN
    BY <1>1, WritingAssumption
  <1>3. PICK pages \in Inventories :
            entries = [i \in DOMAIN pages |-> [pages[i] EXCEPT !.optional = LooksOptional(pages[i])]]
    BY DEF Init
  <1>4. /\ pages \in Seq(PageEntry) /\ IsInjective([i \in DOMAIN pages |-> pages[i].url])
        /\ \A i \in DOMAIN pages : pages[i].section = Unset
        /\ \A i \in DOMAIN pages : SectionOfUrl(pages[i].url) \in SectionNames
    BY InventoryAssumption, NamesAssumption
  <1>5. Len(pages) \in Nat /\ DOMAIN pages = 1..Len(pages) /\ \A i \in 1..Len(pages) : pages[i] \in PageEntry
    BY <1>4, SeqIs
  <1>6. \A i, j \in DOMAIN pages : pages[i].url = pages[j].url => i = j
    BY <1>4 DEF IsInjective
  <1>7. Unmixed(pages)
    BY <1>4, <1>6 DEF Unmixed
  <1>8. /\ entries = [i \in DOMAIN pages |-> entries[i]]
        /\ \A i \in DOMAIN pages : /\ entries[i] = [pages[i] EXCEPT !.optional = LooksOptional(pages[i])]
    BY <1>3
  <1>9. \A i \in DOMAIN pages : /\ entries[i] \in PageEntry /\ entries[i].url = pages[i].url
                                /\ entries[i].section = Unset
    <2> SUFFICES ASSUME NEW i \in DOMAIN pages
                 PROVE  /\ entries[i] \in PageEntry /\ entries[i].url = pages[i].url
                        /\ entries[i].section = Unset
      OBVIOUS
    <2>1. pages[i] \in PageEntry /\ pages[i].section = Unset
      BY <1>4, <1>5
    <2>2. LooksOptional(pages[i]) \in BOOLEAN
      BY DEF LooksOptional
    <2> QED BY <1>8, <2>1, <2>2 DEF PageEntry
  <1>10. /\ Unmixed(entries) /\ Len(entries) = Len(pages) /\ DOMAIN entries = DOMAIN pages
         /\ \A i \in DOMAIN entries : SectionOfUrl(entries[i].url) \in SectionNames
    BY <1>4, <1>7, <1>8, <1>9, Reentered
  <1>11. \A i \in DOMAIN entries : Stored(entries[i]) \in RowRec
    BY <1>9, <1>10 DEF PageEntry, Stored, RowRec
  <1>12. rows \in [1..Len(entries) -> RowRec]
    BY <1>1, <1>5, <1>10, <1>11
  <1>13. <<>> \in Text /\ <<>> \in Seq(IndexLine)
    BY DEF Text
  <1> QED BY <1>1, <1>2, <1>10, <1>12, <1>13 DEF TypeInv, NoFile, Untouched

LEMMA TriageTypes == TypeInv /\ Triage => TypeInv'
  <1> SUFFICES ASSUME TypeInv, Triage PROVE TypeInv'
    OBVIOUS
  <1>1. /\ stage' = "triaged" /\ stage = "crawled" /\ UNCHANGED <<pattern, wantsFull, rows, file, edits>>
    BY DEF Triage
  <1>2. PICK answer \in Placements :
          entries' = [i \in DOMAIN entries |->
              IF answer[i] = NoAnswer THEN entries[i]
              ELSE [entries[i] EXCEPT
                       !.section = answer[i].section,
                       !.optional = answer[i].optional /\ ~IsIdentity(entries[i])]]
    BY DEF Triage
  <1>3. Unmixed(entries) /\ pattern \in DOMAIN Templates
        /\ \A i \in DOMAIN entries : SectionOfUrl(entries[i].url) \in SectionNames
    BY DEF TypeInv
  <1>4. ToSet(TemplateOrder(pattern)) \subseteq SectionNames
    <2>1. TemplateOrder(pattern) \in Seq(SectionNames)
      BY <1>3, NamesAssumption DEF TemplateOrder
    <2> QED BY <2>1, SeqIs
  <1>5. \A i \in DOMAIN entries : entries'[i] \in PageEntry /\ entries'[i].url = entries[i].url
    <2> SUFFICES ASSUME NEW i \in DOMAIN entries
                 PROVE  entries'[i] \in PageEntry /\ entries'[i].url = entries[i].url
      OBVIOUS
    <2>1. entries[i] \in PageEntry
      BY <1>3, EntryIs
    <2>2. CASE answer[i] = NoAnswer
      BY <1>2, <2>1, <2>2
    <2>3. CASE answer[i] # NoAnswer
      <3>1. answer[i] \in Answers
        BY <2>3 DEF Placements
      <3>2. answer[i].section \in SectionNames /\ answer[i].optional \in BOOLEAN
        BY <1>4, <3>1 DEF Answers
      <3> DEFINE o == answer[i].optional /\ ~IsIdentity(entries[i])
      <3>3. o \in BOOLEAN
        OBVIOUS
      <3>4. entries'[i] = [entries[i] EXCEPT !.section = answer[i].section, !.optional = o]
        BY <1>2, <2>3
      <3> HIDE DEF o
      <3> QED BY <2>1, <3>2, <3>3, <3>4 DEF PageEntry
    <2> QED BY <2>2, <2>3
  <1>6. entries' = [i \in DOMAIN entries |-> entries'[i]]
    BY <1>2
  <1>7. /\ Unmixed(entries') /\ Len(entries') = Len(entries) /\ DOMAIN entries' = DOMAIN entries
        /\ \A i \in DOMAIN entries' : SectionOfUrl(entries'[i].url) \in SectionNames
    BY <1>3, <1>5, <1>6, Reentered
  <1> QED BY <1>1, <1>7 DEF TypeInv

\* A text with another behind it.
LEMMA CatText ==
  ASSUME NEW a \in Text, NEW b \in Text
  PROVE  a \o b \in Text
  <1>1. Cat(a, b) \in Seq(STRING)
    BY CatOf DEF Text
  <1> QED BY <1>1, Zenon DEF Cat, Text

LEMMA RewrittenSays ==
  ASSUME NEW E, Unmixed(E), \A i \in DOMAIN E : SectionOfUrl(E[i].url) \in SectionNames,
         NEW which, NEW copy \in Copies
  PROVE  LET F == Rewritten(E, which, copy)
         IN  /\ Unmixed(F) /\ Len(F) = Len(E) /\ DOMAIN F = DOMAIN E
             /\ \A i \in DOMAIN F : SectionOfUrl(F[i].url) \in SectionNames
  <1> DEFINE F == Rewritten(E, which, copy)
             d(i) == copy.description \o E[i].url.path
  <1>1. copy.title \in Text /\ copy.description \in Text
    BY WritingAssumption
  <1>2. \A i \in DOMAIN E : E[i] \in PageEntry
    <2>1. E \in Seq(PageEntry)
      BY DEF Unmixed
    <2> QED BY <2>1, SeqIs
  <1>3. F = [i \in DOMAIN E |-> F[i]]
    BY DEF Rewritten
  <1>4. \A i \in DOMAIN E :
            F[i] = IF i \notin which THEN E[i]
                   ELSE [E[i] EXCEPT !.title = IF copy.title # <<>> THEN copy.title ELSE E[i].title,
                                     !.description = IF copy.description # <<>> THEN d(i)
                                                     ELSE E[i].description]
    BY Zenon DEF Rewritten
  <1>5. \A i \in DOMAIN E : d(i) \in Text
    <2> SUFFICES ASSUME NEW i \in DOMAIN E PROVE d(i) \in Text
      OBVIOUS
    <2>1. E[i].url.path \in Text
      BY <1>2 DEF PageEntry, Address
    <2> QED BY <1>1, <2>1, CatText
  <1> HIDE DEF F, d
  <1>6. \A i \in DOMAIN E : F[i] \in PageEntry /\ F[i].url = E[i].url
    <2> SUFFICES ASSUME NEW i \in DOMAIN E PROVE F[i] \in PageEntry /\ F[i].url = E[i].url
      OBVIOUS
    <2>1. PICK title : title = IF copy.title # <<>> THEN copy.title ELSE E[i].title
      OBVIOUS
    <2>2. PICK text : text = IF copy.description # <<>> THEN d(i) ELSE E[i].description
      OBVIOUS
    <2>3. E[i] \in PageEntry /\ title \in Text /\ text \in Text
      BY <1>1, <1>2, <1>5, <2>1, <2>2 DEF PageEntry
    <2>4. F[i] = IF i \notin which THEN E[i] ELSE [E[i] EXCEPT !.title = title, !.description = text]
      BY <1>4, <2>1, <2>2, Zenon
    <2> QED BY <2>3, <2>4 DEF PageEntry
  <1> QED BY <1>3, <1>6, Reentered DEF F

LEMMA SummariseTypes == TypeInv /\ Summarise => TypeInv'
  <1> SUFFICES ASSUME TypeInv, Summarise PROVE TypeInv'
    OBVIOUS
  <1>1. /\ stage' = "written" /\ stage = "triaged" /\ UNCHANGED <<pattern, wantsFull, rows, file, edits>>
    BY DEF Summarise
  <1>2. PICK written, again \in {{}, DOMAIN entries}, first, second \in Copies :
            entries' = Enforced(Rewritten(entries, written, first), again, second)
    BY DEF Summarise
  <1>3. Unmixed(entries) /\ \A i \in DOMAIN entries : SectionOfUrl(entries[i].url) \in SectionNames
    BY DEF TypeInv
  <1> DEFINE F == Rewritten(entries, written, first)
  <1>4. /\ Unmixed(F) /\ Len(F) = Len(entries) /\ DOMAIN F = DOMAIN entries
        /\ \A i \in DOMAIN F : SectionOfUrl(F[i].url) \in SectionNames
    BY <1>3, RewrittenSays
  <1>5. entries' = Rewritten(F, Faulty(F) \cap again, second)
    BY <1>2, Zenon DEF Enforced
  <1> HIDE DEF F
  <1>6. /\ Unmixed(entries') /\ Len(entries') = Len(F) /\ DOMAIN entries' = DOMAIN F
        /\ \A i \in DOMAIN entries' : SectionOfUrl(entries'[i].url) \in SectionNames
    BY <1>4, <1>5, RewrittenSays
  <1> QED BY <1>1, <1>4, <1>6 DEF TypeInv

-----------------------------------------------------------------------------
(* What is built, and what its index lists. *)

UrlsOf(X) == {x.url : x \in X}

LinksIn(index) == KeptAt(index, {i \in DOMAIN index : index[i].kind = "link"})

\* The links of an index that bears each page of a set once.
LEMMA LinksAre ==
  ASSUME NEW index \in Seq(IndexLine), NEW Y \in SUBSET PageEntry, Apart(Y),
         Bears(index, LinkLines, LinkSet(Y))
  PROVE  /\ Urls(LinksIn(index)) = UrlsOf(Y)
         /\ Len(LinksIn(index)) = Cardinality(Urls(LinksIn(index)))
  <1> DEFINE places == {i \in DOMAIN index : index[i] \in LinkLines}
             L == LinksIn(index)
  <1>1. \A i \in DOMAIN index : index[i] \in LinkLines <=> index[i].kind = "link"
    <2>1. \A i \in DOMAIN index : index[i] \in IndexLine
      BY SeqIs
    <2> QED BY <2>1 DEF LinkLines
  <1>2. L = KeptAt(index, places)
    <2>1. {i \in DOMAIN index : index[i].kind = "link"} = places
      BY <1>1
    <2> QED BY <2>1 DEF LinksIn
  <1> HIDE DEF L
  <1>3. L \in Seq(IndexLine) /\ ToSet(L) = LinkSet(Y) /\ IsInjective(L)
    <2>1. /\ KeptAt(index, places) \in Seq(IndexLine) /\ ToSet(KeptAt(index, places)) = LinkSet(Y)
          /\ IsInjective(KeptAt(index, places))
      BY TakenOut
    <2> HIDE DEF places
    <2> QED BY <1>2, <2>1
  <1>4. Len(L) \in Nat /\ DOMAIN L = 1..Len(L) /\ \A i \in 1..Len(L) : L[i] \in ToSet(L)
    BY <1>3, SeqIs
  <1>5. \A i \in 1..Len(L) : \E x \in Y : L[i] = Link(x) /\ L[i].url = x.url
    <2> SUFFICES ASSUME NEW i \in 1..Len(L) PROVE \E x \in Y : L[i] = Link(x) /\ L[i].url = x.url
      OBVIOUS
    <2>1. L[i] \in LinkSet(Y)
      BY <1>3, <1>4
    <2>2. PICK x \in Y : L[i] = Link(x)
      BY <2>1 DEF LinkSet
    <2> QED BY <2>2, LinkIs
  <1>6. \A x \in Y : \E i \in 1..Len(L) : L[i] = Link(x) /\ L[i].url = x.url
    <2> SUFFICES ASSUME NEW x \in Y PROVE \E i \in 1..Len(L) : L[i] = Link(x) /\ L[i].url = x.url
      OBVIOUS
    <2>1. Link(x) \in ToSet(L)
      BY <1>3 DEF LinkSet
    <2>2. PICK i \in 1..Len(L) : L[i] = Link(x)
      BY <1>4, <2>1 DEF ToSet
    <2> QED BY <2>2, LinkIs
  <1>7. Urls(L) = UrlsOf(Y)
    <2>1. ASSUME NEW u \in Urls(L) PROVE u \in UrlsOf(Y)
      <3>1. PICK i \in 1..Len(L) : u = L[i].url
        BY <1>4, <2>1 DEF Urls
      <3> QED BY <1>5, <3>1 DEF UrlsOf
    <2>2. ASSUME NEW u \in UrlsOf(Y) PROVE u \in Urls(L)
      <3>1. PICK x \in Y : u = x.url
        BY <2>2 DEF UrlsOf
      <3> QED BY <1>4, <1>6, <3>1 DEF Urls
    <2> QED BY <2>1, <2>2
  <1>8. Numbers(Len(L), Urls(L), [i \in 1..Len(L) |-> L[i].url])
    <2> DEFINE u == [i \in 1..Len(L) |-> L[i].url]
    <2>1. u \in [1..Len(L) -> Urls(L)]
      BY <1>4 DEF Urls
    <2>2. \A x \in Urls(L) : \E k \in 1..Len(L) : u[k] = x
      BY <1>4 DEF Urls
    <2>3. ASSUME NEW i \in 1..Len(L), NEW j \in 1..Len(L), u[i] = u[j] PROVE i = j
      <3>1. PICK x \in Y : L[i] = Link(x) /\ L[i].url = x.url
        BY <1>5
      <3>2. PICK y \in Y : L[j] = Link(y) /\ L[j].url = y.url
        BY <1>5
      <3>3. L[i] = L[j]
        BY <2>3, <3>1, <3>2 DEF Apart
      <3> QED BY <1>3, <1>4, <3>3 DEF IsInjective
    <2>4. IsInjective(u)
      BY <2>1, <2>3 DEF IsInjective
    <2> QED BY <1>4, <2>1, <2>2, <2>4 DEF Numbers
  <1>9. Cardinality(Urls(L)) = Len(L)
    BY <1>8, NumbersCount
  <1> QED BY <1>7, <1>9 DEF L

\* What the order of sections keeps.
LEMMA OrderedHolds ==
  ASSUME NEW S, NEW O, NEW X, Well(S, O, X), NEW p \in DOMAIN Templates
  PROVE  /\ Well(Ordered(S, p), O, ShownPages(S) \cup ToSet(O))
         /\ ShownPages(Ordered(S, p)) = ShownPages(S) /\ ShownPages(S) \subseteq X
         /\ \A s \in ToSet(Ordered(S, p)) : s \in ToSet(S) /\ s.name # "Optional"
  <1> DEFINE D == Ordered(S, p)
  <1>1. /\ Fine(S) /\ O \in Seq(PageEntry) /\ IsInjective(O)
        /\ Held(ToSet(S)) \cap ToSet(O) = {} /\ Held(ToSet(S)) \cup ToSet(O) = X
    BY DEF Well
  <1>2. Fine(D) /\ ToSet(D) = {s \in ToSet(S) : Shows(s)}
    BY <1>1, OrderedSays
  <1> HIDE DEF D
  <1>3. Held(ToSet(D)) = ShownPages(S)
    BY <1>2 DEF ShownPages
  <1>4. ShownPages(D) = ShownPages(S)
    <2>1. {s \in ToSet(D) : Shows(s)} = {s \in ToSet(S) : Shows(s)}
      BY <1>2
    <2> QED BY <2>1 DEF ShownPages
  <1>5. ShownPages(S) \subseteq Held(ToSet(S))
    BY DEF ShownPages, Held
  <1>6. Well(D, O, ShownPages(S) \cup ToSet(O))
    BY <1>1, <1>2, <1>3, <1>5 DEF Well
  <1>7. \A s \in ToSet(D) : s \in ToSet(S) /\ s.name # "Optional"
    BY <1>2 DEF Shows
  <1> QED BY <1>1, <1>4, <1>5, <1>6, <1>7 DEF D

LEMMA WellPages ==
  ASSUME NEW S, NEW O, NEW X, Well(S, O, X)
  PROVE  X \in SUBSET PageEntry
  <1> SUFFICES ASSUME NEW x \in X PROVE x \in PageEntry
    OBVIOUS
  <1>1. CASE x \in ToSet(O)
    <2>1. O \in Seq(PageEntry)
      BY DEF Well
    <2> QED BY <1>1, <2>1, SeqIs
  <1>2. CASE x \in Held(ToSet(S))
    <2>1. PICK s \in ToSet(S) : x \in ToSet(s.pages)
      BY <1>2 DEF Held
    <2>2. s.pages \in Seq(PageEntry)
      BY DEF Well, Fine, FineSet, SectionRec
    <2> QED BY <2>1, <2>2, SeqIs
  <1> QED BY <1>1, <1>2 DEF Well

BuiltOf(b, name, summary, S, O, p) ==
    LET Y == ShownPages(S) \cup ToSet(O)
    IN  /\ b.name = name /\ b.summary = summary
        /\ b.sections = Ordered(S, p) /\ b.optional = O
        /\ b.index \in Seq(IndexLine)
        /\ Urls(LinksIn(b.index)) = UrlsOf(Y)
        /\ Len(LinksIn(b.index)) = Cardinality(Urls(LinksIn(b.index)))
        /\ Well(b.sections, b.optional, Y) /\ Apart(Y)
        /\ \A s \in ToSet(b.sections) : s \in ToSet(S) /\ s.name # "Optional"

\* What build_result makes of sections that hold each page once.
LEMMA BuiltSays ==
  ASSUME NEW S, NEW O, NEW X, Well(S, O, X), Apart(X), NEW p \in DOMAIN Templates,
         NEW name \in Text, NEW summary \in Text, NEW withFull, NEW judged
  PROVE  BuiltOf(Built(name, summary, S, O, p, withFull, judged), name, summary, S, O, p)
  <1> DEFINE b == Built(name, summary, S, O, p, withFull, judged)
             D == Ordered(S, p)
             Y == ShownPages(S) \cup ToSet(O)
             index == RenderIndex(name, summary, D, O, p)
  <1>1. b.name = name /\ b.summary = summary /\ b.sections = D /\ b.optional = O /\ b.index = index
    <2> HIDE DEF index, D
    <2>1. b = [name |-> name, summary |-> summary, sections |-> D, optional |-> O,
               index |-> index, issues |-> Issues(index, judged),
               full |-> IF withFull THEN RenderFull(name, PagesOf(D) \o O, MaxSize) ELSE <<>>]
      BY Zenon DEF Built, D, index
    <2> HIDE DEF b
    <2>2. PICK full : full = IF withFull THEN RenderFull(name, PagesOf(D) \o O, MaxSize) ELSE <<>>
      OBVIOUS
    <2>3. b = [name |-> name, summary |-> summary, sections |-> D, optional |-> O,
               index |-> index, issues |-> Issues(index, judged), full |-> full]
      BY <2>1, <2>2, Zenon
    <2> QED BY <2>3
  <1>2. /\ Well(D, O, Y) /\ ShownPages(D) = ShownPages(S) /\ ShownPages(S) \subseteq X
        /\ \A s \in ToSet(D) : s \in ToSet(S) /\ s.name # "Optional"
    BY OrderedHolds
  <1> HIDE DEF b, index, D
  <1>3. Apart(Y) /\ Y \in SUBSET PageEntry
    <2>1. Y \subseteq X
      BY <1>2 DEF Well
    <2>2. X \in SUBSET PageEntry
      BY WellPages
    <2> QED BY <2>1, <2>2 DEF Apart
  <1> HIDE DEF Y
  <1>4. index \in Seq(IndexLine) /\ Bears(index, LinkLines, LinkSet(ShownPages(D) \cup ToSet(O)))
    BY <1>2, <1>3, IndexBears DEF index
  <1>5. Bears(index, LinkLines, LinkSet(Y))
    BY <1>2, <1>4 DEF Y
  <1>6. /\ Urls(LinksIn(index)) = UrlsOf(Y)
        /\ Len(LinksIn(index)) = Cardinality(Urls(LinksIn(index)))
    BY <1>3, <1>4, <1>5, LinksAre
  <1> QED BY <1>1, <1>2, <1>3, <1>4, <1>6 DEF BuiltOf, b, D, Y

-----------------------------------------------------------------------------
(* What store_result writes to the rows. *)

Spots(url, pages) == {n \in DOMAIN pages : pages[n].url = url}
Holders(url, D) == {k \in DOMAIN D : Spots(url, D[k].pages) # {}}
LatestOf(K) == CHOOSE k \in K : \A j \in K : j <= k
OneIn(K) == CHOOSE n \in K : TRUE

Recopied(row, page) ==
    [row EXCEPT !.title = IF page.title # <<>> THEN page.title ELSE @,
                !.description = IF page.description # <<>> THEN page.description ELSE @]
Filed(row, D, k, n) ==
    [Recopied(row, D[k].pages[n]) EXCEPT !.section = D[k].name, !.optional = FALSE,
                                         !.position = 1000 * (k - 1) + n - 1]
Aside(row, page) == [Recopied(row, page) EXCEPT !.section = Unset, !.optional = TRUE]

LEMMA WrittenBackIs ==
  ASSUME NEW built
  PROVE  /\ WrittenBack(built) = [i \in DOMAIN rows |-> WrittenBack(built)[i]]
         /\ \A i \in DOMAIN rows :
              LET url == entries[i].url
                  D == built.sections
                  k == LatestOf(Holders(url, D))
                  n == OneIn(Spots(url, D[k].pages))
              IN  WrittenBack(built)[i] =
                    IF Holders(url, D) # {} THEN Filed(rows[i], D, k, n)
                    ELSE IF Spots(url, built.optional) # {}
                    THEN Aside(rows[i], built.optional[OneIn(Spots(url, built.optional))])
                    ELSE rows[i]
  <1>1. WrittenBack(built) = [i \in DOMAIN rows |-> WrittenBack(built)[i]]
    <2> DEFINE G(i) ==
          LET url == entries[i].url
              D == built.sections
              k == LatestOf(Holders(url, D))
              n == OneIn(Spots(url, D[k].pages))
          IN  IF Holders(url, D) # {} THEN Filed(rows[i], D, k, n)
              ELSE IF Spots(url, built.optional) # {}
              THEN Aside(rows[i], built.optional[OneIn(Spots(url, built.optional))])
              ELSE rows[i]
    <2>1. WrittenBack(built) = [i \in DOMAIN rows |-> G(i)]
      BY Zenon DEF WrittenBack, Holders, Spots, LatestOf, OneIn, Filed, Aside, Recopied
    <2> HIDE DEF G
    <2> QED BY <2>1
  <1>2. ASSUME NEW i \in DOMAIN rows
        PROVE  LET url == entries[i].url
                   D == built.sections
                   k == LatestOf(Holders(url, D))
                   n == OneIn(Spots(url, D[k].pages))
               IN  WrittenBack(built)[i] =
                     IF Holders(url, D) # {} THEN Filed(rows[i], D, k, n)
                     ELSE IF Spots(url, built.optional) # {}
                     THEN Aside(rows[i], built.optional[OneIn(Spots(url, built.optional))])
                     ELSE rows[i]
    BY <1>2, Zenon DEF WrittenBack, Holders, Spots, LatestOf, OneIn, Filed, Aside, Recopied
  <1> QED BY <1>1, <1>2

LEMMA RecopiedIs ==
  ASSUME NEW row \in RowRec, NEW page \in PageEntry
  PROVE  /\ Recopied(row, page) \in RowRec
         /\ Recopied(row, page).position = row.position
         /\ page.title = row.title => Recopied(row, page).title = row.title
         /\ page.description = row.description => Recopied(row, page).description = row.description
         /\ Recopied(row, page).included = row.included
  BY DEF Recopied, RowRec, PageEntry

\* What a row says once its page is on the k-th section's n-th place, or set aside.
PlaceAt(k, n) == 1000 * (k - 1) + n - 1
FiledBy(f, row, D, k, n) ==
    /\ f \in RowRec /\ f.section = D[k].name /\ f.optional = FALSE /\ f.position = PlaceAt(k, n)
    /\ D[k].pages[n].title = row.title => f.title = row.title
    /\ D[k].pages[n].description = row.description => f.description = row.description
AsideBy(f, row, page) ==
    /\ f \in RowRec /\ f.section = Unset /\ f.optional = TRUE /\ f.position = row.position
    /\ page.title = row.title => f.title = row.title
    /\ page.description = row.description => f.description = row.description

LEMMA FiledSays ==
  ASSUME NEW row \in RowRec, NEW D, NEW k \in Nat \ {0}, NEW n \in Nat \ {0},
         D[k].pages[n] \in PageEntry, D[k].name \in RowNames
  PROVE  FiledBy(Filed(row, D, k, n), row, D, k, n)
  <1> PICK page \in PageEntry : page = D[k].pages[n]
    OBVIOUS
  <1> DEFINE r == Recopied(row, page)
  <1>1. /\ r \in RowRec /\ r.included = row.included
        /\ page.title = row.title => r.title = row.title
        /\ page.description = row.description => r.description = row.description
    BY RecopiedIs
  <1>2. PlaceAt(k, n) \in Nat
    <2>1. k - 1 \in Nat /\ n - 1 \in Nat
      OBVIOUS
    <2> QED BY <2>1 DEF PlaceAt
  <1>3. Filed(row, D, k, n) = [r EXCEPT !.section = D[k].name, !.optional = FALSE,
                                        !.position = PlaceAt(k, n)]
    BY Zenon DEF Filed, PlaceAt
  <1> HIDE DEF r
  <1>4. PICK place \in Nat, name \in RowNames : place = PlaceAt(k, n) /\ name = D[k].name
    BY <1>2
  <1>5. PICK f : f = Filed(row, D, k, n)
    OBVIOUS
  <1>6. f = [r EXCEPT !.section = name, !.optional = FALSE, !.position = place]
    BY <1>3, <1>4, <1>5, Zenon
  <1>7. /\ f.section = name /\ f.optional = FALSE /\ f.position = place /\ f.title = r.title
        /\ f.description = r.description /\ f \in RowRec
    BY <1>1, <1>6 DEF RowRec
  <1>8. FiledBy(f, row, D, k, n)
    BY <1>1, <1>4, <1>7 DEF FiledBy
  <1> QED BY <1>5, <1>8, Zenon

LEMMA FiledTyped ==
  ASSUME NEW row \in RowRec, NEW D, NEW k \in Nat \ {0}, NEW n \in Nat \ {0},
         D[k].pages[n] \in PageEntry, D[k].name \in RowNames
  PROVE  Filed(row, D, k, n) \in RowRec
  BY FiledSays DEF FiledBy

LEMMA AsideSays ==
  ASSUME NEW row \in RowRec, NEW page \in PageEntry
  PROVE  AsideBy(Aside(row, page), row, page)
  <1> DEFINE r == Recopied(row, page)
  <1>1. /\ r \in RowRec /\ r.position = row.position
        /\ page.title = row.title => r.title = row.title
        /\ page.description = row.description => r.description = row.description
    BY RecopiedIs
  <1>2. PICK f : f = Aside(row, page)
    OBVIOUS
  <1>3. f = [r EXCEPT !.section = Unset, !.optional = TRUE]
    BY <1>2 DEF Aside
  <1> HIDE DEF r
  <1>4. AsideBy(f, row, page)
    BY <1>1, <1>3 DEF AsideBy, RowRec
  <1> QED BY <1>2, <1>4, Zenon

\* Where the row of a page goes: to its place in the file, or nowhere.
LEMMA WrittenBackSays ==
  ASSUME TypeInv, NEW built, NEW X, Well(built.sections, built.optional, X), Apart(X),
         \A s \in ToSet(built.sections) : s.name # "Optional"
  PROVE  /\ WrittenBack(built) \in [1..Len(entries) -> RowRec]
         /\ \A i \in 1..Len(entries), k \in DOMAIN built.sections :
              \A n \in DOMAIN built.sections[k].pages :
                 built.sections[k].pages[n].url = entries[i].url =>
                    WrittenBack(built)[i] = Filed(rows[i], built.sections, k, n)
         /\ \A i \in 1..Len(entries), n \in DOMAIN built.optional :
               built.optional[n].url = entries[i].url =>
                  WrittenBack(built)[i] = Aside(rows[i], built.optional[n])
         /\ \A i \in 1..Len(entries) :
               entries[i].url \notin UrlsOf(X) => WrittenBack(built)[i] = rows[i]
  <1> DEFINE D == built.sections
             O == built.optional
             B == WrittenBack(built)
  <1>1. Len(entries) \in Nat /\ DOMAIN entries = 1..Len(entries) /\ rows \in [1..Len(entries) -> RowRec]
    <2>1. entries \in Seq(PageEntry) /\ rows \in [1..Len(entries) -> RowRec]
      BY DEF TypeInv, Unmixed
    <2> QED BY <2>1, SeqIs
  <1>2. /\ DOMAIN D = 1..Len(D) /\ Len(D) \in Nat
        /\ \A k \in DOMAIN D : /\ D[k] \in ToSet(D) /\ D[k].name \in RowNames
                               /\ D[k].pages \in Seq(PageEntry) /\ IsInjective(D[k].pages)
        /\ \A k, l \in DOMAIN D : k # l => ToSet(D[k].pages) \cap ToSet(D[l].pages) = {}
    <2>1. Fine(D) /\ D \in Seq(SectionRec)
      BY DEF Well, Fine
    <2>2. /\ Sections(Len(D), D) /\ DOMAIN D = 1..Len(D)
      BY <2>1, FineSections
    <2>3. \A k \in DOMAIN D : D[k] \in ToSet(D)
      BY DEF ToSet
    <2>4. \A k \in DOMAIN D : D[k] \in SectionRec
      BY <2>1, SeqIs
    <2> HIDE DEF D
    <2>5. \A k \in DOMAIN D : D[k].name \in RowNames /\ D[k].pages \in Seq(PageEntry)
      BY <2>3, <2>4 DEF SectionRec, RowNames, D
    <2> QED BY <2>2, <2>3, <2>5 DEF Sections
  <1>3. /\ O \in Seq(PageEntry) /\ IsInjective(O) /\ Held(ToSet(D)) \cap ToSet(O) = {}
        /\ Held(ToSet(D)) \cup ToSet(O) = X
    BY DEF Well
  <1>4. \A k \in DOMAIN D : \A n \in DOMAIN D[k].pages :
            D[k].pages[n] \in ToSet(D[k].pages) /\ D[k].pages[n] \in Held(ToSet(D))
            /\ D[k].pages[n] \in X /\ D[k].pages[n] \in PageEntry /\ n \in Nat \ {0}
    <2> SUFFICES ASSUME NEW k \in DOMAIN D, NEW n \in DOMAIN D[k].pages
                 PROVE  /\ D[k].pages[n] \in ToSet(D[k].pages) /\ D[k].pages[n] \in Held(ToSet(D))
                        /\ D[k].pages[n] \in X /\ D[k].pages[n] \in PageEntry /\ n \in Nat \ {0}
      OBVIOUS
    <2>1. D[k].pages[n] \in ToSet(D[k].pages)
      BY DEF ToSet
    <2>2. D[k].pages[n] \in Held(ToSet(D))
      BY <1>2, <2>1 DEF Held
    <2>3. DOMAIN D[k].pages = 1..Len(D[k].pages) /\ D[k].pages[n] \in PageEntry
      BY <1>2, SeqIs
    <2> QED BY <1>3, <2>1, <2>2, <2>3
  <1>5. \A n \in DOMAIN O : O[n] \in ToSet(O) /\ O[n] \in X /\ O[n] \in PageEntry
    <2>1. \A n \in DOMAIN O : O[n] \in ToSet(O)
      BY DEF ToSet
    <2>2. \A n \in DOMAIN O : O[n] \in PageEntry
      BY <1>3, SeqIs
    <2> QED BY <1>3, <2>1, <2>2
  <1>6. /\ B = [i \in 1..Len(entries) |-> B[i]]
        /\ \A i \in 1..Len(entries) :
              LET url == entries[i].url
                  k == LatestOf(Holders(url, D))
                  n == OneIn(Spots(url, D[k].pages))
              IN  B[i] = IF Holders(url, D) # {} THEN Filed(rows[i], D, k, n)
                         ELSE IF Spots(url, O) # {} THEN Aside(rows[i], O[OneIn(Spots(url, O))])
                         ELSE rows[i]
    <2>1. DOMAIN rows = 1..Len(entries)
      BY <1>1
    <2> QED BY <2>1, WrittenBackIs
  <1> HIDE DEF D, O, B
  <1>7. ASSUME NEW i \in 1..Len(entries), NEW k \in DOMAIN D, NEW n \in DOMAIN D[k].pages,
               D[k].pages[n].url = entries[i].url
        PROVE  B[i] = Filed(rows[i], D, k, n)
    <2> DEFINE url == entries[i].url
    <2>1. ASSUME NEW l \in DOMAIN D, NEW j \in DOMAIN D[l].pages, D[l].pages[j].url = url
          PROVE  l = k /\ j = n
      <3>1. D[l].pages[j] = D[k].pages[n]
        BY <1>4, <1>7, <2>1 DEF Apart
      <3>2. D[k].pages[n] \in ToSet(D[k].pages) /\ D[k].pages[n] \in ToSet(D[l].pages)
        BY <1>4, <3>1
      <3>3. l = k
        BY <1>2, <3>2
      <3> QED BY <1>2, <3>1, <3>3 DEF IsInjective
    <2>2. Spots(url, D[k].pages) = {n}
      BY <1>7, <2>1 DEF Spots
    <2>3. Holders(url, D) = {k}
      <3>1. k \in Holders(url, D)
        BY <2>2 DEF Holders
      <3>2. ASSUME NEW l \in Holders(url, D) PROVE l = k
        <4>1. l \in DOMAIN D /\ Spots(url, D[l].pages) # {}
          BY DEF Holders
        <4>2. PICK j \in DOMAIN D[l].pages : D[l].pages[j].url = url
          BY <4>1 DEF Spots
        <4> QED BY <2>1, <4>1, <4>2
      <3> QED BY <3>1, <3>2
    <2>4. LatestOf({k}) = k /\ OneIn({n}) = n
      <3>1. k \in Int
        BY <1>2
      <3>2. k <= k
        BY <3>1
      <3> QED BY <3>2 DEF LatestOf, OneIn
    <2> QED BY <1>6, <2>2, <2>3, <2>4
  <1>8. ASSUME NEW i \in 1..Len(entries), NEW n \in DOMAIN O, O[n].url = entries[i].url
        PROVE  B[i] = Aside(rows[i], O[n])
    <2> DEFINE url == entries[i].url
    <2>1. Holders(url, D) = {}
      <3> SUFFICES ASSUME NEW l \in Holders(url, D) PROVE FALSE
        OBVIOUS
      <3>1. l \in DOMAIN D /\ Spots(url, D[l].pages) # {}
        BY DEF Holders
      <3>2. PICK j \in DOMAIN D[l].pages : D[l].pages[j].url = url
        BY <3>1 DEF Spots
      <3>3. D[l].pages[j] = O[n]
        BY <1>4, <1>5, <1>8, <3>1, <3>2 DEF Apart
      <3> QED BY <1>3, <1>4, <1>5, <3>1, <3>3
    <2>2. \A j \in DOMAIN O : O[j].url = url => j = n
      <3> SUFFICES ASSUME NEW j \in DOMAIN O, O[j].url = url PROVE j = n
        OBVIOUS
      <3>1. O[j] = O[n]
        BY <1>5, <1>8 DEF Apart
      <3> QED BY <1>3, <3>1 DEF IsInjective
    <2>3. Spots(url, O) = {n}
      BY <1>8, <2>2 DEF Spots
    <2>4. OneIn({n}) = n
      BY DEF OneIn
    <2> QED BY <1>6, <2>1, <2>3, <2>4
  <1>9. ASSUME NEW i \in 1..Len(entries), entries[i].url \notin UrlsOf(X)
        PROVE  B[i] = rows[i]
    <2> DEFINE url == entries[i].url
    <2>1. Holders(url, D) = {}
      <3> SUFFICES ASSUME NEW l \in Holders(url, D) PROVE FALSE
        OBVIOUS
      <3>1. l \in DOMAIN D /\ Spots(url, D[l].pages) # {}
        BY DEF Holders
      <3>2. PICK j \in DOMAIN D[l].pages : D[l].pages[j].url = url
        BY <3>1 DEF Spots
      <3> QED BY <1>4, <1>9, <3>1, <3>2 DEF UrlsOf
    <2>2. Spots(url, O) = {}
      BY <1>5, <1>9 DEF Spots, UrlsOf
    <2> QED BY <1>6, <2>1, <2>2
  <1>10. \A i \in 1..Len(entries) : B[i] \in RowRec
    <2> SUFFICES ASSUME NEW i \in 1..Len(entries) PROVE B[i] \in RowRec
      OBVIOUS
    <2>1. rows[i] \in RowRec
      BY <1>1
    <2>2. CASE \E k \in DOMAIN D : \E n \in DOMAIN D[k].pages : D[k].pages[n].url = entries[i].url
      <3>1. PICK k \in DOMAIN D : \E n \in DOMAIN D[k].pages : D[k].pages[n].url = entries[i].url
        BY <2>2
      <3>4. PICK n \in DOMAIN D[k].pages : D[k].pages[n].url = entries[i].url
        BY <3>1
      <3>2. B[i] = Filed(rows[i], D, k, n)
        BY <1>7, <3>4
      <3>3. /\ k \in Nat \ {0} /\ n \in Nat \ {0}
            /\ D[k].pages[n] \in PageEntry /\ D[k].name \in RowNames
        BY <1>2, <1>4
      <3>5. Filed(rows[i], D, k, n) \in RowRec
        BY <2>1, <3>3, FiledTyped
      <3> QED BY <3>2, <3>5
    <2>3. CASE \E n \in DOMAIN O : O[n].url = entries[i].url
      BY <1>5, <1>8, <2>1, <2>3, AsideSays DEF AsideBy
    <2>4. CASE entries[i].url \notin UrlsOf(X)
      BY <1>9, <2>1, <2>4
    <2>5. CASE entries[i].url \in UrlsOf(X)
      <3>1. PICK x \in X : x.url = entries[i].url
        BY <2>5 DEF UrlsOf
      <3>2. CASE x \in ToSet(O)
        <4>1. PICK n \in DOMAIN O : O[n] = x
          BY <3>2 DEF ToSet
        <4> QED BY <2>3, <3>1, <4>1
      <3>3. CASE x \in Held(ToSet(D))
        <4>1. PICK s \in ToSet(D) : x \in ToSet(s.pages)
          BY <3>3 DEF Held
        <4>2. PICK k \in DOMAIN D : s = D[k]
          BY <4>1 DEF ToSet
        <4>3. PICK n \in DOMAIN D[k].pages : x = D[k].pages[n]
          BY <4>1, <4>2 DEF ToSet
        <4> QED BY <2>2, <3>1, <4>3
      <3> QED BY <1>3, <3>1, <3>2, <3>3
    <2> QED BY <2>4, <2>5
  <1>11. B \in [1..Len(entries) -> RowRec]
    BY <1>6, <1>10
  <1> QED BY <1>7, <1>8, <1>9, <1>11 DEF B, D, O

-----------------------------------------------------------------------------
(* The file, as it is made. *)

LostIn(E, i) == ~E[i].optional /\ "Optional" = PlaceOf(E, E[i])
DroppedFrom(S) == UNION {Urls(S[k].pages) : k \in {j \in DOMAIN S : S[j].name = "Optional"}}
MadeOf(E) ==
    IF ByModel(E) THEN {E[i].url : i \in {j \in DOMAIN E : ~LostIn(E, j)}}
    ELSE Urls(Filtered(E, TaskFilters)) \ DroppedFrom(GroupedByUrl(Shortlist(E)).sections)

LEMMA UnmixedApart ==
  ASSUME NEW pages, Unmixed(pages)
  PROVE  Apart(ToSet(pages)) /\ UrlsOf(ToSet(pages)) = Urls(pages)
  <1>1. \A x : x \in ToSet(pages) <=> \E i \in DOMAIN pages : x = pages[i]
    BY DEF ToSet
  <1>2. Apart(ToSet(pages))
    BY <1>1 DEF Apart, Unmixed
  <1>3. ASSUME NEW u \in UrlsOf(ToSet(pages)) PROVE u \in Urls(pages)
    <2>1. PICK x \in ToSet(pages) : u = x.url
      BY <1>3 DEF UrlsOf
    <2> QED BY <1>1, <2>1 DEF Urls
  <1>4. ASSUME NEW u \in Urls(pages) PROVE u \in UrlsOf(ToSet(pages))
    <2>1. PICK i \in DOMAIN pages : u = pages[i].url
      BY <1>4 DEF Urls
    <2> QED BY <1>1, <2>1 DEF UrlsOf
  <1> QED BY <1>2, <1>3, <1>4

\* The sections hold the pages the model saw, or those that pass the filters.
LEMMA SectionedSays ==
  ASSUME NEW E, Unmixed(E), \A i \in DOMAIN E : SectionOfUrl(E[i].url) \in SectionNames
  PROVE  LET X == IF ByModel(E) THEN ToSet(E) ELSE ToSet(Shortlist(E))
         IN  Well(Sectioned(E).sections, Sectioned(E).optional, X) /\ Apart(X)
  <1>1. CASE ByModel(E)
    <2>1. Sectioned(E) = SectionsFrom(E)
      BY <1>1 DEF Sectioned
    <2>2. Well(SectionsFrom(E).sections, SectionsFrom(E).optional, ToSet(E))
      BY <1>1, SectionsFromSays
    <2> QED BY <1>1, <2>1, <2>2, UnmixedApart
  <1>2. CASE ~ByModel(E)
    <2> DEFINE L == Shortlist(E)
    <2>1. Sectioned(E) = GroupedByUrl(L)
      BY <1>2 DEF Sectioned
    <2>2. Unmixed(L) /\ ToSet(Filtered(E, TaskFilters)) \subseteq ToSet(E)
          /\ Urls(L) = Urls(Filtered(E, TaskFilters))
      BY ShortlistSays
    <2> HIDE DEF L
    <2>3. \A i \in DOMAIN L : SectionOfUrl(L[i].url) \in SectionNames
      <3> SUFFICES ASSUME NEW i \in DOMAIN L PROVE SectionOfUrl(L[i].url) \in SectionNames
        OBVIOUS
      <3>1. L[i].url \in Urls(Filtered(E, TaskFilters))
        BY <2>2 DEF Urls
      <3> PICK F : F = Filtered(E, TaskFilters)
        OBVIOUS
      <3>2. PICK j \in DOMAIN F : L[i].url = F[j].url
        BY <3>1 DEF Urls
      <3>3. F[j] \in ToSet(E)
        BY <2>2 DEF ToSet
      <3>4. PICK k \in DOMAIN E : F[j] = E[k]
        BY <3>3 DEF ToSet
      <3> QED BY <3>2, <3>4
    <2>4. Well(GroupedByUrl(L).sections, GroupedByUrl(L).optional, ToSet(L))
      BY <2>2, <2>3, GroupedByUrlSays
    <2> QED BY <1>2, <2>1, <2>2, <2>4, UnmixedApart DEF L
  <1> QED BY <1>1, <1>2

\* What is shown of these is what a file is expected to list.
LEMMA MadeSays ==
  ASSUME NEW E, Unmixed(E), \A i \in DOMAIN E : SectionOfUrl(E[i].url) \in SectionNames
  PROVE  UrlsOf(ShownPages(Sectioned(E).sections) \cup ToSet(Sectioned(E).optional)) = MadeOf(E)
  <1> DEFINE S == Sectioned(E).sections
             O == Sectioned(E).optional
             X == IF ByModel(E) THEN ToSet(E) ELSE ToSet(Shortlist(E))
             Y == ShownPages(S) \cup ToSet(O)
  <1>1. Well(S, O, X) /\ Apart(X)
    BY SectionedSays
  <1>2. /\ Fine(S) /\ O \in Seq(PageEntry)
        /\ Held(ToSet(S)) \cap ToSet(O) = {} /\ Held(ToSet(S)) \cup ToSet(O) = X
    BY <1>1 DEF Well
  <1>3. \A x : x \in ShownPages(S) <=> \E s \in ToSet(S) : Shows(s) /\ x \in ToSet(s.pages)
    BY DEF ShownPages, Held
  <1>4. \A x : x \in Held(ToSet(S)) <=> \E s \in ToSet(S) : x \in ToSet(s.pages)
    BY DEF Held
  <1>5. \A s, x : x \in ToSet(s.pages) => s.pages # <<>>
    BY DEF ToSet
  <1>6. \A u : u \in UrlsOf(Y) <=> \E x \in Y : u = x.url
    BY DEF UrlsOf
  <1>7. CASE ByModel(E)
    <2>1. /\ \A s \in ToSet(S), x \in PageEntry :
                x \in ToSet(s.pages) => s.name = PlaceOf(E, x) /\ ~x.optional
          /\ \A x \in ToSet(O) : x.optional
      <3>1. S = SectionsFrom(E).sections /\ O = SectionsFrom(E).optional
        BY <1>7 DEF Sectioned
      <3> QED BY <1>7, <3>1, SectionsFromSays
    <2>2. X = ToSet(E) /\ X \in SUBSET PageEntry
      BY <1>1, <1>7, WellPages
    <2>3. MadeOf(E) = {E[i].url : i \in {j \in DOMAIN E : ~LostIn(E, j)}}
      BY <1>7 DEF MadeOf
    <2> HIDE DEF S, O, X
    <2>4. ASSUME NEW x \in X PROVE x \in Y <=> ~(~x.optional /\ "Optional" = PlaceOf(E, x))
      <3>1. CASE x \in ToSet(O)
        BY <2>1, <3>1
      <3>2. CASE x \in Held(ToSet(S))
        <4>1. PICK s \in ToSet(S) : x \in ToSet(s.pages)
          BY <1>4, <3>2
        <4>2. s.name = PlaceOf(E, x) /\ ~x.optional /\ s.pages # <<>>
          BY <1>5, <2>1, <2>2, <4>1
        <4>3. CASE s.name = "Optional"
          <5>1. ASSUME x \in ShownPages(S) PROVE FALSE
            <6>1. PICK r \in ToSet(S) : Shows(r) /\ x \in ToSet(r.pages)
              BY <1>3, <5>1
            <6>2. r.name = s.name
              BY <2>1, <2>2, <4>2, <6>1
            <6> QED BY <4>3, <6>1, <6>2 DEF Shows
          <5> QED BY <1>2, <3>2, <4>2, <4>3, <5>1
        <4>4. CASE s.name # "Optional"
          <5>1. Shows(s)
            BY <4>2, <4>4 DEF Shows
          <5> QED BY <1>3, <4>1, <4>2, <4>4, <5>1
        <4> QED BY <4>3, <4>4
      <3> QED BY <1>2, <3>1, <3>2
    <2>5. Y \subseteq X
      <3>1. ShownPages(S) \subseteq Held(ToSet(S))
        BY <1>3, <1>4
      <3> QED BY <1>2, <3>1
    <2> HIDE DEF Y
    <2>6. ASSUME NEW u \in UrlsOf(Y) PROVE u \in MadeOf(E)
      <3>1. PICK x \in Y : u = x.url
        BY <1>6, <2>6
      <3>2. PICK i \in DOMAIN E : x = E[i]
        BY <2>2, <2>5, <3>1 DEF ToSet
      <3>3. ~LostIn(E, i)
        BY <2>4, <2>5, <3>1, <3>2 DEF LostIn
      <3> QED BY <2>3, <3>1, <3>2, <3>3
    <2>7. ASSUME NEW u \in MadeOf(E) PROVE u \in UrlsOf(Y)
      <3>1. PICK i \in DOMAIN E : u = E[i].url /\ ~LostIn(E, i)
        BY <2>3, <2>7
      <3>2. E[i] \in X
        BY <2>2 DEF ToSet
      <3>3. E[i] \in Y
        BY <2>4, <3>1, <3>2 DEF LostIn
      <3> QED BY <1>6, <3>1, <3>3
    <2> QED BY <2>6, <2>7 DEF Y, S, O
  <1>8. CASE ~ByModel(E)
    <2> DEFINE L == Shortlist(E)
    <2>1. S = GroupedByUrl(L).sections
      BY <1>8 DEF Sectioned
    <2>2. X = ToSet(L) /\ Unmixed(L) /\ Urls(L) = Urls(Filtered(E, TaskFilters))
      BY <1>8, ShortlistSays
    <2>3. MadeOf(E) = Urls(L) \ DroppedFrom(S)
      BY <1>8, <2>1, <2>2 DEF MadeOf
    <2>4. UrlsOf(X) = Urls(L)
      BY <2>2, UnmixedApart
    <2> HIDE DEF S, O, X, L
    <2>5. \A u : u \in DroppedFrom(S) <=>
                   \E s \in ToSet(S) : s.name = "Optional" /\ \E x \in ToSet(s.pages) : u = x.url
      <3>1. \A s, u : u \in Urls(s.pages) <=> \E x \in ToSet(s.pages) : u = x.url
        BY DEF Urls, ToSet
      <3>2. \A s : s \in ToSet(S) <=> \E k \in DOMAIN S : s = S[k]
        BY DEF ToSet
      <3>3. \A u : u \in DroppedFrom(S) <=>
                     \E k \in DOMAIN S : S[k].name = "Optional" /\ u \in Urls(S[k].pages)
        BY DEF DroppedFrom
      <3>4. ASSUME NEW u \in DroppedFrom(S)
            PROVE  \E s \in ToSet(S) : s.name = "Optional" /\ \E x \in ToSet(s.pages) : u = x.url
        <4>1. PICK k \in DOMAIN S : S[k].name = "Optional" /\ u \in Urls(S[k].pages)
          BY <3>3
        <4>2. S[k] \in ToSet(S) /\ \E x \in ToSet(S[k].pages) : u = x.url
          BY <3>1, <3>2, <4>1
        <4> QED BY <4>1, <4>2
      <3>5. ASSUME NEW u, NEW s \in ToSet(S), s.name = "Optional", \E x \in ToSet(s.pages) : u = x.url
            PROVE  u \in DroppedFrom(S)
        <4>1. PICK k \in DOMAIN S : s = S[k]
          BY <3>2
        <4>2. u \in Urls(S[k].pages)
          BY <3>1, <3>5, <4>1
        <4> QED BY <3>3, <3>5, <4>1, <4>2
      <3> QED BY <3>4, <3>5
    <2>6. ASSUME NEW u \in UrlsOf(Y) PROVE u \in MadeOf(E)
      <3>1. PICK x \in Y : u = x.url
        BY <1>6, <2>6
      <3>2. x \in X
        BY <1>2, <1>3, <1>4, <3>1
      <3>3. u \in Urls(L)
        BY <2>4, <3>1, <3>2 DEF UrlsOf
      <3>4. ASSUME u \in DroppedFrom(S) PROVE FALSE
        <4>1. PICK s \in ToSet(S) : s.name = "Optional" /\ \E y \in ToSet(s.pages) : u = y.url
          BY <2>5, <3>4
        <4>2. PICK y \in ToSet(s.pages) : u = y.url
          BY <4>1
        <4>3. y \in Held(ToSet(S)) /\ y \in X
          BY <1>2, <1>4, <4>1
        <4>4. y = x
          BY <1>1, <3>1, <3>2, <4>2, <4>3 DEF Apart
        <4>5. PICK r \in ToSet(S) : Shows(r) /\ x \in ToSet(r.pages)
          BY <1>2, <1>3, <3>1, <4>3, <4>4
        <4>6. r = s
          <5>1. FineSet(ToSet(S))
            BY <1>2 DEF Fine
          <5> QED BY <4>1, <4>2, <4>4, <4>5, <5>1 DEF FineSet
        <4> QED BY <4>1, <4>5, <4>6 DEF Shows
      <3> QED BY <2>3, <3>3, <3>4
    <2>7. ASSUME NEW u \in MadeOf(E) PROVE u \in UrlsOf(Y)
      <3>1. u \in UrlsOf(X) /\ u \notin DroppedFrom(S)
        BY <2>3, <2>4, <2>7
      <3>2. PICK x \in X : u = x.url
        BY <3>1 DEF UrlsOf
      <3>3. CASE x \in ToSet(O)
        BY <1>6, <3>2, <3>3
      <3>4. CASE x \in Held(ToSet(S))
        <4>1. PICK s \in ToSet(S) : x \in ToSet(s.pages)
          BY <1>4, <3>4
        <4>2. s.name # "Optional"
          BY <2>5, <3>1, <3>2, <4>1
        <4>3. x \in ShownPages(S)
          BY <1>3, <1>5, <4>1, <4>2 DEF Shows
        <4> QED BY <1>6, <3>2, <4>3
      <3> QED BY <1>2, <3>2, <3>3, <3>4
    <2> QED BY <2>6, <2>7 DEF Y, S, O
  <1> QED BY <1>7, <1>8

\* Assembling the file lists each page once.
LEMMA AssembleSays ==
  ASSUME TypeInv, Assemble
  PROVE  TypeInv' /\ ListedOnce'
  <1>1. /\ Unmixed(entries) /\ \A i \in DOMAIN entries : SectionOfUrl(entries[i].url) \in SectionNames
        /\ pattern \in DOMAIN Templates /\ edits.count = 0
    BY DEF TypeInv, Assemble
  <1>2. /\ stage' = "complete" /\ UNCHANGED <<pattern, wantsFull, entries, edits>>
    BY DEF Assemble
  <1>3. PICK summary \in Summaries \cup {<<>>} :
            LET built == Generated(entries, <<"Site">>, summary, pattern, wantsFull)
            IN  file' = Kept(built) /\ rows' = WrittenBack(built)
    BY DEF Assemble
  <1> DEFINE S == Sectioned(entries).sections
             O == Sectioned(entries).optional
             X == IF ByModel(entries) THEN ToSet(entries) ELSE ToSet(Shortlist(entries))
             Y == ShownPages(S) \cup ToSet(O)
             name == <<"Site">>
             judged == Shortlist(entries)
             built == Built(name, summary, S, O, pattern, wantsFull, judged)
  <1>4. file' = Kept(built) /\ rows' = WrittenBack(built)
    BY <1>3, Zenon DEF Generated
  <1>5. name \in Text /\ summary \in Text
    <2>1. "Site" \in STRING
      BY WordAssumption, Zenon
    <2>2. name \in Text
      BY <2>1, OneOf DEF Text
    <2>3. <<>> \in Text
      BY DEF Text
    <2> QED BY <2>2, <2>3, WritingAssumption
  <1>6. Well(S, O, X) /\ Apart(X)
    BY <1>1, SectionedSays
  <1>7. UrlsOf(Y) = MadeOf(entries)
    BY <1>1, MadeSays
  <1> HIDE DEF S, O, X, name, judged
  <1>8. /\ built.name = name /\ built.summary = summary
        /\ built.index \in Seq(IndexLine)
        /\ Urls(LinksIn(built.index)) = UrlsOf(Y)
        /\ Len(LinksIn(built.index)) = Cardinality(Urls(LinksIn(built.index)))
        /\ Well(built.sections, built.optional, Y) /\ Apart(Y)
        /\ \A s \in ToSet(built.sections) : s.name # "Optional"
    <2>1. BuiltOf(Built(name, summary, S, O, pattern, wantsFull, judged), name, summary, S, O, pattern)
      BY <1>1, <1>5, <1>6, BuiltSays
    <2>2. BuiltOf(built, name, summary, S, O, pattern)
      BY <2>1 DEF built
    <2> HIDE DEF built
    <2> QED BY <2>2 DEF BuiltOf, Y
  <1> HIDE DEF built, Y
  <1>9. rows' \in [1..Len(entries) -> RowRec]
    <2>1. WrittenBack(built) \in [1..Len(entries) -> RowRec]
      BY <1>8, WrittenBackSays
    <2> QED BY <1>4, <2>1
  <1>10. file'.name = name /\ file'.summary = summary /\ file'.index = built.index
    BY <1>4, <1>8 DEF Kept
  <1>11. TypeInv'
    BY <1>2, <1>5, <1>8, <1>9, <1>10 DEF TypeInv
  <1>12. Links' = LinksIn(built.index)
    <2>1. Links' = LinksIn(file'.index)
      BY Zenon DEF Links, LinksIn, Those
    <2> QED BY <1>10, <2>1
  <1>13. Expected' = MadeOf(entries)
    <2>1. edits'.count = 0 /\ entries' = entries
      BY <1>1, <1>2
    <2>3. ~(edits'.count > 0)
      BY <2>1
    <2>4. Expected' =
            IF ByModel(entries')
            THEN {entries'[i].url : i \in {j \in DOMAIN entries' : ~LostIn(entries', j)}}
            ELSE Urls(Filtered(entries', TaskFilters))
                   \ DroppedFrom(GroupedByUrl(Shortlist(entries')).sections)
      BY <2>3, Zenon DEF Expected, LostIn, PlaceOf, DroppedFrom
    <2>2. Expected' = MadeOf(entries')
      BY <2>4 DEF MadeOf
    <2> QED BY <2>1, <2>2
  <1>14. Listed' = Urls(LinksIn(built.index))
    BY <1>12 DEF Listed
  <1> QED BY <1>7, <1>8, <1>11, <1>12, <1>13, <1>14 DEF ListedOnce

-----------------------------------------------------------------------------
(* An edit: from the rows to the file, and back. *)

ReadAt(E, R, i) ==
    [E[i] EXCEPT !.title = R[i].title, !.description = R[i].description,
                 !.section = Unset, !.optional = FALSE]
ReadOf(E, R) == [i \in DOMAIN E |-> ReadAt(E, R, i)]
Fetched(E, R, places) == [k \in DOMAIN places |-> ReadAt(E, R, places[k])]

FromRowsBy(f, E, R, t) ==
    [name |-> f.name, summary |-> f.summary, full |-> f.full,
     sections |-> [k \in DOMAIN RowGroups(t) |->
                      Section(RowGroups(t)[k].name, Fetched(E, R, RowGroups(t)[k].pages))],
     optional |-> Fetched(E, R, RowRest(t))]

RowMade(W, t, off, names) ==
    IF names = <<>> THEN RowKept(W, t, off) ELSE ManuallyOrdered(RowKept(W, t, off), names)
Remade(f, W, t, off, names, p) ==
    Built(f.name, f.summary, RowMade(W, t, off, names), RowOptional(W, t, off), p, f.full # <<>>,
          PagesOf(RowMade(W, t, off, names)) \o RowOptional(W, t, off))

LEMMA FetchedIs ==
  ASSUME NEW E, NEW R, NEW n \in Nat, DOMAIN E = 1..n, NEW I \in SUBSET (1..n), NEW m, NEW e,
         Numbers(m, I, e)
  PROVE  Fetched(E, R, e) = Mapped(ReadOf(E, R), e)
  <1>1. m \in Nat /\ e \in [1..m -> I]
    BY DEF Numbers
  <1>2. \A k \in DOMAIN e : e[k] \in DOMAIN E
    BY <1>1
  <1>3. \A k \in DOMAIN e : ReadOf(E, R)[e[k]] = ReadAt(E, R, e[k])
    BY <1>2 DEF ReadOf
  <1> QED BY <1>3, Zenon DEF Fetched, Mapped

\* What rebuild makes of the rows.
LEMMA RemadeIs ==
  ASSUME NEW f, NEW E, NEW n \in Nat, DOMAIN E = 1..n, NEW R, NEW t \in [1..n -> RowRec],
         NEW off, NEW names, NEW p
  PROVE  Rebuilt(FromRowsBy(f, E, R, t), off, names, p)
            = Remade(f, ReadOf(E, R), t, off, names, p)
  <1> DEFINE old == FromRowsBy(f, E, R, t)
             W == ReadOf(E, R)
             g == RowGroups(t)
             S1 == RowSections(W, t, off)
             K == RowKept(W, t, off)
             M == RowMade(W, t, off, names)
             O == RowOptional(W, t, off)
  <1>1. /\ \A k \in DOMAIN g : \E m : /\ Numbers(m, In(t, 1..n, g[k].name), g[k].pages)
                                      /\ InTurn(m, g[k].pages, Turn(t))
        /\ \E m : Numbers(m, OptIn(t, 1..n), RowRest(t)) /\ InTurn(m, RowRest(t), Turn(t))
    BY RowGroupsSay
  <1>2. ASSUME NEW k \in DOMAIN g PROVE Fetched(E, R, g[k].pages) = Mapped(W, g[k].pages)
    <2>1. PICK m : Numbers(m, In(t, 1..n, g[k].name), g[k].pages)
      BY <1>1
    <2>2. In(t, 1..n, g[k].name) \in SUBSET (1..n)
      BY DEF In
    <2> QED BY <2>1, <2>2, FetchedIs
  <1>3. Fetched(E, R, RowRest(t)) = Mapped(W, RowRest(t))
    <2>1. PICK m : Numbers(m, OptIn(t, 1..n), RowRest(t))
      BY <1>1
    <2>2. OptIn(t, 1..n) \in SUBSET (1..n)
      BY DEF OptIn
    <2> QED BY <2>1, <2>2, FetchedIs
  <1>4. /\ old.name = f.name /\ old.summary = f.summary /\ old.full = f.full
        /\ old.sections = [k \in DOMAIN g |-> Section(g[k].name, Fetched(E, R, g[k].pages))]
        /\ old.optional = Fetched(E, R, RowRest(t))
    BY DEF FromRowsBy
  <1> HIDE DEF W, g
  <1>5. old.sections = [k \in DOMAIN g |-> Section(g[k].name, Mapped(W, g[k].pages))]
        /\ old.optional = Mapped(W, RowRest(t))
    <2> HIDE DEF old
    <2> QED BY <1>2, <1>3, <1>4, Zenon
  <1> HIDE DEF old
  <1>6. [k \in DOMAIN old.sections |->
            [old.sections[k] EXCEPT !.pages = Staying(old.sections[k].pages, off)]] = S1
    <2>1. DOMAIN old.sections = DOMAIN g
          /\ \A k \in DOMAIN g : old.sections[k] = Section(g[k].name, Mapped(W, g[k].pages))
      BY <1>5
    <2>2. \A k \in DOMAIN g :
            [old.sections[k] EXCEPT !.pages = Staying(old.sections[k].pages, off)]
              = Section(g[k].name, Staying(Mapped(W, g[k].pages), off))
      <3> SUFFICES ASSUME NEW k \in DOMAIN g
                   PROVE  [old.sections[k] EXCEPT !.pages = Staying(old.sections[k].pages, off)]
                            = Section(g[k].name, Staying(Mapped(W, g[k].pages), off))
        OBVIOUS
      <3>1. PICK pages : pages = Mapped(W, g[k].pages)
        OBVIOUS
      <3>2. old.sections[k] = [name |-> g[k].name, pages |-> pages]
        BY <2>1, <3>1 DEF Section
      <3>3. [old.sections[k] EXCEPT !.pages = Staying(old.sections[k].pages, off)]
              = [name |-> g[k].name, pages |-> Staying(pages, off)]
        BY <3>2
      <3> QED BY <3>1, <3>3 DEF Section
    <2> QED BY <2>1, <2>2, Zenon DEF RowSections, g
  <1>7. K = KeptAt(S1, {k \in DOMAIN S1 : S1[k].pages # <<>>})
    BY DEF RowKept
  <1>8. O = Staying(old.optional, off)
    BY <1>5 DEF RowOptional
  <1>9. M = IF names = <<>> THEN K ELSE ManuallyOrdered(K, names)
    BY DEF RowMade
  <1> DEFINE S0 == [k \in DOMAIN old.sections |->
                       [old.sections[k] EXCEPT !.pages = Staying(old.sections[k].pages, off)]]
             K0 == KeptAt(S0, {k \in DOMAIN S0 : S0[k].pages # <<>>})
             M0 == IF names = <<>> THEN K0 ELSE ManuallyOrdered(K0, names)
             O0 == Staying(old.optional, off)
  <1>10. Rebuilt(old, off, names, p)
           = Built(old.name, old.summary, M0, O0, p, old.full # <<>>, PagesOf(M0) \o O0)
    BY Zenon DEF Rebuilt, Those, Staying
  <1>11. M0 = M /\ O0 = O
    <2>1. S0 = S1
      BY <1>6
    <2> HIDE DEF S0, S1, K, M
    <2>2. K0 = K
      BY <1>7, <2>1
    <2> HIDE DEF K0
    <2> QED BY <1>8, <1>9, <2>2
  <1> HIDE DEF M0, O0, M, O
  <1>12. Rebuilt(old, off, names, p)
           = Built(f.name, f.summary, M, O, p, f.full # <<>>, PagesOf(M) \o O)
    BY <1>4, <1>10, <1>11, Zenon
  <1> QED BY <1>12, Zenon DEF Remade, M, O, W, old

\* The sections that rows give hold the pages that are kept.
LEMMA RowsHold ==
  ASSUME NEW n, NEW W, Pages(n, W), NEW t \in [1..n -> RowRec], NEW keep \in SUBSET (1..n),
         NEW S, NEW O, RowsGive(S, O, W, t, keep)
  PROVE  /\ Well(S, O, ImageOf(W, keep)) /\ Apart(ImageOf(W, keep))
         /\ ShownPages(S) \cup ToSet(O) = ImageOf(W, keep)
         /\ \A s \in ToSet(S) : Shows(s)
  <1>1. /\ Fine(S)
        /\ \A s \in ToSet(S) : /\ s.name \in RowNames /\ s.pages # <<>>
                               /\ Lists(s.pages, W, In(t, keep, s.name), Turn(t))
        /\ \A i \in keep : ~t[i].optional => \E s \in ToSet(S) : s.name = NameIn(t, i)
        /\ Lists(O, W, OptIn(t, keep), Turn(t))
    BY DEF RowsGive
  <1>2. OptIn(t, keep) \in SUBSET (1..n) /\ \A name : In(t, keep, name) \in SUBSET (1..n)
    BY DEF OptIn, In
  <1>3. O \in Seq(PageEntry) /\ IsInjective(O) /\ ToSet(O) = ImageOf(W, OptIn(t, keep))
    BY <1>1, <1>2, ListsSays
  <1>4. \A s \in ToSet(S) : ToSet(s.pages) = ImageOf(W, In(t, keep, s.name))
    <2> SUFFICES ASSUME NEW s \in ToSet(S) PROVE ToSet(s.pages) = ImageOf(W, In(t, keep, s.name))
      OBVIOUS
    <2>1. Lists(s.pages, W, In(t, keep, s.name), Turn(t)) /\ In(t, keep, s.name) \in SUBSET (1..n)
      BY <1>1, <1>2
    <2> QED BY <2>1, ListsSays
  <1>5. \A I, x : x \in ImageOf(W, I) <=> \E i \in I : x = W[i]
    BY DEF ImageOf
  <1>6. \A x : x \in Held(ToSet(S)) <=> \E i \in keep : ~t[i].optional /\ x = W[i]
    <2> SUFFICES ASSUME NEW x PROVE x \in Held(ToSet(S)) <=> \E i \in keep : ~t[i].optional /\ x = W[i]
      OBVIOUS
    <2>1. ASSUME x \in Held(ToSet(S)) PROVE \E i \in keep : ~t[i].optional /\ x = W[i]
      <3>1. PICK s \in ToSet(S) : x \in ToSet(s.pages)
        BY <2>1 DEF Held
      <3>2. PICK i \in In(t, keep, s.name) : x = W[i]
        BY <1>4, <1>5, <3>1
      <3> QED BY <3>2 DEF In
    <2>2. ASSUME NEW i \in keep, ~t[i].optional, x = W[i] PROVE x \in Held(ToSet(S))
      <3>1. PICK s \in ToSet(S) : s.name = NameIn(t, i)
        BY <1>1, <2>2
      <3>2. i \in In(t, keep, s.name)
        BY <2>2, <3>1 DEF In
      <3>3. x \in ToSet(s.pages)
        BY <1>4, <1>5, <2>2, <3>2
      <3> QED BY <3>3 DEF Held
    <2> QED BY <2>1, <2>2
  <1>7. \A x : x \in ToSet(O) <=> \E i \in keep : t[i].optional /\ x = W[i]
    <2>1. \A i : i \in OptIn(t, keep) <=> i \in keep /\ t[i].optional
      BY DEF OptIn
    <2>2. \A x : x \in ToSet(O) <=> \E i \in OptIn(t, keep) : x = W[i]
      BY <1>3 DEF ImageOf
    <2> QED BY <2>1, <2>2
  <1>8. \A i, j \in 1..n : W[i] = W[j] => i = j
    BY DEF Pages
  <1>9. \A i \in keep : t[i].optional \in BOOLEAN
    BY DEF RowRec
  <1>10. Held(ToSet(S)) \cap ToSet(O) = {}
    BY <1>6, <1>7, <1>8
  <1>11. Held(ToSet(S)) \cup ToSet(O) = ImageOf(W, keep)
    <2>1. ASSUME NEW x \in ImageOf(W, keep) PROVE x \in Held(ToSet(S)) \/ x \in ToSet(O)
      <3>1. PICK i \in keep : x = W[i]
        BY DEF ImageOf
      <3> QED BY <1>6, <1>7, <1>9, <3>1
    <2>2. ASSUME NEW x, x \in Held(ToSet(S)) \/ x \in ToSet(O) PROVE x \in ImageOf(W, keep)
      BY <1>5, <1>6, <1>7, <2>2
    <2> QED BY <2>1, <2>2
  <1>12. Well(S, O, ImageOf(W, keep))
    BY <1>1, <1>3, <1>10, <1>11 DEF Well
  <1>13. Apart(ImageOf(W, keep))
    <2> SUFFICES ASSUME NEW x \in ImageOf(W, keep), NEW y \in ImageOf(W, keep), x.url = y.url
                 PROVE  x = y
      BY DEF Apart
    <2>1. PICK i \in keep : x = W[i]
      BY DEF ImageOf
    <2>2. PICK j \in keep : y = W[j]
      BY DEF ImageOf
    <2> QED BY <2>1, <2>2 DEF Pages
  <1>14. \A s \in ToSet(S) : Shows(s)
    BY <1>1 DEF Shows, RowNames
  <1>15. ShownPages(S) = Held(ToSet(S))
    <2>1. {s \in ToSet(S) : Shows(s)} = ToSet(S)
      BY <1>14
    <2> QED BY <2>1 DEF ShownPages
  <1> QED BY <1>11, <1>12, <1>13, <1>14, <1>15

\* What rebuild makes of rows is still what they say.
LEMMA RowMadeGives ==
  ASSUME NEW n, NEW W, Pages(n, W), NEW t \in [1..n -> RowRec], NEW keep \in SUBSET (1..n),
         NEW off, \A i \in 1..n : W[i].url \notin off <=> i \in keep,
         NEW T, NEW names \in Seq(T)
  PROVE  RowsGive(RowMade(W, t, off, names), RowOptional(W, t, off), W, t, keep)
  <1> DEFINE K == RowKept(W, t, off)
             M == RowMade(W, t, off, names)
             O == RowOptional(W, t, off)
  <1>1. RowsGive(K, O, W, t, keep)
    BY RowsGiveSections
  <1>2. M = IF names = <<>> THEN K ELSE ManuallyOrdered(K, names)
    BY DEF RowMade
  <1> HIDE DEF K, M, O
  <1>3. Fine(K)
    BY <1>1 DEF RowsGive
  <1>4. Fine(M) /\ ToSet(M) = ToSet(K)
    BY <1>2, <1>3, ManuallyOrderedSays
  <1>5. RowsGive(M, O, W, t, keep)
    BY <1>1, <1>4 DEF RowsGive
  <1> QED BY <1>5 DEF M, O

\* The pages of a run, as an edit reads them.
LEMMA ReadSays ==
  ASSUME NEW E, Unmixed(E), NEW R \in [1..Len(E) -> RowRec]
  PROVE  /\ Len(E) \in Nat /\ DOMAIN E = 1..Len(E) /\ Pages(Len(E), ReadOf(E, R))
         /\ \A i \in 1..Len(E) : /\ ReadOf(E, R)[i].url = E[i].url
                                 /\ ReadOf(E, R)[i].title = R[i].title
                                 /\ ReadOf(E, R)[i].description = R[i].description
  <1> DEFINE W == ReadOf(E, R)
  <1>1. E \in Seq(PageEntry) /\ \A i, j \in DOMAIN E : E[i].url = E[j].url => i = j
    BY DEF Unmixed
  <1>2. Len(E) \in Nat /\ DOMAIN E = 1..Len(E) /\ \A i \in 1..Len(E) : E[i] \in PageEntry
    BY <1>1, SeqIs
  <1>3. W = [i \in 1..Len(E) |-> W[i]] /\ \A i \in 1..Len(E) : W[i] = ReadAt(E, R, i)
    BY <1>2 DEF ReadOf
  <1> HIDE DEF W
  <1>4. \A i \in 1..Len(E) : /\ W[i] \in PageEntry /\ W[i].url = E[i].url
                             /\ W[i].title = R[i].title /\ W[i].description = R[i].description
    <2> SUFFICES ASSUME NEW i \in 1..Len(E)
                 PROVE  /\ W[i] \in PageEntry /\ W[i].url = E[i].url
                        /\ W[i].title = R[i].title /\ W[i].description = R[i].description
      OBVIOUS
    <2>1. E[i] \in PageEntry /\ R[i].title \in Text /\ R[i].description \in Text
      BY <1>2 DEF RowRec
    <2>2. PICK title \in Text, text \in Text : title = R[i].title /\ text = R[i].description
      BY <2>1
    <2>3. W[i] = [E[i] EXCEPT !.title = title, !.description = text, !.section = Unset,
                              !.optional = FALSE]
      BY <1>3, <2>2, Zenon DEF ReadAt
    <2>4. PICK x \in PageEntry : x = E[i]
      BY <2>1
    <2>5. W[i] = [x EXCEPT !.title = title, !.description = text, !.section = Unset,
                           !.optional = FALSE]
      BY <2>3, <2>4, Zenon
    <2>7. PICK y : y = [x EXCEPT !.title = title, !.description = text, !.section = Unset,
                                 !.optional = FALSE]
      OBVIOUS
    <2>8. y \in PageEntry
      BY <2>7 DEF PageEntry
    <2>9. y.url = x.url /\ y.title = title /\ y.description = text
      BY <2>7 DEF PageEntry
    <2>6. W[i] \in PageEntry /\ W[i].url = x.url /\ W[i].title = title /\ W[i].description = text
      BY <2>5, <2>7, <2>8, <2>9, Zenon
    <2> QED BY <2>2, <2>4, <2>6
  <1>5. Pages(Len(E), W)
    BY <1>1, <1>2, <1>3, <1>4 DEF Pages
  <1> QED BY <1>2, <1>4, <1>5 DEF W

\* The names of sections that an edit can send.
LEMMA OrdersSay ==
  ASSUME TypeInv, NEW names \in Orders
  PROVE  \E T : names \in Seq(T)
  <1> DEFINE heads == {i \in DOMAIN file.index : file.index[i].kind = "heading"
                                                  /\ file.index[i].level = 2}
             h == KeptAt(file.index, heads)
             r == Reverse(h)
  <1>1. file.index \in Seq(IndexLine)
    BY DEF TypeInv
  <1>2. h \in Seq(IndexLine)
    <2>1. heads \in SUBSET (1..Len(file.index))
      BY <1>1, SeqIs
    <2> HIDE DEF heads
    <2> QED BY <1>1, <2>1, KeptAtSays
  <1>3. names = <<>> \/ names = [k \in DOMAIN r |-> r[k].text[1]]
    BY Zenon DEF Orders, Those
  <1> HIDE DEF h
  <1>4. Len(h) \in Nat /\ DOMAIN r = 1..Len(h)
    BY <1>2, SeqIs DEF Reverse
  <1> HIDE DEF r
  <1>5. CASE names = <<>>
    BY <1>5
  <1>6. CASE names # <<>>
    <2>1. names = [k \in 1..Len(h) |-> names[k]]
      BY <1>3, <1>4, <1>6
    <2>2. names \in [1..Len(h) -> {names[k] : k \in 1..Len(h)}]
      BY <2>1
    <2> QED BY <1>4, <2>2, IsSeq
  <1> QED BY <1>5, <1>6

LEMMA FromRowsIs ==
  ASSUME NEW t
  PROVE  FromRows(t) = FromRowsBy(file, entries, rows, t)
  BY Zenon DEF FromRows, FromRowsBy, Fetched, ReadAt, Entry, RowGroups, RowMain, RowNamed, RowRest,
               RowOrder, Turn, NameIn, Those

Ticked(R, keep) == [i \in DOMAIN R |-> [R[i] EXCEPT !.included = i \in keep]]
Unticked(E, keep) == {E[i].url : i \in DOMAIN E \ keep}

\* What an edit builds, in terms of the rows.
EditOf(built, E, R, f, keep, names, p) ==
    LET W == ReadOf(E, R)
        t == Ticked(R, keep)
        off == Unticked(E, keep)
        M == RowMade(W, t, off, names)
        O == RowOptional(W, t, off)
    IN  /\ built = Remade(f, W, t, off, names, p)
        /\ t \in [1..Len(E) -> RowRec] /\ keep \in SUBSET (1..Len(E))
        /\ Pages(Len(E), W)
        /\ \A i \in 1..Len(E) : W[i].url \notin off <=> i \in keep
        /\ RowsGive(M, O, W, t, keep)
        /\ Well(M, O, ImageOf(W, keep)) /\ Apart(ImageOf(W, keep))
        /\ BuiltOf(built, f.name, f.summary, M, O, p)
        /\ ShownPages(M) \cup ToSet(O) = ImageOf(W, keep)
        /\ \A s \in ToSet(M) : Shows(s)

LEMMA EditBuilds ==
  ASSUME NEW E, Unmixed(E), NEW R \in [1..Len(E) -> RowRec], NEW f, f.name \in Text, f.summary \in Text,
         NEW keep \in SUBSET (DOMAIN E), NEW T, NEW names \in Seq(T), NEW p \in DOMAIN Templates
  PROVE  EditOf(Rebuilt(FromRowsBy(f, E, R, Ticked(R, keep)), Unticked(E, keep), names, p),
                E, R, f, keep, names, p)
  <1> DEFINE n == Len(E)
             W == ReadOf(E, R)
             t == Ticked(R, keep)
             off == Unticked(E, keep)
             M == RowMade(W, t, off, names)
             O == RowOptional(W, t, off)
             built == Rebuilt(FromRowsBy(f, E, R, t), off, names, p)
  <1>1. /\ n \in Nat /\ DOMAIN E = 1..n /\ Pages(n, W) /\ \A i \in 1..n : W[i].url = E[i].url
    BY ReadSays
  <1>2. t \in [1..n -> RowRec]
    <2>1. DOMAIN t = 1..n /\ t = [i \in 1..n |-> t[i]]
          /\ \A i \in 1..n : t[i] = [R[i] EXCEPT !.included = i \in keep]
      BY DEF Ticked
    <2> HIDE DEF t
    <2>2. ASSUME NEW i \in 1..n PROVE t[i] \in RowRec
      <3>1. PICK row \in RowRec : row = R[i]
        OBVIOUS
      <3>2. i \in keep => t[i] = [row EXCEPT !.included = TRUE]
        BY <2>1, <3>1, Zenon
      <3>3. i \notin keep => t[i] = [row EXCEPT !.included = FALSE]
        <4> SUFFICES ASSUME i \notin keep PROVE t[i] = [row EXCEPT !.included = FALSE]
          OBVIOUS
        <4>1. (i \in keep) = FALSE
          OBVIOUS
        <4>2. t[i] = [row EXCEPT !.included = i \in keep]
          BY <2>1, <3>1
        <4> QED BY <4>1, <4>2
      <3>4. [row EXCEPT !.included = TRUE] \in RowRec /\ [row EXCEPT !.included = FALSE] \in RowRec
        BY DEF RowRec
      <3> QED BY <3>2, <3>3, <3>4
    <2> QED BY <2>1, <2>2
  <1>3. \A i \in 1..n : W[i].url \notin off <=> i \in keep
    <2> SUFFICES ASSUME NEW i \in 1..n PROVE W[i].url \notin off <=> i \in keep
      OBVIOUS
    <2>1. ASSUME W[i].url \in off PROVE i \notin keep
      <3>1. PICK j \in DOMAIN E \ keep : W[i].url = E[j].url
        BY <2>1 DEF Unticked
      <3>2. W[i].url = W[j].url
        BY <1>1, <3>1
      <3> QED BY <1>1, <3>1, <3>2 DEF Pages
    <2>2. ASSUME i \notin keep PROVE W[i].url \in off
      BY <1>1, <2>2 DEF Unticked
    <2> QED BY <2>1, <2>2
  <1>4. built = Remade(f, W, t, off, names, p)
    BY <1>1, <1>2, RemadeIs
  <1> HIDE DEF W, t, off, built
  <1>5. keep \in SUBSET (1..n)
    BY <1>1
  <1>6. RowsGive(M, O, W, t, keep)
    BY <1>1, <1>2, <1>3, <1>5, RowMadeGives
  <1> HIDE DEF M, O
  <1>7. /\ Well(M, O, ImageOf(W, keep)) /\ Apart(ImageOf(W, keep))
        /\ ShownPages(M) \cup ToSet(O) = ImageOf(W, keep)
        /\ \A s \in ToSet(M) : Shows(s)
    BY <1>1, <1>2, <1>5, <1>6, RowsHold
  <1>8. BuiltOf(built, f.name, f.summary, M, O, p)
    <2> PICK judged : judged = PagesOf(M) \o O
      OBVIOUS
    <2>1. built = Built(f.name, f.summary, M, O, p, f.full # <<>>, judged)
      BY <1>4, Zenon DEF Remade, M, O
    <2>2. BuiltOf(Built(f.name, f.summary, M, O, p, f.full # <<>>, judged), f.name, f.summary, M, O, p)
      BY <1>7, BuiltSays
    <2> QED BY <2>1, <2>2
  <1> QED BY <1>1, <1>2, <1>3, <1>4, <1>5, <1>6, <1>7, <1>8, Zenon
          DEF EditOf, M, O, W, t, off, n, built

BareOf(E) == [i \in DOMAIN E |-> Bare(E[i])]
EditBuilt(keep, names, p) ==
    Rebuilt(FromRowsBy(file, entries, rows, Ticked(rows, keep)), Unticked(entries, keep), names, p)

LEMMA EditIs ==
  ASSUME NEW keep, NEW names, NEW p, EditPages(keep, names, p)
  PROVE  LET built == EditBuilt(keep, names, p)
         IN  /\ stage = "complete" /\ pattern' = p
             /\ file' = Kept(built)
             /\ rows' = Ticked(WrittenBack(built), keep)
             /\ edits' = [count |-> edits.count + 1,
                          same |-> /\ edits.count > 0 /\ p = pattern /\ names = <<>>
                                   /\ keep = {i \in DOMAIN rows : rows[i].included}]
             /\ entries' = BareOf(entries)
             /\ UNCHANGED <<stage, wantsFull>>
  <1> DEFINE t == Ticked(rows, keep)
             off == Unticked(entries, keep)
             built == EditBuilt(keep, names, p)
  <1>1. built = Rebuilt(FromRows(t), off, names, p)
    <2>1. FromRows(t) = FromRowsBy(file, entries, rows, t)
      BY FromRowsIs
    <2> QED BY <2>1, Zenon DEF EditBuilt
  <1>2. DOMAIN WrittenBack(built) = DOMAIN rows
    <2> PICK b : b = built
      OBVIOUS
    <2>1. WrittenBack(b) = [i \in DOMAIN rows |-> WrittenBack(b)[i]]
      BY WrittenBackIs
    <2>2. DOMAIN WrittenBack(b) = DOMAIN rows
      BY <2>1
    <2> QED BY <2>2
  <1>3. rows' = [i \in DOMAIN rows |-> [WrittenBack(built)[i] EXCEPT !.included = i \in keep]]
    BY <1>1, Zenon DEF EditPages, Ticked, Unticked
  <1>4. rows' = Ticked(WrittenBack(built), keep)
    BY <1>2, <1>3, Zenon DEF Ticked
  <1> QED BY <1>1, <1>4, Zenon DEF EditPages, Ticked, Unticked, BareOf

\* The rows once an edit has written them.
LEMMA EditRows ==
  ASSUME TypeInv, NEW built, NEW keep, WrittenBack(built) \in [1..Len(entries) -> RowRec],
         rows' = Ticked(WrittenBack(built), keep)
  PROVE  /\ rows' \in [1..Len(entries) -> RowRec]
         /\ \A i \in 1..Len(entries) :
               LET b == WrittenBack(built)[i]
               IN  /\ rows'[i].included <=> i \in keep
                   /\ rows'[i].title = b.title /\ rows'[i].description = b.description
                   /\ rows'[i].section = b.section /\ rows'[i].optional = b.optional
                   /\ rows'[i].position = b.position
  <1> DEFINE n == Len(entries)
             B == WrittenBack(built)
  <1>1. DOMAIN B = 1..n
    OBVIOUS
  <1>2. rows' = [i \in 1..n |-> rows'[i]]
        /\ \A i \in 1..n : rows'[i] = [B[i] EXCEPT !.included = i \in keep]
    BY <1>1 DEF Ticked
  <1> HIDE DEF n, B
  <1>3. ASSUME NEW i \in 1..n
        PROVE  /\ rows'[i] \in RowRec
               /\ rows'[i].included <=> i \in keep
               /\ rows'[i].title = B[i].title /\ rows'[i].description = B[i].description
               /\ rows'[i].section = B[i].section /\ rows'[i].optional = B[i].optional
               /\ rows'[i].position = B[i].position
    <2>1. PICK row \in RowRec : row = B[i]
      BY DEF n, B
    <2>2. CASE i \in keep
      <3>1. (i \in keep) = TRUE
        BY <2>2
      <3>2. rows'[i] = [row EXCEPT !.included = TRUE]
        BY <1>2, <2>1, <3>1
      <3>3. PICK r : r = [row EXCEPT !.included = TRUE]
        OBVIOUS
      <3>4. r \in RowRec
        BY <3>3 DEF RowRec
      <3>5. /\ r.included = TRUE /\ r.title = row.title /\ r.description = row.description
            /\ r.section = row.section /\ r.optional = row.optional /\ r.position = row.position
        BY <3>3 DEF RowRec
      <3>6. rows'[i] = r
        BY <3>2, <3>3
      <3> QED BY <2>1, <2>2, <3>4, <3>5, <3>6
    <2>3. CASE i \notin keep
      <3>1. (i \in keep) = FALSE
        BY <2>3
      <3>2. rows'[i] = [row EXCEPT !.included = FALSE]
        BY <1>2, <2>1, <3>1
      <3>3. PICK r : r = [row EXCEPT !.included = FALSE]
        OBVIOUS
      <3>4. r \in RowRec
        BY <3>3 DEF RowRec
      <3>5. /\ r.included = FALSE /\ r.title = row.title /\ r.description = row.description
            /\ r.section = row.section /\ r.optional = row.optional /\ r.position = row.position
        BY <3>3 DEF RowRec
      <3>6. rows'[i] = r
        BY <3>2, <3>3
      <3> QED BY <2>1, <2>3, <3>4, <3>5, <3>6
    <2> QED BY <2>2, <2>3
  <1> QED BY <1>2, <1>3 DEF n, B

\* What an edit leaves of the pages.
LEMMA BareSays ==
  ASSUME NEW E, Unmixed(E), \A i \in DOMAIN E : SectionOfUrl(E[i].url) \in SectionNames,
         NEW F, F = BareOf(E)
  PROVE  /\ Unmixed(F) /\ Len(F) = Len(E) /\ DOMAIN F = DOMAIN E
         /\ \A i \in DOMAIN F : SectionOfUrl(F[i].url) \in SectionNames /\ F[i].url = E[i].url
  <1>1. \A i \in DOMAIN E : E[i] \in PageEntry
    <2>1. E \in Seq(PageEntry)
      BY DEF Unmixed
    <2> QED BY <2>1, SeqIs
  <1>2. F = [i \in DOMAIN E |-> F[i]] /\ \A i \in DOMAIN E : F[i] = Bare(E[i])
    BY Zenon DEF BareOf
  <1>3. <<>> \in Text
    BY DEF Text
  <1>4. \A i \in DOMAIN E : F[i] \in PageEntry /\ F[i].url = E[i].url
    <2> SUFFICES ASSUME NEW i \in DOMAIN E PROVE F[i] \in PageEntry /\ F[i].url = E[i].url
      OBVIOUS
    <2>1. PICK x \in PageEntry : x = E[i]
      BY <1>1
    <2>2. Bare(x) \in PageEntry /\ Bare(x).url = x.url
      BY <1>3 DEF Bare, PageEntry
    <2> QED BY <1>2, <2>1, <2>2
  <1> QED BY <1>2, <1>4, Reentered

\* An edit lists the ticked pages, each once.
LEMMA EditSays ==
  ASSUME TypeInv, NEW keep \in SUBSET DOMAIN entries, NEW names \in Orders, NEW p \in DOMAIN Templates,
         EditPages(keep, names, p)
  PROVE  /\ TypeInv' /\ ListedOnce'
         /\ EditOf(EditBuilt(keep, names, p), entries, rows, file, keep, names, p)
         /\ WrittenBack(EditBuilt(keep, names, p)) \in [1..Len(entries) -> RowRec]
  <1> DEFINE n == Len(entries)
             built == EditBuilt(keep, names, p)
             W == ReadOf(entries, rows)
             M == RowMade(W, Ticked(rows, keep), Unticked(entries, keep), names)
             O == RowOptional(W, Ticked(rows, keep), Unticked(entries, keep))
             X == ImageOf(W, keep)
             B == WrittenBack(built)
  <1>1. /\ Unmixed(entries) /\ \A i \in DOMAIN entries : SectionOfUrl(entries[i].url) \in SectionNames
        /\ rows \in [1..n -> RowRec] /\ file.name \in Text /\ file.summary \in Text
        /\ edits.count \in Nat /\ wantsFull \in BOOLEAN
    BY DEF TypeInv
  <1>2. PICK T : names \in Seq(T)
    BY OrdersSay
  <1>3. EditOf(built, entries, rows, file, keep, names, p)
    <2>1. EditOf(Rebuilt(FromRowsBy(file, entries, rows, Ticked(rows, keep)), Unticked(entries, keep),
                         names, p), entries, rows, file, keep, names, p)
      BY <1>1, <1>2, EditBuilds
    <2> QED BY <2>1 DEF EditBuilt
  <1>4. /\ stage = "complete" /\ stage' = "complete" /\ pattern' = p /\ wantsFull' = wantsFull
        /\ file' = Kept(built)
        /\ rows' = Ticked(B, keep)
        /\ edits'.count = edits.count + 1
        /\ entries' = BareOf(entries)
    BY EditIs
  <1>5. /\ n \in Nat /\ DOMAIN entries = 1..n /\ \A i \in 1..n : W[i].url = entries[i].url
    BY <1>1, ReadSays
  <1> HIDE DEF built, W, M, O, B
  <1>6. /\ keep \in SUBSET (1..n) /\ Well(M, O, X) /\ Apart(X)
        /\ BuiltOf(built, file.name, file.summary, M, O, p)
        /\ ShownPages(M) \cup ToSet(O) = X
    BY <1>3 DEF EditOf, W, M, O
  <1> HIDE DEF X
  <1>7. /\ built.name = file.name /\ built.summary = file.summary
        /\ built.index \in Seq(IndexLine)
        /\ Urls(LinksIn(built.index)) = UrlsOf(X)
        /\ Len(LinksIn(built.index)) = Cardinality(Urls(LinksIn(built.index)))
        /\ Well(built.sections, built.optional, X)
        /\ \A s \in ToSet(built.sections) : s.name # "Optional"
    BY <1>6 DEF BuiltOf
  <1>8. B \in [1..n -> RowRec]
    BY <1>6, <1>7, WrittenBackSays DEF B
  <1>9. rows' \in [1..n -> RowRec] /\ \A i \in 1..n : rows'[i].included <=> i \in keep
    BY <1>4, <1>8, EditRows DEF B
  <1>10. /\ Unmixed(entries') /\ Len(entries') = n /\ DOMAIN entries' = 1..n
         /\ \A i \in 1..n : SectionOfUrl(entries'[i].url) \in SectionNames /\ entries'[i].url = entries[i].url
    BY <1>1, <1>4, <1>5, BareSays
  <1>11. file'.name = file.name /\ file'.summary = file.summary /\ file'.index = built.index
    BY <1>4, <1>7 DEF Kept
  <1>12. TypeInv'
    <2>1. edits'.count \in Nat /\ (stage' # "complete" => edits'.count = 0)
      BY <1>1, <1>4
    <2>2. stage' \in {"crawled", "triaged", "written", "complete"} /\ pattern' \in DOMAIN Templates
          /\ wantsFull' \in BOOLEAN
      BY <1>1, <1>4
    <2>3. file'.name \in Text /\ file'.summary \in Text /\ file'.index \in Seq(IndexLine)
      BY <1>1, <1>7, <1>11
    <2>4. rows' \in [1..Len(entries') -> RowRec]
      BY <1>9, <1>10
    <2> QED BY <1>10, <2>1, <2>2, <2>3, <2>4, Zenon DEF TypeInv
  <1>13. Links' = LinksIn(built.index)
    <2>1. Links' = LinksIn(file'.index)
      BY Zenon DEF Links, LinksIn, Those
    <2> QED BY <1>11, <2>1
  <1>14. Listed' = Urls(LinksIn(built.index))
    BY <1>13 DEF Listed
  <1>15. Expected' = UrlsOf(X)
    <2>1. edits'.count > 0
      BY <1>1, <1>4
    <2>2. Expected' = {entries'[i].url : i \in {j \in DOMAIN rows' : rows'[j].included}}
      BY <2>1, Zenon DEF Expected
    <2>3. {j \in DOMAIN rows' : rows'[j].included} = keep
      BY <1>6, <1>9
    <2>4. Expected' = {entries'[i].url : i \in keep}
      BY <2>2, <2>3
    <2>5. ASSUME NEW u \in Expected' PROVE u \in UrlsOf(X)
      <3>1. PICK i \in keep : u = entries'[i].url
        BY <2>4, <2>5
      <3>2. u = W[i].url /\ W[i] \in X
        BY <1>5, <1>6, <1>10, <3>1 DEF X, ImageOf
      <3> QED BY <3>2 DEF UrlsOf
    <2>6. ASSUME NEW u \in UrlsOf(X) PROVE u \in Expected'
      <3>1. PICK x \in X : u = x.url
        BY <2>6 DEF UrlsOf
      <3>2. PICK i \in keep : x = W[i]
        BY <3>1 DEF X, ImageOf
      <3>3. u = entries'[i].url
        BY <1>5, <1>6, <1>10, <3>1, <3>2
      <3> QED BY <2>4, <3>2, <3>3
    <2> QED BY <2>5, <2>6
  <1> QED BY <1>3, <1>7, <1>8, <1>12, <1>13, <1>14, <1>15 DEF ListedOnce, built, B

-----------------------------------------------------------------------------
(* The rows after an edit say what its file shows. *)

\* Rows that have the places of the sections D.
Stamped(D, W, t, u, keep) ==
    /\ \A k \in DOMAIN D : \A q \in DOMAIN D[k].pages, i \in keep :
          D[k].pages[q] = W[i] => /\ u[i].section = D[k].name /\ u[i].optional = FALSE
                                  /\ u[i].position = PlaceAt(k, q)
    /\ \A i \in OptIn(t, keep) : u[i].optional = TRUE /\ u[i].position = t[i].position

SameIn(t, u, keep) ==
    /\ \A i \in keep : (u[i].optional <=> t[i].optional)
                       /\ (~t[i].optional => NameIn(u, i) = NameIn(t, i))
    /\ \A name : In(u, keep, name) = In(t, keep, name)
    /\ OptIn(u, keep) = OptIn(t, keep)

\* What is written back leaves the pages where they are.
LEMMA StampedIn ==
  ASSUME NEW n, NEW W, Pages(n, W), NEW t \in [1..n -> RowRec], NEW u \in [1..n -> RowRec],
         NEW keep \in SUBSET (1..n), NEW S, NEW O, RowsGive(S, O, W, t, keep),
         NEW D, Fine(D), ToSet(D) = ToSet(S), Stamped(D, W, t, u, keep)
  PROVE  SameIn(t, u, keep)
  <1>1. /\ \A s \in ToSet(S) : Lists(s.pages, W, In(t, keep, s.name), Turn(t)) /\ s.name \in RowNames
        /\ \A i \in keep : ~t[i].optional => \E s \in ToSet(S) : s.name = NameIn(t, i)
    BY DEF RowsGive
  <1>2. ASSUME NEW i \in keep, ~t[i].optional
        PROVE  ~u[i].optional /\ NameIn(u, i) = NameIn(t, i)
    <2>1. PICK s \in ToSet(S) : s.name = NameIn(t, i)
      BY <1>1, <1>2
    <2>2. PICK k \in DOMAIN D : s = D[k]
      BY <2>1 DEF ToSet
    <2>3. i \in In(t, keep, s.name) /\ In(t, keep, s.name) \in SUBSET (1..n)
      BY <1>2, <2>1 DEF In
    <2>4. ToSet(s.pages) = ImageOf(W, In(t, keep, s.name))
      BY <1>1, <2>3, ListsSays
    <2>5. W[i] \in ToSet(s.pages)
      BY <2>3, <2>4 DEF ImageOf
    <2>6. PICK q \in DOMAIN D[k].pages : D[k].pages[q] = W[i]
      BY <2>2, <2>5 DEF ToSet
    <2>7. u[i].section = D[k].name /\ u[i].optional = FALSE
      BY <2>6 DEF Stamped
    <2>8. D[k].name # Unset
      BY <1>1, <2>2, NamesAssumption DEF RowNames
    <2> QED BY <2>1, <2>2, <2>7, <2>8 DEF NameIn
  <1>3. ASSUME NEW i \in keep, t[i].optional PROVE u[i].optional
    BY <1>3 DEF OptIn, Stamped
  <1>4. \A i \in keep : (u[i].optional <=> t[i].optional)
                        /\ (~t[i].optional => NameIn(u, i) = NameIn(t, i))
    BY <1>2, <1>3
  <1>5. ASSUME NEW name PROVE In(u, keep, name) = In(t, keep, name)
    BY <1>4 DEF In
  <1>6. OptIn(u, keep) = OptIn(t, keep)
    BY <1>4 DEF OptIn
  <1> QED BY <1>4, <1>5, <1>6 DEF SameIn

\* The order of the rows in a section is the order of its pages.
LEMMA StampedTurn ==
  ASSUME NEW n, NEW W, Pages(n, W), NEW t \in [1..n -> RowRec], NEW u \in [1..n -> RowRec],
         NEW keep \in SUBSET (1..n), NEW D, Stamped(D, W, t, u, keep),
         NEW k \in DOMAIN D, k \in Nat, NEW I \in SUBSET keep, Lists(D[k].pages, W, I, Turn(t))
  PROVE  \A i, j \in I : i \in Turn(t)[j] <=> i \in Turn(u)[j]
  <1>1. PICK m, e : Numbers(m, I, e) /\ InTurn(m, e, Turn(t)) /\ D[k].pages = Mapped(W, e)
    BY DEF Lists
  <1>2. m \in Nat /\ e \in [1..m -> I] /\ \A x \in I : \E a \in 1..m : e[a] = x
    BY <1>1 DEF Numbers
  <1>3. \A a \in 1..m : a \in DOMAIN D[k].pages /\ D[k].pages[a] = W[e[a]]
    BY <1>1, <1>2 DEF Mapped
  <1>4. \A a \in 1..m : u[e[a]].position = PlaceAt(k, a) /\ e[a] \in 1..n
    <2> SUFFICES ASSUME NEW a \in 1..m
                 PROVE  u[e[a]].position = PlaceAt(k, a) /\ e[a] \in 1..n
      OBVIOUS
    <2>1. a \in DOMAIN D[k].pages /\ e[a] \in keep /\ D[k].pages[a] = W[e[a]]
      BY <1>2, <1>3
    <2>2. \A q \in DOMAIN D[k].pages, i \in keep :
             D[k].pages[q] = W[i] => u[i].position = PlaceAt(k, q)
      BY DEF Stamped
    <2>3. u[e[a]].position = PlaceAt(k, a)
      BY <2>1, <2>2
    <2> QED BY <2>1, <2>3
  <1>5. Linear(1..n, Turn(t))
    BY TurnLinear DEF Pages
  <1> SUFFICES ASSUME NEW i \in I, NEW j \in I PROVE i \in Turn(t)[j] <=> i \in Turn(u)[j]
    OBVIOUS
  <1>6. PICK a \in 1..m : e[a] = i
    BY <1>2
  <1>7. PICK b \in 1..m : e[b] = j
    BY <1>2
  <1>8. i \in Turn(u)[j] <=> a < b
    <2> PICK base : base = 1000 * (k - 1)
      OBVIOUS
    <2>1. base \in Int
      OBVIOUS
    <2>9. u[i].position = PlaceAt(k, a) /\ u[j].position = PlaceAt(k, b)
      BY <1>4, <1>6, <1>7
    <2>10. PlaceAt(k, a) = base + a - 1 /\ PlaceAt(k, b) = base + b - 1
      BY DEF PlaceAt
    <2>2. u[i].position = base + a - 1 /\ u[j].position = base + b - 1
      BY <2>9, <2>10
    <2>3. i \in 1..n /\ j \in 1..n /\ DOMAIN u = 1..n
      OBVIOUS
    <2>4. i \in Turn(u)[j] <=> u[i].position < u[j].position \/ (u[i].position = u[j].position /\ i < j)
      BY <2>3 DEF Turn
    <2>5. u[i].position < u[j].position <=> a < b
      BY <2>1, <2>2
    <2>6. u[i].position = u[j].position => a = b
      BY <2>1, <2>2
    <2>7. a = b => i = j
      BY <1>6, <1>7
    <2>8. i \in Int /\ ~(i < i)
      BY <2>3
    <2> QED BY <2>4, <2>5, <2>6, <2>7, <2>8
  <1>9. i \in Turn(t)[j] <=> a < b
    <2>1. i \in 1..n /\ j \in 1..n
      OBVIOUS
    <2>2. a < b => i \in Turn(t)[j]
      BY <1>1, <1>6, <1>7 DEF InTurn
    <2>3. b < a => j \in Turn(t)[i]
      BY <1>1, <1>6, <1>7 DEF InTurn
    <2>4. ~(i \in Turn(t)[j] /\ j \in Turn(t)[i])
      BY <1>5, <2>1 DEF Linear
    <2>5. a = b => i \notin Turn(t)[j]
      BY <1>5, <1>6, <1>7, <2>1 DEF Linear
    <2>6. a < b \/ a = b \/ b < a
      BY <1>2
    <2> QED BY <2>2, <2>3, <2>4, <2>5, <2>6
  <1> QED BY <1>8, <1>9

LEMMA ListsFilled ==
  ASSUME NEW n, NEW W, Pages(n, W), NEW I \in SUBSET (1..n), NEW ahead, NEW pages,
         Lists(pages, W, I, ahead), pages # <<>>
  PROVE  I # {}
  <1>1. pages \in Seq(PageEntry) /\ ToSet(pages) = ImageOf(W, I)
    BY ListsSays
  <1>2. Len(pages) \in Nat /\ DOMAIN pages = 1..Len(pages) /\ Len(pages) # 0
    BY <1>1, SeqIs
  <1>3. pages[1] \in ToSet(pages)
    BY <1>2 DEF ToSet
  <1> QED BY <1>1, <1>3 DEF ImageOf

LEMMA StampedSame ==
  ASSUME NEW n, NEW W, Pages(n, W), NEW t \in [1..n -> RowRec], NEW u \in [1..n -> RowRec],
         NEW keep \in SUBSET (1..n), NEW S, NEW O, RowsGive(S, O, W, t, keep),
         NEW R, NEW P, RowsGive(R, P, W, u, keep),
         NEW D, Fine(D), ToSet(D) = ToSet(S), Stamped(D, W, t, u, keep)
  PROVE  ToSet(R) = ToSet(S) /\ P = O
  <1>1. /\ Fine(S)
        /\ \A s \in ToSet(S) : /\ s.name \in RowNames /\ s.pages # <<>>
                               /\ Lists(s.pages, W, In(t, keep, s.name), Turn(t))
        /\ \A i \in keep : ~t[i].optional => \E s \in ToSet(S) : s.name = NameIn(t, i)
        /\ Lists(O, W, OptIn(t, keep), Turn(t))
    BY DEF RowsGive
  <1>2. /\ Fine(R)
        /\ \A s \in ToSet(R) : /\ s.name \in RowNames /\ s.pages # <<>>
                               /\ Lists(s.pages, W, In(u, keep, s.name), Turn(u))
        /\ \A i \in keep : ~u[i].optional => \E s \in ToSet(R) : s.name = NameIn(u, i)
        /\ Lists(P, W, OptIn(u, keep), Turn(u))
    BY DEF RowsGive
  <1>3. /\ \A i \in keep : (u[i].optional <=> t[i].optional)
                           /\ (~t[i].optional => NameIn(u, i) = NameIn(t, i))
        /\ \A name : In(u, keep, name) = In(t, keep, name)
        /\ OptIn(u, keep) = OptIn(t, keep)
    <2>1. SameIn(t, u, keep)
      BY StampedIn
    <2> QED BY <2>1 DEF SameIn
  <1>4. n \in Nat /\ Linear(1..n, Turn(t))
    BY TurnLinear DEF Pages
  <1>5. \A name : In(t, keep, name) \in SUBSET keep /\ In(t, keep, name) \in SUBSET (1..n)
    BY DEF In
  <1>6. DOMAIN D = 1..Len(D) /\ Len(D) \in Nat
    <2>1. D \in Seq(SectionRec)
      BY DEF Fine
    <2> QED BY <2>1, SeqIs
  <1>7. ASSUME NEW s \in ToSet(S), NEW r \in ToSet(R), s.name = r.name PROVE s = r
    <2> DEFINE I == In(t, keep, s.name)
    <2>1. PICK k \in DOMAIN D : s = D[k]
      BY DEF ToSet
    <2>2. k \in Nat /\ Lists(D[k].pages, W, I, Turn(t)) /\ Lists(s.pages, W, I, Turn(t))
      BY <1>1, <1>6, <2>1
    <2>3. Lists(r.pages, W, I, Turn(u))
      BY <1>2, <1>3, <1>7
    <2>4. I \in SUBSET keep /\ I \in SUBSET (1..n)
      BY <1>5
    <2> HIDE DEF I
    <2>5. \A i, j \in I : i \in Turn(t)[j] <=> i \in Turn(u)[j]
      BY <2>2, <2>4, StampedTurn
    <2>6. s.pages = r.pages
      BY <1>4, <2>2, <2>3, <2>4, <2>5, ListsSame
    <2>7. s \in SectionRec /\ r \in SectionRec
      BY <1>1, <1>2 DEF Fine, FineSet
    <2> QED BY <1>7, <2>6, <2>7 DEF SectionRec
  <1>8. ASSUME NEW s \in ToSet(S) PROVE s \in ToSet(R)
    <2>1. Lists(s.pages, W, In(t, keep, s.name), Turn(t)) /\ s.pages # <<>>
          /\ In(t, keep, s.name) \in SUBSET (1..n)
      BY <1>1, <1>5
    <2>2. In(t, keep, s.name) # {}
      BY <2>1, ListsFilled
    <2>3. PICK i \in keep : ~t[i].optional /\ NameIn(t, i) = s.name
      BY <2>2 DEF In
    <2>4. PICK r \in ToSet(R) : r.name = s.name
      BY <1>2, <1>3, <2>3
    <2> QED BY <1>7, <2>4
  <1>9. ASSUME NEW r \in ToSet(R) PROVE r \in ToSet(S)
    <2>1. Lists(r.pages, W, In(u, keep, r.name), Turn(u)) /\ r.pages # <<>>
          /\ In(u, keep, r.name) \in SUBSET (1..n)
      BY <1>2, <1>3, <1>5
    <2>2. In(u, keep, r.name) # {}
      BY <2>1, ListsFilled
    <2>3. PICK i \in keep : ~u[i].optional /\ NameIn(u, i) = r.name
      BY <2>2 DEF In
    <2>4. PICK s \in ToSet(S) : s.name = r.name
      BY <1>1, <1>3, <2>3
    <2> QED BY <1>7, <2>4
  <1>10. P = O
    <2> DEFINE I == OptIn(t, keep)
    <2>1. I \in SUBSET (1..n) /\ Lists(O, W, I, Turn(t)) /\ Lists(P, W, I, Turn(u))
      BY <1>1, <1>2, <1>3 DEF OptIn
    <2>2. \A i \in I : u[i].position = t[i].position
      BY DEF Stamped
    <2> HIDE DEF I
    <2>3. DOMAIN t = 1..n /\ DOMAIN u = 1..n
      OBVIOUS
    <2>4. \A i, j \in I : i \in Turn(t)[j] <=> i \in Turn(u)[j]
      BY <2>1, <2>2, <2>3 DEF Turn
    <2> QED BY <1>4, <2>1, <2>4, ListsSame
  <1> QED BY <1>8, <1>9, <1>10

-----------------------------------------------------------------------------
(* What is built of the same sections is the same. *)

IssuesIn(index, P) ==
    LET Is(kind) == {i \in DOMAIN index : index[i].kind = kind}
        Says(i, word) == word \in Words(index[i].text)
    IN  {level \in {"error", "warning", "info"} :
          CASE level = "error" ->
                 \/ index = <<>> \/ index[1].kind # "heading" \/ index[1].level # 1
                 \/ Is("quote") \cap 1..5 = {}
            [] level = "warning" -> \E i \in DOMAIN index : index[i].kind = "html"
            [] level = "info" ->
                 \/ \A i \in Is("heading") : index[i].level # 2
                 \/ /\ \A i \in Is("heading") : ~Says(i, "Contact")
                    /\ \A page \in P : ~LooksContact(page)
                 \/ \A i \in DOMAIN index : ~Says(i, "llms-full.txt")}

LEMMA IssuesAre ==
  ASSUME NEW index, NEW pages
  PROVE  Issues(index, pages) = IssuesIn(index, ToSet(pages))
  BY Zenon DEF Issues, IssuesIn

\* What is judged, as a set.
LEMMA JudgedSays ==
  ASSUME NEW S, NEW O, NEW X, Well(S, O, X)
  PROVE  ToSet(PagesOf(S) \o O) = X
  <1>1. /\ Fine(S) /\ O \in Seq(PageEntry) /\ Held(ToSet(S)) \cup ToSet(O) = X
    BY DEF Well
  <1>2. PagesOf(S) \in Seq(PageEntry) /\ ToSet(PagesOf(S)) = Held(ToSet(S))
    BY <1>1, PagesOfSays
  <1> PICK P : P = PagesOf(S)
    OBVIOUS
  <1>4. P \in Seq(PageEntry) /\ ToSet(P) = Held(ToSet(S))
    BY <1>2
  <1>6. O \in Seq(PageEntry) /\ P \in Seq(PageEntry)
    BY <1>1, <1>4
  <1>5. ToSet(Cat(P, O)) = ToSet(P) \cup ToSet(O)
    BY <1>6, CatOf
  <1>3. ToSet(Cat(P, O)) = X
    BY <1>1, <1>4, <1>5
  <1> QED BY <1>3, Zenon DEF Cat

\* Building once more from the file and the same sections.
BuiltFrom(name, summary, S, O, p, old) ==
    Kept(Built(name, summary, S, O, p, old # <<>>, PagesOf(S) \o O))

LEMMA BuiltAgain ==
  ASSUME NEW S, NEW O, NEW X, Well(S, O, X), NEW R, Well(R, O, X), ToSet(R) = ToSet(S),
         NEW p \in DOMAIN Templates, NEW name, NEW summary, NEW old,
         NEW f, f = BuiltFrom(name, summary, S, O, p, old)
  PROVE  BuiltFrom(f.name, f.summary, R, O, p, f.full) = f
  <1> PICK withFull \in BOOLEAN : withFull = (old # <<>>)
    OBVIOUS
  <1> DEFINE D == Ordered(S, p)
             index == RenderIndex(name, summary, D, O, p)
             text == RenderFull(name, PagesOf(D) \o O, MaxSize)
             full == IF withFull THEN text ELSE <<>>
             again == IF f.full # <<>> THEN text ELSE <<>>
             issues == IssuesIn(index, X)
  <1>1. Ordered(R, p) = D
    BY OrderedSame DEF Well
  <1>2. /\ Issues(index, PagesOf(S) \o O) = issues
        /\ Issues(index, PagesOf(R) \o O) = issues
    <2> HIDE DEF index
    <2>1. ToSet(PagesOf(S) \o O) = X /\ ToSet(PagesOf(R) \o O) = X
      BY JudgedSays
    <2>2. /\ Issues(index, PagesOf(S) \o O) = IssuesIn(index, ToSet(PagesOf(S) \o O))
          /\ Issues(index, PagesOf(R) \o O) = IssuesIn(index, ToSet(PagesOf(R) \o O))
      BY IssuesAre
    <2> QED BY <2>1, <2>2, Zenon
  <1>3. f = [name |-> name, summary |-> summary, index |-> index, full |-> full, issues |-> issues]
    <2>1. f = Kept([name |-> name, summary |-> summary, sections |-> D, optional |-> O,
                    index |-> index, issues |-> Issues(index, PagesOf(S) \o O), full |-> full])
      BY Zenon DEF Built, BuiltFrom
    <2> HIDE DEF D, index, full, issues
    <2>2. f = Kept([name |-> name, summary |-> summary, sections |-> D, optional |-> O,
                    index |-> index, issues |-> issues, full |-> full])
      BY <1>2, <2>1, Zenon
    <2> QED BY <2>2 DEF Kept
  <1> HIDE DEF index, text, issues, full
  <1>4. f.name = name /\ f.summary = summary /\ f.full = full
    BY <1>3
  <1>5. again = full
    BY <1>4 DEF full
  <1>6. Kept(Built(f.name, f.summary, R, O, p, f.full # <<>>, PagesOf(R) \o O))
          = Kept([name |-> name, summary |-> summary, sections |-> D, optional |-> O,
                  index |-> index, issues |-> Issues(index, PagesOf(R) \o O), full |-> again])
    <2> HIDE DEF D
    <2>1. RenderIndex(name, summary, Ordered(R, p), O, p) = index
      BY <1>1, Zenon DEF index, D
    <2>2. RenderFull(name, PagesOf(Ordered(R, p)) \o O, MaxSize) = text
      BY <1>1, Zenon DEF text, D
    <2> PICK b : b = (f.full # <<>>)
      OBVIOUS
    <2> PICK judged : judged = PagesOf(R) \o O
      OBVIOUS
    <2>3. again = IF b THEN text ELSE <<>>
      OBVIOUS
    <2> HIDE DEF again
    <2>4. Built(name, summary, R, O, p, b, judged)
            = [name |-> name, summary |-> summary, sections |-> Ordered(R, p), optional |-> O,
               index |-> RenderIndex(name, summary, Ordered(R, p), O, p),
               issues |-> Issues(RenderIndex(name, summary, Ordered(R, p), O, p), judged),
               full |-> IF b THEN RenderFull(name, PagesOf(Ordered(R, p)) \o O, MaxSize) ELSE <<>>]
      BY Zenon DEF Built
    <2>5. Built(name, summary, R, O, p, b, judged)
            = [name |-> name, summary |-> summary, sections |-> D, optional |-> O,
               index |-> index, issues |-> Issues(index, judged), full |-> again]
      BY <1>1, <2>1, <2>2, <2>3, <2>4, Zenon
    <2> QED BY <1>4, <2>5, Zenon
  <1> HIDE DEF again, D
  <1>7. Kept(Built(f.name, f.summary, R, O, p, f.full # <<>>, PagesOf(R) \o O))
          = Kept([name |-> name, summary |-> summary, sections |-> D, optional |-> O,
                  index |-> index, issues |-> issues, full |-> full])
    BY <1>2, <1>5, <1>6, Zenon
  <1>8. Kept([name |-> name, summary |-> summary, sections |-> D, optional |-> O,
              index |-> index, issues |-> issues, full |-> full])
          = [name |-> name, summary |-> summary, index |-> index, full |-> full, issues |-> issues]
    BY DEF Kept
  <1> QED BY <1>3, <1>7, <1>8, Zenon DEF BuiltFrom

-----------------------------------------------------------------------------
(* The file is what its rows make. *)

TickedIn(R) == {i \in DOMAIN R : R[i].included}
Settled ==
    /\ edits.same \in BOOLEAN /\ (edits.same => stage = "complete")
    /\ edits.count > 0 =>
          Kept(Remade(file, ReadOf(entries, rows), rows, Unticked(entries, TickedIn(rows)), <<>>,
                      pattern)) = file

\* What an edit writes back has the places of the file, and the copy it read.
LEMMA EditStamps ==
  ASSUME TypeInv, NEW keep \in SUBSET DOMAIN entries, NEW names \in Orders, NEW p \in DOMAIN Templates,
         EditPages(keep, names, p)
  PROVE  LET W == ReadOf(entries, rows)
             D == EditBuilt(keep, names, p).sections
         IN  /\ Stamped(D, W, Ticked(rows, keep), rows', keep)
             /\ \A i \in 1..Len(entries) : /\ rows'[i].title = rows[i].title
                                           /\ rows'[i].description = rows[i].description
                                           /\ rows'[i].included <=> i \in keep
             /\ rows' \in [1..Len(entries) -> RowRec]
  <1> DEFINE n == Len(entries)
             built == EditBuilt(keep, names, p)
             D == built.sections
             O == built.optional
             W == ReadOf(entries, rows)
             t == Ticked(rows, keep)
             X == ImageOf(W, keep)
             B == WrittenBack(built)
  <1>1. EditOf(built, entries, rows, file, keep, names, p) /\ B \in [1..n -> RowRec]
    BY EditSays
  <1>2. rows' = Ticked(B, keep)
    BY EditIs
  <1>3. Unmixed(entries) /\ rows \in [1..n -> RowRec]
    BY DEF TypeInv
  <1>4. /\ n \in Nat /\ DOMAIN entries = 1..n /\ Pages(n, W)
        /\ \A i \in 1..n : /\ W[i].url = entries[i].url /\ W[i].title = rows[i].title
                           /\ W[i].description = rows[i].description
    BY <1>3, ReadSays
  <1> HIDE DEF built, W
  <1>5. /\ keep \in SUBSET (1..n) /\ t \in [1..n -> RowRec]
        /\ Well(D, O, X) /\ Apart(X) /\ \A s \in ToSet(D) : s.name # "Optional"
        /\ Lists(O, W, OptIn(t, keep), Turn(t))
    <2> DEFINE M == RowMade(W, t, Unticked(entries, keep), names)
               O0 == RowOptional(W, t, Unticked(entries, keep))
    <2>1. /\ keep \in SUBSET (1..n) /\ t \in [1..n -> RowRec] /\ Apart(X)
          /\ BuiltOf(built, file.name, file.summary, M, O0, p)
          /\ ShownPages(M) \cup ToSet(O0) = X /\ RowsGive(M, O0, W, t, keep)
      BY <1>1 DEF EditOf, W
    <2> HIDE DEF M, O0, X, t
    <2>2. O = O0 /\ Well(D, O, X) /\ \A s \in ToSet(D) : s.name # "Optional"
      BY <2>1 DEF BuiltOf
    <2>3. Lists(O0, W, OptIn(t, keep), Turn(t))
      BY <2>1 DEF RowsGive
    <2> QED BY <2>1, <2>2, <2>3
  <1>6. /\ \A i \in 1..n, k \in DOMAIN D : \A q \in DOMAIN D[k].pages :
              D[k].pages[q].url = entries[i].url => B[i] = Filed(rows[i], D, k, q)
        /\ \A i \in 1..n, q \in DOMAIN O :
              O[q].url = entries[i].url => B[i] = Aside(rows[i], O[q])
        /\ \A i \in 1..n : entries[i].url \notin UrlsOf(X) => B[i] = rows[i]
    <2> HIDE DEF X, t
    <2> QED BY <1>5, WrittenBackSays
  <1>7. /\ rows' \in [1..n -> RowRec]
        /\ \A i \in 1..n :
              /\ rows'[i].included <=> i \in keep
              /\ rows'[i].title = B[i].title /\ rows'[i].description = B[i].description
              /\ rows'[i].section = B[i].section /\ rows'[i].optional = B[i].optional
              /\ rows'[i].position = B[i].position
    BY <1>1, <1>2, EditRows
  <1> HIDE DEF D, O, B, t
  <1>8. /\ DOMAIN D = 1..Len(D) /\ Len(D) \in Nat
        /\ \A k \in DOMAIN D : /\ D[k] \in ToSet(D) /\ D[k].name \in RowNames
                               /\ D[k].pages \in Seq(PageEntry)
    <2>1. Fine(D) /\ D \in Seq(SectionRec)
      BY <1>5 DEF Well, Fine
    <2>2. DOMAIN D = 1..Len(D) /\ Len(D) \in Nat /\ \A k \in DOMAIN D : D[k] \in SectionRec
      BY <2>1, SeqIs
    <2>3. \A k \in DOMAIN D : D[k] \in ToSet(D)
      BY DEF ToSet
    <2> QED BY <1>5, <2>2, <2>3 DEF SectionRec, RowNames
  <1>9. ASSUME NEW i \in 1..n, NEW k \in DOMAIN D, NEW q \in DOMAIN D[k].pages, D[k].pages[q] = W[i]
        PROVE  /\ rows'[i].section = D[k].name /\ rows'[i].optional = FALSE
               /\ rows'[i].position = PlaceAt(k, q)
               /\ rows'[i].title = rows[i].title /\ rows'[i].description = rows[i].description
    <2>1. DOMAIN D[k].pages = 1..Len(D[k].pages) /\ D[k].pages[q] \in PageEntry
      BY <1>8, SeqIs
    <2>2. B[i] = Filed(rows[i], D, k, q)
      BY <1>4, <1>6, <1>9
    <2>3. k \in Nat \ {0} /\ q \in Nat \ {0} /\ D[k].name \in RowNames /\ rows[i] \in RowRec
      BY <1>3, <1>8, <2>1
    <2>4. FiledBy(B[i], rows[i], D, k, q)
      BY <2>1, <2>2, <2>3, FiledSays
    <2> QED BY <1>4, <1>7, <1>9, <2>4 DEF FiledBy
  <1>10. ASSUME NEW i \in 1..n, NEW q \in DOMAIN O, O[q] = W[i]
         PROVE  /\ rows'[i].optional = TRUE /\ rows'[i].position = rows[i].position
                /\ rows'[i].title = rows[i].title /\ rows'[i].description = rows[i].description
    <2>1. O[q] \in PageEntry /\ rows[i] \in RowRec
      <3>1. O \in Seq(PageEntry)
        BY <1>5 DEF Well
      <3> QED BY <1>3, <3>1, SeqIs
    <2>2. B[i] = Aside(rows[i], O[q])
      BY <1>4, <1>6, <1>10
    <2>3. AsideBy(B[i], rows[i], O[q])
      BY <2>1, <2>2, AsideSays
    <2> QED BY <1>4, <1>7, <1>10, <2>3 DEF AsideBy
  <1>11. ASSUME NEW i \in OptIn(t, keep)
         PROVE  rows'[i].optional = TRUE /\ rows'[i].position = t[i].position
    <2>1. i \in keep /\ i \in 1..n /\ OptIn(t, keep) \in SUBSET (1..n)
      BY <1>5 DEF OptIn
    <2>2. ToSet(O) = ImageOf(W, OptIn(t, keep))
      BY <1>4, <1>5, <2>1, ListsSays
    <2>3. W[i] \in ToSet(O)
      BY <2>2 DEF ImageOf
    <2>4. PICK q \in DOMAIN O : O[q] = W[i]
      BY <2>3 DEF ToSet
    <2>5. t[i].position = rows[i].position
      <3>1. t[i] = [rows[i] EXCEPT !.included = i \in keep] /\ rows[i] \in RowRec
        BY <1>3, <2>1 DEF t, Ticked
      <3> QED BY <3>1 DEF RowRec
    <2> QED BY <1>10, <2>1, <2>4, <2>5
  <1>12. Stamped(D, W, t, rows', keep)
    <2>1. ASSUME NEW k \in DOMAIN D, NEW q \in DOMAIN D[k].pages, NEW i \in keep, D[k].pages[q] = W[i]
          PROVE  /\ rows'[i].section = D[k].name /\ rows'[i].optional = FALSE
                 /\ rows'[i].position = PlaceAt(k, q)
      BY <1>5, <1>9, <2>1
    <2> QED BY <1>11, <2>1 DEF Stamped
  <1>13. ASSUME NEW i \in 1..n
         PROVE  rows'[i].title = rows[i].title /\ rows'[i].description = rows[i].description
    <2>1. CASE i \in keep
      <3>1. W[i] \in X
        BY <2>1 DEF ImageOf
      <3>2. CASE W[i] \in ToSet(O)
        <4>1. PICK q \in DOMAIN O : O[q] = W[i]
          BY <3>2 DEF ToSet
        <4> QED BY <1>10, <4>1
      <3>3. CASE W[i] \in Held(ToSet(D))
        <4>1. PICK s \in ToSet(D) : W[i] \in ToSet(s.pages)
          BY <3>3 DEF Held
        <4>2. PICK k \in DOMAIN D : s = D[k]
          BY <4>1 DEF ToSet
        <4>3. PICK q \in DOMAIN D[k].pages : D[k].pages[q] = W[i]
          BY <4>1, <4>2 DEF ToSet
        <4> QED BY <1>9, <4>3
      <3> QED BY <1>5, <3>1, <3>2, <3>3 DEF Well
    <2>2. CASE i \notin keep
      <3>1. entries[i].url \notin UrlsOf(X)
        <4> SUFFICES ASSUME entries[i].url \in UrlsOf(X) PROVE FALSE
          OBVIOUS
        <4>1. PICK x \in X : entries[i].url = x.url
          BY DEF UrlsOf
        <4>2. PICK j \in keep : x = W[j]
          BY <4>1 DEF ImageOf
        <4>3. W[i].url = W[j].url /\ j \in 1..n
          BY <1>4, <1>5, <4>1, <4>2
        <4>4. i = j
          BY <1>4, <4>3 DEF Pages
        <4> QED BY <2>2, <4>2, <4>4
      <3> QED BY <1>6, <1>7, <3>1
    <2> QED BY <2>1, <2>2
  <1> QED BY <1>7, <1>12, <1>13 DEF D, built, W, t, n

\* What an edit has written makes the file it has stored.
LEMMA EditSettles ==
  ASSUME TypeInv, NEW keep \in SUBSET DOMAIN entries, NEW names \in Orders, NEW p \in DOMAIN Templates,
         EditPages(keep, names, p)
  PROVE  Settled'
  <1> DEFINE n == Len(entries)
             built == EditBuilt(keep, names, p)
             D == built.sections
             W == ReadOf(entries, rows)
             t == Ticked(rows, keep)
             u == rows'
             off == Unticked(entries, keep)
             X == ImageOf(W, keep)
             M == RowMade(W, t, off, names)
             O == RowOptional(W, t, off)
             R == RowMade(W, u, off, <<>>)
             P == RowOptional(W, u, off)
  <1>1. EditOf(built, entries, rows, file, keep, names, p)
    BY EditSays
  <1>2. /\ Stamped(D, W, t, u, keep)
        /\ \A i \in 1..n : /\ u[i].title = rows[i].title /\ u[i].description = rows[i].description
                           /\ u[i].included <=> i \in keep
        /\ u \in [1..n -> RowRec]
    BY EditStamps
  <1>3. /\ stage = "complete" /\ stage' = "complete" /\ pattern' = p /\ file' = Kept(built)
        /\ entries' = BareOf(entries)
        /\ edits' = [count |-> edits.count + 1,
                     same |-> /\ edits.count > 0 /\ p = pattern /\ names = <<>>
                              /\ keep = {i \in DOMAIN rows : rows[i].included}]
    BY EditIs
  <1>4. Unmixed(entries) /\ rows \in [1..n -> RowRec]
        /\ \A i \in DOMAIN entries : SectionOfUrl(entries[i].url) \in SectionNames
    BY DEF TypeInv
  <1>5. n \in Nat /\ DOMAIN entries = 1..n
    BY <1>4, ReadSays
  <1>6. edits'.same \in BOOLEAN
    BY <1>3
  <1>7. ReadOf(entries', u) = W
    <2>1. DOMAIN entries' = 1..n /\ \A i \in 1..n : entries'[i] = Bare(entries[i])
      BY <1>3, <1>5 DEF BareOf
    <2>2. ASSUME NEW i \in 1..n PROVE ReadAt(entries', u, i) = ReadAt(entries, rows, i)
      <3>1. PICK x \in PageEntry : x = entries[i]
        BY <1>4, <1>5, EntryIs
      <3>2. PICK title, text : title = rows[i].title /\ text = rows[i].description
        OBVIOUS
      <3>3. ReadAt(entries', u, i) = [Bare(x) EXCEPT !.title = title, !.description = text,
                                                     !.section = Unset, !.optional = FALSE]
        BY <1>2, <2>1, <3>1, <3>2, Zenon DEF ReadAt
      <3>4. ReadAt(entries, rows, i) = [x EXCEPT !.title = title, !.description = text,
                                                 !.section = Unset, !.optional = FALSE]
        BY <3>1, <3>2, Zenon DEF ReadAt
      <3>5. [Bare(x) EXCEPT !.title = title, !.description = text, !.section = Unset, !.optional = FALSE]
              = [x EXCEPT !.title = title, !.description = text, !.section = Unset, !.optional = FALSE]
        BY <3>1 DEF Bare, PageEntry
      <3> QED BY <3>3, <3>4, <3>5, Zenon
    <2> QED BY <1>5, <2>1, <2>2, Zenon DEF ReadOf
  <1>8. TickedIn(u) = keep
    BY <1>2, <1>5 DEF TickedIn
  <1>9. Unticked(entries', keep) = off
    <2>1. DOMAIN entries' = DOMAIN entries /\ \A i \in DOMAIN entries : entries'[i].url = entries[i].url
      BY <1>3, <1>4, BareSays
    <2> QED BY <2>1 DEF Unticked
  <1> HIDE DEF built, W, t, off, X
  <1>10. /\ built = Remade(file, W, t, off, names, p)
         /\ t \in [1..n -> RowRec] /\ keep \in SUBSET (1..n) /\ Pages(n, W)
         /\ \A i \in 1..n : W[i].url \notin off <=> i \in keep
         /\ RowsGive(M, O, W, t, keep) /\ Well(M, O, X)
         /\ BuiltOf(built, file.name, file.summary, M, O, p)
         /\ \A s \in ToSet(M) : Shows(s)
    BY <1>1 DEF EditOf, W, t, off, X
  <1>11. Fine(D) /\ ToSet(D) = ToSet(M)
    <2> HIDE DEF M, O
    <2>1. D = Ordered(M, p)
      BY <1>10 DEF BuiltOf
    <2>2. Fine(M)
      BY <1>10 DEF Well
    <2>3. Fine(D) /\ ToSet(D) = {s \in ToSet(M) : Shows(s)}
      BY <2>1, <2>2, OrderedSays
    <2> QED BY <1>10, <2>3
  <1> HIDE DEF M, O, D
  <1>12. RowsGive(R, P, W, u, keep)
    <2>1. <<>> \in Seq(STRING)
      OBVIOUS
    <2> HIDE DEF u
    <2>2. u \in [1..n -> RowRec]
      BY <1>2
    <2> QED BY <1>10, <2>1, <2>2, RowMadeGives DEF R, P
  <1> HIDE DEF R, P
  <1>13. ToSet(R) = ToSet(M) /\ P = O
    BY <1>2, <1>10, <1>11, <1>12, StampedSame
  <1>14. Well(R, P, X)
    BY <1>2, <1>10, <1>12, RowsHold DEF X
  <1>15. Kept(Remade(file', W, u, off, <<>>, p)) = file'
    <2> PICK name, summary, old : name = file.name /\ summary = file.summary /\ old = file.full
      OBVIOUS
    <2>1. file' = BuiltFrom(name, summary, M, O, p, old)
      BY <1>3, <1>10, Zenon DEF Remade, M, O, BuiltFrom
    <2>2. Kept(Remade(file', W, u, off, <<>>, p))
            = BuiltFrom(file'.name, file'.summary, R, P, p, file'.full)
      BY Zenon DEF Remade, R, P, BuiltFrom
    <2>3. Well(R, O, X) /\ ToSet(R) = ToSet(M)
      BY <1>13, <1>14
    <2>4. PICK f : f = file'
      OBVIOUS
    <2>5. BuiltFrom(f.name, f.summary, R, O, p, f.full) = f
      BY <1>10, <2>1, <2>3, <2>4, BuiltAgain
    <2> QED BY <1>13, <2>2, <2>4, <2>5, Zenon
  <1>16. Kept(Remade(file', ReadOf(entries', rows'), rows', Unticked(entries', TickedIn(rows')), <<>>,
                     pattern')) = file'
    BY <1>3, <1>7, <1>8, <1>9, <1>15, Zenon
  <1> QED BY <1>3, <1>6, <1>16 DEF Settled

\* An edit that asks what the last one asked finds the file as it makes it.
LEMMA SameSettles ==
  ASSUME TypeInv, Settled, NEW keep \in SUBSET DOMAIN entries, NEW names \in Orders,
         NEW p \in DOMAIN Templates, EditPages(keep, names, p), edits'.same
  PROVE  file' = file
  <1> DEFINE n == Len(entries)
             built == EditBuilt(keep, names, p)
             off == Unticked(entries, keep)
             W == ReadOf(entries, rows)
  <1>1. edits' = [count |-> edits.count + 1,
                  same |-> /\ edits.count > 0 /\ p = pattern /\ names = <<>>
                           /\ keep = {i \in DOMAIN rows : rows[i].included}]
        /\ file' = Kept(built)
    BY EditIs
  <1>2. edits.count > 0 /\ p = pattern /\ names = <<>> /\ keep = TickedIn(rows)
    BY <1>1 DEF TickedIn
  <1>3. EditOf(built, entries, rows, file, keep, names, p)
    BY EditSays
  <1>4. built = Remade(file, W, Ticked(rows, keep), off, names, p)
    <2> HIDE DEF built
    <2> QED BY <1>3 DEF EditOf
  <1>5. Ticked(rows, keep) = rows
    <2>1. rows \in [1..n -> RowRec]
      BY DEF TypeInv
    <2>2. ASSUME NEW i \in DOMAIN rows PROVE [rows[i] EXCEPT !.included = i \in keep] = rows[i]
      <3>1. PICK row \in RowRec : row = rows[i]
        BY <2>1
      <3>2. CASE i \in keep
        <4>1. (i \in keep) = TRUE /\ row.included = TRUE
          BY <1>2, <3>1, <3>2 DEF TickedIn, RowRec
        <4>2. [row EXCEPT !.included = TRUE] = row
          BY <4>1 DEF RowRec
        <4> QED BY <3>1, <4>1, <4>2
      <3>3. CASE i \notin keep
        <4>1. (i \in keep) = FALSE /\ row.included = FALSE
          BY <1>2, <3>1, <3>3 DEF TickedIn, RowRec
        <4>2. [row EXCEPT !.included = FALSE] = row
          BY <4>1 DEF RowRec
        <4> QED BY <3>1, <4>1, <4>2
      <3> QED BY <3>2, <3>3
    <2>3. Ticked(rows, keep) = [i \in DOMAIN rows |-> rows[i]]
      BY <2>2, Zenon DEF Ticked
    <2> QED BY <2>1, <2>3
  <1>6. Kept(Remade(file, W, rows, Unticked(entries, TickedIn(rows)), <<>>, pattern)) = file
    BY <1>2 DEF Settled
  <1> HIDE DEF built, W
  <1> QED BY <1>1, <1>2, <1>4, <1>5, <1>6, Zenon

-----------------------------------------------------------------------------
(* Sizes. *)

InStep(n, w, v) == w[0] = v[0] /\ \A i \in 1..n : w[i - 1] = v[i - 1] => w[i] = v[i]

LEMMA SameRun ==
  ASSUME NEW n \in Nat, NEW w, NEW v, InStep(n, w, v)
  PROVE  \A i \in 0..n : w[i] = v[i]
  <1> DEFINE S == {k \in Nat : k <= n => w[k] = v[k]}
  <1>1. 0 \in S
    BY DEF InStep
  <1>2. ASSUME NEW k \in Nat, k \in S PROVE k + 1 \in S
    <2> SUFFICES ASSUME k + 1 <= n PROVE w[k + 1] = v[k + 1]
      OBVIOUS
    <2>1. k + 1 \in 1..n /\ (k + 1) - 1 = k /\ k <= n
      OBVIOUS
    <2>2. w[k] = v[k]
      BY <1>2, <2>1
    <2>3. w[(k + 1) - 1] = v[(k + 1) - 1]
      BY <2>1, <2>2
    <2> QED BY <2>1, <2>3 DEF InStep
  <1> HIDE DEF S
  <1>3. \A k \in Nat : k \in S
    BY <1>1, <1>2, Induct
  <1> QED BY <1>3 DEF S

\* How long the first lines of a document are together.
Weighs(s, w) ==
    /\ w \in [0..Len(s) -> Nat] /\ w[0] = 0
    /\ \A i \in 1..Len(s) : w[i] = w[i - 1] + LineSize(s[i])

LEMMA LineSizeIs ==
  ASSUME NEW line \in BodyLine
  PROVE  LineSize(line) \in Nat
  <1>1. line.level \in Nat /\ line.text \in Seq(STRING)
    BY DEF BodyLine, Text
  <1>2. Len(line.text) \in Nat
    BY <1>1, SeqIs
  <1> QED BY <1>1, <1>2 DEF LineSize

LEMMA SizeWeighs ==
  ASSUME NEW s \in Seq(BodyLine)
  PROVE  \E w : Weighs(s, w) /\ Size(s) = w[Len(s)]
  <1> DEFINE n == Len(s)
             c == [i \in 1..n |-> LineSize(s[i])]
             step == [i \in 1..n |-> [v \in Nat |-> v + c[i]]]
             f == CHOOSE f : f = [k \in 0..Len(s) |-> IF k = 0 THEN 0 ELSE f[k - 1] + LineSize(s[k])]
  <1>1. n \in Nat /\ c \in [1..n -> Nat] /\ \A i \in 1..n : c[i] = LineSize(s[i])
    BY SeqIs, LineSizeIs
  <1> HIDE DEF c, n
  <1>2. step \in [1..n -> [Nat -> Nat]] /\ 0 \in Nat
    BY <1>1
  <1>3. PICK w \in [0..n -> Nat] : Recursive(n, 0, step, w)
    <2> HIDE DEF step
    <2> QED BY <1>1, <1>2, Recursion, Zenon
  <1>4. /\ \A i \in 0..n : w[i] = IF i = 0 THEN 0 ELSE step[i][w[i - 1]]
        /\ w = [i \in 0..n |-> w[i]]
    <2> HIDE DEF step
    <2> QED BY <1>3 DEF Recursive
  <1>5. w[0] = 0 /\ \A i \in 1..n : w[i - 1] \in Nat /\ w[i] = w[i - 1] + c[i]
    <2>1. 0 \in 0..n /\ \A i \in 1..n : i \in 0..n /\ i - 1 \in 0..n /\ i # 0
      BY <1>1
    <2>2. \A i \in 1..n : w[i] = step[i][w[i - 1]] /\ w[i - 1] \in Nat
      <3> HIDE DEF step
      <3> QED BY <1>3, <1>4, <2>1
    <2> QED BY <1>4, <2>1, <2>2
  <1>6. Weighs(s, w)
    BY <1>1, <1>3, <1>5 DEF Weighs, n
  <1>7. w = [k \in 0..n |-> IF k = 0 THEN 0 ELSE w[k - 1] + LineSize(s[k])]
    <2>1. \A k \in 0..n : w[k] = IF k = 0 THEN 0 ELSE w[k - 1] + LineSize(s[k])
      <3> SUFFICES ASSUME NEW k \in 0..n PROVE w[k] = IF k = 0 THEN 0 ELSE w[k - 1] + LineSize(s[k])
        OBVIOUS
      <3>1. k = 0 \/ k \in 1..n
        BY <1>1
      <3> QED BY <1>1, <1>5, <3>1
    <2> QED BY <1>4, <2>1, Zenon
  <1>8. f = [k \in 0..n |-> IF k = 0 THEN 0 ELSE f[k - 1] + LineSize(s[k])]
    BY <1>7, Zenon DEF n
  <1>9. Size(s) = f[n]
    BY Zenon DEF Size, n
  <1> HIDE DEF f
  <1>10. f[0] = 0 /\ \A k \in 1..n : f[k] = f[k - 1] + LineSize(s[k])
    <2>1. 0 \in 0..n /\ \A k \in 1..n : k \in 0..n /\ k # 0
      BY <1>1
    <2> QED BY <1>8, <2>1
  <1>11. \A k \in 1..n : w[k - 1] = f[k - 1] => w[k] = f[k]
    BY <1>1, <1>5, <1>10
  <1>12. \A k \in 0..n : w[k] = f[k]
    <2>1. InStep(n, w, f)
      BY <1>5, <1>10, <1>11 DEF InStep
    <2> QED BY <1>1, <2>1, SameRun
  <1>13. n \in 0..n
    BY <1>1
  <1> QED BY <1>6, <1>9, <1>12, <1>13 DEF n

\* Sizes add up.
LEMMA SizeCat ==
  ASSUME NEW s \in Seq(BodyLine), NEW t \in Seq(BodyLine)
  PROVE  /\ Size(s) \in Nat /\ Size(t) \in Nat /\ Size(<<>>) = 0
         /\ Cat(s, t) \in Seq(BodyLine) /\ Size(Cat(s, t)) = Size(s) + Size(t)
  <1> DEFINE r == Cat(s, t)
             m == Len(s)
             n == Len(t)
  <1>1. Follows(BodyLine, s, t, r)
    BY ConcatSays
  <1> HIDE DEF r
  <1>2. PICK a : Weighs(s, a) /\ Size(s) = a[m]
    BY SizeWeighs
  <1>3. PICK b : Weighs(t, b) /\ Size(t) = b[n]
    BY SizeWeighs
  <1>4. PICK c : Weighs(r, c) /\ Size(r) = c[Len(r)]
    BY <1>1, SizeWeighs DEF Follows
  <1>5. m \in Nat /\ n \in Nat /\ Len(r) = m + n
    BY <1>1, SeqIs DEF Follows
  <1>6. /\ \A i \in 0..m : a[i] \in Nat /\ \A j \in 0..n : b[j] \in Nat
        /\ a[0] = 0 /\ b[0] = 0 /\ c[0] = 0 /\ m \in 0..m /\ n \in 0..n
        /\ \A i \in 1..m : a[i] = a[i - 1] + LineSize(s[i])
        /\ \A j \in 1..n : b[j] = b[j - 1] + LineSize(t[j]) /\ LineSize(t[j]) \in Nat /\ b[j - 1] \in Nat
        /\ \A i \in 1..(m + n) : c[i] = c[i - 1] + LineSize(r[i])
    <2>1. \A j \in 1..n : LineSize(t[j]) \in Nat
      BY SeqIs, LineSizeIs
    <2>2. \A j \in 1..n : j - 1 \in 0..n
      BY <1>5
    <2>3. a \in [0..m -> Nat] /\ b \in [0..n -> Nat]
      BY <1>2, <1>3 DEF Weighs
    <2>4. m \in 0..m /\ n \in 0..n
      BY <1>5
    <2>5. /\ a[0] = 0 /\ b[0] = 0 /\ c[0] = 0
          /\ \A i \in 1..m : a[i] = a[i - 1] + LineSize(s[i])
          /\ \A j \in 1..n : b[j] = b[j - 1] + LineSize(t[j])
      BY <1>2, <1>3, <1>4 DEF Weighs
    <2>6. \A i \in 1..(m + n) : c[i] = c[i - 1] + LineSize(r[i])
      <3>1. \A i \in 1..Len(r) : c[i] = c[i - 1] + LineSize(r[i])
        BY <1>4 DEF Weighs
      <3> QED BY <1>5, <3>1
    <2> HIDE DEF m, n
    <2> QED BY <2>1, <2>2, <2>3, <2>4, <2>5, <2>6
  <1>7. /\ \A i \in 1..m : r[i] = s[i] /\ i \in 1..(m + n)
        /\ \A j \in 1..n : r[m + j] = t[j] /\ m + j \in 1..(m + n) /\ (m + j) - 1 = m + (j - 1)
    BY <1>1, <1>5 DEF Follows
  <1> HIDE DEF m, n
  <1>8. \A i \in 0..m : a[i] = c[i]
    <2>1. \A i \in 1..m : a[i - 1] = c[i - 1] => a[i] = c[i]
      BY <1>6, <1>7
    <2>2. InStep(m, a, c)
      BY <1>6, <2>1 DEF InStep
    <2> QED BY <1>5, <2>2, SameRun
  <1> DEFINE u == [j \in 0..n |-> a[m] + b[j]]
             v == [j \in 0..n |-> c[m + j]]
  <1>9. \A j \in 0..n : u[j] = v[j]
    <2>1. u[0] = v[0]
      <3>1. 0 \in 0..n /\ m + 0 = m /\ a[m] + 0 = a[m]
        BY <1>5, <1>6
      <3> QED BY <1>6, <1>8, <3>1
    <2>2. ASSUME NEW j \in 1..n, u[j - 1] = v[j - 1] PROVE u[j] = v[j]
      <3>1. j \in 0..n /\ j - 1 \in 0..n
        BY <1>5
      <3>2. u[j] = a[m] + (b[j - 1] + LineSize(t[j])) /\ u[j - 1] = a[m] + b[j - 1]
        BY <1>6, <3>1
      <3>3. v[j] = c[m + (j - 1)] + LineSize(t[j]) /\ v[j - 1] = c[m + (j - 1)]
        BY <1>6, <1>7, <3>1
      <3>4. a[m] \in Nat
        BY <1>6
      <3>5. PICK x : x = a[m]
        OBVIOUS
      <3>6. PICK y, z, d : y = b[j - 1] /\ z = c[m + (j - 1)] /\ d = LineSize(t[j])
        OBVIOUS
      <3>7. x \in Nat /\ y \in Nat /\ d \in Nat
        BY <1>6, <3>4, <3>5, <3>6
      <3>8. x + y = z
        <4> HIDE DEF u, v
        <4> QED BY <2>2, <3>2, <3>3, <3>5, <3>6
      <3>9. z + d = x + (y + d)
        BY <3>7, <3>8
      <3> HIDE DEF u, v
      <3> QED BY <3>2, <3>3, <3>5, <3>6, <3>9
    <2> HIDE DEF u, v
    <2>3. InStep(n, u, v)
      BY <2>1, <2>2 DEF InStep
    <2> QED BY <1>5, <2>3, SameRun
  <1>10. Size(r) = Size(s) + Size(t)
    <2>1. c[m + n] = a[m] + b[n]
      BY <1>6, <1>9
    <2> QED BY <1>2, <1>3, <1>4, <1>5, <2>1 DEF m, n
  <1>11. Size(<<>>) = 0
    <2>1. <<>> \in Seq(BodyLine) /\ Len(<<>>) = 0
      OBVIOUS
    <2>2. PICK w : Weighs(<<>>, w) /\ Size(<<>>) = w[Len(<<>>)]
      BY <2>1, SizeWeighs
    <2> QED BY <2>1, <2>2 DEF Weighs
  <1> QED BY <1>1, <1>2, <1>3, <1>6, <1>10, <1>11 DEF Follows, r, m, n

-----------------------------------------------------------------------------
(* The texts of llms-full.txt: no line of theirs reads like the mark of a  *)
(* page.                                                                   *)

QuietLine == {line \in BodyLine : line.kind # "source"}

LEMMA FlattenSays ==
  ASSUME NEW T, NEW ss \in Seq(Seq(T))
  PROVE  /\ FlattenSeq(ss) \in Seq(T)
         /\ \A x : x \in ToSet(FlattenSeq(ss)) <=> \E k \in 1..Len(ss) : x \in ToSet(ss[k])
  <1> DEFINE n == Len(ss)
             Of(k) == {x \in T : \E i \in 1..k : x \in ToSet(ss[i])}
  <1>1. n \in Nat /\ \A i \in 1..n : ss[i] \in Seq(T)
    BY SeqIs
  <1>2. PICK v \in [0..n -> Seq(T)] : Runs(n, ss, v) /\ FlattenSeq(ss) = v[n]
    BY FlattenRuns
  <1> DEFINE S == {k \in Nat : k <= n => ToSet(v[k]) = Of(k)}
  <1>3. 0 \in S
    <2>1. v[0] = <<>>
      BY <1>2 DEF Runs
    <2>2. ToSet(<<>>) = {}
      BY DEF ToSet
    <2>3. Of(0) = {}
      OBVIOUS
    <2> QED BY <2>1, <2>2, <2>3
  <1>4. ASSUME NEW k \in Nat, k \in S PROVE k + 1 \in S
    <2> SUFFICES ASSUME k + 1 <= n PROVE ToSet(v[k + 1]) = Of(k + 1)
      OBVIOUS
    <2> HIDE DEF n
    <2>1. k + 1 \in 1..n /\ (k + 1) - 1 = k /\ k \in 0..n /\ k <= n
      BY <1>1
    <2>2. v[k + 1] = Cat(v[k], ss[k + 1])
      <3>1. v[k + 1] = Cat(v[(k + 1) - 1], ss[k + 1])
        BY <1>2, <2>1 DEF Runs
      <3> QED BY <2>1, <3>1
    <2>3. v[k] \in Seq(T) /\ ss[k + 1] \in Seq(T) /\ ToSet(v[k]) = Of(k)
      BY <1>1, <1>2, <1>4, <2>1
    <2>4. ToSet(v[k + 1]) = Of(k) \cup ToSet(ss[k + 1])
      <3>1. ToSet(Cat(v[k], ss[k + 1])) = ToSet(v[k]) \cup ToSet(ss[k + 1])
        <4>1. v[k] \in Seq(T) /\ ss[k + 1] \in Seq(T)
          BY <2>3
        <4> QED BY <4>1, CatOf
      <3> HIDE DEF Of
      <3> QED BY <2>2, <2>3, <3>1, Zenon
    <2>5. ToSet(ss[k + 1]) \subseteq T
      BY <2>3, SeqIs
    <2>6. \A i \in 1..(k + 1) : i \in 1..k \/ i = k + 1
      OBVIOUS
    <2>7. \A i \in 1..k : i \in 1..(k + 1)
      OBVIOUS
    <2> QED BY <2>4, <2>5, <2>6, <2>7
  <1> HIDE DEF S
  <1>5. n \in S
    BY <1>1, <1>3, <1>4, Induct
  <1>6. ToSet(v[n]) = Of(n)
    <2> HIDE DEF Of
    <2> QED BY <1>1, <1>5 DEF S
  <1>7. v[n] \in Seq(T)
    <2>1. n \in 0..n
      BY <1>1
    <2> QED BY <1>2, <2>1
  <1>8. \A i \in 1..n : ToSet(ss[i]) \subseteq T
    BY <1>1, SeqIs
  <1> QED BY <1>2, <1>6, <1>7, <1>8

\* A part of a sequence.
LEMMA PartIs ==
  ASSUME NEW T, NEW s \in Seq(T), NEW a \in Nat \ {0}, NEW b \in Nat, b <= Len(s)
  PROVE  SubSeq(s, a, b) \in Seq(T) /\ Len(SubSeq(s, a, b)) = IF a <= b THEN b - a + 1 ELSE 0
  <1>1. Len(s) \in Nat /\ \A i \in 1..Len(s) : s[i] \in T
    BY SeqIs
  <1>2. \A i \in a..b : s[i] \in T
    BY <1>1
  <1> QED BY <1>2, SubSeqProperties

\* What stands behind the first of a sequence.
LEMMA TailIs ==
  ASSUME NEW T, NEW s \in Seq(T), s # <<>>
  PROVE  Tail(s) \in Seq(T)
  OBVIOUS

EscapedText(s) == <<Escaped(s[1])>>
LEMMA StripEmphasisIsText ==
  ASSUME NEW text \in Text
  PROVE  StripEmphasis(text) \in Text
  <1> DEFINE n == Len(text)
             Wraps(k) == 2 * k < n /\ text[k] \in Emphasis /\ text[n + 1 - k] = text[k]
             depth == CHOOSE d \in 0..n : (\A k \in 1..d : Wraps(k)) /\ ~Wraps(d + 1)
             inner == SubSeq(text, depth + 1, n - depth)
  <1>1. n \in Nat /\ text \in Seq(STRING)
    BY SeqIs DEF Text
  <1>2. \E d \in 0..n : (\A k \in 1..d : Wraps(k)) /\ ~Wraps(d + 1)
    <2> DEFINE S == {d \in Nat : ~Wraps(d + 1)}
    <2>1. n \in S
      <3>1. ~(2 * (n + 1) < n)
        BY <1>1
      <3> QED BY <1>1, <3>1
    <2>2. S \in SUBSET Nat
      OBVIOUS
    <2>3. PICK d \in S : \A m \in S : d <= m
      <3> HIDE DEF S
      <3> QED BY <2>1, <2>2, HasLeast
    <2>4. d \in 0..n
      BY <1>1, <2>1, <2>3
    <2>5. \A k \in 1..d : Wraps(k)
      <3> SUFFICES ASSUME NEW k \in 1..d PROVE Wraps(k)
        OBVIOUS
      <3>1. k - 1 \in Nat /\ (k - 1) + 1 = k /\ ~(d <= k - 1)
        BY <2>4
      <3>2. k - 1 \notin S
        <4> HIDE DEF S
        <4> QED BY <2>3, <3>1
      <3> HIDE DEF Wraps
      <3> QED BY <3>1, <3>2
    <2>6. ~Wraps(d + 1)
      BY <2>3
    <2> HIDE DEF Wraps
    <2> QED BY <2>4, <2>5, <2>6
  <1>3. depth \in 0..n /\ \A k \in 1..depth : Wraps(k)
    <2> HIDE DEF Wraps
    <2> QED BY <1>2
  <1>4. StripEmphasis(text) = IF n > 0 /\ inner[1] \in Emphasis THEN EscapedText(inner) \o Tail(inner) ELSE inner
    BY Zenon DEF StripEmphasis, EscapedText
  <1>5. depth \in Nat /\ (depth = 0 \/ 2 * depth < n)
    <2>1. depth # 0 => depth \in 1..depth
      BY <1>1, <1>3
    <2> HIDE DEF depth
    <2> QED BY <1>1, <1>3, <2>1
  <1> HIDE DEF depth, Wraps, n
  <1>6. inner \in Seq(STRING) /\ (n > 0 => Len(inner) > 0)
    <2>1. depth + 1 \in Nat \ {0} /\ n - depth \in Nat /\ n - depth <= Len(text)
      BY <1>1, <1>5 DEF n
    <2>2. n > 0 => depth + 1 <= n - depth /\ (n - depth) - (depth + 1) + 1 > 0
      BY <1>1, <1>5
    <2> QED BY <1>1, <2>1, <2>2, PartIs
  <1> HIDE DEF inner
  <1>7. CASE n > 0 /\ inner[1] \in Emphasis
    <2>1. inner # <<>>
      BY <1>6, <1>7
    <2>2. Tail(inner) \in Seq(STRING)
      BY <1>6, <2>1, TailIs
    <2>3. Escaped(inner[1]) \in STRING
      <3>1. "\\*" \in STRING /\ "\\_" \in STRING
        BY WordAssumption, Zenon
      <3> QED BY <3>1, Zenon DEF Escaped
    <2>4. EscapedText(inner) \in Seq(STRING)
      BY <2>3, OneOf DEF EscapedText
    <2>5. Cat(EscapedText(inner), Tail(inner)) \in Seq(STRING)
      BY <2>2, <2>4, CatOf
    <2> QED BY <1>4, <1>7, <2>5, Zenon DEF Cat, Text
  <1>8. CASE ~(n > 0 /\ inner[1] \in Emphasis)
    BY <1>4, <1>6, <1>8, Zenon DEF Text
  <1> QED BY <1>7, <1>8

ClearBody(lines) == \A i \in DOMAIN lines : lines[i].kind = "source" => ~Fenced(lines)[i]

CountsAt(lines, i) == ~Fenced(lines)[i] /\ lines[i].kind = "heading"
LevelsOf(lines) == {lines[i].level : i \in {j \in DOMAIN lines : CountsAt(lines, j) /\ lines[j].text # <<>>}}
LowestOf(levels) == CHOOSE l \in levels : \A m \in levels : l <= m
ShiftOf(lines) == IF LevelsOf(lines) = {} THEN 0 ELSE Most(0, 3 - LowestOf(LevelsOf(lines)))
RewrittenAt(lines, shift, i) ==
    IF CountsAt(lines, i) THEN Heading(Least(6, lines[i].level + shift), StripEmphasis(lines[i].text))
    ELSE IF ~Fenced(lines)[i] /\ lines[i].kind = "source" THEN Prose(<<"Source\\:">>)
    ELSE lines[i]
SaidIn(lines) == {i \in DOMAIN lines : ~(CountsAt(lines, i) /\ lines[i].text = <<>>)}
RewrittenOf(lines, shift) == [i \in DOMAIN lines |-> RewrittenAt(lines, shift, i)]

LEMMA NormalisedIs ==
  ASSUME NEW lines
  PROVE  Normalised(lines) = Collapsed(KeptAt(RewrittenOf(lines, ShiftOf(lines)), SaidIn(lines)))
  BY Zenon DEF Normalised, RewrittenOf, RewrittenAt, SaidIn, ShiftOf, LevelsOf, LowestOf, CountsAt

LEMMA ShiftIs ==
  ASSUME NEW lines \in Seq(BodyLine)
  PROVE  ShiftOf(lines) \in Nat
  <1> DEFINE levels == LevelsOf(lines)
  <1>1. levels \in SUBSET Nat
    <2>1. \A i \in DOMAIN lines : lines[i] \in BodyLine
      BY SeqIs
    <2>2. \A i \in DOMAIN lines : lines[i].level \in Nat
      BY <2>1 DEF BodyLine
    <2> QED BY <2>2 DEF LevelsOf
  <1> HIDE DEF levels
  <1>2. CASE levels = {}
    BY <1>2 DEF ShiftOf, levels
  <1>3. CASE levels # {}
    <2>1. PICK l \in levels : \A m \in levels : l <= m
      BY <1>1, <1>3, HasLeast
    <2>2. LowestOf(levels) \in levels
      BY <2>1 DEF LowestOf
    <2>3. LowestOf(levels) \in Nat
      BY <1>1, <2>2
    <2>4. ShiftOf(lines) = Most(0, 3 - LowestOf(levels))
      BY <1>3 DEF ShiftOf, levels
    <2> QED BY <2>3, <2>4 DEF Most
  <1> QED BY <1>2, <1>3

LEMMA RewrittenAtIs ==
  ASSUME NEW lines \in Seq(BodyLine), ClearBody(lines), NEW shift \in Nat, NEW i \in DOMAIN lines
  PROVE  RewrittenAt(lines, shift, i) \in QuietLine
  <1>1. lines[i] \in BodyLine /\ lines[i].level \in Nat /\ lines[i].text \in Text
    <2>1. lines[i] \in BodyLine
      BY SeqIs
    <2> QED BY <2>1 DEF BodyLine
  <1>2. CASE CountsAt(lines, i)
    <2>1. Least(6, lines[i].level + shift) \in Nat
      BY <1>1 DEF Least
    <2>2. StripEmphasis(lines[i].text) \in Text
      BY <1>1, StripEmphasisIsText
    <2>3. PICK l \in Nat, t \in Text : l = Least(6, lines[i].level + shift) /\ t = StripEmphasis(lines[i].text)
      BY <2>1, <2>2
    <2>4. Heading(l, t) \in BodyLine /\ Heading(l, t).kind = "heading"
      BY PlainIs
    <2>5. RewrittenAt(lines, shift, i) = Heading(l, t)
      BY <1>2, <2>3, Zenon DEF RewrittenAt
    <2> QED BY <2>4, <2>5 DEF QuietLine
  <1>3. CASE ~CountsAt(lines, i) /\ ~Fenced(lines)[i] /\ lines[i].kind = "source"
    <2>1. "Source\\:" \in STRING
      BY WordAssumption, Zenon
    <2>2. <<"Source\\:">> \in Text
      BY <2>1, OneOf DEF Text
    <2>3. Prose(<<"Source\\:">>) \in BodyLine /\ Prose(<<"Source\\:">>).kind = "prose"
      BY <2>2, PlainIs
    <2>4. RewrittenAt(lines, shift, i) = Prose(<<"Source\\:">>)
      BY <1>3, Zenon DEF RewrittenAt
    <2> QED BY <2>3, <2>4 DEF QuietLine
  <1>4. CASE ~CountsAt(lines, i) /\ ~(~Fenced(lines)[i] /\ lines[i].kind = "source")
    <2>1. RewrittenAt(lines, shift, i) = lines[i]
      BY <1>4, Zenon DEF RewrittenAt
    <2>2. lines[i].kind # "source"
      BY <1>4 DEF ClearBody
    <2> QED BY <1>1, <2>1, <2>2 DEF QuietLine
  <1> QED BY <1>2, <1>3, <1>4

LEMMA CollapsedSays ==
  ASSUME NEW T, NEW lines \in Seq(T)
  PROVE  Collapsed(lines) \in Seq(T)
  <1>1. PICK places : places \subseteq DOMAIN lines /\ Collapsed(lines) = KeptAt(lines, places)
    BY DEF Collapsed
  <1>2. DOMAIN lines = 1..Len(lines)
    BY SeqIs
  <1>3. places \in SUBSET (1..Len(lines))
    BY <1>1, <1>2
  <1> QED BY <1>1, <1>3, KeptAtSays

\* A body whose marks of pages are all in the open loses them.
LEMMA NormalisedSays ==
  ASSUME NEW lines \in Seq(BodyLine), ClearBody(lines)
  PROVE  Normalised(lines) \in Seq(QuietLine)
  <1> DEFINE r == RewrittenOf(lines, ShiftOf(lines))
  <1>1. ShiftOf(lines) \in Nat
    BY ShiftIs
  <1>2. DOMAIN lines = 1..Len(lines) /\ Len(lines) \in Nat
    BY SeqIs
  <1>3. \A i \in DOMAIN lines : RewrittenAt(lines, ShiftOf(lines), i) \in QuietLine
    BY <1>1, RewrittenAtIs
  <1>4. r \in [1..Len(lines) -> QuietLine]
    BY <1>2, <1>3 DEF RewrittenOf
  <1>5. r \in Seq(QuietLine) /\ Len(r) = Len(lines)
    BY <1>2, <1>4, IsSeq
  <1>6. SaidIn(lines) \in SUBSET (1..Len(lines))
    BY <1>2 DEF SaidIn
  <1> HIDE DEF r
  <1>7. KeptAt(r, SaidIn(lines)) \in Seq(QuietLine)
    <2>1. SaidIn(lines) \in SUBSET (1..Len(r))
      BY <1>5, <1>6
    <2> QED BY <1>5, <2>1, KeptAtSays
  <1>8. Collapsed(KeptAt(r, SaidIn(lines))) \in Seq(QuietLine)
    BY <1>7, CollapsedSays
  <1> QED BY <1>8, NormalisedIs DEF r

GapAt(lines, i) == lines[i].kind = "blank" /\ ~Fenced(lines)[i]
StartsIn(lines) == {i \in DOMAIN lines : ~GapAt(lines, i) /\ (i = 1 \/ GapAt(lines, i - 1))}
Ends(lines, i, j) == (\A k \in i..j : ~GapAt(lines, k)) /\ (j = Len(lines) \/ GapAt(lines, j + 1))
EndOf(lines, i) == CHOOSE j \in i..Len(lines) : Ends(lines, i, j)
BlockAt(lines, i) == SubSeq(lines, i, EndOf(lines, i))

LEMMA BlocksIs ==
  ASSUME NEW lines
  PROVE  Blocks(lines) = [k \in DOMAIN Ascending(StartsIn(lines)) |-> BlockAt(lines, Ascending(StartsIn(lines))[k])]
  BY Zenon DEF Blocks, StartsIn, BlockAt, EndOf, Ends, GapAt

LEMMA EndOfIs ==
  ASSUME NEW lines, NEW n \in Nat, Len(lines) = n, DOMAIN lines = 1..n, NEW i \in StartsIn(lines)
  PROVE  EndOf(lines, i) \in i..n
  <1> DEFINE S == {j \in Nat : i <= j /\ (j = n \/ GapAt(lines, j + 1))}
  <1>1. i \in 1..n /\ ~GapAt(lines, i)
    BY DEF StartsIn
  <1>2. n \in S /\ S \in SUBSET Nat
    BY <1>1
  <1> HIDE DEF S
  <1>3. PICK j \in S : \A m \in S : j <= m
    BY <1>2, HasLeast
  <1>4. j \in i..n /\ (j = n \/ GapAt(lines, j + 1))
    <2>1. j <= n
      BY <1>2, <1>3
    <2>2. j \in Nat /\ i <= j /\ (j = n \/ GapAt(lines, j + 1))
      BY <1>3 DEF S
    <2> QED BY <1>1, <2>1, <2>2
  <1>5. \A k \in i..j : ~GapAt(lines, k)
    <2> SUFFICES ASSUME NEW k \in i..j, k # i PROVE ~GapAt(lines, k)
      BY <1>1
    <2>1. k - 1 \in Nat /\ i <= k - 1 /\ (k - 1) + 1 = k /\ ~(j <= k - 1)
      BY <1>1, <1>4
    <2>2. k - 1 \notin S
      BY <1>3, <2>1
    <2> QED BY <2>1, <2>2 DEF S
  <1>6. Ends(lines, i, j)
    BY <1>4, <1>5 DEF Ends
  <1>7. EndOf(lines, i) \in i..Len(lines)
    BY <1>4, <1>6 DEF EndOf
  <1> QED BY <1>7

LEMMA BlocksSay ==
  ASSUME NEW T, NEW lines \in Seq(T)
  PROVE  Blocks(lines) \in Seq(Seq(T))
  <1> DEFINE S == StartsIn(lines)
             order == Ascending(S)
             n == Len(lines)
  <1>1. n \in Nat /\ DOMAIN lines = 1..n
    BY SeqIs
  <1>2. S \in SUBSET Nat /\ S \subseteq 1..n /\ IsFiniteSet(S)
    <2>1. S \subseteq 1..n
      BY <1>1 DEF StartsIn
    <2>2. IsFiniteSet(1..n)
      BY <1>1, FS_Interval
    <2>3. IsFiniteSet(S)
      BY <2>1, <2>2, FS_Subset
    <2> QED BY <1>1, <2>1, <2>3
  <1> HIDE DEF n
  <1>3. PICK m : Numbers(m, S, order)
    <2> HIDE DEF S
    <2> QED BY <1>2, AscendingSays
  <1>4. m \in Nat /\ order \in [1..m -> S]
    BY <1>3 DEF Numbers
  <1>5. \A i \in S : BlockAt(lines, i) \in Seq(T)
    <2> SUFFICES ASSUME NEW i \in S PROVE BlockAt(lines, i) \in Seq(T)
      OBVIOUS
    <2>1. EndOf(lines, i) \in i..n
      BY <1>1, EndOfIs DEF n
    <2>2. i \in Nat \ {0} /\ EndOf(lines, i) \in Nat /\ EndOf(lines, i) <= Len(lines)
      BY <1>1, <1>2, <2>1 DEF n
    <2> QED BY <2>2, PartIs DEF BlockAt
  <1> HIDE DEF S, order
  <1>6. Blocks(lines) = [k \in 1..m |-> BlockAt(lines, order[k])]
    BY <1>4, BlocksIs DEF order, S
  <1>7. Blocks(lines) \in [1..m -> Seq(T)]
    BY <1>4, <1>5, <1>6
  <1> QED BY <1>4, <1>7, IsSeq

LEMMA JoinedSays ==
  ASSUME NEW T, Blank \in T, NEW blocks \in Seq(Seq(T))
  PROVE  Joined(blocks) \in Seq(T)
  <1> DEFINE n == Len(blocks)
             r == [k \in DOMAIN blocks |-> IF k = 1 THEN blocks[k] ELSE Cat(<<Blank>>, blocks[k])]
  <1>1. n \in Nat /\ DOMAIN blocks = 1..n /\ \A k \in 1..n : blocks[k] \in Seq(T)
    BY SeqIs
  <1>2. Joined(blocks) = FlattenSeq(r)
    BY Zenon DEF Joined, Concat, Cat
  <1>3. \A k \in 1..n : Cat(<<Blank>>, blocks[k]) \in Seq(T)
    <2> SUFFICES ASSUME NEW k \in 1..n PROVE Cat(<<Blank>>, blocks[k]) \in Seq(T)
      OBVIOUS
    <2>1. <<Blank>> \in Seq(T)
      BY OneOf
    <2>2. blocks[k] \in Seq(T)
      BY <1>1
    <2> QED BY <2>1, <2>2, CatOf
  <1> HIDE DEF n
  <1>4. r \in [1..n -> Seq(T)]
    BY <1>1, <1>3
  <1> HIDE DEF r
  <1>5. r \in Seq(Seq(T))
    BY <1>1, <1>4, IsSeq
  <1> QED BY <1>2, <1>5, FlattenSays

LEMMA TrimmedSays ==
  ASSUME NEW T, Blank \in T, NEW body \in Seq(T), NEW drop
  PROVE  Trimmed(body, drop) \in Seq(T)
  <1> DEFINE b == Blocks(body)
             places == {i \in DOMAIN b : b[i] \notin drop}
  <1>1. b \in Seq(Seq(T))
    BY BlocksSay
  <1>2. Trimmed(body, drop) = Joined(KeptAt(b, places))
    BY Zenon DEF Trimmed, Those
  <1> HIDE DEF b
  <1>3. places \in SUBSET (1..Len(b))
    BY <1>1, SeqIs
  <1> HIDE DEF places
  <1>4. KeptAt(b, places) \in Seq(Seq(T))
    BY <1>1, <1>3, KeptAtSays
  <1> QED BY <1>2, <1>4, JoinedSays

-----------------------------------------------------------------------------
(* What many pages share. *)

ByRank(S, c) == [i \in S |-> {j \in S : c[j] > c[i] \/ (c[j] = c[i] /\ j < i)}]

LEMMA RankLinear ==
  ASSUME NEW S \in SUBSET Nat, NEW c \in [S -> Nat]
  PROVE  Linear(S, ByRank(S, c))
  <1> DEFINE a == ByRank(S, c)
  <1>1. a \in [S -> SUBSET S] /\ \A i, j \in S : j \in a[i] <=> c[j] > c[i] \/ (c[j] = c[i] /\ j < i)
    BY DEF ByRank
  <1> HIDE DEF a
  <1>2. \A i \in S : i \in Nat /\ c[i] \in Nat
    OBVIOUS
  <1>3. \A i \in S : i \notin a[i]
    BY <1>1, <1>2
  <1>4. \A i, j \in S : i # j => i \in a[j] \/ j \in a[i]
    BY <1>1, <1>2
  <1>5. ASSUME NEW i \in S, NEW j \in S, i \in a[j] PROVE a[i] \subseteq a[j]
    <2> SUFFICES ASSUME NEW k \in a[i] PROVE k \in a[j]
      OBVIOUS
    <2>1. k \in S
      BY <1>1
    <2> QED BY <1>1, <1>2, <1>5, <2>1
  <1>6. Linear(S, a)
    BY <1>1, <1>3, <1>4, <1>5 DEF Linear
  <1> QED BY <1>6 DEF a

SharesOf(blocks, block) == Cardinality({b \in DOMAIN blocks : block \in ToSet(blocks[b])})
Common(blocks, block) ==
    /\ block[1].kind # "fence" /\ Size(block) >= MinRepeat
    /\ SharesOf(blocks, block) > RepeatThreshold
FirstAt(s, i) == \A j \in 1..(i - 1) : s[j] # s[i]
ChosenIn(blocks, flat) == {i \in DOMAIN flat : FirstAt(flat, i) /\ Common(blocks, flat[i])}
SharedAhead(blocks, flat, S) ==
    [i \in S |-> {j \in S : \/ SharesOf(blocks, flat[j]) > SharesOf(blocks, flat[i])
                            \/ SharesOf(blocks, flat[j]) = SharesOf(blocks, flat[i]) /\ j < i}]
SharedOrder(blocks, flat, S) == InOrder(S, SharedAhead(blocks, flat, S))

LEMMA MostSharedIs ==
  ASSUME NEW blocks
  PROVE  LET flat == FlattenSeq(blocks)
             order == SharedOrder(blocks, flat, ChosenIn(blocks, flat))
         IN  MostShared(blocks) = [k \in DOMAIN order |-> flat[order[k]]]
  BY Zenon DEF MostShared, Concat, ChosenIn, SharedAhead, SharedOrder, FirstAt, Common, SharesOf

\* Each element of a sequence is somewhere for the first time.
LEMMA HasFirst ==
  ASSUME NEW T, NEW s \in Seq(T), NEW x \in ToSet(s)
  PROVE  \E i \in 1..Len(s) : s[i] = x /\ FirstAt(s, i)
  <1> DEFINE S == {i \in 1..Len(s) : s[i] = x}
  <1>1. Len(s) \in Nat /\ DOMAIN s = 1..Len(s)
    BY SeqIs
  <1>2. S \in SUBSET Nat /\ S # {}
    BY <1>1 DEF ToSet
  <1> HIDE DEF S
  <1>3. PICK i \in S : \A j \in S : i <= j
    BY <1>2, HasLeast
  <1>4. i \in 1..Len(s) /\ s[i] = x
    BY <1>3 DEF S
  <1>5. ASSUME NEW j \in 1..(i - 1) PROVE s[j] # s[i]
    <2>1. j \in 1..Len(s) /\ ~(i <= j)
      BY <1>1, <1>4
    <2>2. j \notin S
      BY <1>3, <2>1
    <2> QED BY <1>4, <2>1, <2>2 DEF S
  <1> QED BY <1>4, <1>5 DEF FirstAt

LEMMA MostSharedSays ==
  ASSUME NEW T, NEW blocks \in Seq(Seq(T))
  PROVE  /\ MostShared(blocks) \in Seq(T)
         /\ \A x : x \in ToSet(MostShared(blocks)) <=>
                      (\E b \in 1..Len(blocks) : x \in ToSet(blocks[b])) /\ Common(blocks, x)
  <1> DEFINE flat == FlattenSeq(blocks)
             n == Len(flat)
             S == ChosenIn(blocks, flat)
             c == [i \in S |-> SharesOf(blocks, flat[i])]
             order == SharedOrder(blocks, flat, S)
             m == Cardinality(S)
             r == MostShared(blocks)
  <1>1. flat \in Seq(T) /\ \A x : x \in ToSet(flat) <=> \E b \in 1..Len(blocks) : x \in ToSet(blocks[b])
    BY FlattenSays
  <1> HIDE DEF flat
  <1>2. n \in Nat /\ DOMAIN flat = 1..n /\ \A i \in 1..n : flat[i] \in T /\ flat[i] \in ToSet(flat)
    BY <1>1, SeqIs
  <1>3. S \in SUBSET Nat /\ S \subseteq 1..n /\ IsFiniteSet(S)
    <2>1. S \subseteq 1..n
      BY <1>2 DEF ChosenIn
    <2>2. IsFiniteSet(1..n)
      BY <1>2, FS_Interval
    <2>3. IsFiniteSet(S)
      BY <2>1, <2>2, FS_Subset
    <2> QED BY <1>2, <2>1, <2>3
  <1>4. \A x : SharesOf(blocks, x) \in Nat
    <2> SUFFICES ASSUME NEW x PROVE SharesOf(blocks, x) \in Nat
      OBVIOUS
    <2> DEFINE P == {b \in DOMAIN blocks : x \in ToSet(blocks[b])}
    <2>1. DOMAIN blocks = 1..Len(blocks) /\ Len(blocks) \in Nat
      BY SeqIs
    <2>2. IsFiniteSet(DOMAIN blocks)
      BY <2>1, FS_Interval
    <2>3. P \in SUBSET (DOMAIN blocks)
      OBVIOUS
    <2>4. IsFiniteSet(P)
      <3> HIDE DEF P
      <3> QED BY <2>2, <2>3, FS_Subset
    <2>5. Cardinality(P) \in Nat
      <3> HIDE DEF P
      <3> QED BY <2>4, FS_CardinalityType
    <2> QED BY <2>5 DEF SharesOf
  <1>5. SharedAhead(blocks, flat, S) = ByRank(S, c)
    <2> HIDE DEF S
    <2>1. \A i \in S : c[i] = SharesOf(blocks, flat[i])
      OBVIOUS
    <2> HIDE DEF c
    <2>2. ASSUME NEW i \in S
          PROVE  {j \in S : \/ SharesOf(blocks, flat[j]) > SharesOf(blocks, flat[i])
                            \/ SharesOf(blocks, flat[j]) = SharesOf(blocks, flat[i]) /\ j < i}
                    = {j \in S : c[j] > c[i] \/ (c[j] = c[i] /\ j < i)}
      BY <2>1
    <2> QED BY <2>2, Zenon DEF SharedAhead, ByRank
  <1>6. Linear(S, SharedAhead(blocks, flat, S))
    <2>1. c \in [S -> Nat]
      BY <1>4
    <2> HIDE DEF c, S
    <2>2. Linear(S, ByRank(S, c))
      BY <1>3, <2>1, RankLinear
    <2> QED BY <1>5, <2>2
  <1> HIDE DEF S, c
  <1>7. Numbers(m, S, order)
    BY <1>3, <1>6, InOrderSays DEF SharedOrder
  <1>8. r = [k \in DOMAIN order |-> flat[order[k]]]
    BY MostSharedIs, Zenon DEF flat, order, S
  <1> HIDE DEF r, order, m
  <1>9. m \in Nat /\ order \in [1..m -> S] /\ \A x \in S : \E k \in 1..m : order[k] = x
    BY <1>7 DEF Numbers
  <1>10. r \in [1..m -> T] /\ \A k \in 1..m : r[k] = flat[order[k]]
    BY <1>2, <1>3, <1>8, <1>9
  <1>11. r \in Seq(T) /\ DOMAIN r = 1..m
    BY <1>9, <1>10, IsSeq
  <1>12. ASSUME NEW x \in ToSet(r) PROVE x \in ToSet(flat) /\ Common(blocks, x)
    <2>1. PICK k \in 1..m : x = r[k]
      BY <1>11, <1>12 DEF ToSet
    <2>2. order[k] \in S /\ x = flat[order[k]]
      BY <1>9, <1>10, <2>1
    <2>3. order[k] \in 1..n /\ Common(blocks, flat[order[k]])
      BY <1>3, <2>2 DEF S, ChosenIn
    <2> QED BY <1>2, <2>2, <2>3
  <1>13. ASSUME NEW x \in ToSet(flat), Common(blocks, x) PROVE x \in ToSet(r)
    <2>1. PICK i \in 1..n : flat[i] = x /\ FirstAt(flat, i)
      BY <1>1, HasFirst
    <2>2. i \in S
      BY <1>2, <1>13, <2>1 DEF S, ChosenIn
    <2>3. PICK k \in 1..m : order[k] = i
      BY <1>9, <2>2
    <2>4. x = r[k]
      BY <1>10, <2>1, <2>3
    <2> QED BY <1>11, <2>4 DEF ToSet
  <1> QED BY <1>1, <1>11, <1>12, <1>13 DEF r

-----------------------------------------------------------------------------
(* What fits. *)

\* The sums the renderer keeps while it takes blocks, and those it took.
Fills(sizes, n, start, budget, used, K) ==
    /\ used \in [0..n -> Nat] /\ used[0] = start /\ K \subseteq 1..n
    /\ \A k \in K : used[k - 1] + sizes[k] <= budget /\ used[k] = used[k - 1] + sizes[k]
    /\ \A k \in (1..n) \ K : used[k - 1] + sizes[k] > budget /\ used[k] = used[k - 1]

UsedOf(blocks, start, budget) ==
    CHOOSE used : used = [k \in 0..Len(blocks) |->
        IF k = 0 THEN start
        ELSE IF used[k - 1] + Size(blocks[k]) > budget THEN used[k - 1]
        ELSE used[k - 1] + Size(blocks[k])]
TakenBy(blocks, used, budget) ==
    {k \in DOMAIN blocks : ~(used[k - 1] + Size(blocks[k]) > budget)}
SizesOf(blocks) == [k \in 1..Len(blocks) |-> Size(blocks[k])]

LEMMA FittingIs ==
  ASSUME NEW blocks, NEW start, NEW budget
  PROVE  Fitting(blocks, start, budget) = KeptAt(blocks, TakenBy(blocks, UsedOf(blocks, start, budget), budget))
  BY Zenon DEF Fitting, TakenBy, UsedOf

LEMMA FittingSays ==
  ASSUME NEW blocks \in Seq(Seq(BodyLine)), NEW start \in Nat, NEW budget \in Int
  PROVE  \E used, K : /\ Fills(SizesOf(blocks), Len(blocks), start, budget, used, K)
                      /\ Fitting(blocks, start, budget) = KeptAt(blocks, K)
  <1> DEFINE n == Len(blocks)
             c == SizesOf(blocks)
             step == [k \in 1..n |-> [v \in Nat |-> IF v + c[k] > budget THEN v ELSE v + c[k]]]
             f == UsedOf(blocks, start, budget)
             K == TakenBy(blocks, f, budget)
  <1>1. n \in Nat /\ DOMAIN blocks = 1..n /\ c \in [1..n -> Nat] /\ \A i \in 1..n : c[i] = Size(blocks[i])
    <2>1. n \in Nat /\ DOMAIN blocks = 1..n /\ \A i \in 1..n : blocks[i] \in Seq(BodyLine)
      BY SeqIs
    <2>2. \A i \in 1..n : Size(blocks[i]) \in Nat
      BY <2>1, SizeCat
    <2> QED BY <2>1, <2>2 DEF SizesOf
  <1> HIDE DEF c, n
  <1>2. step \in [1..n -> [Nat -> Nat]]
    BY <1>1
  <1>3. PICK w \in [0..n -> Nat] : Recursive(n, start, step, w)
    <2> HIDE DEF step
    <2> QED BY <1>1, <1>2, Recursion, Zenon
  <1>4. /\ \A i \in 0..n : w[i] = IF i = 0 THEN start ELSE step[i][w[i - 1]]
        /\ w = [i \in 0..n |-> w[i]]
    <2> HIDE DEF step
    <2> QED BY <1>3 DEF Recursive
  <1>5. w[0] = start /\ \A i \in 1..n : /\ w[i - 1] \in Nat
                                        /\ w[i] = IF w[i - 1] + c[i] > budget THEN w[i - 1] ELSE w[i - 1] + c[i]
    <2>1. 0 \in 0..n /\ \A i \in 1..n : i \in 0..n /\ i - 1 \in 0..n /\ i # 0
      BY <1>1
    <2>2. \A i \in 1..n : w[i] = step[i][w[i - 1]] /\ w[i - 1] \in Nat
      <3> HIDE DEF step
      <3> QED BY <1>3, <1>4, <2>1
    <2> QED BY <1>4, <2>1, <2>2
  <1> HIDE DEF step
  <1> DEFINE Step(g, k) == IF k = 0 THEN start
                           ELSE IF g[k - 1] + Size(blocks[k]) > budget THEN g[k - 1]
                           ELSE g[k - 1] + Size(blocks[k])
  <1>6. w = [k \in 0..n |-> Step(w, k)]
    <2>1. \A k \in 0..n : w[k] = Step(w, k)
      <3> SUFFICES ASSUME NEW k \in 0..n PROVE w[k] = Step(w, k)
        OBVIOUS
      <3>1. k = 0 \/ k \in 1..n
        BY <1>1
      <3> QED BY <1>1, <1>5, <3>1
    <2> HIDE DEF Step
    <2> QED BY <1>4, <2>1, Zenon
  <1>7. f = [k \in 0..n |-> Step(f, k)]
    BY <1>6, Zenon DEF UsedOf, n
  <1> HIDE DEF f
  <1>8. f[0] = start /\ \A k \in 1..n : f[k] = IF f[k - 1] + c[k] > budget THEN f[k - 1] ELSE f[k - 1] + c[k]
    <2>1. 0 \in 0..n /\ \A k \in 1..n : k \in 0..n /\ k # 0
      BY <1>1
    <2>2. \A k \in 0..n : f[k] = Step(f, k)
      <3> HIDE DEF Step
      <3> QED BY <1>7
    <2>3. f[0] = start
      BY <2>1, <2>2
    <2>4. \A k \in 1..n : f[k] = IF f[k - 1] + c[k] > budget THEN f[k - 1] ELSE f[k - 1] + c[k]
      BY <1>1, <2>1, <2>2
    <2> QED BY <2>3, <2>4
  <1>9. \A k \in 0..n : w[k] = f[k]
    <2>1. InStep(n, w, f)
      BY <1>5, <1>8 DEF InStep
    <2> QED BY <1>1, <2>1, SameRun
  <1>10. \A k \in 1..n : k - 1 \in 0..n /\ w[k - 1] = f[k - 1]
    BY <1>1, <1>9
  <1>11. K \subseteq 1..n /\ \A k \in 1..n : k \in K <=> ~(w[k - 1] + c[k] > budget)
    BY <1>1, <1>10 DEF TakenBy
  <1> HIDE DEF K
  <1>12. \A k \in 1..n : w[k - 1] \in Nat /\ c[k] \in Nat
    BY <1>1, <1>5
  <1>13. \A k \in K : w[k - 1] + c[k] <= budget /\ w[k] = w[k - 1] + c[k]
    BY <1>5, <1>11, <1>12
  <1>14. \A k \in (1..n) \ K : w[k - 1] + c[k] > budget /\ w[k] = w[k - 1]
    BY <1>5, <1>11, <1>12
  <1>15. Fills(c, n, start, budget, w, K)
    BY <1>3, <1>5, <1>11, <1>13, <1>14 DEF Fills
  <1> QED BY <1>15, FittingIs, Zenon DEF c, n, K, f

\* The sums grow.
LEMMA FillsGrows ==
  ASSUME NEW n \in Nat, NEW sizes \in [1..n -> Nat], NEW start, NEW budget \in Int, NEW used, NEW K,
         Fills(sizes, n, start, budget, used, K)
  PROVE  \A i, j \in 0..n : i <= j => used[i] <= used[j]
  <1> SUFFICES ASSUME NEW i \in 0..n PROVE \A j \in 0..n : i <= j => used[i] <= used[j]
    OBVIOUS
  <1> DEFINE S == {j \in Nat : (j <= n /\ i <= j) => used[i] <= used[j]}
  <1>1. used \in [0..n -> Nat] /\ \A k \in 1..n : used[k - 1] <= used[k]
    <2> SUFFICES ASSUME NEW k \in 1..n PROVE used[k - 1] <= used[k]
      BY DEF Fills
    <2>1. k - 1 \in 0..n /\ k \in 0..n /\ used \in [0..n -> Nat]
      BY DEF Fills
    <2>2. used[k - 1] \in Nat /\ used[k] \in Nat /\ sizes[k] \in Nat
      BY <2>1
    <2>3. used[k] = used[k - 1] + sizes[k] \/ used[k] = used[k - 1]
      BY DEF Fills
    <2> QED BY <2>2, <2>3
  <1>2. 0 \in S
    <2>1. i <= 0 => i = 0
      OBVIOUS
    <2>2. used[i] <= used[i]
      BY <1>1
    <2> QED BY <2>1, <2>2
  <1>3. ASSUME NEW j \in Nat, j \in S PROVE j + 1 \in S
    <2> SUFFICES ASSUME j + 1 <= n, i <= j + 1 PROVE used[i] <= used[j + 1]
      OBVIOUS
    <2>1. j + 1 \in 1..n /\ j \in 0..n /\ j + 1 \in 0..n /\ (j + 1) - 1 = j
      OBVIOUS
    <2>2. used[j] <= used[j + 1] /\ used[i] \in Nat /\ used[j] \in Nat /\ used[j + 1] \in Nat
      <3>1. used[(j + 1) - 1] <= used[j + 1]
        BY <1>1, <2>1
      <3> QED BY <1>1, <2>1, <3>1
    <2>3. i = j + 1 \/ i <= j
      OBVIOUS
    <2>4. i <= j => used[i] <= used[j]
      BY <1>3, <2>1
    <2> QED BY <2>2, <2>3, <2>4
  <1> HIDE DEF S
  <1>4. \A j \in Nat : j \in S
    BY <1>2, <1>3, Induct
  <1> QED BY <1>4 DEF S

\* Where a block was taken, all that was taken fits.
LEMMA FillsFits ==
  ASSUME NEW n \in Nat, NEW sizes \in [1..n -> Nat], NEW start, NEW budget \in Int, NEW used, NEW K,
         Fills(sizes, n, start, budget, used, K), K # {}
  PROVE  used[n] <= budget
  <1> DEFINE S == {j \in Nat : j <= n => (used[j] <= budget \/ \A k \in K : j < k)}
  <1>1. used \in [0..n -> Nat] /\ K \subseteq 1..n
    BY DEF Fills
  <1>2. 0 \in S
    <2>1. \A k \in K : 0 < k
      BY <1>1
    <2> QED BY <2>1
  <1>3. ASSUME NEW j \in Nat, j \in S PROVE j + 1 \in S
    <2> SUFFICES ASSUME j + 1 <= n PROVE used[j + 1] <= budget \/ \A k \in K : j + 1 < k
      OBVIOUS
    <2>1. j + 1 \in 1..n /\ j \in 0..n /\ j + 1 \in 0..n /\ (j + 1) - 1 = j /\ j <= n
      OBVIOUS
    <2>2. CASE j + 1 \in K
      <3>1. used[(j + 1) - 1] + sizes[j + 1] <= budget /\ used[j + 1] = used[(j + 1) - 1] + sizes[j + 1]
        BY <2>2 DEF Fills
      <3> QED BY <3>1
    <2>3. CASE j + 1 \notin K
      <3>1. used[j + 1] = used[(j + 1) - 1]
        BY <2>1, <2>3 DEF Fills
      <3>2. used[j + 1] = used[j]
        BY <2>1, <3>1
      <3>3. used[j] <= budget \/ \A k \in K : j < k
        BY <1>3, <2>1
      <3>4. \A k \in K : j < k => j + 1 < k
        <4>1. \A k \in K : k \in Nat /\ k # j + 1
          BY <1>1, <2>3
        <4> QED BY <4>1
      <3> QED BY <3>2, <3>3, <3>4
    <2> QED BY <2>2, <2>3
  <1> HIDE DEF S
  <1>4. n \in S
    BY <1>2, <1>3, Induct
  <1>5. PICK k : k \in K
    OBVIOUS
  <1>6. ~(n < k)
    <2>1. k \in 1..n
      BY <1>1, <1>5
    <2> QED BY <2>1
  <1> QED BY <1>4, <1>5, <1>6 DEF S

\* The last sum is the size of what was taken.
LEMMA FillsSum ==
  ASSUME NEW blocks \in Seq(Seq(BodyLine)), NEW start \in Nat, NEW budget \in Int, NEW used, NEW K,
         Fills(SizesOf(blocks), Len(blocks), start, budget, used, K)
  PROVE  /\ FlattenSeq(KeptAt(blocks, K)) \in Seq(BodyLine)
         /\ used[Len(blocks)] = start + Size(FlattenSeq(KeptAt(blocks, K)))
  <1> DEFINE n == Len(blocks)
             s == KeptAt(blocks, K)
  <1>1. n \in Nat /\ \A k \in 1..n : blocks[k] \in Seq(BodyLine)
    BY SeqIs
  <1>2. used \in [0..n -> Nat] /\ used[0] = start /\ K \subseteq 1..n
    BY DEF Fills
  <1>3. /\ \A k \in K : used[k] = used[k - 1] + Size(blocks[k])
        /\ \A k \in 1..n : k \notin K => used[k] = used[k - 1]
    <2>1. \A k \in K : SizesOf(blocks)[k] = Size(blocks[k])
      BY <1>2 DEF SizesOf
    <2> QED BY <2>1 DEF Fills
  <1> HIDE DEF n
  <1>4. PICK c, e : KeptBy(blocks, K, c, e) /\ s = At(blocks, c, e)
    <2>1. K \in SUBSET (1..Len(blocks))
      BY <1>2 DEF n
    <2> QED BY <2>1, KeptAtIs
  <1>5. /\ c \in Nat /\ e \in [1..c -> K] /\ \A x \in K : \E k \in 1..c : e[k] = x
        /\ \A k, l \in 1..c : k < l => e[k] < e[l]
    BY <1>4 DEF KeptBy, Numbers
  <1> HIDE DEF s
  <1>6. /\ \A k \in 1..c : s[k] = blocks[e[k]] /\ e[k] \in K /\ e[k] \in 1..n
        /\ s \in Seq(Seq(BodyLine)) /\ Len(s) = c
    <2>1. \A k \in 1..c : e[k] \in K /\ e[k] \in 1..n
      BY <1>2, <1>5
    <2>2. s \in [1..c -> Seq(BodyLine)] /\ \A k \in 1..c : s[k] = blocks[e[k]]
      BY <1>1, <1>4, <2>1 DEF At
    <2> QED BY <1>5, <2>1, <2>2, IsSeq
  <1>7. PICK v \in [0..c -> Seq(BodyLine)] : Runs(c, s, v) /\ FlattenSeq(s) = v[c]
    BY <1>6, FlattenRuns
  <1> DEFINE Upto(i, j) == /\ \A k \in 1..i : e[k] <= j
                           /\ \A k \in (i + 1)..c : e[k] > j
                           /\ used[j] = start + Size(v[i])
             S == {j \in Nat : j <= n => \E i \in 0..c : Upto(i, j)}
  <1>8. 0 \in S
    <2>1. v[0] = <<>> /\ Size(<<>>) = 0
      <3>1. <<>> \in Seq(BodyLine)
        OBVIOUS
      <3> QED BY <1>7, <3>1, SizeCat DEF Runs
    <2>2. \A k \in 1..c : e[k] > 0
      BY <1>1, <1>6
    <2>3. \A k \in (0 + 1)..c : k \in 1..c
      BY <1>5
    <2>4. used[0] = start + Size(v[0])
      BY <1>2, <2>1
    <2>5. Upto(0, 0)
      BY <2>2, <2>3, <2>4
    <2>6. 0 \in 0..c
      BY <1>5
    <2> HIDE DEF Upto
    <2> QED BY <2>5, <2>6
  <1>9. ASSUME NEW j \in Nat, j \in S PROVE j + 1 \in S
    <2> SUFFICES ASSUME j + 1 <= n PROVE \E i \in 0..c : Upto(i, j + 1)
      <3> HIDE DEF Upto
      <3> QED OBVIOUS
    <2>1. j + 1 \in 1..n /\ j \in 0..n /\ j + 1 \in 0..n /\ (j + 1) - 1 = j /\ j <= n
      BY <1>1
    <2>2. PICK i \in 0..c : Upto(i, j)
      BY <1>9, <2>1
    <2>3. \A k \in 1..c : e[k] \in Nat
      BY <1>1, <1>6
    <2>4. CASE j + 1 \in K
      <3>1. PICK k \in 1..c : e[k] = j + 1
        BY <1>5, <2>4
      <3>2. k = i + 1
        <4>1. ~(k \in 1..i)
          <5>1. e[k] > j
            BY <3>1
          <5> QED BY <2>2, <2>3, <5>1
        <4>2. k >= i + 1
          BY <1>5, <4>1
        <4>3. k > i + 1 => FALSE
          <5> SUFFICES ASSUME k > i + 1 PROVE FALSE
            OBVIOUS
          <5>1. i + 1 \in 1..c /\ i + 1 \in (i + 1)..c
            BY <1>5
          <5>2. e[i + 1] < e[k] /\ e[i + 1] > j
            BY <1>5, <2>2, <5>1
          <5> QED BY <2>3, <3>1, <5>1, <5>2
        <4> QED BY <1>5, <4>2, <4>3
      <3>3. i + 1 \in 1..c /\ i \in 0..c /\ (i + 1) - 1 = i
        BY <3>2
      <3>4. Size(v[i + 1]) = Size(v[i]) + Size(blocks[j + 1]) /\ Size(v[i]) \in Nat /\ Size(blocks[j + 1]) \in Nat
        <4>1. v[i + 1] = Cat(v[(i + 1) - 1], s[i + 1])
          BY <1>7, <3>3 DEF Runs
        <4>2. v[i + 1] = Cat(v[i], blocks[j + 1])
          <5>1. s[i + 1] = blocks[j + 1]
            BY <1>6, <3>1, <3>2, <3>3
          <5> QED BY <3>3, <4>1, <5>1
        <4>3. v[i] \in Seq(BodyLine) /\ blocks[j + 1] \in Seq(BodyLine)
          BY <1>1, <1>7, <2>1, <3>3
        <4>4. Size(Cat(v[i], blocks[j + 1])) = Size(v[i]) + Size(blocks[j + 1]) /\ Size(v[i]) \in Nat /\ Size(blocks[j + 1]) \in Nat
          BY <4>3, SizeCat
        <4> QED BY <4>2, <4>4
      <3>5. used[j + 1] = start + Size(v[i + 1])
        <4>1. used[j + 1] = used[(j + 1) - 1] + Size(blocks[j + 1])
          BY <1>3, <2>4
        <4>2. used[j + 1] = used[j] + Size(blocks[j + 1])
          BY <2>1, <4>1
        <4>3. used[j] = start + Size(v[i])
          BY <2>2
        <4>4. PICK x, y \in Nat : x = Size(v[i]) /\ y = Size(blocks[j + 1])
          BY <3>4
        <4> QED BY <3>4, <4>2, <4>3, <4>4
      <3>6. \A l \in 1..(i + 1) : e[l] <= j + 1
        <4> SUFFICES ASSUME NEW l \in 1..(i + 1) PROVE e[l] <= j + 1
          OBVIOUS
        <4>1. l = i + 1 \/ l \in 1..i
          OBVIOUS
        <4>2. l \in 1..i => e[l] <= j /\ l \in 1..c
          BY <1>5, <2>2, <3>3
        <4>3. e[i + 1] = j + 1 /\ i + 1 \in 1..c
          BY <3>1, <3>2, <3>3
        <4> HIDE DEF Upto
        <4> QED BY <2>3, <4>1, <4>2, <4>3
      <3>7. \A l \in ((i + 1) + 1)..c : e[l] > j + 1
        <4> SUFFICES ASSUME NEW l \in ((i + 1) + 1)..c PROVE e[l] > j + 1
          OBVIOUS
        <4>1. l \in 1..c /\ k < l
          BY <1>5, <3>2, <3>3
        <4>2. e[k] < e[l]
          BY <1>5, <4>1
        <4> QED BY <2>3, <3>1, <4>1, <4>2
      <3>8. Upto(i + 1, j + 1)
        BY <3>5, <3>6, <3>7
      <3>9. i + 1 \in 0..c
        BY <3>3
      <3> HIDE DEF Upto
      <3> QED BY <3>8, <3>9
    <2>5. CASE j + 1 \notin K
      <3>1. used[j + 1] = used[(j + 1) - 1]
        BY <1>3, <2>1, <2>5
      <3>2. used[j + 1] = start + Size(v[i])
        BY <2>1, <2>2, <3>1
      <3>3. \A k \in 1..i : e[k] <= j + 1
        <4> SUFFICES ASSUME NEW k \in 1..i PROVE e[k] <= j + 1
          OBVIOUS
        <4>1. e[k] <= j /\ k \in 1..c
          BY <1>5, <2>2
        <4> QED BY <2>3, <4>1
      <3>4. \A k \in (i + 1)..c : e[k] > j + 1
        <4> SUFFICES ASSUME NEW k \in (i + 1)..c PROVE e[k] > j + 1
          OBVIOUS
        <4>1. e[k] > j /\ k \in 1..c
          BY <1>5, <2>2
        <4>2. e[k] # j + 1
          BY <1>6, <2>5, <4>1
        <4> QED BY <2>3, <4>1, <4>2
      <3>5. Upto(i, j + 1)
        BY <3>2, <3>3, <3>4
      <3> HIDE DEF Upto
      <3> QED BY <3>5
    <2> QED BY <2>4, <2>5
  <1> HIDE DEF S
  <1>10. n \in S
    BY <1>1, <1>8, <1>9, Induct
  <1>11. PICK i \in 0..c : Upto(i, n)
    <2> HIDE DEF Upto
    <2> QED BY <1>1, <1>10 DEF S
  <1>12. i = c
    <2> SUFFICES ASSUME i # c PROVE FALSE
      OBVIOUS
    <2>1. i + 1 \in (i + 1)..c /\ i + 1 \in 1..c
      BY <1>5
    <2>2. e[i + 1] > n /\ e[i + 1] \in 1..n
      BY <1>6, <1>11, <2>1
    <2> QED BY <1>1, <2>2
  <1>13. v[c] \in Seq(BodyLine)
    <2>1. c \in 0..c
      BY <1>5
    <2> QED BY <1>7, <2>1
  <1> QED BY <1>7, <1>11, <1>12, <1>13 DEF s, n

-----------------------------------------------------------------------------
(* The marks of pages in llms-full.txt. *)

SourceMarks == {line \in BodyLine : line.kind = "source"}
Mark(url) == Line("source", 0, <<"Source:">>, url)
MarkSet(U) == {Mark(u) : u \in U}
MarksIn(full) == KeptAt(full, {i \in DOMAIN full : full[i].kind = "source"})

LEMMA MarkIs ==
  ASSUME NEW url \in Address
  PROVE  Mark(url) \in SourceMarks /\ Mark(url) \in BodyLine /\ Mark(url).url = url
  <1>1. "Source:" \in STRING
    BY WordAssumption, Zenon
  <1>2. <<"Source:">> \in Text /\ "source" \in LineKind /\ 0 \in Nat
    BY <1>1, OneOf DEF Text, LineKind
  <1> QED BY <1>2, LineIs DEF Mark, SourceMarks

LEMMA QuietBears ==
  ASSUME NEW s \in Seq(QuietLine)
  PROVE  s \in Seq(BodyLine) /\ Bears(s, SourceMarks, {})
  <1>1. Len(s) \in Nat /\ DOMAIN s = 1..Len(s) /\ s \in [1..Len(s) -> QuietLine] /\ \A i \in 1..Len(s) : s[i] \in QuietLine
    BY SeqIs
  <1>2. \A i \in 1..Len(s) : s[i] \in BodyLine /\ s[i] \notin SourceMarks
    BY <1>1 DEF QuietLine, SourceMarks
  <1>3. s \in [1..Len(s) -> BodyLine]
    BY <1>1, <1>2
  <1>4. s \in Seq(BodyLine)
    BY <1>1, <1>3, IsSeq
  <1> QED BY <1>1, <1>2, <1>4, BearsNothing

\* The marks, and the pages they mark.
LEMMA MarksAre ==
  ASSUME NEW full \in Seq(BodyLine), NEW U \in SUBSET Address, Bears(full, SourceMarks, MarkSet(U))
  PROVE  Urls(MarksIn(full)) = U /\ Len(MarksIn(full)) = Cardinality(Urls(MarksIn(full)))
  <1> DEFINE places == {i \in DOMAIN full : full[i] \in SourceMarks}
             L == MarksIn(full)
  <1>1. \A i \in DOMAIN full : full[i] \in SourceMarks <=> full[i].kind = "source"
    <2>1. \A i \in DOMAIN full : full[i] \in BodyLine
      BY SeqIs
    <2> QED BY <2>1 DEF SourceMarks
  <1>2. L = KeptAt(full, places)
    <2>1. {i \in DOMAIN full : full[i].kind = "source"} = places
      BY <1>1
    <2> QED BY <2>1 DEF MarksIn
  <1> HIDE DEF L
  <1>3. L \in Seq(BodyLine) /\ ToSet(L) = MarkSet(U) /\ IsInjective(L)
    <2>1. /\ KeptAt(full, places) \in Seq(BodyLine) /\ ToSet(KeptAt(full, places)) = MarkSet(U)
          /\ IsInjective(KeptAt(full, places))
      BY TakenOut
    <2> HIDE DEF places
    <2> QED BY <1>2, <2>1
  <1>4. Len(L) \in Nat /\ DOMAIN L = 1..Len(L) /\ \A i \in 1..Len(L) : L[i] \in ToSet(L)
    BY <1>3, SeqIs
  <1>5. \A i \in 1..Len(L) : L[i].url \in U /\ L[i] = Mark(L[i].url)
    <2> SUFFICES ASSUME NEW i \in 1..Len(L) PROVE L[i].url \in U /\ L[i] = Mark(L[i].url)
      OBVIOUS
    <2>1. L[i] \in MarkSet(U)
      BY <1>3, <1>4
    <2>2. PICK u \in U : L[i] = Mark(u)
      BY <2>1 DEF MarkSet
    <2>3. Mark(u).url = u
      BY MarkIs
    <2> QED BY <2>2, <2>3
  <1>6. \A u \in U : \E i \in 1..Len(L) : L[i].url = u
    <2> SUFFICES ASSUME NEW u \in U PROVE \E i \in 1..Len(L) : L[i].url = u
      OBVIOUS
    <2>1. Mark(u) \in ToSet(L)
      BY <1>3 DEF MarkSet
    <2>2. PICK i \in 1..Len(L) : L[i] = Mark(u)
      BY <1>4, <2>1 DEF ToSet
    <2>3. Mark(u).url = u
      BY MarkIs
    <2> QED BY <2>2, <2>3
  <1>7. Urls(L) = U
    BY <1>4, <1>5, <1>6 DEF Urls
  <1>8. Numbers(Len(L), Urls(L), [i \in 1..Len(L) |-> L[i].url])
    <2> DEFINE u == [i \in 1..Len(L) |-> L[i].url]
    <2>1. u \in [1..Len(L) -> Urls(L)]
      BY <1>4 DEF Urls
    <2>2. \A x \in Urls(L) : \E k \in 1..Len(L) : u[k] = x
      BY <1>4 DEF Urls
    <2>3. ASSUME NEW i \in 1..Len(L), NEW j \in 1..Len(L), u[i] = u[j] PROVE i = j
      <3>1. L[i].url = L[j].url
        BY <2>3
      <3>2. L[i] = L[j]
        BY <1>5, <3>1
      <3> QED BY <1>3, <1>4, <3>2 DEF IsInjective
    <2>4. IsInjective(u)
      BY <2>1, <2>3 DEF IsInjective
    <2> QED BY <1>4, <2>1, <2>2, <2>4 DEF Numbers
  <1>9. Cardinality(Urls(L)) = Len(L)
    BY <1>8, NumbersCount
  <1> QED BY <1>7, <1>9 DEF L

LEMMA Seven ==
  ASSUME NEW T, NEW a \in T, NEW b \in T, NEW c \in T, NEW m \in T,
         NEW K, a \notin K, b \notin K, c \notin K, m \in K
  PROVE  <<a, b, a, c, a, m, a>> \in Seq(T) /\ Bears(<<a, b, a, c, a, m, a>>, K, {m})
  <1> DEFINE s == <<a, b, a, c, a, m, a>>
  <1>1. s \in [1..7 -> T] /\ DOMAIN s = 1..7 /\ 7 \in Nat
    OBVIOUS
  <1>2. s[1] = a /\ s[2] = b /\ s[3] = a /\ s[4] = c /\ s[5] = a /\ s[6] = m /\ s[7] = a
    OBVIOUS
  <1> HIDE DEF s
  <1>3. s \in Seq(T)
    BY <1>1, IsSeq
  <1>4. \A i \in 1..7 : i = 1 \/ i = 2 \/ i = 3 \/ i = 4 \/ i = 5 \/ i = 6 \/ i = 7
    OBVIOUS
  <1>5. \A i \in 1..7 : s[i] \in K => i = 6
    BY <1>2, <1>4
  <1>6. 6 \in 1..7
    OBVIOUS
  <1>7. Bears(s, K, {m})
    <2>1. \A i, j \in DOMAIN s : s[i] \in K /\ s[i] = s[j] => i = j
      BY <1>1, <1>5
    <2>2. \A i \in DOMAIN s : s[i] \in K => s[i] \in {m}
      BY <1>1, <1>2, <1>5
    <2>3. \A x \in {m} : x \in K /\ \E i \in DOMAIN s : s[i] = x
      BY <1>1, <1>2, <1>6
    <2> QED BY <2>1, <2>2, <2>3 DEF Bears
  <1> QED BY <1>3, <1>7 DEF s

\* The text of a page has its mark, once.
LEMMA PageBlockSays ==
  ASSUME NEW title \in Text, NEW url \in Address, NEW body \in Seq(QuietLine)
  PROVE  /\ PageBlock(title, url, body) \in Seq(BodyLine)
         /\ Bears(PageBlock(title, url, body), SourceMarks, MarkSet({url}))
  <1> DEFINE b == Plain("break")
             c == Heading(2, StripEmphasis(title))
             m == Mark(url)
             s == <<Blank, b, Blank, c, Blank, m, Blank>>
  <1>1. PageBlock(title, url, body) = Cat(s, body)
    BY Zenon DEF PageBlock, Cat, Mark
  <1>2. Blank \in BodyLine /\ Blank \notin SourceMarks
    BY PlainIs DEF SourceMarks
  <1>3. b \in BodyLine /\ b \notin SourceMarks
    <2>1. "break" \in LineKind
      BY DEF LineKind
    <2>2. Plain("break") \in BodyLine /\ Plain("break").kind = "break"
      BY <2>1, PlainIs
    <2> QED BY <2>2 DEF SourceMarks
  <1>4. c \in BodyLine /\ c \notin SourceMarks
    <2>1. StripEmphasis(title) \in Text /\ 2 \in Nat
      BY StripEmphasisIsText
    <2>2. c \in BodyLine /\ c.kind = "heading"
      BY <2>1, PlainIs
    <2> QED BY <2>2 DEF SourceMarks
  <1>5. m \in BodyLine /\ m \in SourceMarks
    BY MarkIs
  <1> HIDE DEF b, c, m
  <1>6. s \in Seq(BodyLine) /\ Bears(s, SourceMarks, {m})
    BY <1>2, <1>3, <1>4, <1>5, Seven
  <1>7. body \in Seq(BodyLine) /\ Bears(body, SourceMarks, {})
    BY QuietBears
  <1>8. {m} \cap {} = {} /\ {m} \cup {} = {m} /\ MarkSet({url}) = {m}
    BY DEF MarkSet, m
  <1> HIDE DEF s
  <1>9. Cat(s, body) \in Seq(BodyLine)
    BY <1>6, <1>7, CatOf
  <1>10. Bears(Cat(s, body), SourceMarks, {m} \cup {})
    BY <1>6, <1>7, <1>8, BearsCat
  <1> QED BY <1>1, <1>8, <1>9, <1>10

LEMMA QuietPlain ==
  /\ Blank \in QuietLine
  /\ \A kind \in LineKind : kind # "source" => Plain(kind) \in QuietLine
  /\ \A level \in Nat, text \in Text : Heading(level, text) \in QuietLine
  /\ \A text \in Text : Prose(text) \in QuietLine
  BY PlainIs DEF QuietLine

TopOf(name, shared) ==
    Cat(<<Heading(1, name), Blank>>, IF shared = <<>> THEN <<>> ELSE SharedPart(shared))
NoteOf(m, n) == IF m < n THEN Note ELSE <<>>

LEMMA TopSays ==
  ASSUME NEW name \in Text, NEW shared \in Seq(Seq(QuietLine))
  PROVE  TopOf(name, shared) \in Seq(QuietLine)
  <1> DEFINE h == Heading(1, name)
             g == Heading(3, <<"Repeated">>)
             p == Prose(<<"Included once">>)
             a == <<Blank, g, Blank, p, Blank>>
  <1>1. "Repeated" \in STRING /\ "Included once" \in STRING
    BY WordAssumption, Zenon
  <1>2. <<"Repeated">> \in Text /\ <<"Included once">> \in Text
    BY <1>1, OneOf DEF Text
  <1>3. h \in QuietLine /\ g \in QuietLine /\ p \in QuietLine /\ Blank \in QuietLine
    BY <1>2, QuietPlain
  <1>4. SharedPart(shared) = Cat(a, Joined(shared))
    BY Zenon DEF SharedPart, Cat
  <1> HIDE DEF h, g, p
  <1>5. <<h, Blank>> \in Seq(QuietLine)
    BY <1>3, PairOf
  <1>6. a \in Seq(QuietLine)
    <2>1. a \in [1..5 -> QuietLine] /\ 5 \in Nat
      BY <1>3
    <2> HIDE DEF a
    <2> QED BY <2>1, IsSeq
  <1>7. Joined(shared) \in Seq(QuietLine)
    BY <1>3, JoinedSays
  <1> HIDE DEF a
  <1>8. SharedPart(shared) \in Seq(QuietLine)
    BY <1>4, <1>6, <1>7, CatOf
  <1>9. PICK r \in Seq(QuietLine) : r = IF shared = <<>> THEN <<>> ELSE SharedPart(shared)
    BY <1>8
  <1>10. Cat(<<h, Blank>>, r) \in Seq(QuietLine)
    BY <1>5, CatOf
  <1> QED BY <1>9, <1>10, Zenon DEF TopOf, h

LEMMA NoteSays ==
  ASSUME NEW m, NEW n
  PROVE  /\ NoteOf(m, n) \in Seq(QuietLine)
         /\ Size(NoteOf(m, n)) \in Nat /\ Size(NoteOf(m, n)) <= NoteReserve
  <1>1. "break" \in LineKind /\ "footer" \in LineKind /\ "break" # "source" /\ "footer" # "source"
    BY DEF LineKind
  <1>2. Plain("break") \in QuietLine /\ Plain("footer") \in QuietLine /\ Blank \in QuietLine
    BY <1>1, QuietPlain
  <1>3. Note \in Seq(QuietLine)
    BY <1>2, TripleOf DEF Note
  <1>4. <<>> \in Seq(QuietLine) /\ <<>> \in Seq(BodyLine)
    OBVIOUS
  <1>5. Note \in Seq(BodyLine)
    BY <1>3, QuietBears
  <1>6. Size(Note) \in Nat /\ Size(Note) <= NoteReserve /\ Size(<<>>) = 0 /\ NoteReserve \in Nat
    BY <1>4, <1>5, SizeCat, SizeAssumption
  <1> HIDE DEF Note
  <1> QED BY <1>3, <1>4, <1>6 DEF NoteOf

-----------------------------------------------------------------------------
(* The full file of pages in order. *)

TextOf(Q, own, i) == PageBlock(DisplayTitle(Q[i]), Q[i].url, own[i])
SolidIn(Q, own) == {i \in DOMAIN Q : own[i] # <<>>}
TextsAt(Q, own, e) == [k \in DOMAIN e |-> TextOf(Q, own, e[k])]
UrlsAt(Q, G) == {Q[i].url : i \in G}

\* A full file that holds the pages in G, and what that says of the others.
FullOf(full, Q, own, G) ==
    /\ full \in Seq(BodyLine)
    /\ Urls(MarksIn(full)) = UrlsAt(Q, G)
    /\ Len(MarksIn(full)) = Cardinality(Urls(MarksIn(full)))
    /\ G # {} => Size(full) <= MaxSize
    /\ \A i \in (1..Len(Q)) \ G : own[i] # <<>> =>
          /\ Size(full) + Size(TextOf(Q, own, i)) > Room(MaxSize)
          /\ \A j \in G : i < j => Size(TextOf(Q, own, i)) > Size(TextOf(Q, own, j))

LEMMA FullTextIs ==
  ASSUME NEW name, NEW Q, NEW own, NEW shared, NEW most
  PROVE  LET fitting == Fitting(TextsAt(Q, own, Ascending(SolidIn(Q, own))),
                                Size(TopOf(name, shared)), Room(most))
         IN  FullText(name, Q, own, shared, most)
                = Cat(Cat(TopOf(name, shared), FlattenSeq(fitting)), NoteOf(Len(fitting), Len(Q)))
  BY Zenon DEF FullText, TextsAt, TextOf, SolidIn, TopOf, NoteOf, Concat, Cat

LEMMA TextOfSays ==
  ASSUME NEW Q \in Seq(PageEntry), NEW own \in [1..Len(Q) -> Seq(QuietLine)], NEW i \in 1..Len(Q)
  PROVE  /\ TextOf(Q, own, i) \in Seq(BodyLine)
         /\ Bears(TextOf(Q, own, i), SourceMarks, MarkSet({Q[i].url}))
         /\ Q[i].url \in Address
  <1>1. Q[i] \in PageEntry
    BY SeqIs
  <1>2. Q[i].url \in Address /\ Q[i].title \in Text /\ Q[i].h1 \in Text
    BY <1>1 DEF PageEntry
  <1>3. DisplayTitle(Q[i]) \in Text
    BY <1>2 DEF DisplayTitle
  <1>4. own[i] \in Seq(QuietLine)
    OBVIOUS
  <1> QED BY <1>2, <1>3, <1>4, PageBlockSays DEF TextOf

\* The pages with a text of their own, in order, and the sizes of their texts.
Texts(Q, own, m, e, bs) ==
    /\ Numbers(m, SolidIn(Q, own), e) /\ \A k, l \in 1..m : k < l => e[k] < e[l]
    /\ bs \in Seq(Seq(BodyLine)) /\ Len(bs) = m
    /\ \A k \in 1..m : bs[k] = TextOf(Q, own, e[k]) /\ e[k] \in 1..Len(Q)

LEMMA TextsSay ==
  ASSUME NEW Q \in Seq(PageEntry), NEW own \in [1..Len(Q) -> Seq(QuietLine)]
  PROVE  \E m, e : Texts(Q, own, m, e, TextsAt(Q, own, Ascending(SolidIn(Q, own))))
  <1> DEFINE S == SolidIn(Q, own)
             e == Ascending(S)
             m == Cardinality(S)
             bs == TextsAt(Q, own, e)
             n == Len(Q)
  <1>1. n \in Nat /\ DOMAIN Q = 1..n
    BY SeqIs
  <1>2. S \in SUBSET Nat /\ S \subseteq 1..n /\ IsFiniteSet(S)
    <2>1. S \subseteq 1..n
      BY <1>1 DEF SolidIn
    <2>2. IsFiniteSet(1..n)
      BY <1>1, FS_Interval
    <2>3. IsFiniteSet(S)
      BY <2>1, <2>2, FS_Subset
    <2> QED BY <1>1, <2>1, <2>3
  <1> HIDE DEF S
  <1>3. Numbers(m, S, e) /\ \A k, l \in 1..m : k < l => e[k] < e[l]
    BY <1>2, AscendingSays
  <1> HIDE DEF e, m
  <1>4. m \in Nat /\ e \in [1..m -> S]
    BY <1>3 DEF Numbers
  <1>5. \A k \in 1..m : e[k] \in 1..n /\ TextOf(Q, own, e[k]) \in Seq(BodyLine)
    <2>1. \A k \in 1..m : e[k] \in 1..n
      BY <1>2, <1>4
    <2>2. \A i \in 1..n : TextOf(Q, own, i) \in Seq(BodyLine)
      BY TextOfSays
    <2> QED BY <2>1, <2>2
  <1>6. bs \in [1..m -> Seq(BodyLine)] /\ \A k \in 1..m : bs[k] = TextOf(Q, own, e[k])
    BY <1>4, <1>5 DEF TextsAt
  <1> HIDE DEF bs
  <1>7. bs \in Seq(Seq(BodyLine)) /\ Len(bs) = m
    BY <1>4, <1>6, IsSeq
  <1>8. Texts(Q, own, m, e, bs)
    BY <1>3, <1>5, <1>6, <1>7 DEF Texts, S, n
  <1> QED BY <1>8 DEF bs, e, S

\* The places of the pages that fit.
Took(e, K) == {e[k] : k \in K}

\* The marks of the texts that fit are those of their pages.
LEMMA TextsBear ==
  ASSUME NEW Q, Unmixed(Q), NEW own \in [1..Len(Q) -> Seq(QuietLine)], NEW m, NEW e, NEW bs,
         Texts(Q, own, m, e, bs), NEW K \in SUBSET (1..m)
  PROVE  Bears(FlattenSeq(KeptAt(bs, K)), SourceMarks, MarkSet(UrlsAt(Q, Took(e, K))))
  <1> DEFINE s == KeptAt(bs, K)
             U == UrlsAt(Q, Took(e, K))
  <1>1. Q \in Seq(PageEntry) /\ \A i, j \in DOMAIN Q : Q[i].url = Q[j].url => i = j
    BY DEF Unmixed
  <1>2. /\ m \in Nat /\ Len(bs) = m /\ bs \in Seq(Seq(BodyLine)) /\ IsInjective(e) /\ DOMAIN e = 1..m
        /\ \A k \in 1..m : bs[k] = TextOf(Q, own, e[k]) /\ e[k] \in 1..Len(Q) /\ bs[k] \in Seq(BodyLine)
    <2>1. bs \in Seq(Seq(BodyLine)) /\ Len(bs) = m
      BY DEF Texts
    <2>2. \A k \in 1..m : bs[k] \in Seq(BodyLine)
      BY <2>1, SeqIs
    <2> QED BY <2>1, <2>2 DEF Texts, Numbers
  <1>3. PICK c, d : KeptBy(bs, K, c, d) /\ s = At(bs, c, d)
    <2>1. K \in SUBSET (1..Len(bs))
      BY <1>2
    <2> QED BY <1>2, <2>1, KeptAtIs
  <1> HIDE DEF s
  <1>4. c \in Nat /\ d \in [1..c -> K] /\ IsInjective(d) /\ \A k \in K : \E q \in 1..c : d[q] = k
    BY <1>3 DEF KeptBy, Numbers
  <1> DEFINE F == [q \in 1..c |-> MarkSet({Q[e[d[q]]].url})]
             at == [q \in 1..c |-> e[d[q]]]
  <1>5. \A q \in 1..c : d[q] \in 1..m /\ at[q] \in 1..Len(Q) /\ s[q] = bs[d[q]] /\ s[q] = TextOf(Q, own, at[q])
    <2>1. \A q \in 1..c : d[q] \in 1..m /\ s[q] = bs[d[q]]
      BY <1>3, <1>4 DEF At
    <2> QED BY <1>2, <2>1
  <1>6. \A q, r \in 1..c : at[q] = at[r] => q = r
    <2> SUFFICES ASSUME NEW q \in 1..c, NEW r \in 1..c, at[q] = at[r] PROVE q = r
      OBVIOUS
    <2>1. e[d[q]] = e[d[r]]
      OBVIOUS
    <2> HIDE DEF at, F
    <2>2. d[q] = d[r]
      BY <1>2, <1>5, <2>1 DEF IsInjective
    <2> QED BY <1>4, <2>2 DEF IsInjective
  <1>7. s \in Seq(Seq(BodyLine)) /\ DOMAIN s = 1..c
    <2>1. s \in [1..c -> Seq(BodyLine)]
      BY <1>2, <1>3, <1>5 DEF At
    <2> QED BY <1>4, <2>1, IsSeq
  <1>8. \A q \in 1..c : F[q] = MarkSet({Q[at[q]].url}) /\ Q[at[q]].url \in Address
    <2>1. \A i \in 1..Len(Q) : Q[i].url \in Address
      BY <1>1, TextOfSays
    <2>2. \A q \in 1..c : at[q] = e[d[q]] /\ F[q] = MarkSet({Q[e[d[q]]].url})
      OBVIOUS
    <2> HIDE DEF F, at
    <2> QED BY <1>5, <2>1, <2>2
  <1> HIDE DEF F
  <1>9. \A q \in 1..c : Bears(s[q], SourceMarks, F[q])
    <2>1. \A i \in 1..Len(Q) : Bears(TextOf(Q, own, i), SourceMarks, MarkSet({Q[i].url}))
      BY <1>1, TextOfSays
    <2> HIDE DEF at
    <2> QED BY <1>5, <1>8, <2>1
  <1>10. DOMAIN Q = 1..Len(Q)
    BY <1>1, SeqIs
  <1>11. \A q, r \in 1..c : q # r => F[q] \cap F[r] = {}
    <2> SUFFICES ASSUME NEW q \in 1..c, NEW r \in 1..c, NEW x, x \in F[q], x \in F[r] PROVE q = r
      OBVIOUS
    <2> HIDE DEF at
    <2>1. x = Mark(Q[at[q]].url) /\ x = Mark(Q[at[r]].url)
      BY <1>8 DEF MarkSet
    <2>2. Q[at[q]].url = Q[at[r]].url
      <3>1. Q[at[q]].url \in Address /\ Q[at[r]].url \in Address
        BY <1>8
      <3>2. PICK u, v : u = Q[at[q]].url /\ v = Q[at[r]].url
        OBVIOUS
      <3>3. u \in Address /\ v \in Address /\ Mark(u) = Mark(v)
        BY <2>1, <3>1, <3>2
      <3>4. Mark(u).url = u /\ Mark(v).url = v
        BY <3>3, MarkIs
      <3> QED BY <3>2, <3>3, <3>4
    <2>3. at[q] = at[r]
      BY <1>1, <1>5, <1>10, <2>2
    <2> QED BY <1>6, <2>3
  <1>12. Bears(FlattenSeq(s), SourceMarks, UnionOf(F, DOMAIN s))
    BY <1>7, <1>9, <1>11, BearsFlatten
  <1>13. UnionOf(F, 1..c) = MarkSet(U)
    <2>1. ASSUME NEW x \in UnionOf(F, 1..c) PROVE x \in MarkSet(U)
      <3>1. PICK q \in 1..c : x \in F[q]
        BY <2>1 DEF UnionOf
      <3>2. x = Mark(Q[at[q]].url)
        BY <1>8, <3>1 DEF MarkSet
      <3>3. at[q] \in Took(e, K)
        BY <1>4 DEF Took
      <3>4. Q[at[q]].url \in U
        BY <3>3 DEF UrlsAt
      <3> HIDE DEF U, at
      <3> QED BY <3>2, <3>4 DEF MarkSet
    <2>2. ASSUME NEW x \in MarkSet(U) PROVE x \in UnionOf(F, 1..c)
      <3>1. PICK i \in Took(e, K) : x = Mark(Q[i].url)
        BY <2>2 DEF MarkSet, UrlsAt
      <3>2. PICK k \in K : i = e[k]
        BY DEF Took
      <3>3. PICK q \in 1..c : d[q] = k
        BY <1>4
      <3>4. at[q] = i
        BY <3>2, <3>3
      <3> HIDE DEF at
      <3>5. x \in F[q]
        BY <1>8, <3>1, <3>4 DEF MarkSet
      <3> QED BY <3>5 DEF UnionOf
    <2> QED BY <2>1, <2>2
  <1> HIDE DEF U
  <1> QED BY <1>7, <1>12, <1>13 DEF s, U

\* The texts that were passed over, and those that were not: G is where the
\* latter stand.
LEMMA TextsChosen ==
  ASSUME NEW Q \in Seq(PageEntry), NEW own, NEW m, NEW e, NEW bs, Texts(Q, own, m, e, bs),
         NEW start \in Nat, NEW budget \in Int, NEW used, NEW K,
         Fills(SizesOf(bs), m, start, budget, used, K)
  PROVE  /\ Took(e, K) \subseteq 1..Len(Q) /\ K \in SUBSET (1..m)
         /\ used[m] \in Nat
         /\ Took(e, K) # {} => used[m] <= budget
         /\ \A i \in (1..Len(Q)) \ Took(e, K) : own[i] # <<>> =>
               /\ used[m] + Size(TextOf(Q, own, i)) > budget /\ Size(TextOf(Q, own, i)) \in Nat
               /\ \A j \in Took(e, K) : i < j => Size(TextOf(Q, own, i)) > Size(TextOf(Q, own, j))
  <1> DEFINE c == SizesOf(bs)
             G == Took(e, K)
             S == SolidIn(Q, own)
  <1>1. /\ m \in Nat /\ Len(bs) = m /\ e \in [1..m -> S] /\ \A x \in S : \E k \in 1..m : e[k] = x
        /\ \A k, l \in 1..m : k < l => e[k] < e[l]
        /\ \A k \in 1..m : bs[k] = TextOf(Q, own, e[k]) /\ e[k] \in 1..Len(Q) /\ bs[k] \in Seq(BodyLine)
    <2>1. bs \in Seq(Seq(BodyLine)) /\ Len(bs) = m
      BY DEF Texts
    <2>2. \A k \in 1..m : bs[k] \in Seq(BodyLine)
      BY <2>1, SeqIs
    <2> QED BY <2>1, <2>2 DEF Texts, Numbers
  <1>2. c \in [1..m -> Nat] /\ \A k \in 1..m : c[k] = Size(TextOf(Q, own, e[k]))
    <2>1. \A k \in 1..m : Size(bs[k]) \in Nat
      BY <1>1, SizeCat
    <2> QED BY <1>1, <2>1 DEF SizesOf
  <1> HIDE DEF c
  <1>3. Fills(c, m, start, budget, used, K)
    BY DEF c
  <1>4. used \in [0..m -> Nat] /\ K \subseteq 1..m /\ used[m] \in Nat
    <2>1. m \in 0..m
      BY <1>1
    <2> QED BY <1>3, <2>1 DEF Fills
  <1>5. /\ \A k \in K : used[k - 1] + c[k] <= budget
        /\ \A k \in (1..m) \ K : used[k - 1] + c[k] > budget
    BY <1>3 DEF Fills
  <1>6. \A i, j \in 0..m : i <= j => used[i] <= used[j]
    BY <1>1, <1>2, <1>3, FillsGrows
  <1>7. K # {} => used[m] <= budget
    BY <1>1, <1>2, <1>3, FillsFits
  <1>8. G # {} => K # {}
    BY DEF Took
  <1>9. G \subseteq 1..Len(Q)
    BY <1>1, <1>4 DEF Took
  <1>10. Len(Q) \in Nat /\ DOMAIN Q = 1..Len(Q)
    BY SeqIs
  <1>11. ASSUME NEW i \in (1..Len(Q)) \ G, own[i] # <<>>
         PROVE  /\ used[m] + Size(TextOf(Q, own, i)) > budget /\ Size(TextOf(Q, own, i)) \in Nat
                /\ \A j \in G : i < j => Size(TextOf(Q, own, i)) > Size(TextOf(Q, own, j))
    <2>1. i \in S
      BY <1>10, <1>11 DEF SolidIn
    <2>2. PICK k \in 1..m : e[k] = i
      BY <1>1, <2>1
    <2>3. k \notin K
      BY <1>11, <2>2 DEF Took
    <2>4. k - 1 \in 0..m /\ m \in 0..m /\ k - 1 <= m
      BY <1>1
    <2>5. PICK x, y, z \in Nat : x = used[k - 1] /\ y = c[k] /\ z = used[m]
      BY <1>2, <1>4, <2>4
    <2>6. x + y > budget /\ x <= z
      BY <1>5, <1>6, <2>3, <2>4, <2>5
    <2>7. Size(TextOf(Q, own, i)) = y
      BY <1>2, <2>2, <2>5
    <2>8. ASSUME NEW j \in G, i < j PROVE y > Size(TextOf(Q, own, j))
      <3>1. PICK l \in K : j = e[l]
        BY DEF Took
      <3>2. l \in 1..m /\ l # k
        BY <1>4, <2>3, <3>1
      <3>3. k < l
        <4>1. l < k => e[l] < e[k]
          BY <1>1, <3>2
        <4>2. i \in Nat /\ j \in Nat
          BY <1>1, <2>2, <3>1, <3>2
        <4> QED BY <2>2, <2>8, <3>1, <3>2, <4>1, <4>2
      <3>4. l - 1 \in 0..m /\ k - 1 <= l - 1
        BY <1>1, <3>2, <3>3
      <3>5. PICK u, v \in Nat : u = used[l - 1] /\ v = c[l]
        BY <1>2, <1>4, <3>2, <3>4
      <3>6. x <= u /\ u + v <= budget
        BY <1>5, <1>6, <2>4, <2>5, <3>1, <3>4, <3>5
      <3>7. Size(TextOf(Q, own, j)) = v
        BY <1>2, <3>1, <3>2, <3>5
      <3>8. y > v
        BY <2>6, <3>6
      <3> QED BY <3>7, <3>8
    <2>9. z + y > budget
      BY <2>6
    <2> QED BY <2>5, <2>7, <2>8, <2>9
  <1> QED BY <1>4, <1>7, <1>8, <1>9, <1>11

\* The full file of pages in order holds some of them, and keeps to its budget.
LEMMA FullTextSays ==
  ASSUME NEW Q, Unmixed(Q), NEW own \in [1..Len(Q) -> Seq(QuietLine)],
         NEW name \in Text, NEW shared \in Seq(Seq(QuietLine))
  PROVE  \E G \in SUBSET (1..Len(Q)) : FullOf(FullText(name, Q, own, shared, MaxSize), Q, own, G)
  <1> DEFINE top == TopOf(name, shared)
             bs == TextsAt(Q, own, Ascending(SolidIn(Q, own)))
             budget == Room(MaxSize)
             fitting == Fitting(bs, Size(top), budget)
             note == NoteOf(Len(fitting), Len(Q))
             full == FullText(name, Q, own, shared, MaxSize)
  <1>1. Q \in Seq(PageEntry) /\ Len(Q) \in Nat
    BY SeqIs DEF Unmixed
  <1>2. PICK m, e : Texts(Q, own, m, e, bs)
    BY <1>1, TextsSay
  <1>3. full = Cat(Cat(top, FlattenSeq(fitting)), note)
    BY FullTextIs
  <1>4. top \in Seq(BodyLine) /\ Bears(top, SourceMarks, {}) /\ Size(top) \in Nat
    <2>1. top \in Seq(QuietLine)
      BY TopSays
    <2> HIDE DEF top
    <2>2. top \in Seq(BodyLine) /\ Bears(top, SourceMarks, {})
      BY <2>1, QuietBears
    <2> QED BY <2>2, SizeCat
  <1>5. budget \in Int /\ budget + NoteReserve <= MaxSize /\ NoteReserve \in Nat /\ MaxSize \in Nat
    BY SizeAssumption DEF Room
  <1> HIDE DEF bs, top, budget
  <1>6. bs \in Seq(Seq(BodyLine)) /\ Len(bs) = m
    BY <1>2 DEF Texts
  <1>7. PICK used, K : Fills(SizesOf(bs), m, Size(top), budget, used, K) /\ fitting = KeptAt(bs, K)
    BY <1>4, <1>5, <1>6, FittingSays
  <1> DEFINE G == Took(e, K)
             body == FlattenSeq(KeptAt(bs, K))
             U == UrlsAt(Q, G)
  <1>8. /\ G \subseteq 1..Len(Q) /\ K \in SUBSET (1..m) /\ used[m] \in Nat
        /\ G # {} => used[m] <= budget
        /\ \A i \in (1..Len(Q)) \ G : own[i] # <<>> =>
               /\ used[m] + Size(TextOf(Q, own, i)) > budget /\ Size(TextOf(Q, own, i)) \in Nat
               /\ \A j \in G : i < j => Size(TextOf(Q, own, i)) > Size(TextOf(Q, own, j))
    BY <1>1, <1>2, <1>4, <1>5, <1>7, TextsChosen
  <1>9. body \in Seq(BodyLine) /\ used[m] = Size(top) + Size(body)
    BY <1>4, <1>5, <1>6, <1>7, FillsSum
  <1>10. Bears(body, SourceMarks, MarkSet(U))
    BY <1>2, <1>8, TextsBear
  <1> HIDE DEF G, fitting, body
  <1>11. note \in Seq(BodyLine) /\ Bears(note, SourceMarks, {}) /\ Size(note) \in Nat /\ Size(note) <= NoteReserve
    BY NoteSays, QuietBears
  <1> HIDE DEF note
  <1>12. full = Cat(Cat(top, body), note)
    BY <1>3, <1>7 DEF body
  <1> HIDE DEF full, U
  <1>13. Cat(top, body) \in Seq(BodyLine) /\ Size(Cat(top, body)) = used[m]
    BY <1>4, <1>9, SizeCat
  <1>14. full \in Seq(BodyLine) /\ Size(full) = used[m] + Size(note)
    BY <1>11, <1>12, <1>13, SizeCat
  <1>15. Bears(full, SourceMarks, MarkSet(U))
    <2>1. Bears(Cat(top, body), SourceMarks, {} \cup MarkSet(U))
      BY <1>4, <1>9, <1>10, BearsCat
    <2>2. {} \cup MarkSet(U) = MarkSet(U) /\ MarkSet(U) \cup {} = MarkSet(U) /\ MarkSet(U) \cap {} = {}
      OBVIOUS
    <2>3. Bears(Cat(top, body), SourceMarks, MarkSet(U))
      BY <2>1, <2>2
    <2>4. Bears(Cat(Cat(top, body), note), SourceMarks, MarkSet(U) \cup {})
      BY <1>11, <1>13, <2>2, <2>3, BearsCat
    <2> QED BY <1>12, <2>2, <2>4
  <1>16. U \in SUBSET Address
    <2>1. \A i \in 1..Len(Q) : Q[i].url \in Address
      BY <1>1, TextOfSays
    <2> QED BY <1>8, <2>1 DEF U, UrlsAt
  <1>17. Urls(MarksIn(full)) = U /\ Len(MarksIn(full)) = Cardinality(Urls(MarksIn(full)))
    BY <1>14, <1>15, <1>16, MarksAre
  <1>18. PICK v, w, r \in Nat : v = used[m] /\ w = Size(note) /\ r = NoteReserve
    BY <1>5, <1>8, <1>11
  <1>19. G # {} => Size(full) <= MaxSize
    BY <1>5, <1>8, <1>11, <1>14, <1>18
  <1>20. \A i \in (1..Len(Q)) \ G : own[i] # <<>> =>
          /\ Size(full) + Size(TextOf(Q, own, i)) > budget
          /\ \A j \in G : i < j => Size(TextOf(Q, own, i)) > Size(TextOf(Q, own, j))
    <2> SUFFICES ASSUME NEW i \in (1..Len(Q)) \ G, own[i] # <<>>
                 PROVE  /\ Size(full) + Size(TextOf(Q, own, i)) > budget
                        /\ \A j \in G : i < j => Size(TextOf(Q, own, i)) > Size(TextOf(Q, own, j))
      OBVIOUS
    <2>1. PICK y \in Nat : y = Size(TextOf(Q, own, i))
      BY <1>8
    <2>2. v + y > budget
      BY <1>8, <1>18, <2>1
    <2>3. (v + w) + y > budget
      BY <1>5, <2>2
    <2>4. Size(full) + Size(TextOf(Q, own, i)) > budget
      BY <1>14, <1>18, <2>1, <2>3
    <2> QED BY <1>8, <2>4
  <1>21. FullOf(full, Q, own, G)
    BY <1>14, <1>17, <1>19, <1>20 DEF FullOf, U, budget
  <1> QED BY <1>8, <1>21 DEF full

-----------------------------------------------------------------------------
(* FullKeepsWhatMatters of any index, full file and pages in hand. *)

EntryOf(L, E, l) == E[CHOOSE i \in DOMAIN E : E[i].url = L[l].url]
EligibleIn(L, E) == {l \in DOMAIN L : EntryOf(L, E, l).markdown # Unset}
BodyIn(L, E, l) == NormalBody[EntryOf(L, E, l).markdown]
SharedIn(L, E) ==
    {block \in UNION {ToSet(Blocks(BodyIn(L, E, l))) : l \in EligibleIn(L, E)} :
        /\ block[1].kind # "fence" /\ Size(block) >= MinRepeat
        /\ Cardinality({l \in EligibleIn(L, E) : block \in ToSet(Blocks(BodyIn(L, E, l)))}) > RepeatThreshold}
OwnIn(L, E, l) ==
    IF SharedIn(L, E) = {} THEN BodyIn(L, E, l) ELSE Trimmed(BodyIn(L, E, l), SharedIn(L, E))
CostIn(L, E, l) == Size(PageBlock(L[l].text, L[l].url, OwnIn(L, E, l)))
Marked(full) == Urls(MarksIn(full))

KeepsIn(full, L, E) ==
    (full # <<>> /\ \A l \in EligibleIn(L, E) : ClearBody(Bodies[EntryOf(L, E, l).markdown])) =>
        /\ Len(MarksIn(full)) = Cardinality(Marked(full))
        /\ Marked(full) \subseteq {L[l].url : l \in EligibleIn(L, E)}
        /\ Marked(full) # {} => Size(full) <= MaxSize
        /\ \A q \in EligibleIn(L, E) : (L[q].url \notin Marked(full) /\ OwnIn(L, E, q) # <<>>) =>
              /\ Size(full) + CostIn(L, E, q) > Room(MaxSize)
              /\ \A p \in EligibleIn(L, E) :
                    (~(L[p].url \notin Marked(full))
                     /\ Importance(EntryOf(L, E, q)) > Importance(EntryOf(L, E, p))) =>
                        CostIn(L, E, q) > CostIn(L, E, p)

LEMMA KeepsIs ==
  FullKeepsWhatMatters <=> (stage = "complete" => KeepsIn(file.full, LinksIn(file.index), entries))
  BY Zenon DEF FullKeepsWhatMatters, KeepsIn, EntryOf, EligibleIn, BodyIn, SharedIn, OwnIn, CostIn, Marked,
     MarksIn, LinksIn, ClearBody, Links, SourceLines, Sources, Entered, Eligible, BodyOf, BlocksOf,
     SharedBlocks, OwnText, Cost, Those

\* An index that lists pages of those in hand.
Listing(P, L, E) ==
    /\ P \in Seq(PageEntry) /\ IsInjective(P) /\ Apart(ToSet(P))
    /\ L \in Seq(IndexLine) /\ IsInjective(L) /\ ToSet(L) = LinkSet(ToSet(P))
    /\ Unmixed(E)
    /\ \A x \in ToSet(P) : \E y \in ToSet(E) : Alike(x, y)

\* What a link says of the page it lists, and of that page in hand.
LinkSays(L, E, l, x) ==
    /\ L[l].url = x.url /\ L[l].text = DisplayTitle(x)
    /\ EntryOf(L, E, l) \in PageEntry /\ Alike(x, EntryOf(L, E, l))

LEMMA ListingSays ==
  ASSUME NEW P, NEW L, NEW E, Listing(P, L, E)
  PROVE  /\ \A l \in DOMAIN L : \E x \in ToSet(P) : x \in PageEntry /\ L[l] = Link(x) /\ LinkSays(L, E, l, x)
         /\ \A x \in ToSet(P) : \E l \in DOMAIN L : L[l] = Link(x) /\ LinkSays(L, E, l, x)
         /\ \A k, l \in DOMAIN L : L[k].url = L[l].url => k = l
  <1>1. ToSet(P) \subseteq PageEntry /\ ToSet(L) = LinkSet(ToSet(P)) /\ DOMAIN L = 1..Len(L)
        /\ \A l \in DOMAIN L : L[l] \in ToSet(L)
    BY SeqIs DEF Listing
  <1>2. E \in Seq(PageEntry) /\ \A i, j \in DOMAIN E : E[i].url = E[j].url => i = j
    BY DEF Listing, Unmixed
  <1>3. DOMAIN E = 1..Len(E) /\ \A i \in DOMAIN E : E[i] \in PageEntry
    BY <1>2, SeqIs
  <1>4. ASSUME NEW l \in DOMAIN L, NEW x \in ToSet(P), L[l] = Link(x)
        PROVE  LinkSays(L, E, l, x)
    <2>1. L[l].url = x.url /\ L[l].text = DisplayTitle(x)
      BY <1>4 DEF Link
    <2>2. PICK y \in ToSet(E) : Alike(x, y)
      BY DEF Listing
    <2>3. PICK i \in DOMAIN E : E[i] = y
      BY DEF ToSet
    <2>4. E[i].url = L[l].url
      BY <2>1, <2>2, <2>3 DEF Alike
    <2>5. (CHOOSE j \in DOMAIN E : E[j].url = L[l].url) = i
      BY <1>2, <2>4
    <2>6. EntryOf(L, E, l) = y
      BY <2>3, <2>5 DEF EntryOf
    <2> QED BY <1>3, <2>1, <2>2, <2>3, <2>6 DEF LinkSays
  <1>5. \A l \in DOMAIN L : \E x \in ToSet(P) : L[l] = Link(x)
    BY <1>1 DEF LinkSet
  <1>6. \A l \in DOMAIN L : \E x \in ToSet(P) : x \in PageEntry /\ L[l] = Link(x) /\ LinkSays(L, E, l, x)
    BY <1>1, <1>4, <1>5
  <1>7. \A x \in ToSet(P) : \E l \in DOMAIN L : L[l] = Link(x) /\ LinkSays(L, E, l, x)
    <2> SUFFICES ASSUME NEW x \in ToSet(P) PROVE \E l \in DOMAIN L : L[l] = Link(x) /\ LinkSays(L, E, l, x)
      OBVIOUS
    <2>1. Link(x) \in ToSet(L)
      BY <1>1 DEF LinkSet
    <2>2. PICK l \in DOMAIN L : L[l] = Link(x)
      BY <2>1 DEF ToSet
    <2> QED BY <1>4, <2>2
  <1>8. ASSUME NEW k \in DOMAIN L, NEW l \in DOMAIN L, L[k].url = L[l].url PROVE k = l
    <2>1. PICK x \in ToSet(P) : L[k] = Link(x) /\ LinkSays(L, E, k, x)
      BY <1>6
    <2>2. PICK y \in ToSet(P) : L[l] = Link(y) /\ LinkSays(L, E, l, y)
      BY <1>6
    <2>3. x = y
      BY <1>8, <2>1, <2>2 DEF LinkSays, Listing, Apart
    <2> QED BY <2>1, <2>2, <2>3 DEF Listing, IsInjective
  <1> QED BY <1>6, <1>7, <1>8

LEMMA AlikeImportance ==
  ASSUME NEW x, NEW y, Alike(x, y)
  PROVE  Importance(x) = Importance(y)
  <1>1. /\ x.url = y.url /\ x.words = y.words /\ x.depth = y.depth /\ x.inlinks = y.inlinks
        /\ x.link = y.link
    BY DEF Alike
  <1>2. EffectiveDepth(x) = EffectiveDepth(y)
    BY <1>1 DEF EffectiveDepth
  <1> QED BY <1>1, <1>2 DEF Importance

\* The pages of the full file, in order.
FullOrder(P) == ByImportance(KeptAt(P, {i \in DOMAIN P : P[i].markdown # Unset}))

LEMMA FullOrderSays ==
  ASSUME NEW P \in Seq(PageEntry), IsInjective(P), Apart(ToSet(P))
  PROVE  /\ Unmixed(FullOrder(P)) /\ Len(FullOrder(P)) \in Nat
         /\ ToSet(FullOrder(P)) = {x \in ToSet(P) : x.markdown # Unset}
         /\ \A k, l \in 1..Len(FullOrder(P)) :
               k < l => Importance(FullOrder(P)[k]) >= Importance(FullOrder(P)[l])
  <1> DEFINE places == {i \in DOMAIN P : P[i].markdown # Unset}
             F == KeptAt(P, places)
             Q == FullOrder(P)
  <1>1. DOMAIN P = 1..Len(P) /\ Len(P) \in Nat
    BY SeqIs
  <1>2. places \in SUBSET (1..Len(P)) /\ {P[i] : i \in places} = {x \in ToSet(P) : x.markdown # Unset}
    BY <1>1 DEF ToSet
  <1> HIDE DEF places
  <1>3. F \in Seq(PageEntry) /\ ToSet(F) = {P[i] : i \in places} /\ IsInjective(F)
    BY <1>2, KeptAtSays
  <1> HIDE DEF F
  <1>4. Q = ByImportance(F)
    BY DEF FullOrder, F, places
  <1> HIDE DEF Q
  <1>5. Q \in Seq(PageEntry) /\ ToSet(Q) = ToSet(F) /\ IsInjective(Q) /\ Len(Q) = Len(F)
    BY <1>3, <1>4, ByImportanceSays
  <1>6. PICK e : Ranked(F, e) /\ Q = At(F, Len(F), e)
    BY <1>3, <1>4, ByImportanceIs
  <1>7. ASSUME NEW k \in 1..Len(Q), NEW l \in 1..Len(Q), k < l PROVE Importance(Q[k]) >= Importance(Q[l])
    <2>1. Q[k] = F[e[k]] /\ Q[l] = F[e[l]]
      BY <1>5, <1>6 DEF At
    <2> QED BY <1>5, <1>6, <1>7, <2>1 DEF Ranked
  <1>8. Len(Q) \in Nat /\ DOMAIN Q = 1..Len(Q) /\ \A i \in DOMAIN Q : Q[i] \in ToSet(Q)
    BY <1>5, SeqIs
  <1>9. ToSet(Q) = {x \in ToSet(P) : x.markdown # Unset}
    BY <1>2, <1>3, <1>5
  <1>10. Unmixed(Q)
    <2>1. ASSUME NEW i \in DOMAIN Q, NEW j \in DOMAIN Q, Q[i].url = Q[j].url PROVE i = j
      <3>1. Q[i] \in ToSet(P) /\ Q[j] \in ToSet(P)
        BY <1>8, <1>9
      <3>2. Q[i] = Q[j]
        BY <2>1, <3>1 DEF Apart
      <3> QED BY <1>5, <3>2 DEF IsInjective
    <2> QED BY <1>5, <2>1 DEF Unmixed
  <1> QED BY <1>7, <1>8, <1>9, <1>10 DEF Q

\* Where the page of a link stands in the full file's order.
Matched(Q, L, E, f) ==
    /\ f \in [EligibleIn(L, E) -> 1..Len(Q)] /\ IsInjective(f)
    /\ \A k \in 1..Len(Q) : \E l \in EligibleIn(L, E) : f[l] = k
    /\ \A l \in EligibleIn(L, E) :
          /\ LinkSays(L, E, l, Q[f[l]])
          /\ Importance(EntryOf(L, E, l)) = Importance(Q[f[l]])

LEMMA MatchedSays ==
  ASSUME NEW P, NEW L, NEW E, Listing(P, L, E)
  PROVE  \E f : Matched(FullOrder(P), L, E, f)
  <1> DEFINE Q == FullOrder(P)
             S == EligibleIn(L, E)
             f == [l \in S |-> CHOOSE k \in 1..Len(Q) : Q[k].url = L[l].url]
  <1>1. P \in Seq(PageEntry) /\ IsInjective(P) /\ Apart(ToSet(P))
    BY DEF Listing
  <1>2. Unmixed(Q) /\ Len(Q) \in Nat /\ ToSet(Q) = {x \in ToSet(P) : x.markdown # Unset}
    BY <1>1, FullOrderSays
  <1> HIDE DEF Q
  <1>3. Q \in Seq(PageEntry) /\ \A i, j \in DOMAIN Q : Q[i].url = Q[j].url => i = j
    BY <1>2 DEF Unmixed
  <1>4. DOMAIN Q = 1..Len(Q) /\ \A k \in 1..Len(Q) : Q[k] \in ToSet(Q)
    BY <1>3, SeqIs
  <1>5. /\ \A l \in DOMAIN L : \E x \in ToSet(P) : x \in PageEntry /\ L[l] = Link(x) /\ LinkSays(L, E, l, x)
        /\ \A x \in ToSet(P) : \E l \in DOMAIN L : L[l] = Link(x) /\ LinkSays(L, E, l, x)
        /\ \A k, l \in DOMAIN L : L[k].url = L[l].url => k = l
    BY ListingSays
  <1>6. \A l \in S : l \in DOMAIN L /\ EntryOf(L, E, l).markdown # Unset
    BY DEF EligibleIn
  <1> HIDE DEF S
  <1>7. ASSUME NEW l \in S
        PROVE  f[l] \in 1..Len(Q) /\ Q[f[l]].url = L[l].url /\ LinkSays(L, E, l, Q[f[l]])
    <2>1. PICK x \in ToSet(P) : L[l] = Link(x) /\ LinkSays(L, E, l, x)
      BY <1>5, <1>6
    <2>2. x.markdown # Unset /\ x.url = L[l].url
      BY <1>6, <2>1 DEF LinkSays, Alike
    <2>3. PICK k \in 1..Len(Q) : Q[k] = x
      BY <1>2, <1>4, <2>2 DEF ToSet
    <2>4. f[l] \in 1..Len(Q) /\ Q[f[l]].url = L[l].url
      BY <2>2, <2>3
    <2> HIDE DEF f
    <2>5. f[l] = k
      BY <1>3, <1>4, <2>2, <2>3, <2>4
    <2> QED BY <2>1, <2>3, <2>4, <2>5
  <1>8. DOMAIN f = S /\ f = [l \in S |-> f[l]]
    OBVIOUS
  <1> HIDE DEF f
  <1>9. f \in [S -> 1..Len(Q)]
    BY <1>7, <1>8
  <1>10. IsInjective(f)
    <2> SUFFICES ASSUME NEW k \in S, NEW l \in S, f[k] = f[l] PROVE k = l
      BY <1>8 DEF IsInjective
    <2>1. L[k].url = L[l].url
      BY <1>7
    <2> QED BY <1>5, <1>6, <2>1
  <1>11. ASSUME NEW k \in 1..Len(Q) PROVE \E l \in S : f[l] = k
    <2>1. Q[k] \in ToSet(P) /\ Q[k].markdown # Unset
      BY <1>2, <1>4
    <2>2. PICK l \in DOMAIN L : LinkSays(L, E, l, Q[k])
      BY <1>5, <2>1
    <2>3. l \in S
      BY <2>1, <2>2 DEF S, EligibleIn, LinkSays, Alike
    <2>4. Q[f[l]].url = Q[k].url /\ f[l] \in 1..Len(Q)
      BY <1>7, <2>2, <2>3 DEF LinkSays
    <2>5. f[l] = k
      BY <1>3, <1>4, <2>4
    <2> QED BY <2>3, <2>5
  <1>12. \A l \in S : Importance(EntryOf(L, E, l)) = Importance(Q[f[l]])
    <2> SUFFICES ASSUME NEW l \in S PROVE Importance(EntryOf(L, E, l)) = Importance(Q[f[l]])
      OBVIOUS
    <2>1. Alike(Q[f[l]], EntryOf(L, E, l))
      BY <1>7 DEF LinkSays
    <2>2. Importance(Q[f[l]]) = Importance(EntryOf(L, E, l))
      BY <2>1, AlikeImportance
    <2> QED BY <2>2
  <1>13. Matched(Q, L, E, f)
    BY <1>7, <1>9, <1>10, <1>11, <1>12 DEF Matched, S
  <1> QED BY <1>13 DEF Q

\* As many of one set as of another that it matches.
Pairs(f, A, B, X, Y) ==
    /\ X \subseteq A /\ Y \subseteq B /\ f \in [A -> B] /\ IsInjective(f)
    /\ \A b \in B : \E a \in A : f[a] = b
    /\ \A a \in A : a \in X <=> f[a] \in Y

LEMMA CountMatch ==
  ASSUME NEW f, NEW A, NEW B, NEW X, NEW Y, Pairs(f, A, B, X, Y), IsFiniteSet(X)
  PROVE  Cardinality(X) = Cardinality(Y)
  <1> DEFINE g == [a \in X |-> f[a]]
  <1>1. g \in [X -> Y]
    BY DEF Pairs
  <1>2. IsInjective(g)
    BY DEF Pairs, IsInjective
  <1>3. \A y \in Y : \E a \in X : g[a] = y
    BY DEF Pairs
  <1> HIDE DEF g
  <1>4. g \in Bijection(X, Y)
    BY <1>1, <1>2, <1>3 DEF Bijection, Injection, Surjection
  <1>5. ExistsBijection(X, Y)
    BY <1>4 DEF ExistsBijection
  <1> QED BY <1>5, FS_Bijection

BodiesOf(Q) == [k \in DOMAIN Q |-> NormalBody[Q[k].markdown]]
OwnOf(B, shared) == [i \in DOMAIN B |-> IF shared = <<>> THEN B[i] ELSE Trimmed(B[i], ToSet(shared))]
BlocksPer(B) == [b \in DOMAIN B |-> Blocks(B[b])]

LEMMA RenderFullIs ==
  ASSUME NEW name, NEW P, NEW most
  PROVE  LET Q == FullOrder(P)
             B == BodiesOf(Q)
             shared == MostShared(BlocksPer(B))
         IN  RenderFull(name, P, most) =
                IF Q = <<>> THEN <<>> ELSE FullText(name, Q, OwnOf(B, shared), shared, most)
  BY Zenon DEF RenderFull, Hoisted, Repeated, FullOrder, BodiesOf, BlocksPer, OwnOf, Those

\* Of pages and links that match: the pages' bodies are those of the links.
QuietBodies(Q, B) == B \in [1..Len(Q) -> Seq(QuietLine)]

LEMMA BodiesAre ==
  ASSUME NEW Q, Unmixed(Q), NEW L, NEW E, NEW f, Matched(Q, L, E, f),
         \A l \in EligibleIn(L, E) : ClearBody(Bodies[EntryOf(L, E, l).markdown])
  PROVE  /\ QuietBodies(Q, BodiesOf(Q))
         /\ \A l \in EligibleIn(L, E) : BodyIn(L, E, l) = BodiesOf(Q)[f[l]] /\ f[l] \in 1..Len(Q)
  <1> DEFINE S == EligibleIn(L, E)
  <1>1. DOMAIN Q = 1..Len(Q)
    BY SeqIs DEF Unmixed
  <1>2. \A l \in S : /\ f[l] \in 1..Len(Q)
                     /\ EntryOf(L, E, l).markdown = Q[f[l]].markdown
                     /\ EntryOf(L, E, l) \in PageEntry /\ EntryOf(L, E, l).markdown # Unset
    BY DEF Matched, LinkSays, Alike, EligibleIn
  <1>3. \A k \in 1..Len(Q) : \E l \in S : f[l] = k
    BY DEF Matched
  <1> HIDE DEF S
  <1>4. ASSUME NEW m \in DOMAIN Bodies, ClearBody(Bodies[m]) PROVE NormalBody[m] \in Seq(QuietLine)
    <2>1. Bodies[m] \in Seq(BodyLine)
      BY InventoryAssumption
    <2>2. NormalBody[m] = Normalised(Bodies[m])
      BY DEF NormalBody
    <2> QED BY <1>4, <2>1, <2>2, NormalisedSays
  <1>5. ASSUME NEW k \in 1..Len(Q) PROVE NormalBody[Q[k].markdown] \in Seq(QuietLine)
    <2>1. PICK l \in S : f[l] = k
      BY <1>3
    <2>2. Q[k].markdown = EntryOf(L, E, l).markdown
      BY <1>2, <2>1
    <2>3. EntryOf(L, E, l).markdown \in DOMAIN Bodies
      BY <1>2 DEF PageEntry
    <2>4. ClearBody(Bodies[EntryOf(L, E, l).markdown])
      BY DEF S
    <2> QED BY <1>4, <2>2, <2>3, <2>4
  <1>6. QuietBodies(Q, BodiesOf(Q))
    BY <1>1, <1>5 DEF QuietBodies, BodiesOf
  <1>7. ASSUME NEW l \in S PROVE BodyIn(L, E, l) = BodiesOf(Q)[f[l]] /\ f[l] \in 1..Len(Q)
    <2>1. BodyIn(L, E, l) = NormalBody[Q[f[l]].markdown]
      BY <1>2 DEF BodyIn
    <2>2. f[l] \in DOMAIN Q
      BY <1>1, <1>2
    <2> QED BY <1>2, <2>1, <2>2 DEF BodiesOf
  <1> QED BY <1>6, <1>7 DEF S

LEMMA SharedSays ==
  ASSUME NEW Q, NEW n \in Nat, n = Len(Q), NEW L \in Seq(IndexLine), NEW E, NEW f, Matched(Q, L, E, f),
         NEW B, QuietBodies(Q, B), \A l \in EligibleIn(L, E) : BodyIn(L, E, l) = B[f[l]] /\ f[l] \in 1..Len(Q)
  PROVE  /\ MostShared(BlocksPer(B)) \in Seq(Seq(QuietLine))
         /\ ToSet(MostShared(BlocksPer(B))) = SharedIn(L, E)
  <1> DEFINE S == EligibleIn(L, E)
             bs == BlocksPer(B)
             r == MostShared(bs)
             Of(l) == ToSet(Blocks(BodyIn(L, E, l)))
  <1>1. f \in [S -> 1..n] /\ IsInjective(f) /\ \A k \in 1..n : \E l \in S : f[l] = k
    BY DEF Matched
  <1>2. IsFiniteSet(S)
    <2>1. DOMAIN L = 1..Len(L) /\ Len(L) \in Nat
      BY SeqIs
    <2>2. IsFiniteSet(DOMAIN L)
      BY <2>1, FS_Interval
    <2>3. S \in SUBSET (DOMAIN L)
      BY DEF EligibleIn
    <2> HIDE DEF S
    <2> QED BY <2>2, <2>3, FS_Subset
  <1>3. bs \in [1..n -> Seq(Seq(QuietLine))] /\ \A k \in 1..n : bs[k] = Blocks(B[k])
    <2>1. B \in [1..n -> Seq(QuietLine)]
      BY DEF QuietBodies
    <2>2. \A k \in 1..n : Blocks(B[k]) \in Seq(Seq(QuietLine))
      BY <2>1, BlocksSay
    <2> QED BY <2>1, <2>2 DEF BlocksPer
  <1>4. \A l \in S : Of(l) = ToSet(bs[f[l]])
    <2>1. \A l \in S : BodyIn(L, E, l) = B[f[l]] /\ f[l] \in 1..n
      OBVIOUS
    <2> HIDE DEF S, bs
    <2> QED BY <1>3, <2>1
  <1> HIDE DEF S, bs, Of
  <1>5. bs \in Seq(Seq(Seq(QuietLine))) /\ Len(bs) = n /\ DOMAIN bs = 1..n
    BY <1>3, IsSeq
  <1>6. /\ r \in Seq(Seq(QuietLine))
        /\ \A x : x \in ToSet(r) <=> (\E b \in 1..Len(bs) : x \in ToSet(bs[b])) /\ Common(bs, x)
    BY <1>5, MostSharedSays
  <1> HIDE DEF r
  <1>7. ASSUME NEW x PROVE SharesOf(bs, x) = Cardinality({l \in S : x \in Of(l)})
    <2> DEFINE X == {l \in S : x \in Of(l)}
               Y == {b \in 1..n : x \in ToSet(bs[b])}
    <2>1. X \in SUBSET S /\ Y \in SUBSET (1..n)
      OBVIOUS
    <2>2. \A l \in S : l \in X <=> f[l] \in Y
      BY <1>1, <1>4
    <2> HIDE DEF X, Y
    <2>3. IsFiniteSet(X)
      BY <1>2, <2>1, FS_Subset
    <2>4. Cardinality(X) = Cardinality(Y)
      <3>1. Pairs(f, S, 1..n, X, Y)
        BY <1>1, <2>1, <2>2 DEF Pairs
      <3> QED BY <2>3, <3>1, CountMatch
    <2>5. SharesOf(bs, x) = Cardinality(Y)
      BY <1>5 DEF SharesOf, Y
    <2> QED BY <2>4, <2>5 DEF X
  <1>8. ASSUME NEW x PROVE (\E b \in 1..n : x \in ToSet(bs[b])) <=> x \in UNION {Of(l) : l \in S}
    BY <1>1, <1>4
  <1>9. SharedIn(L, E) = {x \in UNION {Of(l) : l \in S} :
                             /\ x[1].kind # "fence" /\ Size(x) >= MinRepeat
                             /\ Cardinality({l \in S : x \in Of(l)}) > RepeatThreshold}
    BY Zenon DEF SharedIn, S, Of
  <1>10. \A x : x \in ToSet(r) <=> x \in SharedIn(L, E)
    <2> SUFFICES ASSUME NEW x PROVE x \in ToSet(r) <=> x \in SharedIn(L, E)
      OBVIOUS
    <2>1. Common(bs, x) <=> /\ x[1].kind # "fence" /\ Size(x) >= MinRepeat
                            /\ Cardinality({l \in S : x \in Of(l)}) > RepeatThreshold
      BY <1>7, Zenon DEF Common
    <2>2. x \in ToSet(r) <=> (x \in UNION {Of(l) : l \in S} /\ Common(bs, x))
      <3>1. x \in ToSet(r) <=> (\E b \in 1..n : x \in ToSet(bs[b])) /\ Common(bs, x)
        BY <1>5, <1>6
      <3>2. (\E b \in 1..n : x \in ToSet(bs[b])) <=> x \in UNION {Of(l) : l \in S}
        BY <1>8
      <3> QED BY <3>1, <3>2, Zenon
    <2>3. x \in SharedIn(L, E) <=> /\ x \in UNION {Of(l) : l \in S}
                                   /\ x[1].kind # "fence" /\ Size(x) >= MinRepeat
                                   /\ Cardinality({l \in S : x \in Of(l)}) > RepeatThreshold
      BY <1>9, Zenon
    <2> QED BY <2>1, <2>2, <2>3, Zenon
  <1> QED BY <1>6, <1>10 DEF r, bs

\* What the full file leaves out, and what it holds, as the links tell.
LEMMA RenderKeeps ==
  ASSUME NEW P, NEW L, NEW E, Listing(P, L, E), NEW name \in Text,
         NEW full, full = RenderFull(name, P, MaxSize)
  PROVE  KeepsIn(full, L, E)
  <1> DEFINE Q == FullOrder(P)
             S == EligibleIn(L, E)
             B == BodiesOf(Q)
             shared == MostShared(BlocksPer(B))
             own == OwnOf(B, shared)
  <1> SUFFICES ASSUME full # <<>>, \A l \in S : ClearBody(Bodies[EntryOf(L, E, l).markdown])
               PROVE  /\ Len(MarksIn(full)) = Cardinality(Marked(full))
                      /\ Marked(full) \subseteq {L[l].url : l \in S}
                      /\ Marked(full) # {} => Size(full) <= MaxSize
                      /\ \A q \in S : (L[q].url \notin Marked(full) /\ OwnIn(L, E, q) # <<>>) =>
                            /\ Size(full) + CostIn(L, E, q) > Room(MaxSize)
                            /\ \A p \in S :
                                  (~(L[p].url \notin Marked(full))
                                   /\ Importance(EntryOf(L, E, q)) > Importance(EntryOf(L, E, p))) =>
                                      CostIn(L, E, q) > CostIn(L, E, p)
    BY Zenon DEF KeepsIn
  <1>1. P \in Seq(PageEntry) /\ IsInjective(P) /\ Apart(ToSet(P)) /\ L \in Seq(IndexLine)
    BY DEF Listing
  <1>2. /\ Unmixed(Q) /\ Len(Q) \in Nat
        /\ \A k, l \in 1..Len(Q) : k < l => Importance(Q[k]) >= Importance(Q[l])
    BY <1>1, FullOrderSays
  <1>3. PICK f : Matched(Q, L, E, f)
    BY MatchedSays
  <1>4. full = FullText(name, Q, own, shared, MaxSize)
    <2>1. full = IF Q = <<>> THEN <<>> ELSE FullText(name, Q, own, shared, MaxSize)
      BY RenderFullIs, Zenon
    <2> QED BY <2>1
  <1> HIDE DEF Q
  <1>5. QuietBodies(Q, B) /\ \A l \in S : BodyIn(L, E, l) = B[f[l]] /\ f[l] \in 1..Len(Q)
    BY <1>2, <1>3, BodiesAre
  <1> HIDE DEF B
  <1>6. shared \in Seq(Seq(QuietLine)) /\ ToSet(shared) = SharedIn(L, E)
    BY <1>1, <1>2, <1>3, <1>5, SharedSays
  <1> HIDE DEF shared
  <1>7. shared = <<>> <=> SharedIn(L, E) = {}
    <2>1. Len(shared) \in Nat /\ DOMAIN shared = 1..Len(shared)
      BY <1>6, SeqIs
    <2>2. shared = <<>> => ToSet(shared) = {}
      BY DEF ToSet
    <2>3. shared # <<>> => 1 \in DOMAIN shared
      BY <1>6, <2>1
    <2>4. 1 \in DOMAIN shared => ToSet(shared) # {}
      BY DEF ToSet
    <2> QED BY <1>6, <2>2, <2>3, <2>4
  <1>8. DOMAIN B = 1..Len(Q) /\ \A k \in 1..Len(Q) : B[k] \in Seq(QuietLine)
    BY <1>5 DEF QuietBodies
  <1>9. own \in [1..Len(Q) -> Seq(QuietLine)]
        /\ \A k \in 1..Len(Q) : own[k] = IF shared = <<>> THEN B[k] ELSE Trimmed(B[k], ToSet(shared))
    <2>1. Blank \in QuietLine
      BY QuietPlain
    <2>2. \A k \in 1..Len(Q) : Trimmed(B[k], ToSet(shared)) \in Seq(QuietLine)
      BY <1>8, <2>1, TrimmedSays
    <2> QED BY <1>8, <2>2 DEF OwnOf
  <1> HIDE DEF own
  <1>10. \A l \in S : OwnIn(L, E, l) = own[f[l]]
    <2> SUFFICES ASSUME NEW l \in S PROVE OwnIn(L, E, l) = own[f[l]]
      OBVIOUS
    <2>1. BodyIn(L, E, l) = B[f[l]] /\ f[l] \in 1..Len(Q)
      BY <1>5
    <2> QED BY <1>6, <1>7, <1>9, <2>1 DEF OwnIn
  <1>11. PICK G \in SUBSET (1..Len(Q)) : FullOf(full, Q, own, G)
    BY <1>2, <1>4, <1>6, <1>9, FullTextSays
  <1>12. Marked(full) = UrlsAt(Q, G) /\ Len(MarksIn(full)) = Cardinality(Marked(full))
    BY <1>11 DEF FullOf, Marked
  <1>13. Q \in Seq(PageEntry) /\ DOMAIN Q = 1..Len(Q) /\ \A i, j \in 1..Len(Q) : Q[i].url = Q[j].url => i = j
    BY <1>2, SeqIs DEF Unmixed
  <1>14. \A l \in S : /\ f[l] \in 1..Len(Q) /\ L[l].url = Q[f[l]].url /\ L[l].text = DisplayTitle(Q[f[l]])
                      /\ Importance(EntryOf(L, E, l)) = Importance(Q[f[l]])
    BY <1>3 DEF Matched, LinkSays
  <1>15. \A l \in S : L[l].url \in Marked(full) <=> f[l] \in G
    BY <1>12, <1>13, <1>14 DEF UrlsAt
  <1>16. \A l \in S : CostIn(L, E, l) = Size(TextOf(Q, own, f[l]))
    <2> SUFFICES ASSUME NEW l \in S PROVE CostIn(L, E, l) = Size(TextOf(Q, own, f[l]))
      OBVIOUS
    <2>1. OwnIn(L, E, l) = own[f[l]] /\ L[l].url = Q[f[l]].url /\ L[l].text = DisplayTitle(Q[f[l]])
      BY <1>10, <1>14
    <2> QED BY <2>1, Zenon DEF CostIn, TextOf
  <1>17. Marked(full) \subseteq {L[l].url : l \in S}
    <2> SUFFICES ASSUME NEW u \in Marked(full) PROVE \E l \in S : L[l].url = u
      OBVIOUS
    <2>1. PICK k \in G : u = Q[k].url
      BY <1>12 DEF UrlsAt
    <2>2. PICK l \in S : f[l] = k
      BY <1>3 DEF Matched
    <2> QED BY <1>14, <2>1, <2>2
  <1>18. Marked(full) # {} => Size(full) <= MaxSize
    BY <1>11, <1>12 DEF FullOf, UrlsAt
  <1>19. ASSUME NEW q \in S, L[q].url \notin Marked(full), OwnIn(L, E, q) # <<>>
         PROVE  /\ Size(full) + CostIn(L, E, q) > Room(MaxSize)
                /\ \A p \in S :
                      (~(L[p].url \notin Marked(full))
                       /\ Importance(EntryOf(L, E, q)) > Importance(EntryOf(L, E, p))) =>
                          CostIn(L, E, q) > CostIn(L, E, p)
    <2>1. f[q] \in (1..Len(Q)) \ G /\ own[f[q]] # <<>>
      BY <1>10, <1>14, <1>15, <1>19
    <2>2. /\ Size(full) + Size(TextOf(Q, own, f[q])) > Room(MaxSize)
          /\ \A j \in G : f[q] < j => Size(TextOf(Q, own, f[q])) > Size(TextOf(Q, own, j))
      BY <1>11, <2>1 DEF FullOf
    <2>3. ASSUME NEW p \in S, L[p].url \in Marked(full),
                 Importance(EntryOf(L, E, q)) > Importance(EntryOf(L, E, p))
          PROVE  CostIn(L, E, q) > CostIn(L, E, p)
      <3>1. f[p] \in G /\ f[p] \in 1..Len(Q) /\ f[q] \in 1..Len(Q)
        BY <1>14, <1>15, <2>3
      <3>2. Importance(Q[f[q]]) > Importance(Q[f[p]])
        BY <1>14, <2>3
      <3>3. Importance(Q[f[q]]) \in Int /\ Importance(Q[f[p]]) \in Int
        <4>1. Q[f[q]] \in PageEntry /\ Q[f[p]] \in PageEntry
          BY <1>13, <3>1, SeqIs
        <4> QED BY <4>1, ImportanceIsNumber
      <3>4. f[q] < f[p]
        <4>1. f[p] < f[q] => Importance(Q[f[p]]) >= Importance(Q[f[q]])
          BY <1>2, <3>1
        <4>2. f[p] # f[q]
          BY <2>1, <3>1
        <4>3. PICK a, b \in Nat : a = f[p] /\ b = f[q]
          BY <3>1
        <4>4. PICK x, y \in Int : x = Importance(Q[f[q]]) /\ y = Importance(Q[f[p]])
          BY <3>3
        <4> QED BY <3>2, <4>1, <4>2, <4>3, <4>4
      <3>5. Size(TextOf(Q, own, f[q])) > Size(TextOf(Q, own, f[p]))
        BY <2>2, <3>1, <3>4
      <3> QED BY <1>16, <3>5
    <2> QED BY <1>16, <2>2, <2>3
  <1> QED BY <1>12, <1>17, <1>18, <1>19

-----------------------------------------------------------------------------
(* The full file of a run, as it is made and after an edit. *)

\* Pages that stand for some of the pages in hand.
Among(X, E) == Unmixed(E) /\ \A x \in X : \E y \in ToSet(E) : Alike(x, y)

\* The index of a result lists the pages of its full file.
LEMMA BuiltLists ==
  ASSUME NEW S, NEW O, NEW X, Well(S, O, X), Apart(X), NEW p \in DOMAIN Templates,
         NEW name \in Text, NEW summary \in Text, NEW E, Among(X, E)
  PROVE  Listing(Cat(PagesOf(Ordered(S, p)), O),
                 LinksIn(RenderIndex(name, summary, Ordered(S, p), O, p)), E)
  <1> DEFINE D == Ordered(S, p)
             P == Cat(PagesOf(D), O)
             Y == ShownPages(S) \cup ToSet(O)
             index == RenderIndex(name, summary, D, O, p)
             places == {i \in DOMAIN index : index[i] \in LinkLines}
  <1>1. /\ Well(D, O, Y) /\ ShownPages(D) = ShownPages(S) /\ ShownPages(S) \subseteq X
    BY OrderedHolds
  <1> HIDE DEF index, D
  <1>2. Apart(Y) /\ Y \in SUBSET PageEntry /\ Y \subseteq X
    <2>1. Y \subseteq X
      BY <1>1 DEF Well
    <2>2. X \in SUBSET PageEntry
      BY WellPages
    <2> QED BY <2>1, <2>2 DEF Apart
  <1> HIDE DEF Y
  <1>3. index \in Seq(IndexLine) /\ Bears(index, LinkLines, LinkSet(ShownPages(D) \cup ToSet(O)))
    BY <1>1, <1>2, IndexBears DEF index
  <1>4. Bears(index, LinkLines, LinkSet(Y))
    BY <1>1, <1>3 DEF Y
  <1>5. LinksIn(index) = KeptAt(index, places)
    <2>1. \A i \in DOMAIN index : index[i] \in IndexLine
      BY <1>3, SeqIs
    <2>2. {i \in DOMAIN index : index[i].kind = "link"} = places
      BY <2>1 DEF LinkLines
    <2> QED BY <2>2 DEF LinksIn
  <1>6. /\ LinksIn(index) \in Seq(IndexLine) /\ IsInjective(LinksIn(index))
        /\ ToSet(LinksIn(index)) = LinkSet(Y)
    <2>1. /\ KeptAt(index, places) \in Seq(IndexLine) /\ ToSet(KeptAt(index, places)) = LinkSet(Y)
          /\ IsInjective(KeptAt(index, places))
      BY <1>3, <1>4, TakenOut
    <2> HIDE DEF places
    <2> QED BY <1>5, <2>1
  <1>7. P \in Seq(PageEntry) /\ IsInjective(P) /\ ToSet(P) = Y
    <2>1. /\ Fine(D) /\ O \in Seq(PageEntry) /\ IsInjective(O)
          /\ Held(ToSet(D)) \cap ToSet(O) = {} /\ Held(ToSet(D)) \cup ToSet(O) = Y
      BY <1>1 DEF Well
    <2>2. /\ PagesOf(D) \in Seq(PageEntry) /\ IsInjective(PagesOf(D))
          /\ ToSet(PagesOf(D)) = Held(ToSet(D))
      BY <2>1, PagesOfSays
    <2>3. ToSet(PagesOf(D)) \cap ToSet(O) = {}
      BY <2>1, <2>2
    <2>4. P \in Seq(PageEntry) /\ IsInjective(P) /\ ToSet(P) = ToSet(PagesOf(D)) \cup ToSet(O)
      BY <2>1, <2>2, <2>3, Swelling
    <2> QED BY <2>1, <2>2, <2>4
  <1> HIDE DEF P
  <1> QED BY <1>2, <1>6, <1>7 DEF Listing, Among, P, D, index

\* A result that holds a full file holds what render_llms_full makes of its pages.
LEMMA BuiltFull ==
  ASSUME NEW S, NEW O, NEW p, NEW name, NEW summary, NEW withFull, NEW judged,
         NEW b, b = Built(name, summary, S, O, p, withFull, judged)
  PROVE  /\ b.index = RenderIndex(name, summary, Ordered(S, p), O, p)
         /\ \/ b.full = <<>>
            \/ b.full = RenderFull(name, Cat(PagesOf(Ordered(S, p)), O), MaxSize)
  <1> DEFINE D == Ordered(S, p)
             index == RenderIndex(name, summary, D, O, p)
             text == RenderFull(name, Cat(PagesOf(D), O), MaxSize)
  <1>1. b = [name |-> name, summary |-> summary, sections |-> D, optional |-> O,
             index |-> index, issues |-> Issues(index, judged),
             full |-> IF withFull THEN text ELSE <<>>]
    BY Zenon DEF Built, D, index, text, Cat
  <1> HIDE DEF D, index, text
  <1>2. PICK full : full = IF withFull THEN text ELSE <<>>
    OBVIOUS
  <1>3. b = [name |-> name, summary |-> summary, sections |-> D, optional |-> O,
             index |-> index, issues |-> Issues(index, judged), full |-> full]
    BY <1>1, <1>2, Zenon
  <1>4. b.index = index /\ b.full = full
    BY <1>3
  <1>5. full = <<>> \/ full = text
    BY <1>2, Zenon
  <1> QED BY <1>4, <1>5 DEF D, index, text

LEMMA BuiltKeeps ==
  ASSUME NEW S, NEW O, NEW X, Well(S, O, X), Apart(X), NEW p \in DOMAIN Templates,
         NEW name \in Text, NEW summary \in Text, NEW E, Among(X, E), NEW withFull, NEW judged,
         NEW b, b = Built(name, summary, S, O, p, withFull, judged)
  PROVE  KeepsIn(b.full, LinksIn(b.index), E)
  <1> DEFINE P == Cat(PagesOf(Ordered(S, p)), O)
             index == RenderIndex(name, summary, Ordered(S, p), O, p)
  <1>1. Listing(P, LinksIn(index), E)
    BY BuiltLists
  <1>2. b.index = index /\ (b.full = <<>> \/ b.full = RenderFull(name, P, MaxSize))
    BY BuiltFull
  <1> HIDE DEF P, index
  <1>3. CASE b.full = <<>>
    BY <1>3, Zenon DEF KeepsIn
  <1>4. CASE b.full = RenderFull(name, P, MaxSize)
    <2>1. KeepsIn(b.full, LinksIn(index), E)
      BY <1>1, <1>4, RenderKeeps
    <2> QED BY <1>2, <2>1
  <1> QED BY <1>2, <1>3, <1>4

LEMMA KeepsNext ==
  ASSUME NEW built, built.full = file'.full, built.index = file'.index,
         KeepsIn(built.full, LinksIn(built.index), entries')
  PROVE  FullKeepsWhatMatters'
  <1>1. FullKeepsWhatMatters' <=>
            (stage' = "complete" => KeepsIn(file'.full, LinksIn(file'.index), entries'))
    BY Zenon DEF FullKeepsWhatMatters, KeepsIn, EntryOf, EligibleIn, BodyIn, SharedIn, OwnIn, CostIn, Marked,
       MarksIn, LinksIn, ClearBody, Links, SourceLines, Sources, Entered, Eligible, BodyOf, BlocksOf,
       SharedBlocks, OwnText, Cost, Those
  <1> QED BY <1>1

\* The file as generate makes it.
LEMMA AssembleKeeps ==
  ASSUME TypeInv, Assemble
  PROVE  FullKeepsWhatMatters'
  <1>1. /\ Unmixed(entries) /\ \A i \in DOMAIN entries : SectionOfUrl(entries[i].url) \in SectionNames
        /\ pattern \in DOMAIN Templates
    BY DEF TypeInv
  <1>2. entries' = entries
    BY DEF Assemble
  <1>3. PICK summary \in Summaries \cup {<<>>} :
            LET built == Generated(entries, <<"Site">>, summary, pattern, wantsFull)
            IN  file' = Kept(built) /\ rows' = WrittenBack(built)
    BY DEF Assemble
  <1> DEFINE S == Sectioned(entries).sections
             O == Sectioned(entries).optional
             X == IF ByModel(entries) THEN ToSet(entries) ELSE ToSet(Shortlist(entries))
             name == <<"Site">>
             judged == Shortlist(entries)
  <1>4. PICK built : built = Built(name, summary, S, O, pattern, wantsFull, judged)
    OBVIOUS
  <1>5. file' = Kept(built)
    BY <1>3, <1>4, Zenon DEF Generated
  <1>6. name \in Text /\ summary \in Text
    <2>1. "Site" \in STRING
      BY WordAssumption, Zenon
    <2>2. name \in Text
      BY <2>1, OneOf DEF Text
    <2>3. <<>> \in Text
      BY DEF Text
    <2> QED BY <2>2, <2>3, WritingAssumption
  <1>7. Well(S, O, X) /\ Apart(X)
    BY <1>1, SectionedSays
  <1>8. Among(X, entries)
    <2>1. CASE ByModel(entries)
      BY <1>1, <2>1 DEF Among, Alike
    <2>2. CASE ~ByModel(entries)
      <3>1. X = ToSet(Shortlist(entries))
        BY <2>2
      <3>2. \A x \in ToSet(Shortlist(entries)) : \E y \in ToSet(entries) : Alike(x, y)
        BY <1>1, ShortlistSays
      <3> QED BY <1>1, <3>1, <3>2 DEF Among
    <2> QED BY <2>1, <2>2
  <1> HIDE DEF S, O, X, name, judged
  <1>9. KeepsIn(built.full, LinksIn(built.index), entries)
    BY <1>1, <1>4, <1>6, <1>7, <1>8, BuiltKeeps
  <1>10. file'.full = built.full /\ file'.index = built.index
    BY <1>5 DEF Kept
  <1> QED BY <1>2, <1>9, <1>10, KeepsNext

\* The file as an edit makes it, of the pages as their rows have them.
LEMMA EditKeeps ==
  ASSUME TypeInv, NEW keep \in SUBSET DOMAIN entries, NEW names \in Orders, NEW p \in DOMAIN Templates,
         EditPages(keep, names, p)
  PROVE  FullKeepsWhatMatters'
  <1> DEFINE n == Len(entries)
             W == ReadOf(entries, rows)
             t == Ticked(rows, keep)
             off == Unticked(entries, keep)
             M == RowMade(W, t, off, names)
             O == RowOptional(W, t, off)
             X == ImageOf(W, keep)
  <1>1. /\ Unmixed(entries) /\ \A i \in DOMAIN entries : SectionOfUrl(entries[i].url) \in SectionNames
        /\ rows \in [1..n -> RowRec] /\ file.name \in Text /\ file.summary \in Text
    BY DEF TypeInv
  <1>2. PICK built : built = EditBuilt(keep, names, p)
    OBVIOUS
  <1>3. EditOf(built, entries, rows, file, keep, names, p)
    BY <1>2, EditSays
  <1>4. file' = Kept(built) /\ entries' = BareOf(entries)
    BY <1>2, EditIs
  <1>5. /\ n \in Nat /\ DOMAIN entries = 1..n
    BY <1>1, ReadSays
  <1>6. \A i \in 1..n : entries[i] \in PageEntry /\ Alike(W[i], entries'[i])
    <2>1. entries \in Seq(PageEntry)
      BY <1>1 DEF Unmixed
    <2> SUFFICES ASSUME NEW i \in 1..n PROVE entries[i] \in PageEntry /\ Alike(W[i], entries'[i])
      OBVIOUS
    <2>2. PICK x \in PageEntry : x = entries[i]
      BY <1>5, <2>1, SeqIs
    <2>3. PICK row : row = rows[i]
      OBVIOUS
    <2>4. W[i] = [x EXCEPT !.title = row.title, !.description = row.description,
                           !.section = Unset, !.optional = FALSE]
      BY <1>5, <2>2, <2>3 DEF ReadOf, ReadAt
    <2>5. entries'[i] = Bare(x)
      BY <1>4, <1>5, <2>2 DEF BareOf
    <2>6. PICK w : w = W[i]
      OBVIOUS
    <2>7. w.url = x.url /\ w.words = x.words /\ w.depth = x.depth /\ w.inlinks = x.inlinks
          /\ w.link = x.link /\ w.markdown = x.markdown
      BY <2>4, <2>6 DEF PageEntry
    <2>8. PICK y : y = Bare(x)
      OBVIOUS
    <2>9. y.url = x.url /\ y.words = x.words /\ y.depth = x.depth /\ y.inlinks = x.inlinks
          /\ y.link = x.link /\ y.markdown = x.markdown
      BY <2>8 DEF Bare, PageEntry
    <2> HIDE DEF W
    <2>10. Alike(w, y)
      BY <2>7, <2>9 DEF Alike
    <2> QED BY <2>2, <2>5, <2>6, <2>8, <2>10
  <1> HIDE DEF W, t, off, M, O
  <1>7. keep \in SUBSET (1..n) /\ Well(M, O, X) /\ Apart(X) /\ built = Remade(file, W, t, off, names, p)
    BY <1>3 DEF EditOf, W, t, off, M, O
  <1>8. Among(X, entries')
    <2>1. Unmixed(entries') /\ DOMAIN entries' = 1..n
      BY <1>1, <1>4, <1>5, BareSays
    <2>2. ASSUME NEW x \in X PROVE \E y \in ToSet(entries') : Alike(x, y)
      <3>1. PICK i \in keep : x = W[i]
        BY DEF ImageOf
      <3>2. i \in 1..n /\ entries'[i] \in ToSet(entries')
        BY <1>7, <2>1 DEF ToSet
      <3> QED BY <1>6, <3>1, <3>2
    <2> QED BY <2>1, <2>2 DEF Among
  <1> HIDE DEF X
  <1>9. KeepsIn(built.full, LinksIn(built.index), entries')
    <2> PICK judged : judged = PagesOf(M) \o O
      OBVIOUS
    <2>1. built = Built(file.name, file.summary, M, O, p, file.full # <<>>, judged)
      BY <1>7, Zenon DEF Remade, M, O
    <2> QED BY <1>1, <1>7, <1>8, <2>1, BuiltKeeps
  <1>10. file'.full = built.full /\ file'.index = built.index
    BY <1>4 DEF Kept
  <1> QED BY <1>9, <1>10, KeepsNext

-----------------------------------------------------------------------------
(* Theorems. *)

Safe == TypeInv /\ ListedOnce

LEMMA InitSafe == Init => Safe
  <1> SUFFICES ASSUME Init PROVE Safe
    OBVIOUS
  <1>1. TypeInv
    BY InitTypes
  <1>2. stage = "crawled"
    BY DEF Init
  <1> QED BY <1>1, <1>2 DEF Safe, ListedOnce

LEMMA NextSafe == Safe /\ [Next]_vars => Safe'
  <1> SUFFICES ASSUME Safe, [Next]_vars PROVE Safe'
    OBVIOUS
  <1>1. TypeInv /\ ListedOnce
    BY DEF Safe
  <1>2. CASE Triage
    <2>1. TypeInv' /\ stage' = "triaged"
      BY <1>1, <1>2, TriageTypes DEF Triage
    <2> QED BY <2>1 DEF Safe, ListedOnce
  <1>3. CASE Summarise
    <2>1. TypeInv' /\ stage' = "written"
      BY <1>1, <1>3, SummariseTypes DEF Summarise
    <2> QED BY <2>1 DEF Safe, ListedOnce
  <1>4. CASE Assemble
    BY <1>1, <1>4, AssembleSays DEF Safe
  <1>5. ASSUME NEW keep \in SUBSET DOMAIN entries, NEW names \in Orders, NEW p \in DOMAIN Templates,
               EditPages(keep, names, p)
        PROVE  Safe'
    BY <1>1, <1>5, EditSays DEF Safe
  <1>6. CASE UNCHANGED vars
    <2>1. /\ stage' = stage /\ pattern' = pattern /\ wantsFull' = wantsFull /\ entries' = entries
          /\ rows' = rows /\ file' = file /\ edits' = edits
      BY <1>6 DEF vars
    <2>2. TypeInv'
      BY <1>1, <2>1 DEF TypeInv
    <2>3. Links' = Links
      <3>1. Links' = LinksIn(file'.index) /\ Links = LinksIn(file.index)
        BY Zenon DEF Links, LinksIn, Those
      <3> QED BY <2>1, <3>1
    <2>4. Listed' = Listed /\ Expected' = Expected
      BY <2>1, <2>3 DEF Listed, Expected
    <2> QED BY <1>1, <2>1, <2>2, <2>3, <2>4 DEF Safe, ListedOnce
  <1> QED BY <1>2, <1>3, <1>4, <1>5, <1>6 DEF Next

\* The pages in hand are pages of one run, at different addresses, each with its
\* row; the rows and the stored index have their types (src/app/core/models.py,
\* what generate_task and edit_pages keep between two steps).
THEOREM LlmsFileTypes == Spec => []TypeInv
  <1>1. Safe => TypeInv
    BY DEF Safe
  <1> QED BY <1>1, InitSafe, NextSafe, PTL DEF Spec

\* No page is listed twice, none is lost on the way through filters, grouping,
\* ordering, rendering and rebuilding, and none comes from nowhere
\* (src/app/core/pipeline.py, render.py, main.py's edit_pages).
THEOREM ListedOnceHolds == Spec => []ListedOnce
  <1>1. Safe => ListedOnce
    BY DEF Safe
  <1> QED BY <1>1, InitSafe, NextSafe, PTL DEF Spec

\* Only a stored file has anything to keep.
LEMMA NextKeeps == TypeInv /\ FullKeepsWhatMatters /\ [Next]_vars => FullKeepsWhatMatters'
  <1> SUFFICES ASSUME TypeInv, FullKeepsWhatMatters, [Next]_vars PROVE FullKeepsWhatMatters'
    OBVIOUS
  <1>1. CASE Triage \/ Summarise
    <2>1. stage' # "complete"
      BY <1>1 DEF Triage, Summarise
    <2> QED BY <2>1, Zenon DEF FullKeepsWhatMatters
  <1>2. CASE Assemble
    BY <1>2, AssembleKeeps
  <1>3. ASSUME NEW keep \in SUBSET DOMAIN entries, NEW names \in Orders, NEW p \in DOMAIN Templates,
               EditPages(keep, names, p)
        PROVE  FullKeepsWhatMatters'
    BY <1>3, EditKeeps
  <1>4. CASE UNCHANGED vars
    <2>1. stage' = stage /\ entries' = entries /\ file' = file
      BY <1>4 DEF vars
    <2>2. stage = "complete" => KeepsIn(file.full, LinksIn(file.index), entries)
      BY KeepsIs
    <2>3. CASE stage = "complete"
      BY <2>1, <2>2, <2>3, KeepsNext
    <2>4. CASE stage # "complete"
      <3>1. stage' # "complete"
        BY <2>1, <2>4
      <3> QED BY <3>1, Zenon DEF FullKeepsWhatMatters
    <2> QED BY <2>3, <2>4
  <1> QED BY <1>1, <1>2, <1>3, <1>4 DEF Next

\* llms-full.txt holds a page once and none that the index does not list, keeps to
\* its budget once it holds one, and leaves out a page with a text of its own only if
\* it would not fit, and for a less important one only if it is longer, whatever the
\* pages, the budget and the edits (src/app/core/full_text.py's hoist_repeated and
\* normalise_body, render.py's render_llms_full, main.py's edit_pages).
THEOREM FullKeepsWhatMattersHolds == Spec => []FullKeepsWhatMatters
  <1>1. Init => FullKeepsWhatMatters
    <2> SUFFICES ASSUME Init PROVE FullKeepsWhatMatters
      OBVIOUS
    <2>1. stage # "complete"
      BY DEF Init
    <2> QED BY <2>1, Zenon DEF FullKeepsWhatMatters
  <1> QED BY <1>1, NextKeeps, LlmsFileTypes, PTL DEF Spec

-----------------------------------------------------------------------------
(* The file an edit stores is the one its rows make: Settled says so for   *)
(* the rows as they stand, which an edit that asks the same reads.         *)

LEMMA InitSettled == Init => Settled
  <1> SUFFICES ASSUME Init PROVE Settled
    OBVIOUS
  <1>1. edits = [count |-> 0, same |-> FALSE]
    BY DEF Init, Untouched
  <1>2. edits.same = FALSE /\ ~(edits.count > 0)
    BY <1>1
  <1>3. edits.same \in BOOLEAN
    BY <1>2
  <1> QED BY <1>2, <1>3, Zenon DEF Settled

LEMMA EarlySettled ==
  ASSUME TypeInv, Settled, stage # "complete", edits' = edits
  PROVE  Settled' /\ ~edits.same
  <1>1. edits.count = 0
    BY DEF TypeInv
  <1>2. edits.same = FALSE
    BY DEF Settled
  <1> QED BY <1>1, <1>2 DEF Settled

LEMMA NextSettled == TypeInv /\ Settled /\ [Next]_vars => Settled' /\ [edits'.same => file' = file]_vars
  <1> SUFFICES ASSUME TypeInv, Settled, [Next]_vars PROVE Settled' /\ (vars' = vars \/ (edits'.same => file' = file))
    OBVIOUS
  <1>1. CASE Triage \/ Summarise \/ Assemble
    <2>1. stage # "complete" /\ edits' = edits
      BY <1>1 DEF Triage, Summarise, Assemble
    <2> QED BY <2>1, EarlySettled
  <1>2. ASSUME NEW keep \in SUBSET DOMAIN entries, NEW names \in Orders, NEW p \in DOMAIN Templates,
               EditPages(keep, names, p)
        PROVE  Settled' /\ (edits'.same => file' = file)
    BY <1>2, EditSettles, SameSettles
  <1>3. CASE UNCHANGED vars
    <2>1. /\ stage' = stage /\ pattern' = pattern /\ entries' = entries
          /\ rows' = rows /\ file' = file /\ edits' = edits
      BY <1>3 DEF vars
    <2>2. Settled'
      BY <2>1, Zenon DEF Settled
    <2> QED BY <1>3, <2>2
  <1> QED BY <1>1, <1>2, <1>3 DEF Next

\* An edit that ticks what the last one ticked, with no order and no other type
\* of site, stores the same file: the rows hold all that the file shows
\* (src/app/main.py's _result_from_rows and edit_pages, core/pipeline.py's rebuild).
THEOREM EditsSettleHolds == Spec => EditsSettle
  <1>1. TypeInv /\ Settled /\ [Next]_vars => Settled'
    BY NextSettled
  <1>2. TypeInv /\ Settled /\ [Next]_vars => [edits'.same => file' = file]_vars
    BY NextSettled
  <1> QED BY <1>1, <1>2, InitSettled, LlmsFileTypes, PTL DEF Spec, EditsSettle
=============================================================================
