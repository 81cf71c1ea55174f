-------------------------- MODULE CrawlList_proofs --------------------------
(***************************************************************************)
(* The theorems of CrawlList: the walk of the sitemaps reaches all it      *)
(* should, the fetcher is handed what it may fetch and nothing else, and   *)
(* only the review and the budget leave pages out.                         *)
(*                                                                         *)
(* The walk, the sorting and the selection are recursive.  The induction   *)
(* theorems of the library take an operator, which no prover here can      *)
(* instantiate; the first section states induction and recursion with sets *)
(* and functions in place of operators, and the operators of the module    *)
(* are led back to it.  A fact about a function that is cited under a      *)
(* quantifier is given a name, because the provers match names.            *)
(***************************************************************************)
EXTENDS CrawlList, FiniteSetTheorems, SequenceTheorems, WellFoundedInduction, TLAPS

-----------------------------------------------------------------------------
(* Induction.  A set of numbers stands for the property they have. *)

\* A set of numbers that is not empty has a least.
LEMMA Least ==
  ASSUME NEW S \in SUBSET Nat, S # {}
  PROVE  \E n \in S : \A m \in S : n <= m
  <1>1. PICK n \in S : \A m \in S : ~(<<m, n>> \in OpToRel(<, Nat))
    BY NatLessThanWellFounded, WFMin
  <1>2. n \in Nat /\ \A m \in S : m \in Nat
    OBVIOUS
  <1>3. \A m \in S : ~(m < n)
    BY <1>1, <1>2 DEF OpToRel
  <1>4. \A m \in S : n <= m
    BY <1>2, <1>3
  <1> QED BY <1>4

\* A set that holds 0 and the successor of what it holds is all the numbers.
LEMMA Induct ==
  ASSUME NEW S, 0 \in S, \A n \in Nat : n \in S => n + 1 \in S
  PROVE  \A n \in Nat : n \in S
  <1> SUFFICES ASSUME NEW k \in Nat, k \notin S PROVE FALSE
    OBVIOUS
  <1> DEFINE Out == {n \in Nat : n \notin S}
  <1>1. PICK n \in Out : \A m \in Out : n <= m
    <2>1. Out \in SUBSET Nat /\ Out # {}
      OBVIOUS
    <2> HIDE DEF Out
    <2> QED BY <2>1, Least
  <1>2. n \in Nat /\ n # 0 /\ n - 1 \in Nat /\ (n - 1) + 1 = n
    OBVIOUS
  <1>3. n - 1 \in S
    <2>1. ~(n <= n - 1)
      BY <1>2
    <2> QED BY <1>1, <1>2, <2>1
  <1> QED BY <1>1, <1>2, <1>3

\* A recursion over 0..n has a value where each of its steps has one.
Recursive(n, base, step, w) ==
    w = [i \in 0..n |-> IF i = 0 THEN base ELSE step[i][w[i - 1]]]

\* A recursion along 1..n has a solution.
LEMMA Recursion ==
  ASSUME NEW n \in Nat, NEW A, NEW base \in A, NEW step \in [1..n -> [A -> A]]
  PROVE  \E w \in [0..n -> A] : Recursive(n, base, step, w)
  <1> DEFINE Has(k, w) == /\ w \in [0..k -> A] /\ w[0] = base
                          /\ \A i \in 1..k : w[i] = step[i][w[i - 1]]
             S == {k \in Nat : k <= n => \E w : Has(k, w)}
  <1>1. 0 \in S
    <2>1. Has(0, [i \in 0..0 |-> base])
      OBVIOUS
    <2> QED BY <2>1
  <1>2. ASSUME NEW k \in Nat, k \in S PROVE k + 1 \in S
    <2> SUFFICES ASSUME k + 1 <= n PROVE \E w : Has(k + 1, w)
      OBVIOUS
    <2>1. PICK w : Has(k, w)
      BY <1>2
    <2> DEFINE v == [i \in 0..(k + 1) |-> IF i = k + 1 THEN step[k + 1][w[k]] ELSE w[i]]
    <2>2. step[k + 1][w[k]] \in A
      BY <2>1
    <2>3. v \in [0..(k + 1) -> A]
      BY <2>1, <2>2
    <2>4. v[0] = base /\ v[k + 1] = step[k + 1][w[k]] /\ \A i \in 0..k : v[i] = w[i]
      BY <2>1
    <2> HIDE DEF v
    <2>5. \A i \in 1..(k + 1) : v[i] = step[i][v[i - 1]]
      <3> SUFFICES ASSUME NEW i \in 1..(k + 1) PROVE v[i] = step[i][v[i - 1]]
        OBVIOUS
      <3>1. CASE i = k + 1
        BY <2>4, <3>1
      <3>2. CASE i # k + 1
        <4>1. i \in 1..k /\ i \in 0..k /\ i - 1 \in 0..k
          BY <3>2
        <4> QED BY <2>1, <2>4, <4>1
      <3> QED BY <3>1, <3>2
    <2> QED BY <2>3, <2>4, <2>5
  <1> HIDE DEF S
  <1>3. n \in S
    BY <1>1, <1>2, Induct
  <1>4. PICK w : Has(n, w)
    BY <1>3 DEF S
  <1>5. w = [i \in 0..n |-> IF i = 0 THEN base ELSE step[i][w[i - 1]]]
    BY <1>4
  <1> QED BY <1>4, <1>5 DEF Recursive

-----------------------------------------------------------------------------
(* Folds over a sequence: FoldLeft runs over the sets 1..k. *)

\* The greatest of a set that goes up to k + 1.
LEMMA LastOfFirst ==
  ASSUME NEW k \in Nat, NEW s \in SUBSET (1..(k + 1)), k + 1 \in s
  PROVE  Max(s) = k + 1
  <1>1. \A y \in s : y \in Nat /\ k + 1 >= y
    OBVIOUS
  <1>2. \A x \in s : (\A y \in s : x >= y) => x = k + 1
    BY <1>1
  <1>3. \E x \in s : \A y \in s : x >= y
    BY <1>1
  <1> QED BY <1>2, <1>3 DEF Max

Folding(n, base, step, f) ==
    f = [s \in SUBSET (1..n) |->
            IF s = {} THEN base ELSE step[Max(s)][f[s \ {Max(s)}]]]

\* What MapThenFoldSet recurs over has a solution.
LEMMA FoldExists ==
  ASSUME NEW n \in Nat, NEW A, NEW base \in A, NEW step \in [1..n -> [A -> A]]
  PROVE  \E f \in [SUBSET (1..n) -> A] : Folding(n, base, step, f)
  <1> DEFINE Turn(f, s) == IF s = {} THEN base ELSE step[Max(s)][f[s \ {Max(s)}]]
             Has(k, f) == /\ f \in [SUBSET (1..k) -> A]
                          /\ \A s \in SUBSET (1..k) : f[s] = Turn(f, s)
             S == {k \in Nat : k <= n => \E f : Has(k, f)}
  <1>1. \E f : Has(0, f)
    <2>1. \A s \in SUBSET (1..0) : s = {}
      OBVIOUS
    <2>2. Has(0, [s \in SUBSET (1..0) |-> base])
      BY <2>1
    <2> QED BY <2>2
  <1>2. ASSUME NEW k \in Nat, k + 1 <= n, NEW f, Has(k, f) PROVE \E g : Has(k + 1, g)
    <2> DEFINE g == [s \in SUBSET (1..(k + 1)) |->
                       IF k + 1 \in s THEN step[k + 1][f[s \ {k + 1}]] ELSE f[s]]
    <2>2. \A s \in SUBSET (1..(k + 1)) :
             /\ s \ {k + 1} \in SUBSET (1..k)
             /\ k + 1 \notin s => s \in SUBSET (1..k)
      OBVIOUS
    <2>3. g \in [SUBSET (1..(k + 1)) -> A]
      <3>1. step[k + 1] \in [A -> A]
        BY <1>2
      <3> QED BY <1>2, <2>2, <3>1
    <2>4. \A s \in SUBSET (1..k) : g[s] = f[s]
      <3>1. \A s \in SUBSET (1..k) : s \in SUBSET (1..(k + 1)) /\ k + 1 \notin s
        OBVIOUS
      <3> QED BY <3>1
    <2>5. ASSUME NEW s \in SUBSET (1..(k + 1)) PROVE g[s] = Turn(g, s)
      <3>1. CASE k + 1 \in s
        <4>1. Max(s) = k + 1
          BY <3>1, LastOfFirst
        <4>2. g[s] = step[k + 1][f[s \ {k + 1}]]
          BY <3>1
        <4>3. g[s \ {k + 1}] = f[s \ {k + 1}]
          BY <2>2, <2>4, Zenon
        <4> HIDE DEF g
        <4> QED BY <3>1, <4>1, <4>2, <4>3
      <3>2. CASE k + 1 \notin s
        <4>1. s \in SUBSET (1..k) /\ s \ {Max(s)} \in SUBSET (1..k)
          BY <2>2, <3>2
        <4>2. g[s] = f[s] /\ g[s \ {Max(s)}] = f[s \ {Max(s)}]
          BY <2>4, <4>1, Zenon
        <4>3. f[s] = Turn(f, s)
          BY <1>2, <4>1, Zenon
        <4> HIDE DEF g
        <4> QED BY <4>2, <4>3
      <3> QED BY <3>1, <3>2
    <2> HIDE DEF g
    <2> QED BY <2>3, <2>5, Zenon
  <1> HIDE DEF Has
  <1>3. 0 \in S /\ \A k \in Nat : k \in S => k + 1 \in S
    BY <1>1, <1>2
  <1> HIDE DEF S
  <1>4. n \in S
    BY <1>3, Induct
  <1>5. PICK f : Has(n, f)
    BY <1>4 DEF S
  <1>6. f \in [SUBSET (1..n) -> A] /\ \A s \in SUBSET (1..n) : f[s] = Turn(f, s)
    BY <1>5 DEF Has
  <1>7. f = [s \in SUBSET (1..n) |-> Turn(f, s)]
    <2>1. f = [s \in SUBSET (1..n) |-> f[s]]
      BY <1>6
    <2>2. [s \in SUBSET (1..n) |-> f[s]] = [s \in SUBSET (1..n) |-> Turn(f, s)]
      BY <1>6, Zenon
    <2> QED BY <2>1, <2>2, Zenon
  <1> QED BY <1>6, <1>7, Zenon DEF Folding

\* Two functions that agree wherever they agree a step before are one.
OnSets(n, f) == f = [s \in SUBSET (1..n) |-> f[s]]
AgreeOn(n, f, g) ==
    /\ f[{}] = g[{}]
    /\ \A s \in SUBSET (1..n) :
          s # {} /\ f[s \ {Max(s)}] = g[s \ {Max(s)}] => f[s] = g[s]

\* It has one solution only.
LEMMA FoldUnique ==
  ASSUME NEW n \in Nat, NEW f, NEW g, OnSets(n, f), OnSets(n, g), AgreeOn(n, f, g)
  PROVE  f = g
  <1> USE DEF OnSets, AgreeOn
  <1> DEFINE Agree(k) == \A s \in SUBSET (1..k) : f[s] = g[s]
             S == {k \in Nat : k <= n => Agree(k)}
  <1>1. Agree(0)
    <2>1. \A s \in SUBSET (1..0) : s = {}
      OBVIOUS
    <2> QED BY <2>1
  <1>2. ASSUME NEW k \in Nat, k + 1 <= n, Agree(k) PROVE Agree(k + 1)
    <2> SUFFICES ASSUME NEW s \in SUBSET (1..(k + 1)) PROVE f[s] = g[s]
      OBVIOUS
    <2>1. s \in SUBSET (1..n) /\ s \ {k + 1} \in SUBSET (1..k)
      BY <1>2
    <2>2. CASE k + 1 \in s
      <3>1. Max(s) = k + 1
        BY <2>2, LastOfFirst
      <3>2. f[s \ {k + 1}] = g[s \ {k + 1}]
        BY <1>2, <2>1, Zenon
      <3>3. s # {} /\ f[s \ {Max(s)}] = g[s \ {Max(s)}]
        BY <2>2, <3>1, <3>2
      <3> QED BY <2>1, <3>3, Zenon
    <2>3. CASE k + 1 \notin s
      <3>1. s \in SUBSET (1..k)
        BY <2>3
      <3> QED BY <1>2, <3>1, Zenon
    <2> QED BY <2>2, <2>3
  <1> HIDE DEF Agree
  <1>3. 0 \in S /\ \A k \in Nat : k \in S => k + 1 \in S
    BY <1>1, <1>2
  <1> HIDE DEF S
  <1>4. n \in S
    BY <1>3, Induct
  <1>5. Agree(n)
    BY <1>4 DEF S
  <1>6. [s \in SUBSET (1..n) |-> f[s]] = [s \in SUBSET (1..n) |-> g[s]]
    BY <1>5, Zenon DEF Agree
  <1> QED BY <1>6

\* The values that a fold, however it is computed, passes through.
Stepping(n, A, base, step, iter) ==
    /\ iter[{}] = base
    /\ \A s \in SUBSET (1..n) :
          s # {} /\ iter[s \ {Max(s)}] \in A => iter[s] = step[Max(s)][iter[s \ {Max(s)}]]

Running(n, base, step, v) ==
    /\ v[0] = base
    /\ \A k \in 1..n : v[k] = step[k][v[k - 1]]

FoldsTo(n, A, base, step, out) ==
    \E v \in [0..n -> A] : Running(n, base, step, v) /\ out = v[n]

\* The sets a fold goes through.
LEMMA UpTo ==
  ASSUME NEW n \in Nat, NEW k \in 1..n
  PROVE  /\ 1..k \in SUBSET (1..n) /\ 1..k # {} /\ (1..k) \ {k} = 1..(k - 1)
         /\ Max(1..k) = k
  BY DEF Max

\* A fold is the end of the run of its steps along 1..n.
LEMMA FoldRuns ==
  ASSUME NEW n \in Nat, NEW A, NEW base \in A, NEW step \in [1..n -> [A -> A]],
         NEW iter, OnSets(n, iter), Stepping(n, A, base, step, iter)
  PROVE  FoldsTo(n, A, base, step, iter[1..n])
  <1>1. PICK f \in [SUBSET (1..n) -> A] : Folding(n, base, step, f)
    BY FoldExists
  <1>2. OnSets(n, f)
    BY <1>1 DEF OnSets
  <1>3. f[{}] = base /\ \A s \in SUBSET (1..n) :
                           s # {} => f[s] = step[Max(s)][f[s \ {Max(s)}]]
    BY <1>1 DEF Folding
  <1>4. AgreeOn(n, f, iter)
    <2>1. f[{}] = iter[{}]
      BY <1>3 DEF Stepping
    <2>2. ASSUME NEW s \in SUBSET (1..n), s # {}, f[s \ {Max(s)}] = iter[s \ {Max(s)}]
          PROVE  f[s] = iter[s]
      <3>1. f[s \ {Max(s)}] \in A
        BY <1>1
      <3>2. iter[s] = step[Max(s)][iter[s \ {Max(s)}]]
        BY <2>2, <3>1, Zenon DEF Stepping
      <3> QED BY <1>3, <2>2, <3>2, Zenon
    <2> QED BY <2>1, <2>2, Zenon DEF AgreeOn
  <1>5. f = iter
    BY <1>2, <1>4, FoldUnique
  <1> DEFINE v == [k \in 0..n |-> f[1..k]]
  <1>6. v \in [0..n -> A] /\ v[n] = f[1..n]
    OBVIOUS
  <1>7. v[0] = base
    <2>1. 1..0 = {} /\ v[0] = f[1..0]
      OBVIOUS
    <2> QED BY <1>3, <2>1
  <1>8. ASSUME NEW k \in 1..n PROVE v[k] = step[k][v[k - 1]]
    <2>1. 1..k \in SUBSET (1..n) /\ 1..k # {} /\ (1..k) \ {k} = 1..(k - 1)
      BY UpTo
    <2>2. Max(1..k) = k
      BY UpTo
    <2>3. v[k] = f[1..k] /\ v[k - 1] = f[1..(k - 1)]
      OBVIOUS
    <2> HIDE DEF v
    <2>4. f[1..k] = step[k][f[(1..k) \ {k}]]
      BY <1>3, <2>1, <2>2, Zenon
    <2> QED BY <2>1, <2>3, <2>4, Zenon
  <1> HIDE DEF v
  <1>9. Running(n, base, step, v)
    BY <1>7, <1>8 DEF Running
  <1> QED BY <1>5, <1>6, <1>9 DEF FoldsTo

-----------------------------------------------------------------------------
(* Sequences. *)

\* A function of 1..n is a sequence.
LEMMA IsSeq ==
  ASSUME NEW n \in Nat, NEW T, NEW f \in [1..n -> T]
  PROVE  f \in Seq(T) /\ Len(f) = n /\ DOMAIN f = 1..n
  OBVIOUS

\* What it is to be a sequence of elements of a set.
LEMMA SeqIs ==
  ASSUME NEW T, NEW s \in Seq(T)
  PROVE  /\ Len(s) \in Nat /\ DOMAIN s = 1..Len(s) /\ s \in [1..Len(s) -> T]
         /\ s \in Seq(ToSet(s)) /\ ToSet(s) \subseteq T
         /\ \A i \in 1..Len(s) : s[i] \in T /\ s[i] \in ToSet(s)
  <1>1. Len(s) \in Nat /\ DOMAIN s = 1..Len(s) /\ s \in [1..Len(s) -> T]
    BY LenProperties
  <1>2. s \in [1..Len(s) -> ToSet(s)] /\ ToSet(s) \subseteq T
    BY <1>1 DEF ToSet
  <1>3. s \in Seq(ToSet(s))
    BY <1>1, <1>2, IsSeq
  <1> QED BY <1>1, <1>2, <1>3

\* What stays is what is at the places, in the order it had.
At(s, m, e) == [k \in 1..m |-> s[e[k]]]

KeptBy(s, places, m, e) ==
    /\ m \in Nat /\ e \in [1..m -> places]
    /\ \A i, j \in 1..m : i < j => e[i] < e[j]
    /\ \A p \in places : \E k \in 1..m : e[k] = p

\* The elements at some places are those of an increasing numbering of the places.
LEMMA KeptAtIs ==
  ASSUME NEW T, NEW s \in Seq(T), NEW places \in SUBSET (1..Len(s))
  PROVE  \E m, e : /\ KeptBy(s, places, m, e) /\ m <= Len(s)
                   /\ KeptAt(s, places) = At(s, m, e)
  <1> DEFINE n == Len(s)
             kept == CHOOSE f : f = [i \in 0..Len(s) |->
                        IF i = 0 THEN <<>>
                        ELSE IF i \in places THEN Append(f[i - 1], s[i]) ELSE f[i - 1]]
             step == [i \in 1..n |-> [d \in Seq(T) |->
                        IF i \in places THEN Append(d, s[i]) ELSE d]]
  <1>1. n \in Nat /\ \A i \in 1..n : s[i] \in T
    BY SeqIs
  <1>2. step \in [1..n -> [Seq(T) -> Seq(T)]] /\ <<>> \in Seq(T)
    BY <1>1
  <1>3. PICK w \in [0..n -> Seq(T)] :
           Recursive(n, <<>>, step, w)
    <2> HIDE DEF step, n
    <2> QED BY <1>1, <1>2, Recursion, Zenon
  <1>4. w = [i \in 0..n |-> IF i = 0 THEN <<>>
                            ELSE IF i \in places THEN Append(w[i - 1], s[i]) ELSE w[i - 1]]
    <2>1. \A i \in 1..n : w[i - 1] \in Seq(T)
      <3>1. \A i \in 1..n : i - 1 \in 0..n
        BY <1>1
      <3> QED BY <3>1
    <2>2. \A i \in 1..n : step[i][w[i - 1]]
                            = IF i \in places THEN Append(w[i - 1], s[i]) ELSE w[i - 1]
      BY <2>1
    <2> HIDE DEF step, n
    <2>3. \A i \in 0..n : i # 0 => i \in 1..n
      BY <1>1
    <2>4. [i \in 0..n |-> IF i = 0 THEN <<>> ELSE step[i][w[i - 1]]]
          = [i \in 0..n |-> IF i = 0 THEN <<>>
                            ELSE IF i \in places THEN Append(w[i - 1], s[i]) ELSE w[i - 1]]
      BY <2>2, <2>3, Zenon
    <2> QED BY <1>3, <2>4, Zenon DEF Recursive
  <1>5. kept = [i \in 0..n |-> IF i = 0 THEN <<>>
                               ELSE IF i \in places THEN Append(kept[i - 1], s[i])
                               ELSE kept[i - 1]]
    BY <1>4, Zenon
  <1> HIDE DEF kept
  <1> DEFINE So(j) == \E m, e : /\ KeptBy(s, places \cap 1..j, m, e) /\ m <= j
                                /\ kept[j] = At(s, m, e)
             S == {j \in Nat : j <= n => So(j)}
  <1>6. So(0)
    <2>1. kept[0] = <<>>
      BY <1>1, <1>5
    <2>2. places \cap 1..0 = {}
      OBVIOUS
    <2>3. At(s, 0, <<>>) = <<>>
      BY DEF At
    <2>4. KeptBy(s, {}, 0, <<>>)
      BY DEF KeptBy
    <2> QED BY <2>1, <2>2, <2>3, <2>4
  <1>7. ASSUME NEW j \in Nat, j + 1 <= n, So(j) PROVE So(j + 1)
    <2>1. PICK m, e : KeptBy(s, places \cap 1..j, m, e) /\ m <= j /\ kept[j] = At(s, m, e)
      BY <1>7
    <2>2. kept[j + 1] = IF j + 1 \in places THEN Append(kept[j], s[j + 1]) ELSE kept[j]
      <3>1. j + 1 \in 0..n /\ j + 1 # 0 /\ (j + 1) - 1 = j
        <4> HIDE DEF n, So
        <4> QED BY <1>1, <1>7
      <3> HIDE DEF n
      <3>2. kept[j + 1] = IF j + 1 = 0 THEN <<>>
                          ELSE IF j + 1 \in places THEN Append(kept[(j + 1) - 1], s[j + 1])
                          ELSE kept[(j + 1) - 1]
        BY <1>5, <3>1, Zenon
      <3> QED BY <3>1, <3>2
    <2>3. CASE j + 1 \notin places
      <3>1. places \cap 1..(j + 1) = places \cap 1..j
        BY <2>3
      <3>2. KeptBy(s, places \cap 1..(j + 1), m, e)
        BY <2>1, <3>1, Zenon
      <3>3. kept[j + 1] = At(s, m, e)
        BY <2>1, <2>2, <2>3
      <3>4. m <= j + 1
        BY <2>1 DEF KeptBy
      <3> QED BY <3>2, <3>3, <3>4, Zenon
    <2>4. CASE j + 1 \in places
      <3> DEFINE d == [k \in 1..(m + 1) |-> IF k = m + 1 THEN j + 1 ELSE e[k]]
      <3>1. m \in Nat /\ e \in [1..m -> places \cap 1..j]
        BY <2>1 DEF KeptBy
      <3>2. KeptBy(s, places \cap 1..(j + 1), m + 1, d)
        <4>1. d \in [1..(m + 1) -> places \cap 1..(j + 1)]
          BY <2>4, <3>1
        <4>2. \A a, b \in 1..(m + 1) : a < b => d[a] < d[b]
          <5> SUFFICES ASSUME NEW a \in 1..(m + 1), NEW b \in 1..(m + 1), a < b
                       PROVE  d[a] < d[b]
            OBVIOUS
          <5>1. a \in 1..m /\ d[a] = e[a] /\ e[a] \in 1..j
            BY <3>1
          <5>2. CASE b = m + 1
            BY <5>1, <5>2
          <5>3. CASE b # m + 1
            <6>1. b \in 1..m /\ d[b] = e[b]
              BY <3>1, <5>3
            <6>2. e[a] < e[b]
              BY <2>1, <5>1, <6>1 DEF KeptBy
            <6> QED BY <5>1, <6>1, <6>2
          <5> QED BY <5>2, <5>3
        <4>3. \A p \in places \cap 1..(j + 1) : \E k \in 1..(m + 1) : d[k] = p
          <5> SUFFICES ASSUME NEW p \in places \cap 1..(j + 1)
                       PROVE  \E k \in 1..(m + 1) : d[k] = p
            OBVIOUS
          <5>1. CASE p = j + 1
            <6>1. m + 1 \in 1..(m + 1) /\ d[m + 1] = p
              BY <3>1, <5>1
            <6> QED BY <6>1
          <5>2. CASE p # j + 1
            <6>1. p \in places \cap 1..j
              BY <5>2
            <6>2. PICK k \in 1..m : e[k] = p
              BY <2>1, <6>1 DEF KeptBy
            <6>3. k \in 1..(m + 1) /\ d[k] = p
              BY <3>1, <6>2
            <6> QED BY <6>3
          <5> QED BY <5>1, <5>2
        <4> HIDE DEF d
        <4> QED BY <3>1, <4>1, <4>2, <4>3 DEF KeptBy
      <3>3. kept[j + 1] = At(s, m + 1, d)
        <4>1. kept[j] \in [1..m -> T]
          BY <1>1, <1>7, <2>1, <3>1 DEF At
        <4>2. kept[j] \in Seq(T) /\ Len(kept[j]) = m
          BY <3>1, <4>1, IsSeq
        <4>3. s[j + 1] \in T
          BY <1>1, <1>7
        <4>4. /\ Append(kept[j], s[j + 1]) \in Seq(T)
              /\ Len(Append(kept[j], s[j + 1])) = m + 1
              /\ \A i \in 1..m : Append(kept[j], s[j + 1])[i] = kept[j][i]
              /\ Append(kept[j], s[j + 1])[m + 1] = s[j + 1]
          BY <4>2, <4>3, AppendProperties
        <4>5. \A i \in 1..(m + 1) : Append(kept[j], s[j + 1])[i] = s[d[i]]
          BY <2>1, <3>1, <4>4 DEF At
        <4>6. Append(kept[j], s[j + 1]) =
                [i \in 1..(m + 1) |-> Append(kept[j], s[j + 1])[i]]
          BY <4>4, LenProperties
        <4> HIDE DEF d
        <4> QED BY <2>2, <2>4, <4>5, <4>6 DEF At
      <3>4. m + 1 <= j + 1
        BY <2>1, <3>1
      <3> HIDE DEF d
      <3> QED BY <3>2, <3>3, <3>4
    <2> QED BY <2>3, <2>4
  <1> HIDE DEF So
  <1>8. 0 \in S /\ \A j \in Nat : j \in S => j + 1 \in S
    BY <1>1, <1>6, <1>7
  <1> HIDE DEF S
  <1>9. So(n)
    <2>1. n \in S
      BY <1>1, <1>8, Induct
    <2> QED BY <1>1, <2>1 DEF S
  <1>10. places \cap 1..n = places
    OBVIOUS
  <1>11. KeptAt(s, places) = kept[n]
    BY DEF KeptAt, kept
  <1>12. PICK m, e : /\ KeptBy(s, places \cap 1..n, m, e) /\ m <= n
                     /\ kept[n] = At(s, m, e)
    BY <1>9 DEF So
  <1>13. m <= Len(s)
    BY <1>12
  <1> HIDE DEF n
  <1>14. KeptBy(s, places, m, e)
    BY <1>10, <1>12
  <1> QED BY <1>11, <1>12, <1>13, <1>14

\* They are of the sequence, no more than it has, and each once if it has each once.
LEMMA KeptAtSays ==
  ASSUME NEW T, NEW s \in Seq(T), NEW places \in SUBSET (1..Len(s))
  PROVE  /\ KeptAt(s, places) \in Seq(T) /\ Len(KeptAt(s, places)) <= Len(s)
         /\ ToSet(KeptAt(s, places)) = {s[i] : i \in places}
         /\ IsInjective(s) => IsInjective(KeptAt(s, places))
  <1> DEFINE out == KeptAt(s, places)
  <1>1. PICK m, e : KeptBy(s, places, m, e) /\ m <= Len(s) /\ out = At(s, m, e)
    BY KeptAtIs
  <1> HIDE DEF out
  <1>2. m \in Nat /\ e \in [1..m -> places]
    BY <1>1 DEF KeptBy
  <1>3. Len(s) \in Nat /\ DOMAIN s = 1..Len(s) /\ \A i \in 1..Len(s) : s[i] \in T
    BY SeqIs
  <1>4. out \in [1..m -> T] /\ \A k \in 1..m : out[k] = s[e[k]]
    BY <1>1, <1>2, <1>3 DEF At
  <1>5. out \in Seq(T) /\ DOMAIN out = 1..m /\ Len(out) = m
    BY <1>2, <1>4, IsSeq
  <1>6. ToSet(out) = {s[i] : i \in places}
    <2>1. ASSUME NEW k \in 1..m PROVE out[k] \in {s[i] : i \in places}
      <3>1. e[k] \in places
        BY <1>2
      <3> QED BY <1>4, <3>1
    <2>2. ASSUME NEW p \in places PROVE \E k \in 1..m : out[k] = s[p]
      <3>1. PICK k \in 1..m : e[k] = p
        BY <1>1 DEF KeptBy
      <3> QED BY <1>4, <3>1
    <2>3. ToSet(out) = {out[k] : k \in 1..m}
      BY <1>5 DEF ToSet
    <2> HIDE DEF out
    <2> QED BY <2>1, <2>2, <2>3
  <1>7. ASSUME IsInjective(s) PROVE IsInjective(out)
    <2> SUFFICES ASSUME NEW a \in 1..m, NEW b \in 1..m, out[a] = out[b] PROVE a = b
      BY <1>5 DEF IsInjective
    <2>1. e[a] \in 1..Len(s) /\ e[b] \in 1..Len(s) /\ s[e[a]] = s[e[b]]
      BY <1>2, <1>4
    <2>2. e[a] = e[b]
      BY <1>3, <1>7, <2>1 DEF IsInjective
    <2>3. ~(a < b) /\ ~(b < a)
      BY <1>1, <2>1, <2>2 DEF KeptBy
    <2> QED BY <1>2, <2>3
  <1> QED BY <1>1, <1>5, <1>6, <1>7 DEF out

\* The places of the first of each.
Firsts(s) == {i \in DOMAIN s : \A j \in 1..(i - 1) : s[j] # s[i]}

\* Every element occurs first somewhere.
LEMMA FirstOfEach ==
  ASSUME NEW T, NEW s \in Seq(T), NEW i \in 1..Len(s)
  PROVE  \E j \in Firsts(s) : s[j] = s[i] /\ j <= i
  <1> DEFINE S == {j \in 1..Len(s) : s[j] = s[i]}
  <1>1. Len(s) \in Nat /\ DOMAIN s = 1..Len(s)
    BY SeqIs
  <1>2. S \in SUBSET Nat /\ S # {} /\ i \in S /\ S \subseteq 1..Len(s)
    BY <1>1
  <1>3. PICK j \in S : \A k \in S : j <= k
    <2> HIDE DEF S
    <2> QED BY <1>2, Least
  <1>4. ASSUME NEW k \in 1..(j - 1) PROVE s[k] # s[j]
    <2>1. j \in 1..Len(s) /\ k \in 1..Len(s) /\ ~(j <= k)
      BY <1>1, <1>2, <1>3
    <2>2. k \notin S
      BY <1>3, <2>1
    <2> QED BY <1>3, <2>1, <2>2
  <1> QED BY <1>1, <1>2, <1>3, <1>4 DEF Firsts

\* dict.fromkeys keeps every element, once.
LEMMA DistinctSays ==
  ASSUME NEW T, NEW s \in Seq(T)
  PROVE  /\ Distinct(s) \in Seq(T) /\ ToSet(Distinct(s)) = ToSet(s)
         /\ IsInjective(Distinct(s))
         /\ \E m, e : KeptBy(s, Firsts(s), m, e) /\ Distinct(s) = At(s, m, e)
  <1>1. Len(s) \in Nat /\ DOMAIN s = 1..Len(s)
    BY SeqIs
  <1>2. Firsts(s) \in SUBSET (1..Len(s)) /\ Distinct(s) = KeptAt(s, Firsts(s))
    BY <1>1 DEF Firsts, Distinct
  <1>3. /\ Distinct(s) \in Seq(T)
        /\ ToSet(Distinct(s)) = {s[i] : i \in Firsts(s)}
    BY <1>2, KeptAtSays
  <1>4. {s[i] : i \in Firsts(s)} = ToSet(s)
    BY <1>1, <1>2, FirstOfEach DEF ToSet
  <1>5. PICK m, e : KeptBy(s, Firsts(s), m, e) /\ Distinct(s) = At(s, m, e)
    BY <1>2, KeptAtIs
  <1>6. IsInjective(Distinct(s))
    <2>1. m \in Nat /\ e \in [1..m -> Firsts(s)] /\ DOMAIN Distinct(s) = 1..m
          /\ \A k \in 1..m : Distinct(s)[k] = s[e[k]]
      BY <1>5 DEF KeptBy, At
    <2>2. ASSUME NEW a \in 1..m, NEW b \in 1..m, a < b PROVE Distinct(s)[a] # Distinct(s)[b]
      <3>1. e[a] < e[b] /\ e[a] \in 1..Len(s) /\ e[b] \in Firsts(s) /\ e[b] \in 1..Len(s)
        BY <1>2, <1>5, <2>1, <2>2 DEF KeptBy
      <3>2. e[a] \in 1..(e[b] - 1)
        BY <1>1, <3>1
      <3> QED BY <2>1, <3>1, <3>2 DEF Firsts
    <2>3. \A a, b \in 1..m : a # b => a < b \/ b < a
      BY <2>1
    <2> QED BY <2>1, <2>2, <2>3 DEF IsInjective
  <1> QED BY <1>3, <1>4, <1>5, <1>6

\* One sequence after another.
Cat(s, t) == s \o t

Follows(T, s, t, r) ==
    /\ r \in Seq(T) /\ ToSet(r) = ToSet(s) \cup ToSet(t)
    /\ Len(r) = Len(s) + Len(t)
    /\ \A i \in 1..Len(s) : r[i] = s[i]
    /\ \A i \in 1..Len(t) : r[Len(s) + i] = t[i]

\* One sequence behind another.
LEMMA ConcatSays ==
  ASSUME NEW T, NEW s \in Seq(T), NEW t \in Seq(T)
  PROVE  Follows(T, s, t, Cat(s, t))
  <1>1. /\ s \o t \in Seq(T) /\ Len(s \o t) = Len(s) + Len(t)
        /\ \A i \in 1..(Len(s) + Len(t)) :
              (s \o t)[i] = IF i <= Len(s) THEN s[i] ELSE t[i - Len(s)]
    BY ConcatProperties
  <1>2. /\ Len(s) \in Nat /\ DOMAIN s = 1..Len(s)
        /\ Len(t) \in Nat /\ DOMAIN t = 1..Len(t)
        /\ DOMAIN (s \o t) = 1..(Len(s) + Len(t))
    BY <1>1, SeqIs
  <1>3. \A i \in 1..Len(s) : i \in 1..(Len(s) + Len(t)) /\ (s \o t)[i] = s[i]
    BY <1>1, <1>2
  <1>4. \A i \in 1..Len(t) : Len(s) + i \in 1..(Len(s) + Len(t)) /\ (s \o t)[Len(s) + i] = t[i]
    BY <1>1, <1>2
  <1>5. \A i \in 1..(Len(s) + Len(t)) : i \in 1..Len(s) \/ \E j \in 1..Len(t) : i = Len(s) + j
    <2> SUFFICES ASSUME NEW i \in 1..(Len(s) + Len(t)), i \notin 1..Len(s)
                 PROVE  \E j \in 1..Len(t) : i = Len(s) + j
      OBVIOUS
    <2>1. i - Len(s) \in 1..Len(t) /\ i = Len(s) + (i - Len(s))
      BY <1>2
    <2> QED BY <2>1
  <1>6. ToSet(s \o t) = ToSet(s) \cup ToSet(t)
    <2>1. ASSUME NEW x \in ToSet(s \o t) PROVE x \in ToSet(s) \cup ToSet(t)
      <3>1. PICK i \in 1..(Len(s) + Len(t)) : x = (s \o t)[i]
        BY <1>2 DEF ToSet
      <3>2. CASE i \in 1..Len(s)
        BY <1>2, <1>3, <3>1, <3>2 DEF ToSet
      <3>3. CASE \E j \in 1..Len(t) : i = Len(s) + j
        BY <1>2, <1>4, <3>1, <3>3 DEF ToSet
      <3> QED BY <1>5, <3>2, <3>3
    <2>2. ASSUME NEW x \in ToSet(s) PROVE x \in ToSet(s \o t)
      BY <1>2, <1>3 DEF ToSet
    <2>3. ASSUME NEW x \in ToSet(t) PROVE x \in ToSet(s \o t)
      BY <1>2, <1>4 DEF ToSet
    <2> QED BY <2>1, <2>2, <2>3
  <1> QED BY <1>1, <1>3, <1>4, <1>6 DEF Cat, Follows

\* A number bounds a set of integers: the set has a greatest.
LEMMA Greatest ==
  ASSUME NEW S \in SUBSET Int, S # {}, NEW b \in Int, \A x \in S : x <= b
  PROVE  \E x \in S : \A y \in S : y <= x
  <1> DEFINE R == {k \in Nat : b - k \in S}
  <1>1. R \in SUBSET Nat /\ R # {}
    <2>1. PICK x \in S : TRUE
      OBVIOUS
    <2>2. b - x \in Nat /\ b - (b - x) = x
      OBVIOUS
    <2> QED BY <2>1, <2>2
  <1>2. PICK k \in R : \A m \in R : k <= m
    <2> HIDE DEF R
    <2> QED BY <1>1, Least
  <1>3. ASSUME NEW y \in S PROVE y <= b - k
    <2>1. b - y \in Nat /\ b - (b - y) = y
      OBVIOUS
    <2>2. k <= b - y
      BY <1>2, <2>1
    <2> QED BY <1>2, <2>2
  <1> QED BY <1>2, <1>3

\* The greatest of a set of places is one of them.
LEMMA MaxSays ==
  ASSUME NEW n \in Nat, NEW s \in SUBSET (1..n), s # {}
  PROVE  Max(s) \in s
  <1>1. s \in SUBSET Int /\ n \in Int /\ \A x \in s : x <= n
    OBVIOUS
  <1>2. \E x \in s : \A y \in s : y <= x
    BY <1>1, Greatest, Zenon
  <1>3. \A x, y \in s : x >= y <=> y <= x
    BY <1>1
  <1>4. \E x \in s : \A y \in s : x >= y
    BY <1>2, <1>3
  <1> QED BY <1>4 DEF Max

\* A sort gives back what it was given, in an order that puts nothing ahead
\* of what comes before it.
Insert(done, x, ahead) ==
    Cat(Cat(Kept(done, LAMBDA y : <<x, y>> \notin ahead), <<x>>),
        Kept(done, LAMBDA y : <<x, y>> \in ahead))

InOrder(s, ahead) == \A i, j \in DOMAIN s : i < j => <<s[j], s[i]>> \notin ahead

\* What is kept of a sequence in order is in order.
LEMMA KeptInOrder ==
  ASSUME NEW T, NEW s \in Seq(T), NEW places \in SUBSET (1..Len(s)), NEW ahead, InOrder(s, ahead)
  PROVE  InOrder(KeptAt(s, places), ahead)
  <1>1. PICK m, e : KeptBy(s, places, m, e) /\ KeptAt(s, places) = At(s, m, e)
    BY KeptAtIs
  <1>2. m \in Nat /\ e \in [1..m -> places]
    BY <1>1 DEF KeptBy
  <1>3. DOMAIN KeptAt(s, places) = 1..m /\ \A k \in 1..m : KeptAt(s, places)[k] = s[e[k]]
    BY <1>1 DEF At
  <1>4. DOMAIN s = 1..Len(s)
    BY SeqIs
  <1> SUFFICES ASSUME NEW i \in 1..m, NEW j \in 1..m, i < j
               PROVE  <<s[e[j]], s[e[i]]>> \notin ahead
    BY <1>3 DEF InOrder
  <1>5. e[i] < e[j] /\ e[i] \in 1..Len(s) /\ e[j] \in 1..Len(s)
    BY <1>1, <1>2 DEF KeptBy
  <1> QED BY <1>4, <1>5 DEF InOrder

\* An element that goes into a sequence is added to it.
LEMMA InsertSays ==
  ASSUME NEW T, NEW done \in Seq(T), NEW x \in T, NEW ahead
  PROVE  /\ Insert(done, x, ahead) \in Seq(T)
         /\ ToSet(Insert(done, x, ahead)) = ToSet(done) \cup {x}
  <1> DEFINE P == {i \in DOMAIN done : <<x, done[i]>> \notin ahead}
             Q == {i \in DOMAIN done : <<x, done[i]>> \in ahead}
             a == KeptAt(done, P)
             b == KeptAt(done, Q)
             c == Cat(a, <<x>>)
  <1>1. DOMAIN done = 1..Len(done) /\ P \in SUBSET (1..Len(done)) /\ Q \in SUBSET (1..Len(done))
    BY SeqIs
  <1>2. Insert(done, x, ahead) = Cat(c, b)
    BY DEF Insert, Kept
  <1>3. a \in Seq(T) /\ ToSet(a) = {done[i] : i \in P}
    <2> HIDE DEF P, Q
    <2> QED BY <1>1, KeptAtSays
  <1>4. b \in Seq(T) /\ ToSet(b) = {done[i] : i \in Q}
    <2> HIDE DEF P, Q
    <2> QED BY <1>1, KeptAtSays
  <1>5. <<x>> \in Seq(T) /\ ToSet(<<x>>) = {x}
    BY DEF ToSet
  <1> HIDE DEF a, b, P, Q
  <1>6. a \in Seq(T) /\ b \in Seq(T) /\ <<x>> \in Seq(T)
    BY <1>3, <1>4, <1>5
  <1>7. c \in Seq(T) /\ ToSet(c) = ToSet(a) \cup ToSet(<<x>>)
    <2>1. Follows(T, a, <<x>>, c)
      BY <1>6, ConcatSays
    <2> QED BY <2>1 DEF Follows
  <1> HIDE DEF c
  <1>8. Cat(c, b) \in Seq(T) /\ ToSet(Cat(c, b)) = ToSet(c) \cup ToSet(b)
    <2>1. Follows(T, c, b, Cat(c, b))
      BY <1>6, <1>7, ConcatSays
    <2> QED BY <2>1 DEF Follows
  <1>9. ToSet(a) \cup ToSet(b) = ToSet(done)
    <2>1. DOMAIN done = P \cup Q
      BY DEF P, Q
    <2>2. ToSet(done) = {done[i] : i \in P \cup Q}
      BY <2>1, Zenon DEF ToSet
    <2> QED BY <1>3, <1>4, <2>2
  <1>10. ToSet(Cat(c, b)) = ToSet(done) \cup {x}
    BY <1>5, <1>7, <1>8, <1>9
  <1> QED BY <1>2, <1>8, <1>10

\* ahead is a strict order.
Strictly(ahead) ==
    /\ \A x, y, z : <<x, y>> \in ahead /\ <<y, z>> \in ahead => <<x, z>> \in ahead
    /\ \A x : <<x, x>> \notin ahead

\* It goes in where the order wants it.
LEMMA InsertInOrder ==
  ASSUME NEW T, NEW done \in Seq(T), NEW x \in T, NEW ahead, Strictly(ahead),
         InOrder(done, ahead)
  PROVE  InOrder(Insert(done, x, ahead), ahead)
  <1> DEFINE P == {i \in DOMAIN done : <<x, done[i]>> \notin ahead}
             Q == {i \in DOMAIN done : <<x, done[i]>> \in ahead}
             a == KeptAt(done, P)
             b == KeptAt(done, Q)
  <1>1. DOMAIN done = 1..Len(done) /\ P \in SUBSET (1..Len(done)) /\ Q \in SUBSET (1..Len(done))
    BY SeqIs
  <1>2. Insert(done, x, ahead) = Cat(Cat(a, <<x>>), b)
    BY DEF Insert, Kept
  <1>3. /\ a \in Seq(T) /\ ToSet(a) = {done[i] : i \in P} /\ InOrder(a, ahead)
        /\ b \in Seq(T) /\ ToSet(b) = {done[i] : i \in Q} /\ InOrder(b, ahead)
    <2> HIDE DEF P, Q
    <2> QED BY <1>1, KeptAtSays, KeptInOrder
  <1>4. /\ \A y \in ToSet(a) : <<x, y>> \notin ahead
        /\ \A y \in ToSet(b) : <<x, y>> \in ahead
    BY <1>3
  <1> HIDE DEF a, b, P, Q
  <1>a. a \in Seq(T) /\ b \in Seq(T) /\ <<x>> \in Seq(T)
    BY <1>3
  <1>5. /\ <<x>> \in Seq(T) /\ Len(<<x>>) = 1 /\ <<x>>[1] = x
        /\ Len(a) \in Nat /\ DOMAIN a = 1..Len(a) /\ \A i \in 1..Len(a) : a[i] \in ToSet(a)
        /\ Len(b) \in Nat /\ DOMAIN b = 1..Len(b) /\ \A i \in 1..Len(b) : b[i] \in ToSet(b)
    <2>1. /\ Len(a) \in Nat /\ DOMAIN a = 1..Len(a) /\ \A i \in 1..Len(a) : a[i] \in ToSet(a)
          /\ Len(b) \in Nat /\ DOMAIN b = 1..Len(b) /\ \A i \in 1..Len(b) : b[i] \in ToSet(b)
      BY <1>3, SeqIs
    <2> QED BY <2>1
  <1> DEFINE c == Cat(a, <<x>>)
             n == Len(a)
  <1>6. /\ c \in Seq(T) /\ Len(c) = n + 1 /\ c[n + 1] = x
        /\ \A i \in 1..n : c[i] = a[i]
    <2>1. /\ c \in Seq(T) /\ Len(c) = Len(a) + Len(<<x>>)
          /\ \A i \in 1..Len(a) : c[i] = a[i]
          /\ \A i \in 1..Len(<<x>>) : c[Len(a) + i] = <<x>>[i]
      <3>1. Follows(T, a, <<x>>, c)
        BY <1>a, ConcatSays
      <3> HIDE DEF c
      <3> QED BY <3>1 DEF Follows
    <2>2. 1 \in 1..Len(<<x>>)
      BY <1>5
    <2> HIDE DEF c
    <2> QED BY <1>5, <2>1, <2>2
  <1> HIDE DEF c
  <1> DEFINE out == Cat(c, b)
  <1>7. /\ out \in Seq(T) /\ Len(out) = n + 1 + Len(b)
        /\ \A i \in 1..(n + 1) : out[i] = c[i]
        /\ \A i \in 1..Len(b) : out[n + 1 + i] = b[i]
    <2>1. /\ out \in Seq(T) /\ Len(out) = Len(c) + Len(b)
          /\ \A i \in 1..Len(c) : out[i] = c[i]
          /\ \A i \in 1..Len(b) : out[Len(c) + i] = b[i]
      <3>1. Follows(T, c, b, out)
        BY <1>a, <1>6, ConcatSays
      <3> HIDE DEF out
      <3> QED BY <3>1 DEF Follows
    <2> HIDE DEF out
    <2> QED BY <1>6, <2>1
  <1>8. DOMAIN out = 1..(n + 1 + Len(b))
    BY <1>7, SeqIs
  <1>9. Insert(done, x, ahead) = out
    BY <1>2 DEF c
  <1> HIDE DEF out, P, Q
  <1> SUFFICES ASSUME NEW i \in 1..(n + 1 + Len(b)), NEW j \in 1..(n + 1 + Len(b)), i < j,
                      <<out[j], out[i]>> \in ahead
               PROVE  FALSE
    BY <1>8, <1>9 DEF InOrder
  <1>10. CASE j <= n
    <2>1. i \in 1..n /\ j \in 1..n /\ i \in 1..(n + 1) /\ j \in 1..(n + 1)
      BY <1>5, <1>10
    <2>2. out[i] = a[i] /\ out[j] = a[j]
      BY <1>6, <1>7, <2>1
    <2> QED BY <1>3, <1>5, <2>1, <2>2 DEF InOrder
  <1>11. CASE j = n + 1
    <2>1. i \in 1..n /\ i \in 1..(n + 1) /\ n + 1 \in 1..(n + 1)
      BY <1>5, <1>11
    <2>2. out[i] = a[i] /\ out[j] = x
      BY <1>6, <1>7, <1>11, <2>1
    <2> QED BY <1>4, <1>5, <2>1, <2>2
  <1>12. CASE j > n + 1
    <2>1. j - (n + 1) \in 1..Len(b) /\ n + 1 + (j - (n + 1)) = j
      BY <1>5, <1>12
    <2>2. out[j] = b[j - (n + 1)] /\ <<x, out[j]>> \in ahead
      BY <1>4, <1>5, <1>7, <2>1
    <2>3. <<x, out[i]>> \in ahead
      BY <2>2 DEF Strictly
    <2>4. CASE i <= n
      <3>1. i \in 1..n /\ i \in 1..(n + 1)
        BY <1>5, <2>4
      <3>2. out[i] = a[i]
        BY <1>6, <1>7, <3>1
      <3> QED BY <1>4, <1>5, <2>3, <3>1, <3>2
    <2>5. CASE i = n + 1
      <3>1. out[i] = x
        BY <1>5, <1>6, <1>7, <2>5
      <3> QED BY <2>3, <3>1 DEF Strictly
    <2>6. CASE i > n + 1
      <3>1. i - (n + 1) \in 1..Len(b) /\ n + 1 + (i - (n + 1)) = i /\ i - (n + 1) < j - (n + 1)
        BY <1>5, <2>6
      <3>2. out[i] = b[i - (n + 1)]
        BY <1>7, <3>1
      <3> QED BY <1>3, <1>5, <2>1, <2>2, <3>1, <3>2 DEF InOrder
    <2> QED BY <1>5, <2>4, <2>5, <2>6
  <1>13. n \in Nat /\ j \in Int
    BY <1>5
  <1> HIDE DEF n
  <1> QED BY <1>10, <1>11, <1>12, <1>13

\* The values of the fold.
Inserting(s, ahead, v) ==
    /\ v[0] = <<>>
    /\ \A k \in 1..Len(s) : v[k] = Insert(v[k - 1], s[k], ahead)
    /\ SortedBy(s, ahead) = v[Len(s)]

\* list.sort as a run of insertions.
LEMMA SortedRuns ==
  ASSUME NEW T, NEW s \in Seq(T), NEW ahead
  PROVE  \E v \in [0..Len(s) -> Seq(T)] : Inserting(s, ahead, v)
  <1> DEFINE n == Len(s)
             A == Seq(T)
             step == [i \in 1..n |-> [d \in A |-> Insert(d, s[i], ahead)]]
             iter == CHOOSE f : f = [x \in SUBSET DOMAIN s |->
                        IF x = {} THEN <<>> ELSE Insert(f[x \ {Max(x)}], s[Max(x)], ahead)]
  <1>1. n \in Nat /\ DOMAIN s = 1..n /\ \A i \in 1..n : s[i] \in T
    BY SeqIs
  <1>2. step \in [1..n -> [A -> A]] /\ <<>> \in A
    <2>1. \A i \in 1..n : \A d \in A : Insert(d, s[i], ahead) \in A
      BY <1>1, InsertSays
    <2> QED BY <2>1
  <1>3. SortedBy(s, ahead) = iter[1..n]
    BY <1>1 DEF SortedBy, FoldLeft, MapThenFoldSet, Insert, Cat
  <1>4. PICK f \in [SUBSET (1..n) -> A] : Folding(n, <<>>, step, f)
    <2> HIDE DEF step, n, A
    <2> QED BY <1>1, <1>2, FoldExists
  <1>5. ASSUME NEW x \in SUBSET (1..n), x # {}
        PROVE  step[Max(x)][f[x \ {Max(x)}]] = Insert(f[x \ {Max(x)}], s[Max(x)], ahead)
    <2>1. Max(x) \in 1..n
      <3> HIDE DEF n
      <3> QED BY <1>1, <1>5, MaxSays
    <2>2. f[x \ {Max(x)}] \in A
      <3> HIDE DEF n, A
      <3> QED BY <1>5
    <2> QED BY <2>1, <2>2
  <1> HIDE DEF step, A
  <1>6. f = [x \in SUBSET DOMAIN s |->
               IF x = {} THEN <<>> ELSE Insert(f[x \ {Max(x)}], s[Max(x)], ahead)]
    <2>1. [x \in SUBSET (1..n) |-> IF x = {} THEN <<>> ELSE step[Max(x)][f[x \ {Max(x)}]]]
          = [x \in SUBSET (1..n) |->
               IF x = {} THEN <<>> ELSE Insert(f[x \ {Max(x)}], s[Max(x)], ahead)]
      <3> HIDE DEF n
      <3> QED BY <1>5, Zenon
    <2>2. f = [x \in SUBSET (1..n) |-> IF x = {} THEN <<>> ELSE step[Max(x)][f[x \ {Max(x)}]]]
      BY <1>4 DEF Folding
    <2> HIDE DEF n
    <2> QED BY <1>1, <2>1, <2>2
  <1>7. iter = [x \in SUBSET DOMAIN s |->
                  IF x = {} THEN <<>> ELSE Insert(iter[x \ {Max(x)}], s[Max(x)], ahead)]
    BY <1>6, Zenon
  <1> HIDE DEF iter
  <1>8. OnSets(n, iter)
    BY <1>1, <1>7, Zenon DEF OnSets
  <1>9. Stepping(n, A, <<>>, step, iter)
    <2>1. iter = [x \in SUBSET (1..n) |->
                    IF x = {} THEN <<>> ELSE Insert(iter[x \ {Max(x)}], s[Max(x)], ahead)]
      BY <1>1, <1>7, Zenon
    <2> HIDE DEF n
    <2>2. iter[{}] = <<>>
      <3>1. {} \in SUBSET (1..n)
        OBVIOUS
      <3> QED BY <2>1, <3>1
    <2>3. ASSUME NEW x \in SUBSET (1..n), x # {}, iter[x \ {Max(x)}] \in A
          PROVE  iter[x] = step[Max(x)][iter[x \ {Max(x)}]]
      <3>1. Max(x) \in 1..n
        BY <1>1, <2>3, MaxSays
      <3>2. step[Max(x)][iter[x \ {Max(x)}]] = Insert(iter[x \ {Max(x)}], s[Max(x)], ahead)
        BY <2>3, <3>1 DEF step
      <3> QED BY <2>1, <2>3, <3>2
    <2> QED BY <2>2, <2>3 DEF Stepping
  <1>10. PICK v \in [0..n -> A] : Running(n, <<>>, step, v) /\ iter[1..n] = v[n]
    <2>1. n \in Nat
      BY <1>1
    <2> HIDE DEF n
    <2>2. FoldsTo(n, A, <<>>, step, iter[1..n])
      BY <1>2, <1>8, <1>9, <2>1, FoldRuns
    <2> QED BY <2>2 DEF FoldsTo
  <1>11. v[0] = <<>> /\ \A k \in 1..n : v[k] = step[k][v[k - 1]]
    BY <1>10 DEF Running
  <1>12. ASSUME NEW k \in 1..n PROVE v[k] = Insert(v[k - 1], s[k], ahead)
    <2>1. k - 1 \in 0..n
      BY <1>1
    <2>2. v[k - 1] \in A
      BY <1>10, <2>1
    <2> QED BY <1>11, <2>2 DEF step
  <1>13. Inserting(s, ahead, v)
    BY <1>3, <1>10, <1>11, <1>12 DEF Inserting
  <1> QED BY <1>10, <1>13 DEF A

\* A sorted sequence has the same elements, in order if the order is strict.
LEMMA SortedSays ==
  ASSUME NEW T, NEW s \in Seq(T), NEW ahead
  PROVE  /\ SortedBy(s, ahead) \in Seq(T) /\ ToSet(SortedBy(s, ahead)) = ToSet(s)
         /\ Strictly(ahead) => InOrder(SortedBy(s, ahead), ahead)
  <1>1. PICK v \in [0..Len(s) -> Seq(T)] : Inserting(s, ahead, v)
    BY SortedRuns
  <1> DEFINE n == Len(s)
             Good(k) == /\ ToSet(v[k]) = {s[i] : i \in 1..k}
                        /\ Strictly(ahead) => InOrder(v[k], ahead)
             S == {k \in Nat : k <= n => Good(k)}
  <1>2. n \in Nat /\ DOMAIN s = 1..n /\ \A i \in 1..n : s[i] \in T
    BY SeqIs
  <1>3. /\ v[0] = <<>> /\ SortedBy(s, ahead) = v[n]
        /\ \A k \in 1..n : v[k] = Insert(v[k - 1], s[k], ahead)
    BY <1>1 DEF Inserting
  <1>4. Good(0)
    <2>1. ToSet(<<>>) = {} /\ 1..0 = {} /\ InOrder(<<>>, ahead)
      BY DEF ToSet, InOrder
    <2> QED BY <1>3, <2>1
  <1>5. ASSUME NEW k \in Nat, k + 1 <= n, Good(k) PROVE Good(k + 1)
    <2> HIDE DEF n
    <2>0. k + 1 <= n
      BY <1>5
    <2>1. k + 1 \in 1..n /\ (k + 1) - 1 = k /\ k \in 0..n
      BY <1>2, <2>0
    <2>2. v[k + 1] = Insert(v[k], s[k + 1], ahead)
      BY <1>3, <2>1
    <2>3. v[k] \in Seq(T) /\ s[k + 1] \in T
      BY <1>1, <1>2, <2>1 DEF n
    <2>4. ToSet(v[k + 1]) = ToSet(v[k]) \cup {s[k + 1]}
      BY <2>2, <2>3, InsertSays
    <2>5. ToSet(v[k + 1]) = {s[i] : i \in 1..(k + 1)}
      <3>1. 1..(k + 1) = (1..k) \cup {k + 1}
        OBVIOUS
      <3> QED BY <1>5, <2>4, <3>1
    <2>6. Strictly(ahead) => InOrder(v[k + 1], ahead)
      BY <1>5, <2>2, <2>3, InsertInOrder
    <2> QED BY <2>5, <2>6
  <1> HIDE DEF Good
  <1>6. 0 \in S /\ \A k \in Nat : k \in S => k + 1 \in S
    <2> HIDE DEF n
    <2> QED BY <1>2, <1>4, <1>5
  <1> HIDE DEF S
  <1>7. n \in S
    BY <1>2, <1>6, Induct
  <1>8. Good(n)
    BY <1>2, <1>7 DEF S
  <1>9. v[n] \in Seq(T)
    BY <1>1, <1>2
  <1>10. ToSet(v[n]) = ToSet(s)
    BY <1>2, <1>8 DEF Good, ToSet
  <1> QED BY <1>3, <1>8, <1>9, <1>10 DEF Good

\* The elements of a sequence of sequences.
LEMMA FlattenSays ==
  ASSUME NEW T, NEW ss \in Seq(Seq(T))
  PROVE  /\ FlattenSeq(ss) \in Seq(T)
         /\ ToSet(FlattenSeq(ss)) = UNION {ToSet(ss[i]) : i \in DOMAIN ss}
  <1> DEFINE n == Len(ss)
             A == Seq(T)
             flat == CHOOSE f : f = [i \in 1..Len(ss) |->
                                       IF i = 1 THEN ss[i] ELSE Cat(f[i - 1], ss[i])]
             step == [i \in 1..n |-> [d \in A |-> IF i = 1 THEN ss[1] ELSE Cat(d, ss[i])]]
  <1>1. n \in Nat /\ DOMAIN ss = 1..n /\ \A i \in 1..n : ss[i] \in A
    BY SeqIs
  <1>2. CASE n = 0
    <2>1. FlattenSeq(ss) = ss
      BY <1>2 DEF FlattenSeq
    <2>2. ss = <<>> /\ DOMAIN ss = {}
      BY <1>1, <1>2
    <2> QED BY <2>1, <2>2 DEF ToSet
  <1>3. CASE n # 0
    <2>1. FlattenSeq(ss) = flat[n]
      BY <1>3 DEF FlattenSeq, Cat
    <2>2. step \in [1..n -> [A -> A]] /\ <<>> \in A
      <3>1. ASSUME NEW i \in 1..n, NEW d \in A PROVE Cat(d, ss[i]) \in A
        <4> HIDE DEF n
        <4>1. ss[i] \in Seq(T) /\ d \in Seq(T)
          BY <1>1
        <4> QED BY <4>1, ConcatSays DEF Follows
      <3>2. 1 \in 1..n
        BY <1>1, <1>3
      <3> HIDE DEF n
      <3>3. ss[1] \in A
        BY <1>1, <3>2
      <3>4. <<>> \in A
        OBVIOUS
      <3> HIDE DEF A
      <3> QED BY <3>1, <3>3, <3>4
    <2>3. PICK w \in [0..n -> A] : Recursive(n, <<>>, step, w)
      <3> HIDE DEF step, n, A
      <3> QED BY <1>1, <2>2, Recursion, Zenon
    <2>4. \A i \in 1..n : w[i] = IF i = 1 THEN ss[i] ELSE Cat(w[i - 1], ss[i])
      <3> SUFFICES ASSUME NEW i \in 1..n
                   PROVE  w[i] = IF i = 1 THEN ss[i] ELSE Cat(w[i - 1], ss[i])
        OBVIOUS
      <3>1. i \in 0..n /\ i - 1 \in 0..n /\ i # 0
        BY <1>1
      <3>2. w[i] = step[i][w[i - 1]] /\ w[i - 1] \in A
        <4> HIDE DEF step, n, A
        <4> QED BY <2>3, <3>1 DEF Recursive
      <3> QED BY <3>2
    <2> DEFINE g == [i \in 1..n |-> w[i]]
    <2>5. g = [i \in 1..n |-> IF i = 1 THEN ss[i] ELSE Cat(g[i - 1], ss[i])]
      <3>1. \A i \in 1..n : i # 1 => i - 1 \in 1..n
        BY <1>1
      <3>2. \A i \in 1..n : i # 1 => g[i - 1] = w[i - 1]
        <4> HIDE DEF n
        <4> QED BY <3>1
      <3>3. \A i \in 1..n : w[i] = IF i = 1 THEN ss[i] ELSE Cat(g[i - 1], ss[i])
        <4> HIDE DEF g, n
        <4> QED BY <2>4, <3>2
      <3> QED BY <3>3, Zenon
    <2> HIDE DEF g
    <2>6. flat = [i \in 1..n |-> IF i = 1 THEN ss[i] ELSE Cat(flat[i - 1], ss[i])]
      BY <2>5, Zenon
    <2> HIDE DEF flat
    <2> DEFINE Good(k) == /\ flat[k] \in Seq(T)
                          /\ ToSet(flat[k]) = UNION {ToSet(ss[i]) : i \in 1..k}
               S == {k \in Nat : k > 0 /\ k <= n => Good(k)}
    <2>7. ASSUME NEW k \in Nat, k + 1 <= n, k > 0 => Good(k) PROVE Good(k + 1)
      <3> HIDE DEF n
      <3>1. k + 1 \in 1..n /\ (k + 1) - 1 = k
        BY <1>1, <2>7
      <3>2. flat[k + 1] = IF k + 1 = 1 THEN ss[k + 1] ELSE Cat(flat[(k + 1) - 1], ss[k + 1])
        BY <2>6, <3>1
      <3>3. ss[k + 1] \in Seq(T)
        BY <1>1, <3>1
      <3>4. CASE k = 0
        <4>1. flat[k + 1] = ss[k + 1] /\ 1..(k + 1) = {k + 1}
          BY <3>2, <3>4
        <4> QED BY <3>3, <4>1
      <3>5. CASE k # 0
        <4>1. k > 0
          BY <3>5
        <4>2. flat[k] \in Seq(T) /\ ToSet(flat[k]) = UNION {ToSet(ss[i]) : i \in 1..k}
          <5>1. Good(k)
            <6> HIDE DEF Good
            <6> QED BY <2>7, <4>1
          <5> QED BY <5>1
        <4>3. flat[k + 1] = Cat(flat[k], ss[k + 1])
          BY <3>1, <3>2, <3>5
        <4>4. flat[k] \in Seq(T)
          BY <4>2
        <4>5. Follows(T, flat[k], ss[k + 1], flat[k + 1])
          BY <3>3, <4>3, <4>4, ConcatSays
        <4>6. flat[k + 1] \in Seq(T) /\ ToSet(flat[k + 1]) = ToSet(flat[k]) \cup ToSet(ss[k + 1])
          BY <4>5 DEF Follows
        <4>7. 1..(k + 1) = (1..k) \cup {k + 1}
          OBVIOUS
        <4> QED BY <4>2, <4>6, <4>7
      <3> QED BY <3>4, <3>5
    <2> HIDE DEF Good
    <2>8. 0 \in S /\ \A k \in Nat : k \in S => k + 1 \in S
      <3> HIDE DEF n
      <3> QED BY <1>1, <2>7
    <2> HIDE DEF S
    <2>9. n \in S
      BY <1>1, <2>8, Induct
    <2>10. Good(n)
      BY <1>1, <1>3, <2>9 DEF S
    <2> QED BY <1>1, <2>1, <2>10 DEF Good
  <1> QED BY <1>2, <1>3

\* Where an even sample takes its elements.
LEMMA EvenlySpaced ==
  ASSUME NEW size \in Nat \ {0}, NEW len \in Nat, NEW i \in 0..(size - 1), len > 0
  PROVE  (i * len) \div size \in 0..(len - 1)
  <1> DEFINE q == (i * len) \div size
  <1>1. i \in Nat /\ i < size /\ i * len \in Nat
    OBVIOUS
  <1>2. i * len < size * len
    BY <1>1
  <1>3. q \in Nat /\ size * q <= i * len
    BY <1>1
  <1>4. size * q < size * len
    BY <1>1, <1>2, <1>3
  <1>5. q < len
    <2> SUFFICES ASSUME len <= q PROVE FALSE
      BY <1>3
    <2>1. size * len <= size * q
      BY <1>3
    <2> HIDE DEF q
    <2> QED BY <1>3, <1>4, <2>1
  <1> QED BY <1>3, <1>5

\* A sample is taken from what it is a sample of.
LEMMA SampleSays ==
  ASSUME NEW T, NEW urls \in Seq(T), NEW size \in Nat \ {0}
  PROVE  Sample(urls, size) \in Seq(T) /\ ToSet(Sample(urls, size)) \subseteq ToSet(urls)
  <1> DEFINE n == Len(urls)
  <1>1. n \in Nat /\ DOMAIN urls = 1..n /\ \A i \in 1..n : urls[i] \in T
    BY SeqIs
  <1>2. CASE n <= size
    BY <1>2 DEF Sample
  <1>3. CASE ~(n <= size)
    <2> DEFINE out == [i \in 1..size |-> urls[((i - 1) * n) \div size + 1]]
    <2>1. Sample(urls, size) = out
      BY <1>3 DEF Sample, Mapped
    <2>2. \A i \in 1..size : ((i - 1) * n) \div size + 1 \in 1..n
      <3> SUFFICES ASSUME NEW i \in 1..size PROVE ((i - 1) * n) \div size + 1 \in 1..n
        OBVIOUS
      <3> HIDE DEF n
      <3>1. i - 1 \in 0..(size - 1) /\ n > 0
        BY <1>1, <1>3
      <3> DEFINE q == ((i - 1) * n) \div size
      <3>2. q \in 0..(n - 1)
        BY <1>1, <3>1, EvenlySpaced
      <3> HIDE DEF q
      <3>3. q + 1 \in 1..n
        BY <1>1, <3>2
      <3> QED BY <3>3 DEF q
    <2> HIDE DEF n
    <2>3. out \in [1..size -> ToSet(urls)] /\ ToSet(urls) \subseteq T
      BY <1>1, <2>2 DEF ToSet
    <2> HIDE DEF out
    <2>4. out \in Seq(T) /\ DOMAIN out = 1..size
      BY <2>3, IsSeq
    <2> QED BY <2>1, <2>3, <2>4 DEF ToSet
  <1> QED BY <1>1, <1>2, <1>3

\* What a test keeps.
LEMMA KeptSays ==
  ASSUME NEW T, NEW s \in Seq(T), NEW places, places = {i \in DOMAIN s : i \in places}
  PROVE  /\ KeptAt(s, places) \in Seq(T) /\ Len(KeptAt(s, places)) <= Len(s)
         /\ ToSet(KeptAt(s, places)) = {s[i] : i \in places}
         /\ ToSet(KeptAt(s, places)) \subseteq ToSet(s)
         /\ IsInjective(s) => IsInjective(KeptAt(s, places))
  <1>1. DOMAIN s = 1..Len(s) /\ places \in SUBSET (1..Len(s))
    BY SeqIs
  <1>2. /\ KeptAt(s, places) \in Seq(T) /\ Len(KeptAt(s, places)) <= Len(s)
        /\ ToSet(KeptAt(s, places)) = {s[i] : i \in places}
        /\ IsInjective(s) => IsInjective(KeptAt(s, places))
    BY <1>1, KeptAtSays
  <1>3. {s[i] : i \in places} \subseteq ToSet(s)
    BY <1>1 DEF ToSet
  <1> QED BY <1>2, <1>3

\* Topping up adds addresses of the templates, however it is spread.
LEMMA ToppedUpSays ==
  ASSUME NEW T, NEW chosen, NEW budget \in Nat,
         chosen.whole \in Seq(T), chosen.rests \in Seq(Seq(T))
  PROVE  /\ ToppedUp(chosen, budget) \in Seq(T)
         /\ chosen.rests = <<>> => ToppedUp(chosen, budget) = chosen.whole
  <1> DEFINE ahead == {pair \in ToSet(chosen.rests) \X ToSet(chosen.rests) :
                         pair[1][1].priority < pair[2][1].priority}
             r == SortedBy(chosen.rests, ahead)
             n == Len(r)
             A == Seq(T)
             Top(list, rest) == IF budget > Len(list) THEN Cat(list, Sample(rest, budget - Len(list)))
                                ELSE list
             step == [i \in 1..n |-> [d \in A |-> Top(d, r[i])]]
             iter == CHOOSE f : f = [x \in SUBSET DOMAIN r |->
                        IF x = {} THEN chosen.whole ELSE Top(f[x \ {Max(x)}], r[Max(x)])]
  <1>1. r \in Seq(Seq(T)) /\ ToSet(r) = ToSet(chosen.rests)
    <2> HIDE DEF ahead
    <2> QED BY SortedSays
  <1>2. ToppedUp(chosen, budget) = iter[DOMAIN r]
    BY DEF ToppedUp, FoldLeft, MapThenFoldSet, Sorted, Cat
  <1> HIDE DEF r
  <1>3. n \in Nat /\ DOMAIN r = 1..n /\ \A i \in 1..n : r[i] \in A
    BY <1>1, SeqIs
  <1>4. ASSUME NEW d \in A, NEW rest \in A PROVE Top(d, rest) \in A
    <2>1. Len(d) \in Nat
      BY LenProperties
    <2>2. CASE budget > Len(d)
      <3>1. budget - Len(d) \in Nat \ {0}
        BY <2>1, <2>2
      <3>2. Sample(rest, budget - Len(d)) \in Seq(T)
        BY <3>1, SampleSays
      <3>3. Follows(T, d, Sample(rest, budget - Len(d)), Cat(d, Sample(rest, budget - Len(d))))
        BY <3>2, ConcatSays
      <3>4. Cat(d, Sample(rest, budget - Len(d))) \in Seq(T)
        BY <3>3 DEF Follows
      <3> QED BY <2>2, <3>4
    <2>3. CASE ~(budget > Len(d))
      BY <2>3
    <2> QED BY <2>2, <2>3
  <1>5. chosen.whole \in A /\ step \in [1..n -> [A -> A]]
    <2>1. chosen.whole \in A
      OBVIOUS
    <2> HIDE DEF A, n, Top
    <2> QED BY <1>3, <1>4, <2>1
  <1> HIDE DEF Top, A
  <1>6. PICK f \in [SUBSET (1..n) -> A] : Folding(n, chosen.whole, step, f)
    <2> HIDE DEF step, n
    <2> QED BY <1>3, <1>5, FoldExists
  <1>7. ASSUME NEW x \in SUBSET (1..n), x # {}, NEW d \in A
        PROVE  step[Max(x)][d] = Top(d, r[Max(x)])
    <2> HIDE DEF n
    <2>1. Max(x) \in 1..n
      BY <1>3, <1>7, MaxSays
    <2> QED BY <2>1
  <1> HIDE DEF step
  <1>8. f = [x \in SUBSET (1..n) |->
               IF x = {} THEN chosen.whole ELSE Top(f[x \ {Max(x)}], r[Max(x)])]
    <2>1. \A x \in SUBSET (1..n) : f[x \ {Max(x)}] \in A
      <3> HIDE DEF n
      <3> QED OBVIOUS
    <2>2. [x \in SUBSET (1..n) |-> IF x = {} THEN chosen.whole ELSE step[Max(x)][f[x \ {Max(x)}]]]
          = [x \in SUBSET (1..n) |->
               IF x = {} THEN chosen.whole ELSE Top(f[x \ {Max(x)}], r[Max(x)])]
      <3> HIDE DEF n
      <3> QED BY <1>7, <2>1, Zenon
    <2> QED BY <1>6, <2>2, Zenon DEF Folding
  <1>9. iter = [x \in SUBSET (1..n) |->
                  IF x = {} THEN chosen.whole ELSE Top(iter[x \ {Max(x)}], r[Max(x)])]
    BY <1>3, <1>8, Zenon
  <1> HIDE DEF iter
  <1>10. OnSets(n, iter)
    BY <1>9, Zenon DEF OnSets
  <1>11. Stepping(n, A, chosen.whole, step, iter)
    <2> HIDE DEF n
    <2>1. iter[{}] = chosen.whole
      <3>1. {} \in SUBSET (1..n)
        OBVIOUS
      <3> QED BY <1>9, <3>1
    <2>2. ASSUME NEW x \in SUBSET (1..n), x # {}, iter[x \ {Max(x)}] \in A
          PROVE  iter[x] = step[Max(x)][iter[x \ {Max(x)}]]
      <3>1. iter[x] = Top(iter[x \ {Max(x)}], r[Max(x)])
        BY <1>9, <2>2
      <3> QED BY <1>7, <2>2, <3>1
    <2> QED BY <2>1, <2>2 DEF Stepping
  <1>12. FoldsTo(n, A, chosen.whole, step, iter[1..n])
    <2>1. n \in Nat
      BY <1>3
    <2> HIDE DEF n
    <2> QED BY <1>5, <1>10, <1>11, <2>1, FoldRuns
  <1>13. iter[1..n] \in A
    <2> HIDE DEF n
    <2> QED BY <1>3, <1>12 DEF FoldsTo
  <1>14. ASSUME chosen.rests = <<>> PROVE iter[1..n] = chosen.whole
    <2>1. ToSet(r) = {}
      BY <1>1, <1>14 DEF ToSet
    <2>2. \A i \in 1..n : r[i] \in ToSet(r)
      BY <1>3 DEF ToSet
    <2> HIDE DEF n
    <2>3. n = 0
      <3>1. n # 0 => 1 \in 1..n
        BY <1>3
      <3> QED BY <2>1, <2>2, <3>1
    <2> QED BY <1>12, <2>3 DEF FoldsTo, Running
  <1> QED BY <1>2, <1>3, <1>13, <1>14 DEF A

\* A sequence is one of its own elements.
LEMMA InSomeSeq ==
  ASSUME NEW T, NEW s \in Seq(T)
  PROVE  IsSequence(s) /\ ToSet(s) \subseteq T
  BY SeqIs DEF IsSequence

\* The templates of some addresses are a sequence.
LEMMA ClustersSay ==
  ASSUME NEW T, NEW urls \in Seq(T)
  PROVE  IsSequence(Clusters(urls))
  <1> DEFINE of == [i \in DOMAIN urls |-> TemplateOf(urls[i], urls)]
             counted == [i \in DOMAIN Distinct(of) |->
                           [template |-> Distinct(of)[i],
                            count |-> Len(Kept(of, LAMBDA u : u = Distinct(of)[i]))]]
             ahead == {pair \in ToSet(counted) \X ToSet(counted) :
                         \/ pair[1].count > pair[2].count
                         \/ /\ pair[1].count = pair[2].count
                            /\ TextBefore(pair[1].template, pair[2].template)}
  <1>1. Clusters(urls) = SortedBy(counted, ahead)
    BY DEF Clusters, Mapped, Sorted
  <1>2. IsSequence(of)
    <2>1. DOMAIN urls = 1..Len(urls) /\ Len(urls) \in Nat
      BY SeqIs
    <2>2. of \in [1..Len(urls) -> ToSet(of)]
      <3>1. DOMAIN of = 1..Len(urls) /\ of = [i \in 1..Len(urls) |-> of[i]]
        BY <2>1
      <3> HIDE DEF of
      <3> QED BY <3>1 DEF ToSet
    <2> HIDE DEF of
    <2> QED BY <2>1, <2>2, IsSeq DEF IsSequence
  <1>3. Distinct(of) \in Seq(ToSet(of))
    <2> HIDE DEF of
    <2> QED BY <1>2, DistinctSays DEF IsSequence
  <1>4. IsSequence(counted)
    <2>1. DOMAIN Distinct(of) = 1..Len(Distinct(of)) /\ Len(Distinct(of)) \in Nat
      <3> HIDE DEF of
      <3> QED BY <1>3, SeqIs
    <2>2. DOMAIN counted = 1..Len(Distinct(of)) /\ counted = [i \in 1..Len(Distinct(of)) |-> counted[i]]
      <3> HIDE DEF of
      <3> QED BY <2>1
    <2> HIDE DEF counted, of
    <2>3. counted \in [1..Len(Distinct(of)) -> ToSet(counted)]
      BY <2>2 DEF ToSet
    <2> QED BY <2>1, <2>3, IsSeq DEF IsSequence
  <1>5. SortedBy(counted, ahead) \in Seq(ToSet(counted))
    <2> HIDE DEF counted, ahead
    <2> QED BY <1>4, SortedSays DEF IsSequence
  <1> HIDE DEF counted, ahead
  <1> QED BY <1>1, <1>5, InSomeSeq

\* What one template's rule takes.
TakenBy(urls, scheme, template) ==
    LET rules == RulesFor(scheme, template)
        members == Kept(urls, LAMBDA url : Fits(url, template))
        some == Sample(members, SampleSize)
    IN  IF rules = <<>> THEN [whole |-> <<>>, rest |-> <<>>]
        ELSE CASE rules[1].action = "include" ->
                    [whole |-> Weighed(members, rules[1].priority), rest |-> <<>>]
               [] rules[1].action = "sample" ->
                    [whole |-> Weighed(some, rules[1].priority),
                     rest |-> Weighed(Kept(members, LAMBDA u : u \notin ToSet(some)),
                                      rules[1].priority)]
               [] OTHER -> [whole |-> <<>>, rest |-> <<>>]

PairsOf(T, P) == [url : T, priority : P]

\* Addresses with a priority.
LEMMA WeighedSays ==
  ASSUME NEW T, NEW s \in Seq(T), NEW P, NEW p \in P
  PROVE  /\ Weighed(s, p) \in Seq(PairsOf(T, P)) /\ DOMAIN Weighed(s, p) = DOMAIN s
         /\ \A i \in DOMAIN s : Weighed(s, p)[i] = [url |-> s[i], priority |-> p]
  <1>1. Len(s) \in Nat /\ DOMAIN s = 1..Len(s) /\ \A i \in 1..Len(s) : s[i] \in T
    BY SeqIs
  <1>2. Weighed(s, p) = [i \in DOMAIN s |-> [url |-> s[i], priority |-> p]]
    BY DEF Weighed, Mapped
  <1>3. Weighed(s, p) \in [1..Len(s) -> PairsOf(T, P)]
    BY <1>1, <1>2 DEF PairsOf
  <1> QED BY <1>1, <1>2, <1>3, IsSeq

\* What a rule takes is made of the addresses.
LEMMA TakenSays ==
  ASSUME NEW T, NEW urls \in Seq(T), NEW scheme, NEW template, NEW P,
         RulesFor(scheme, template)[1].priority \in P
  PROVE  /\ TakenBy(urls, scheme, template).whole \in Seq(PairsOf(T, P))
         /\ TakenBy(urls, scheme, template).rest \in Seq(PairsOf(T, P))
  <1> DEFINE rules == RulesFor(scheme, template)
             members == Kept(urls, LAMBDA url : Fits(url, template))
             some == Sample(members, SampleSize)
             others == Kept(members, LAMBDA u : u \notin ToSet(some))
  <1>1. TakenBy(urls, scheme, template) =
          IF rules = <<>> THEN [whole |-> <<>>, rest |-> <<>>]
          ELSE CASE rules[1].action = "include" ->
                      [whole |-> Weighed(members, rules[1].priority), rest |-> <<>>]
                 [] rules[1].action = "sample" ->
                      [whole |-> Weighed(some, rules[1].priority),
                       rest |-> Weighed(others, rules[1].priority)]
                 [] OTHER -> [whole |-> <<>>, rest |-> <<>>]
    BY Zenon DEF TakenBy
  <1>2. members \in Seq(T)
    <2> DEFINE places == {i \in DOMAIN urls : Fits(urls[i], template)}
    <2>1. places = {i \in DOMAIN urls : i \in places}
      OBVIOUS
    <2>2. members = KeptAt(urls, places)
      BY DEF Kept
    <2> HIDE DEF places, members
    <2> QED BY <2>1, <2>2, KeptSays
  <1> HIDE DEF members
  <1>3. some \in Seq(T)
    <2>1. SampleSize \in Nat \ {0}
      BY SitePlanAssumption
    <2> QED BY <1>2, <2>1, SampleSays
  <1> HIDE DEF some
  <1>4. others \in Seq(T)
    <2> DEFINE places == {i \in DOMAIN members : members[i] \notin ToSet(some)}
    <2>1. places = {i \in DOMAIN members : i \in places}
      OBVIOUS
    <2>2. others = KeptAt(members, places)
      BY DEF Kept
    <2> HIDE DEF places, others
    <2> QED BY <1>2, <2>1, <2>2, KeptSays
  <1> HIDE DEF others
  <1>5. /\ <<>> \in Seq(PairsOf(T, P))
        /\ Weighed(members, rules[1].priority) \in Seq(PairsOf(T, P))
        /\ Weighed(some, rules[1].priority) \in Seq(PairsOf(T, P))
        /\ Weighed(others, rules[1].priority) \in Seq(PairsOf(T, P))
    <2>1. <<>> \in Seq(PairsOf(T, P))
      OBVIOUS
    <2> QED BY <1>2, <1>3, <1>4, <2>1, WeighedSays
  <1> HIDE DEF rules
  <1>6. CASE rules = <<>> \/ rules[1].action \notin {"include", "sample"}
    BY <1>1, <1>5, <1>6
  <1>7. CASE rules # <<>> /\ rules[1].action = "include"
    <2>1. TakenBy(urls, scheme, template)
            = [whole |-> Weighed(members, rules[1].priority), rest |-> <<>>]
      BY <1>1, <1>7
    <2> QED BY <1>5, <2>1
  <1>8. CASE rules # <<>> /\ rules[1].action = "sample"
    BY <1>1, <1>5, <1>8
  <1> QED BY <1>6, <1>7, <1>8

\* So is what all the rules take.
LEMMA ChosenSays ==
  ASSUME NEW T, NEW urls \in Seq(T), NEW scheme
  PROVE  \E P : /\ Chosen(urls, scheme).whole \in Seq(PairsOf(T, P))
                /\ Chosen(urls, scheme).rests \in Seq(Seq(PairsOf(T, P)))
  <1> DEFINE templates == Clusters(urls)
             P == {RulesFor(scheme, templates[i].template)[1].priority : i \in DOMAIN templates}
             Q == PairsOf(T, P)
             taken == [i \in DOMAIN templates |-> TakenBy(urls, scheme, templates[i].template)]
             wholes == [i \in DOMAIN taken |-> taken[i].whole]
             rests == [i \in DOMAIN taken |-> taken[i].rest]
             some == {i \in DOMAIN rests : rests[i] # <<>>}
  <1>1. Chosen(urls, scheme) = [whole |-> FlattenSeq(wholes), rests |-> KeptAt(rests, some)]
    BY DEF Chosen, TakenBy, Mapped, Kept
  <1>2. Len(templates) \in Nat /\ DOMAIN templates = 1..Len(templates)
    BY ClustersSay, SeqIs DEF IsSequence
  <1>3. \A i \in DOMAIN templates : taken[i].whole \in Seq(Q) /\ taken[i].rest \in Seq(Q)
    <2> SUFFICES ASSUME NEW i \in DOMAIN templates
                 PROVE  taken[i].whole \in Seq(Q) /\ taken[i].rest \in Seq(Q)
      OBVIOUS
    <2>1. RulesFor(scheme, templates[i].template)[1].priority \in P
      OBVIOUS
    <2> HIDE DEF P, templates
    <2> QED BY <2>1, TakenSays
  <1> HIDE DEF templates, Q
  <1>4. DOMAIN taken = 1..Len(templates)
    BY <1>2
  <1> HIDE DEF taken
  <1>5. wholes \in [1..Len(templates) -> Seq(Q)] /\ rests \in [1..Len(templates) -> Seq(Q)]
    BY <1>2, <1>3, <1>4
  <1> HIDE DEF wholes, rests
  <1>6. wholes \in Seq(Seq(Q)) /\ rests \in Seq(Seq(Q))
    BY <1>2, <1>5, IsSeq
  <1>7. FlattenSeq(wholes) \in Seq(Q)
    BY <1>6, FlattenSays
  <1>8. KeptAt(rests, some) \in Seq(Seq(Q))
    <2>1. some = {i \in DOMAIN rests : i \in some}
      OBVIOUS
    <2> HIDE DEF some
    <2> QED BY <1>6, <2>1, KeptSays
  <1> HIDE DEF some, P
  <1> QED BY <1>1, <1>7, <1>8 DEF Q

\* The beginning of a sequence.
LEMMA FirstOfSeq ==
  ASSUME NEW T, NEW s \in Seq(T), NEW budget \in Nat, budget < Len(s)
  PROVE  /\ SubSeq(s, 1, budget) \in Seq(T) /\ Len(SubSeq(s, 1, budget)) = budget
         /\ \A i \in 1..budget : SubSeq(s, 1, budget)[i] = s[i]
  <1>1. Len(s) \in Nat /\ DOMAIN s = 1..Len(s) /\ \A i \in 1..Len(s) : s[i] \in T
    BY SeqIs
  <1>2. SubSeq(s, 1, budget) = [i \in 1..budget |-> s[i]]
    BY <1>1
  <1>3. [i \in 1..budget |-> s[i]] \in [1..budget -> T]
    BY <1>1
  <1> DEFINE out == [i \in 1..budget |-> s[i]]
  <1>4. out \in Seq(T) /\ Len(out) = budget
    <2> HIDE DEF out
    <2> QED BY <1>3, IsSeq DEF out
  <1> QED BY <1>2, <1>4

\* The crawl list has each address once, and no more than the budget.
LEMMA SelectSays ==
  ASSUME NEW T, NEW urls \in Seq(T), NEW scheme, NEW budget \in Nat \ {0}
  PROVE  /\ SelectUrls(urls, scheme, budget) \in Seq(T \cup {<<>>})
         /\ IsInjective(SelectUrls(urls, scheme, budget))
         /\ Len(SelectUrls(urls, scheme, budget)) <= budget
  <1> DEFINE topped == ToppedUp(Chosen(urls, scheme), budget)
             ahead == {pair \in ToSet(topped) \X ToSet(topped) : pair[1].priority < pair[2].priority}
             sorted == SortedBy(topped, ahead)
             bare == [i \in DOMAIN sorted |-> sorted[i].url]
             ordered == Distinct(bare)
             all == IF <<>> \in ToSet(ordered) THEN ordered ELSE Cat(<<(<<>>)>>, ordered)
             U == T \cup {<<>>}
  <1>1. SelectUrls(urls, scheme, budget) = IF budget > 0 /\ budget < Len(all) THEN SubSeq(all, 1, budget) ELSE all
    BY DEF SelectUrls, Sorted, Mapped, Cat
  <1>2. PICK P : /\ Chosen(urls, scheme).whole \in Seq(PairsOf(T, P))
                 /\ Chosen(urls, scheme).rests \in Seq(Seq(PairsOf(T, P)))
    BY ChosenSays
  <1>3. topped \in Seq(PairsOf(T, P))
    BY <1>2, ToppedUpSays
  <1> HIDE DEF topped
  <1>4. sorted \in Seq(PairsOf(T, P))
    <2> HIDE DEF ahead
    <2> QED BY <1>3, SortedSays
  <1> HIDE DEF sorted
  <1>5. bare \in Seq(T)
    <2>1. Len(sorted) \in Nat /\ DOMAIN sorted = 1..Len(sorted)
          /\ \A i \in 1..Len(sorted) : sorted[i] \in PairsOf(T, P)
      BY <1>4, SeqIs
    <2>2. bare \in [1..Len(sorted) -> T]
      BY <2>1 DEF PairsOf
    <2> HIDE DEF bare
    <2> QED BY <2>1, <2>2, IsSeq
  <1> HIDE DEF bare
  <1>6. ordered \in Seq(T) /\ IsInjective(ordered)
    BY <1>5, DistinctSays
  <1> HIDE DEF ordered
  <1>7. /\ Len(ordered) \in Nat /\ DOMAIN ordered = 1..Len(ordered)
        /\ \A i \in 1..Len(ordered) : ordered[i] \in T /\ ordered[i] \in ToSet(ordered)
    BY <1>6, SeqIs
  <1>8. all \in Seq(U) /\ IsInjective(all)
    <2>1. CASE <<>> \in ToSet(ordered)
      <3>1. ordered \in Seq(U)
        BY <1>6
      <3> QED BY <1>6, <2>1, <3>1
    <2>2. CASE <<>> \notin ToSet(ordered)
      <3> DEFINE home == <<(<<>>)>>
                 out == Cat(home, ordered)
      <3>1. home \in Seq(U) /\ ordered \in Seq(U)
        BY <1>6
      <3>2. Len(home) = 1 /\ home[1] = <<>>
        OBVIOUS
      <3> HIDE DEF home
      <3>3. Follows(U, home, ordered, out)
        BY <3>1, ConcatSays
      <3> HIDE DEF out
      <3>4. /\ out \in Seq(U) /\ Len(out) = 1 + Len(ordered) /\ out[1] = <<>>
            /\ \A i \in 1..Len(ordered) : out[1 + i] = ordered[i]
        <4>1. /\ out \in Seq(U) /\ Len(out) = Len(home) + Len(ordered)
              /\ \A i \in 1..Len(home) : out[i] = home[i]
              /\ \A i \in 1..Len(ordered) : out[Len(home) + i] = ordered[i]
          BY <3>3 DEF Follows
        <4>2. 1 \in 1..1
          OBVIOUS
        <4> HIDE DEF U
        <4> QED BY <3>2, <4>1, <4>2
      <3>5. DOMAIN out = 1..(1 + Len(ordered))
        <4> HIDE DEF U
        <4> QED BY <3>4, SeqIs
      <3>6. ASSUME NEW a \in DOMAIN out, NEW b \in DOMAIN out, out[a] = out[b] PROVE a = b
        <4> HIDE DEF U
        <4>1. \A i \in DOMAIN out : i # 1 =>
                 /\ i - 1 \in 1..Len(ordered) /\ out[i] = ordered[i - 1]
                 /\ out[i] # <<>>
          <5> SUFFICES ASSUME NEW i \in DOMAIN out, i # 1
                       PROVE  /\ i - 1 \in 1..Len(ordered) /\ out[i] = ordered[i - 1]
                              /\ out[i] # <<>>
            OBVIOUS
          <5>1. i - 1 \in 1..Len(ordered) /\ 1 + (i - 1) = i
            BY <1>7, <3>5
          <5>2. out[i] = ordered[i - 1]
            BY <3>4, <5>1
          <5>3. ordered[i - 1] # <<>>
            BY <1>7, <2>2, <5>1
          <5> QED BY <5>1, <5>2, <5>3
        <4>2. CASE a = 1 \/ b = 1
          BY <3>4, <3>6, <4>1, <4>2
        <4>3. CASE a # 1 /\ b # 1
          <5>1. /\ a - 1 \in DOMAIN ordered /\ b - 1 \in DOMAIN ordered
                /\ ordered[a - 1] = ordered[b - 1]
            BY <1>7, <3>6, <4>1, <4>3
          <5>2. a - 1 = b - 1
            BY <1>6, <5>1 DEF IsInjective
          <5> QED BY <3>5, <1>7, <5>2
        <4> QED BY <4>2, <4>3
      <3>7. IsInjective(out)
        BY <3>6 DEF IsInjective
      <3>8. all = out
        BY <2>2 DEF out, home
      <3> QED BY <3>4, <3>7, <3>8
    <2> QED BY <2>1, <2>2
  <1> HIDE DEF all, U
  <1>9. Len(all) \in Nat /\ DOMAIN all = 1..Len(all)
    BY <1>8, SeqIs
  <1>10. CASE budget < Len(all)
    <2> DEFINE out == SubSeq(all, 1, budget)
    <2>1. out \in Seq(U) /\ Len(out) = budget /\ \A i \in 1..budget : out[i] = all[i]
      BY <1>8, <1>10, FirstOfSeq
    <2>2. SelectUrls(urls, scheme, budget) = out
      BY <1>1, <1>10
    <2> HIDE DEF out
    <2>3. DOMAIN out = 1..budget
      BY <2>1, SeqIs
    <2>4. IsInjective(out)
      <3>1. \A i \in 1..budget : i \in DOMAIN all
        BY <1>9, <1>10
      <3> QED BY <1>8, <2>1, <2>3, <3>1 DEF IsInjective
    <2> QED BY <2>1, <2>2, <2>4 DEF U
  <1>11. CASE ~(budget < Len(all))
    BY <1>1, <1>8, <1>9, <1>11 DEF U
  <1> QED BY <1>10, <1>11

-----------------------------------------------------------------------------
(* The patterns. *)

\* A match is no longer than the path, but for the slash and the star.
LEMMA MatchLengthSays ==
  ASSUME NEW path, IsSequence(path), NEW rule, GlobOk(rule)
  PROVE  MatchLength(path, rule) \in -1..(Len(path) + 2)
  <1> DEFINE h == Len(rule.head)
             t == Len(rule.tail)
             len == Len(path)
             more == IF rule.star THEN 1 + t ELSE 0
             length == 1 + h + more
             hit == IF rule.end THEN Matches(path, rule)
                    ELSE \E n \in 0..len : Matches(SubSeq(path, 1, n), rule)
  <1>1. len \in Nat /\ h \in Nat /\ t \in Nat
    BY SeqIs DEF IsSequence, GlobOk
  <1>2. ASSUME NEW n \in 0..len
        PROVE  IsSequence(SubSeq(path, 1, n)) /\ Len(SubSeq(path, 1, n)) = n
    <2>1. SubSeq(path, 1, n) \in Seq(ToSet(path)) /\ Len(SubSeq(path, 1, n)) = n
      <3>1. CASE n = Len(path)
        <4>1. SubSeq(path, 1, n) = path
          BY <3>1 DEF IsSequence
        <4> QED BY <3>1, <4>1 DEF IsSequence
      <3>2. CASE n < Len(path)
        BY <1>1, <3>2, FirstOfSeq DEF IsSequence
      <3> QED BY <1>1, <3>1, <3>2
    <2> QED BY <2>1, InSomeSeq
  <1>3. ASSUME NEW p, IsSequence(p), Matches(p, rule)
        PROVE  (~rule.star => h <= Len(p)) /\ (rule.star => h + t <= Len(p))
    <2> DEFINE l == Len(p)
    <2>1. l \in Nat
      BY <1>3, SeqIs DEF IsSequence
    <2>2. CASE ~rule.star
      <3>1. p = rule.head
        BY <1>3, <2>2, Zenon DEF Matches
      <3>2. h <= l
        BY <1>1, <3>1
      <3> QED BY <2>2, <3>2, Zenon
    <2>3. CASE rule.star
      <3>1. PICK n \in h..l : SubSeq(p, n + 1, l) = rule.tail
        BY <1>3, <2>3, Zenon DEF Matches
      <3>2. t = l - n
        <4>1. n + 1 \in Int /\ l \in Int /\ \A i \in (n + 1)..l : p[i] \in ToSet(p)
          <5> DEFINE T == ToSet(p)
          <5>1. \A i \in 1..l : p[i] \in T
            BY <1>3, SeqIs DEF IsSequence
          <5>2. \A i \in (n + 1)..l : i \in 1..l
            BY <1>1, <2>1
          <5> HIDE DEF T
          <5>3. \A i \in (n + 1)..l : p[i] \in T
            BY <5>1, <5>2
          <5>4. n + 1 \in Int
            BY <1>1, <2>1
          <5> QED BY <2>1, <5>3, <5>4 DEF T
        <4>2. Len(SubSeq(p, n + 1, l)) = IF n + 1 <= l THEN l - (n + 1) + 1 ELSE 0
          <5> DEFINE T == ToSet(p)
          <5> HIDE DEF T
          <5>1. \A i \in (n + 1)..l : p[i] \in T
            BY <4>1 DEF T
          <5> HIDE DEF l
          <5> QED BY <4>1, <5>1, SubSeqProperties
        <4>3. t = IF n + 1 <= l THEN l - (n + 1) + 1 ELSE 0
          BY <3>1, <4>2, Zenon
        <4> HIDE DEF l, t, h
        <4> QED BY <1>1, <2>1, <4>3
      <3>3. h + t <= l
        <4> HIDE DEF l, t, h
        <4> QED BY <1>1, <2>1, <3>2
      <3> QED BY <2>3, <3>3, Zenon
    <2> QED BY <2>2, <2>3
  <1>4. MatchLength(path, rule) = IF hit THEN length ELSE -1
    <2>1. CASE rule.star
      BY <2>1, Zenon DEF MatchLength
    <2>2. CASE ~rule.star
      BY <2>2, Zenon DEF MatchLength
    <2> QED BY <2>1, <2>2, Zenon
  <1>5. (rule.star => more = 1 + t) /\ (~rule.star => more = 0)
    BY Zenon
  <1>6. ASSUME hit
        PROVE  \E p : IsSequence(p) /\ Matches(p, rule) /\ Len(p) <= len /\ Len(p) \in Nat
    <2>1. CASE rule.end
      BY <1>1, <1>6, <2>1
    <2>2. CASE ~rule.end
      <3>1. PICK n \in 0..len : Matches(SubSeq(path, 1, n), rule)
        BY <1>6, <2>2
      <3>2. IsSequence(SubSeq(path, 1, n)) /\ Len(SubSeq(path, 1, n)) = n
        BY <1>2
      <3>3. n <= len /\ n \in Nat
        BY <1>1
      <3> QED BY <3>1, <3>2, <3>3
    <2> QED BY <2>1, <2>2
  <1> HIDE DEF hit
  <1>7. length \in Nat /\ (hit => length <= len + 2)
    <2>1. CASE rule.star
      <3>1. more = 1 + t
        BY <1>5, <2>1, Zenon
      <3>2. hit => \E l \in Nat : h + t <= l /\ l <= len
        BY <1>3, <1>6, <2>1, Zenon
      <3> HIDE DEF h, t, len, more
      <3> QED BY <1>1, <3>1, <3>2
    <2>2. CASE ~rule.star
      <3>1. more = 0
        BY <1>5, <2>2, Zenon
      <3>2. hit => \E l \in Nat : h <= l /\ l <= len
        BY <1>3, <1>6, <2>2, Zenon
      <3> HIDE DEF h, t, len, more
      <3> QED BY <1>1, <3>1, <3>2
    <2> QED BY <2>1, <2>2, Zenon
  <1> HIDE DEF h, t, length
  <1>8. CASE hit
    <2>1. MatchLength(path, rule) = length
      BY <1>4, <1>8, Zenon
    <2> HIDE DEF len
    <2>2. MatchLength(path, rule) \in -1..(len + 2)
      BY <1>1, <1>7, <1>8, <2>1
    <2> QED BY <2>2 DEF len
  <1>9. CASE ~hit
    <2>1. MatchLength(path, rule) = -1
      BY <1>4, <1>9, Zenon
    <2> QED BY <1>1, <2>1
  <1> QED BY <1>8, <1>9

\* The longest match of some rules, or -1.
LEMMA LongestSays ==
  ASSUME NEW path, IsSequence(path), NEW rules, \A rule \in rules : GlobOk(rule)
  PROVE  /\ Longest(path, rules) \in Int
         /\ Longest(path, rules) = -1 \/ \E rule \in rules : MatchLength(path, rule) = Longest(path, rules)
         /\ -1 <= Longest(path, rules)
         /\ \A rule \in rules : MatchLength(path, rule) <= Longest(path, rules)
  <1> DEFINE lengths == {MatchLength(path, rule) : rule \in rules} \cup {-1}
  <1>1. Len(path) \in Nat
    BY SeqIs DEF IsSequence
  <1>2. \A rule \in rules : MatchLength(path, rule) \in -1..(Len(path) + 2)
    BY MatchLengthSays
  <1>3. lengths \in SUBSET Int /\ lengths # {} /\ Len(path) + 2 \in Int
        /\ \A n \in lengths : n <= Len(path) + 2
    BY <1>1, <1>2
  <1>4. \E n \in lengths : \A m \in lengths : m <= n
    <2> HIDE DEF lengths
    <2> QED BY <1>3, Greatest, Zenon
  <1>5. Longest(path, rules) = CHOOSE n \in lengths : \A m \in lengths : m <= n
    BY DEF Longest
  <1>6. Longest(path, rules) \in lengths /\ \A m \in lengths : m <= Longest(path, rules)
    <2> HIDE DEF lengths
    <2> QED BY <1>4, <1>5
  <1> QED BY <1>3, <1>6

\* path_is_allowed is what it promises.
LEMMA AllowedMeans ==
  ASSUME NEW path, IsSequence(path), NEW robots,
         \A rule \in robots.disallowed \cup robots.allowed : GlobOk(rule)
  PROVE  PathIsAllowed(path, robots) <=>
           ~ \E rule \in robots.disallowed :
                /\ MatchLength(path, rule) >= 0
                /\ \A other \in robots.allowed : MatchLength(path, other) < MatchLength(path, rule)
  <1> DEFINE block == Longest(path, robots.disallowed)
             pass == Longest(path, robots.allowed)
  <1>1. /\ block \in Int
        /\ block = -1 \/ \E rule \in robots.disallowed : MatchLength(path, rule) = block
        /\ -1 <= block /\ \A rule \in robots.disallowed : MatchLength(path, rule) <= block
    BY LongestSays
  <1>2. /\ pass \in Int
        /\ pass = -1 \/ \E rule \in robots.allowed : MatchLength(path, rule) = pass
        /\ -1 <= pass /\ \A rule \in robots.allowed : MatchLength(path, rule) <= pass
    BY LongestSays
  <1>3. PathIsAllowed(path, robots) <=> block < 0 \/ pass >= block
    BY DEF PathIsAllowed
  <1>4. \A rule \in robots.disallowed \cup robots.allowed : MatchLength(path, rule) \in Int
    <2>1. \A rule \in robots.disallowed \cup robots.allowed :
             MatchLength(path, rule) \in -1..(Len(path) + 2) /\ Len(path) \in Nat
      BY MatchLengthSays, SeqIs DEF IsSequence
    <2> QED BY <2>1
  <1> HIDE DEF block, pass
  <1>5. ASSUME NEW rule \in robots.disallowed, MatchLength(path, rule) >= 0,
               \A other \in robots.allowed : MatchLength(path, other) < MatchLength(path, rule)
        PROVE  ~(block < 0 \/ pass >= block)
    BY <1>1, <1>2, <1>4, <1>5
  <1>6. ASSUME ~(block < 0 \/ pass >= block)
        PROVE  \E rule \in robots.disallowed :
                 /\ MatchLength(path, rule) >= 0
                 /\ \A other \in robots.allowed : MatchLength(path, other) < MatchLength(path, rule)
    <2>1. PICK rule \in robots.disallowed : MatchLength(path, rule) = block
      BY <1>1, <1>6
    <2> QED BY <1>1, <1>2, <1>4, <1>6, <2>1
  <1> QED BY <1>3, <1>5, <1>6

-----------------------------------------------------------------------------
(* What a walk is made of. *)

Pages(at) == UNION {ToSet(PagesOf(at.maps[map])) : map \in DOMAIN at.maps}
Entries(at) == [map : DOMAIN at.maps, depth : 0..MaxDepth]
Pairs(at) == [url : Pages(at), by : DOMAIN at.maps]
WalksOf(at, robots) ==
    [robots : {robots}, queue : Seq(Entries(at)), queued : SUBSET DOMAIN at.maps,
     seen : SUBSET DOMAIN at.maps, listed : Seq(Pairs(at))]

RobotsOk(robots, at) ==
    /\ robots.sitemaps \in Seq(DOMAIN at.maps)
    /\ \A rule \in robots.disallowed \cup robots.allowed : GlobOk(rule)

\* A page of a site is a path.
LEMMA PagesAreSequences ==
  ASSUME NEW at, SiteOk(at), NEW url \in Pages(at)
  PROVE  IsSequence(url)
  <1>1. PICK map \in DOMAIN at.maps : url \in ToSet(PagesOf(at.maps[map]))
    BY DEF Pages
  <1>2. MapOk(at.maps[map], at.maps)
    BY DEF SiteOk
  <1>3. CASE at.maps[map].index
    <2>1. PagesOf(at.maps[map]) = <<>>
      BY <1>3, Zenon DEF PagesOf
    <2> QED BY <1>1, <2>1 DEF ToSet
  <1>4. CASE ~at.maps[map].index
    <2>1. PagesOf(at.maps[map]) = at.maps[map].locs
      BY <1>4, Zenon DEF PagesOf
    <2>2. \A u \in ToSet(at.maps[map].locs) : IsSequence(u)
      BY <1>2, <1>4, Zenon DEF MapOk
    <2> QED BY <1>1, <2>1, <2>2
  <1> QED BY <1>3, <1>4

\* What a sitemap of a site lists.
LEMMA MapSays ==
  ASSUME NEW at, SiteOk(at), NEW map \in DOMAIN at.maps
  PROVE  /\ PagesOf(at.maps[map]) \in Seq(Pages(at))
         /\ NestedIn(at.maps[map]) \in Seq(DOMAIN at.maps)
  <1> DEFINE m == at.maps[map]
  <1>1. MapOk(m, at.maps)
    BY DEF SiteOk
  <1>2. m.locs \in Seq(ToSet(m.locs))
    BY <1>1 DEF MapOk, IsSequence
  <1>3. CASE m.index
    <2>1. PagesOf(m) = <<>> /\ NestedIn(m) = m.locs
      BY <1>3, Zenon DEF PagesOf, NestedIn
    <2>2. ToSet(m.locs) \subseteq DOMAIN at.maps
      BY <1>1, <1>3, Zenon DEF MapOk
    <2>3. m.locs \in Seq(DOMAIN at.maps)
      BY <1>2, <2>2
    <2> QED BY <2>1, <2>3
  <1>4. CASE ~m.index
    <2>1. PagesOf(m) = m.locs /\ NestedIn(m) = <<>>
      BY <1>4, Zenon DEF PagesOf, NestedIn
    <2>2. ToSet(m.locs) \subseteq Pages(at)
      BY <2>1 DEF Pages
    <2>3. m.locs \in Seq(Pages(at))
      BY <1>2, <2>2
    <2> QED BY <2>1, <2>3
  <1> QED BY <1>3, <1>4

\* What parse_robots makes of the lines of a site.
LEMMA ParseSays ==
  ASSUME NEW at, NEW lines, IsSequence(lines), \A line \in ToSet(lines) : LineOk(line, at.maps)
  PROVE  RobotsOk(ParseRobots(lines), at)
  <1> DEFINE places == {i \in DOMAIN lines : lines[i].field = "sitemap"}
             named == KeptAt(lines, places)
             robots == ParseRobots(lines)
  <1>1. robots.sitemaps = [i \in DOMAIN named |-> named[i].value]
    BY DEF ParseRobots, Mapped, Kept
  <1>2. named \in Seq(ToSet(lines)) /\ ToSet(named) = {lines[i] : i \in places}
    <2>1. places = {i \in DOMAIN lines : i \in places}
      OBVIOUS
    <2> HIDE DEF places
    <2> QED BY <2>1, KeptSays DEF IsSequence
  <1> HIDE DEF named
  <1>3. Len(named) \in Nat /\ DOMAIN named = 1..Len(named)
        /\ \A i \in 1..Len(named) : named[i] \in ToSet(named)
    BY <1>2, SeqIs
  <1>4. \A line \in ToSet(named) : line.value \in DOMAIN at.maps
    BY <1>2 DEF LineOk, ToSet
  <1>5. robots.sitemaps \in [1..Len(named) -> DOMAIN at.maps]
    BY <1>1, <1>3, <1>4
  <1>6. robots.sitemaps \in Seq(DOMAIN at.maps)
    BY <1>3, <1>5, IsSeq
  <1>7. ASSUME NEW rule \in robots.disallowed \cup robots.allowed PROVE GlobOk(rule)
    <2>1. PICK i \in DOMAIN lines : lines[i].field \in {"disallow", "allow"} /\ rule = lines[i].value
      BY <1>7 DEF ParseRobots
    <2> QED BY <2>1 DEF LineOk, ToSet
  <1> QED BY <1>6, <1>7 DEF RobotsOk

\* The same of a robots.txt that may not have answered.
LEMMA FetchedRobots ==
  ASSUME NEW at, SiteOk(at), NEW robots \in FetchRobots(at)
  PROVE  RobotsOk(robots, at)
  <1>1. RobotsOk(ParseRobots(at.robots), at)
    BY ParseSays DEF SiteOk
  <1>2. IsSequence(<<>>) /\ ToSet(<<>>) = {}
    BY DEF IsSequence, ToSet
  <1>3. RobotsOk(ParseRobots(<<>>), at)
    BY <1>2, ParseSays
  <1> QED BY <1>1, <1>3 DEF FetchRobots

\* The seeds of a walk are sitemaps of the site.
LEMMA CandidatesSay ==
  ASSUME NEW at, SiteOk(at), NEW robots, RobotsOk(robots, at)
  PROVE  Candidates(robots) \in Seq(DOMAIN at.maps)
  <1> DEFINE places == {i \in DOMAIN Conventional : Conventional[i] \notin ToSet(robots.sitemaps)}
             others == KeptAt(Conventional, places)
  <1>1. Conventional \in Seq(DOMAIN at.maps)
    BY CrawlListAssumption DEF SiteOk, IsSequence
  <1>2. others \in Seq(DOMAIN at.maps)
    <2>1. places = {i \in DOMAIN Conventional : i \in places}
      OBVIOUS
    <2> HIDE DEF places
    <2> QED BY <1>1, <2>1, KeptSays
  <1>3. Candidates(robots) = Cat(robots.sitemaps, others)
    BY DEF Candidates, Kept, Cat
  <1> HIDE DEF others
  <1>4. robots.sitemaps \in Seq(DOMAIN at.maps)
    BY DEF RobotsOk
  <1>5. Follows(DOMAIN at.maps, robots.sitemaps, others, Candidates(robots))
    BY <1>2, <1>3, <1>4, ConcatSays
  <1> QED BY <1>5 DEF Follows

\* A walk that has not asked for anything.
LEMMA NewWalkSays ==
  ASSUME NEW at, SiteOk(at), NEW robots, RobotsOk(robots, at)
  PROVE  /\ NewWalk(robots) \in WalksOf(at, robots)
         /\ NewWalk(robots).queued = ToSet(Candidates(robots))
         /\ NewWalk(robots).seen = {} /\ NewWalk(robots).listed = <<>>
         /\ DOMAIN NewWalk(robots).queue = DOMAIN Candidates(robots)
         /\ \A i \in DOMAIN Candidates(robots) :
               NewWalk(robots).queue[i] = [map |-> Candidates(robots)[i], depth |-> 0]
  <1> DEFINE c == Candidates(robots)
             q == [i \in DOMAIN c |-> [map |-> c[i], depth |-> 0]]
  <1>1. NewWalk(robots) = [robots |-> robots, queue |-> q, queued |-> ToSet(c), seen |-> {},
                           listed |-> <<>>]
    BY DEF NewWalk, Mapped
  <1>2. c \in Seq(DOMAIN at.maps)
    BY CandidatesSay
  <1> HIDE DEF c
  <1>3. Len(c) \in Nat /\ DOMAIN c = 1..Len(c) /\ ToSet(c) \subseteq DOMAIN at.maps
        /\ \A i \in 1..Len(c) : c[i] \in DOMAIN at.maps
    BY <1>2, SeqIs
  <1>4. q \in [1..Len(c) -> Entries(at)]
    <2>1. 0 \in 0..MaxDepth
      BY CrawlListAssumption
    <2> QED BY <1>3, <2>1 DEF Entries
  <1>5. DOMAIN q = DOMAIN c /\ \A i \in DOMAIN c : q[i] = [map |-> c[i], depth |-> 0]
    OBVIOUS
  <1> HIDE DEF q
  <1>6. q \in Seq(Entries(at))
    BY <1>3, <1>4, IsSeq
  <1>7. <<>> \in Seq(Pairs(at))
    OBVIOUS
  <1>8. NewWalk(robots) \in WalksOf(at, robots)
    BY <1>1, <1>3, <1>6, <1>7 DEF WalksOf
  <1> QED BY <1>1, <1>5, <1>8 DEF c

-----------------------------------------------------------------------------
(* A batch of the walk. *)

\* The sitemaps an answer adds to the queue, and the pages it lists.
FreshFrom(w, entry) ==
    IF entry.depth >= MaxDepth THEN {}
    ELSE ToSet(NestedIn(site.maps[entry.map])) \ w.queued
ListedFrom(entry) ==
    {[url |-> url, by |-> entry.map] : url \in ToSet(PagesOf(site.maps[entry.map]))}

Absorbing(w, entry, out, fresh, added, named) ==
    /\ out = [robots |-> w.robots, queue |-> Cat(w.queue, added),
              queued |-> w.queued \cup FreshFrom(w, entry), seen |-> w.seen,
              listed |-> Cat(w.listed, named)]
    /\ fresh \in Seq(DOMAIN site.maps) /\ ToSet(fresh) = FreshFrom(w, entry)
    /\ added \in Seq(Entries(site)) /\ DOMAIN added = DOMAIN fresh
    /\ \A i \in DOMAIN fresh : added[i] = [map |-> fresh[i], depth |-> entry.depth + 1]
    /\ named \in Seq(Pairs(site)) /\ ToSet(named) = ListedFrom(entry)

\* An answer adds its pages to the list, and to the queue what was never on it.
LEMMA AbsorbedSays ==
  ASSUME SiteOk(site), NEW robots, NEW w \in WalksOf(site, robots), NEW entry \in Entries(site)
  PROVE  /\ Absorbed(w, entry) \in WalksOf(site, robots)
         /\ \E fresh, added, named : Absorbing(w, entry, Absorbed(w, entry), fresh, added, named)
  <1> DEFINE map == site.maps[entry.map]
             children == NestedIn(map)
             places == {i \in DOMAIN children : children[i] \notin w.queued}
             kept == KeptAt(children, places)
             fresh == IF entry.depth >= MaxDepth THEN <<>> ELSE kept
             added == [i \in DOMAIN fresh |-> [map |-> fresh[i], depth |-> entry.depth + 1]]
             pages == PagesOf(map)
             named == [i \in DOMAIN pages |-> [url |-> pages[i], by |-> entry.map]]
  <1>1. Absorbed(w, entry) =
          [w EXCEPT !.listed = Cat(w.listed, named), !.queued = @ \cup ToSet(fresh),
                    !.queue = Cat(w.queue, added)]
    BY DEF Absorbed, Kept, Mapped, Cat
  <1>2. w = [robots |-> w.robots, queue |-> w.queue, queued |-> w.queued, seen |-> w.seen,
             listed |-> w.listed]
        /\ w.robots = robots /\ w.queue \in Seq(Entries(site)) /\ w.queued \subseteq DOMAIN site.maps
        /\ w.seen \subseteq DOMAIN site.maps /\ w.listed \in Seq(Pairs(site))
    BY DEF WalksOf
  <1>3. entry.map \in DOMAIN site.maps /\ entry.depth \in 0..MaxDepth /\ MaxDepth \in Nat
    BY CrawlListAssumption DEF Entries
  <1>4. children \in Seq(DOMAIN site.maps) /\ pages \in Seq(Pages(site))
    BY <1>3, MapSays
  <1>5. ToSet(pages) \subseteq Pages(site)
    BY <1>3 DEF Pages
  <1> HIDE DEF children, pages
  <1>6. kept \in Seq(DOMAIN site.maps) /\ ToSet(kept) = {children[i] : i \in places}
    <2>1. places = {i \in DOMAIN children : i \in places}
      OBVIOUS
    <2> HIDE DEF places
    <2> QED BY <1>4, <2>1, KeptSays
  <1>7. ToSet(kept) = ToSet(children) \ w.queued
    BY <1>6 DEF ToSet
  <1> HIDE DEF kept, places
  <1>8. fresh \in Seq(DOMAIN site.maps) /\ ToSet(fresh) = FreshFrom(w, entry)
    <2>1. CASE entry.depth >= MaxDepth
      <3>1. fresh = <<>> /\ FreshFrom(w, entry) = {}
        BY <2>1 DEF FreshFrom
      <3> HIDE DEF fresh
      <3>2. <<>> \in Seq(DOMAIN site.maps) /\ ToSet(<<>>) = {}
        BY DEF ToSet
      <3> QED BY <3>1, <3>2
    <2>2. CASE ~(entry.depth >= MaxDepth)
      BY <1>6, <1>7, <2>2 DEF FreshFrom, children
    <2> QED BY <2>1, <2>2
  <1>9. entry.depth + 1 \in 0..MaxDepth \/ fresh = <<>>
    BY <1>3
  <1> HIDE DEF fresh
  <1>10. Len(fresh) \in Nat /\ DOMAIN fresh = 1..Len(fresh)
         /\ \A i \in 1..Len(fresh) : fresh[i] \in DOMAIN site.maps
    BY <1>8, SeqIs
  <1>11. DOMAIN added = DOMAIN fresh
         /\ \A i \in DOMAIN fresh : added[i] = [map |-> fresh[i], depth |-> entry.depth + 1]
    OBVIOUS
  <1>12. added \in Seq(Entries(site))
    <2>1. CASE fresh = <<>>
      <3>1. added = <<>>
        BY <2>1
      <3> QED BY <3>1
    <2>2. CASE entry.depth + 1 \in 0..MaxDepth
      <3>1. added \in [1..Len(fresh) -> Entries(site)]
        BY <1>10, <2>2 DEF Entries
      <3> HIDE DEF added
      <3> QED BY <1>10, <3>1, IsSeq
    <2> QED BY <1>9, <2>1, <2>2
  <1> HIDE DEF added
  <1>13. named \in Seq(Pairs(site)) /\ ToSet(named) = ListedFrom(entry)
    <2>1. Len(pages) \in Nat /\ DOMAIN pages = 1..Len(pages)
          /\ \A i \in 1..Len(pages) : pages[i] \in ToSet(pages)
      BY <1>4, SeqIs
    <2>2. named \in [1..Len(pages) -> Pairs(site)]
      BY <1>3, <1>5, <2>1 DEF Pairs
    <2>3. DOMAIN named = DOMAIN pages
          /\ \A i \in DOMAIN pages : named[i] = [url |-> pages[i], by |-> entry.map]
      OBVIOUS
    <2> HIDE DEF named
    <2>4. named \in Seq(Pairs(site))
      BY <2>1, <2>2, IsSeq
    <2>5. ToSet(named) = {[url |-> pages[i], by |-> entry.map] : i \in DOMAIN pages}
      BY <2>3 DEF ToSet
    <2>6. ListedFrom(entry) = {[url |-> url, by |-> entry.map] : url \in ToSet(pages)}
      BY DEF ListedFrom, pages
    <2>7. {[url |-> pages[i], by |-> entry.map] : i \in DOMAIN pages}
          = {[url |-> url, by |-> entry.map] : url \in ToSet(pages)}
      BY DEF ToSet
    <2> QED BY <2>4, <2>5, <2>6, <2>7
  <1> HIDE DEF named
  <1>14. Absorbed(w, entry) =
           [robots |-> w.robots, queue |-> Cat(w.queue, added),
            queued |-> w.queued \cup FreshFrom(w, entry), seen |-> w.seen,
            listed |-> Cat(w.listed, named)]
    <2>1. w = [robots |-> w.robots, queue |-> w.queue, queued |-> w.queued, seen |-> w.seen,
               listed |-> w.listed]
      BY <1>2
    <2>2. ToSet(fresh) = FreshFrom(w, entry)
      BY <1>8
    <2> QED BY <1>1, <2>1, <2>2
  <1>15. Absorbing(w, entry, Absorbed(w, entry), fresh, added, named)
    BY <1>8, <1>11, <1>12, <1>13, <1>14 DEF Absorbing
  <1>16. Cat(w.queue, added) \in Seq(Entries(site))
    <2>1. Follows(Entries(site), w.queue, added, Cat(w.queue, added))
      BY <1>2, <1>12, ConcatSays
    <2> QED BY <2>1 DEF Follows
  <1>17. Cat(w.listed, named) \in Seq(Pairs(site))
    <2>1. Follows(Pairs(site), w.listed, named, Cat(w.listed, named))
      BY <1>2, <1>13, ConcatSays
    <2> QED BY <2>1 DEF Follows
  <1>18. FreshFrom(w, entry) \subseteq DOMAIN site.maps
    BY <1>8, SeqIs
  <1>19. Absorbed(w, entry) \in WalksOf(site, robots)
    BY <1>2, <1>14, <1>16, <1>17, <1>18 DEF WalksOf
  <1> QED BY <1>15, <1>19

\* The walk after each answer of a batch.
Answered(robots, w, answers, v) ==
    /\ v[0] = w
    /\ \A k \in 1..Len(answers) : v[k] = Absorbed(v[k - 1], answers[k])
    /\ FoldLeft(Absorbed, w, answers) = v[Len(answers)]

\* The answers of a batch are absorbed one after the other.
LEMMA BatchRuns ==
  ASSUME SiteOk(site), NEW robots, NEW w \in WalksOf(site, robots),
         NEW answers \in Seq(Entries(site))
  PROVE  \E v \in [0..Len(answers) -> WalksOf(site, robots)] : Answered(robots, w, answers, v)
  <1> DEFINE n == Len(answers)
             A == WalksOf(site, robots)
             step == [i \in 1..n |-> [d \in A |-> Absorbed(d, answers[i])]]
             iter == CHOOSE f : f = [x \in SUBSET DOMAIN answers |->
                        IF x = {} THEN w ELSE Absorbed(f[x \ {Max(x)}], answers[Max(x)])]
  <1>1. n \in Nat /\ DOMAIN answers = 1..n /\ \A i \in 1..n : answers[i] \in Entries(site)
    BY SeqIs
  <1>2. w \in A /\ step \in [1..n -> [A -> A]]
    <2>1. \A i \in 1..n : \A d \in A : Absorbed(d, answers[i]) \in A
      BY <1>1, AbsorbedSays
    <2> HIDE DEF A, n
    <2>2. w \in A
      BY DEF A
    <2> QED BY <2>1, <2>2
  <1>3. FoldLeft(Absorbed, w, answers) = iter[1..n]
    BY <1>1 DEF FoldLeft, MapThenFoldSet
  <1> HIDE DEF A
  <1>4. PICK f \in [SUBSET (1..n) -> A] : Folding(n, w, step, f)
    <2> HIDE DEF step, n
    <2> QED BY <1>1, <1>2, FoldExists
  <1>5. ASSUME NEW x \in SUBSET (1..n), x # {}, NEW d \in A
        PROVE  step[Max(x)][d] = Absorbed(d, answers[Max(x)])
    <2> HIDE DEF n
    <2>1. Max(x) \in 1..n
      BY <1>1, <1>5, MaxSays
    <2> QED BY <2>1
  <1>6. f = [x \in SUBSET (1..n) |->
               IF x = {} THEN w ELSE Absorbed(f[x \ {Max(x)}], answers[Max(x)])]
    <2> HIDE DEF step
    <2>1. \A x \in SUBSET (1..n) : f[x \ {Max(x)}] \in A
      <3> HIDE DEF n
      <3> QED OBVIOUS
    <2>2. [x \in SUBSET (1..n) |-> IF x = {} THEN w ELSE step[Max(x)][f[x \ {Max(x)}]]]
          = [x \in SUBSET (1..n) |->
               IF x = {} THEN w ELSE Absorbed(f[x \ {Max(x)}], answers[Max(x)])]
      <3> HIDE DEF n
      <3> QED BY <1>5, <2>1, Zenon
    <2> QED BY <1>4, <2>2, Zenon DEF Folding
  <1>7. iter = [x \in SUBSET (1..n) |->
                  IF x = {} THEN w ELSE Absorbed(iter[x \ {Max(x)}], answers[Max(x)])]
    BY <1>1, <1>6, Zenon
  <1> HIDE DEF iter
  <1>8. OnSets(n, iter)
    BY <1>7, Zenon DEF OnSets
  <1>9. Stepping(n, A, w, step, iter)
    <2> HIDE DEF n, step
    <2>1. iter[{}] = w
      <3>1. {} \in SUBSET (1..n)
        OBVIOUS
      <3> QED BY <1>7, <3>1
    <2>2. ASSUME NEW x \in SUBSET (1..n), x # {}, iter[x \ {Max(x)}] \in A
          PROVE  iter[x] = step[Max(x)][iter[x \ {Max(x)}]]
      <3>1. iter[x] = Absorbed(iter[x \ {Max(x)}], answers[Max(x)])
        BY <1>7, <2>2
      <3> QED BY <1>5, <2>2, <3>1
    <2> QED BY <2>1, <2>2 DEF Stepping
  <1>10. PICK v \in [0..n -> A] : Running(n, w, step, v) /\ iter[1..n] = v[n]
    <2>1. n \in Nat
      BY <1>1
    <2> HIDE DEF n, step
    <2>2. FoldsTo(n, A, w, step, iter[1..n])
      BY <1>2, <1>8, <1>9, <2>1, FoldRuns
    <2> QED BY <2>2 DEF FoldsTo
  <1>11. v[0] = w /\ \A k \in 1..n : v[k] = step[k][v[k - 1]]
    BY <1>10 DEF Running
  <1>12. ASSUME NEW k \in 1..n PROVE v[k] = Absorbed(v[k - 1], answers[k])
    <2>1. k - 1 \in 0..n
      BY <1>1
    <2>2. v[k - 1] \in A
      BY <1>10, <2>1
    <2> QED BY <1>11, <2>2
  <1>13. Answered(robots, w, answers, v)
    BY <1>3, <1>10, <1>11, <1>12 DEF Answered
  <1> QED BY <1>10, <1>13 DEF A

-----------------------------------------------------------------------------
(* A turn of the walk. *)

\* The entries a batch takes off the queue, those it asks for, their sitemaps,
\* the walk while they are out, and the entries that are answered.
FrontOf(w) == SubSeq(w.queue, 1, SmallerOf(Batch, Len(w.queue)))
InBatch(w) == KeptAt(FrontOf(w), {i \in DOMAIN FrontOf(w) : FrontOf(w)[i].map \notin w.seen})
Asked(w) == {InBatch(w)[i].map : i \in DOMAIN InBatch(w)}
Behind(w) == SubSeq(w.queue, Len(FrontOf(w)) + 1, Len(w.queue))
Taken(w) == [w EXCEPT !.queue = Behind(w), !.seen = @ \cup Asked(w)]
Answering(w, failed) ==
    KeptAt(InBatch(w), {i \in DOMAIN InBatch(w) : InBatch(w)[i].map \notin failed})

\* FetchBatch in terms of its parts.
LEMMA BatchIs ==
  ASSUME FetchBatch
  PROVE  \E failed \in SUBSET Asked(walk) :
            /\ walk' = FoldLeft(Absorbed, Taken(walk), Answering(walk, failed))
            /\ lost' = lost \cup failed
  BY Zenon DEF FetchBatch, Kept, FrontOf, InBatch, Asked, Behind, Taken, Answering

\* FrontOf and Behind are the two parts of the queue, and where they come from.
Parted(w, n) ==
    /\ n \in 0..Len(w.queue) /\ n <= Batch /\ (w.queue # <<>> => n > 0)
    /\ Len(FrontOf(w)) = n /\ \A i \in 1..n : FrontOf(w)[i] = w.queue[i]
    /\ Len(Behind(w)) = Len(w.queue) - n
    /\ \A i \in 1..(Len(w.queue) - n) : Behind(w)[i] = w.queue[i + n]

\* The batch is the front of the queue, at most Batch entries of it.
LEMMA FrontSays ==
  ASSUME NEW at, NEW robots, NEW w \in WalksOf(at, robots)
  PROVE  /\ FrontOf(w) \in Seq(Entries(at)) /\ Behind(w) \in Seq(Entries(at))
         /\ \E n : Parted(w, n)
  <1> DEFINE q == w.queue
             n == SmallerOf(Batch, Len(q))
  <1>1. q \in Seq(Entries(at))
    BY DEF WalksOf
  <1>2. Len(q) \in Nat /\ DOMAIN q = 1..Len(q) /\ \A i \in 1..Len(q) : q[i] \in Entries(at)
    BY <1>1, SeqIs
  <1>3. n \in 0..Len(q) /\ n <= Batch /\ n \in Nat /\ (Len(q) > 0 => n > 0)
    BY <1>2, CrawlListAssumption DEF SmallerOf
  <1>4. q # <<>> => Len(q) > 0
    BY <1>1, <1>2
  <1>5. FrontOf(w) = SubSeq(q, 1, n)
    BY DEF FrontOf
  <1> HIDE DEF q, n
  <1>6. SubSeq(q, 1, n) = [i \in 1..n |-> q[i]]
    BY <1>2, <1>3
  <1>7. FrontOf(w) \in [1..n -> Entries(at)] /\ \A i \in 1..n : FrontOf(w)[i] = q[i]
    <2>1. \A i \in 1..n : q[i] \in Entries(at)
      BY <1>2, <1>3
    <2> QED BY <1>5, <1>6, <2>1
  <1>8. FrontOf(w) \in Seq(Entries(at)) /\ Len(FrontOf(w)) = n
    BY <1>3, <1>7, IsSeq
  <1>9. Behind(w) = SubSeq(q, n + 1, Len(q))
    BY <1>8 DEF Behind, q
  <1>10. SubSeq(q, n + 1, Len(q)) = [i \in 1..(Len(q) - n) |-> q[i + n]]
    BY <1>2, <1>3
  <1>11. \A i \in 1..(Len(q) - n) : i + n \in 1..Len(q)
    BY <1>2, <1>3
  <1>12. Behind(w) = [i \in 1..(Len(q) - n) |-> q[i + n]]
    BY <1>9, <1>10
  <1>13. Behind(w) \in [1..(Len(q) - n) -> Entries(at)]
         /\ \A i \in 1..(Len(q) - n) : Behind(w)[i] = q[i + n]
    BY <1>2, <1>11, <1>12
  <1>14. Len(q) - n \in Nat
    BY <1>2, <1>3
  <1>15. Behind(w) \in Seq(Entries(at)) /\ Len(Behind(w)) = Len(q) - n
    BY <1>13, <1>14, IsSeq
  <1>16. Parted(w, n)
    BY <1>3, <1>4, <1>7, <1>8, <1>13, <1>15 DEF Parted, q
  <1> QED BY <1>8, <1>15, <1>16

\* What is asked for is what of it was not asked for before.
LEMMA TakenBatch ==
  ASSUME NEW at, NEW robots, NEW w \in WalksOf(at, robots)
  PROVE  /\ InBatch(w) \in Seq(Entries(at)) /\ Asked(w) \subseteq DOMAIN at.maps
         /\ ToSet(InBatch(w)) = {e \in ToSet(FrontOf(w)) : e.map \notin w.seen}
         /\ Asked(w) = {e.map : e \in ToSet(InBatch(w))}
         /\ Taken(w) \in WalksOf(at, robots)
         /\ Taken(w) = [robots |-> robots, queue |-> Behind(w), queued |-> w.queued,
                        seen |-> w.seen \cup Asked(w), listed |-> w.listed]
  <1> DEFINE places == {i \in DOMAIN FrontOf(w) : FrontOf(w)[i].map \notin w.seen}
  <1>1. FrontOf(w) \in Seq(Entries(at)) /\ Behind(w) \in Seq(Entries(at))
    BY FrontSays
  <1>2. /\ KeptAt(FrontOf(w), places) \in Seq(Entries(at))
        /\ ToSet(KeptAt(FrontOf(w), places)) = {FrontOf(w)[i] : i \in places}
    <2>1. places = {i \in DOMAIN FrontOf(w) : i \in places}
      OBVIOUS
    <2> HIDE DEF places
    <2> QED BY <1>1, <2>1, KeptSays
  <1>3. InBatch(w) = KeptAt(FrontOf(w), places)
    BY DEF InBatch
  <1>4. {FrontOf(w)[i] : i \in places} = {e \in ToSet(FrontOf(w)) : e.map \notin w.seen}
    BY DEF ToSet
  <1>5. Asked(w) = {e.map : e \in ToSet(InBatch(w))}
    BY DEF Asked, ToSet
  <1>6. ToSet(InBatch(w)) \subseteq Entries(at)
    BY <1>2, <1>3, SeqIs
  <1>7. Asked(w) \subseteq DOMAIN at.maps
    BY <1>5, <1>6 DEF Entries
  <1>8. w = [robots |-> robots, queue |-> w.queue, queued |-> w.queued, seen |-> w.seen,
             listed |-> w.listed]
        /\ w.queued \subseteq DOMAIN at.maps /\ w.seen \subseteq DOMAIN at.maps
        /\ w.listed \in Seq(Pairs(at))
    BY DEF WalksOf
  <1>9. Taken(w) = [robots |-> robots, queue |-> Behind(w), queued |-> w.queued,
                    seen |-> w.seen \cup Asked(w), listed |-> w.listed]
    <2>1. w = [robots |-> robots, queue |-> w.queue, queued |-> w.queued, seen |-> w.seen,
               listed |-> w.listed]
      BY <1>8
    <2> DEFINE q == Behind(w)
               a == Asked(w)
    <2>2. Taken(w) = [w EXCEPT !.queue = q, !.seen = @ \cup a]
      BY DEF Taken
    <2> HIDE DEF q, a
    <2>3. Taken(w) = [robots |-> robots, queue |-> q, queued |-> w.queued,
                      seen |-> w.seen \cup a, listed |-> w.listed]
      <3>1. w \in [robots : {robots}, queue : {w.queue}, queued : {w.queued}, seen : {w.seen},
                   listed : {w.listed}]
        BY <2>1
      <3> DEFINE s == w.seen \cup a
      <3>2. Taken(w) = [w EXCEPT !.queue = q, !.seen = s]
        BY <2>2
      <3> HIDE DEF s
      <3>3. Taken(w) \in [robots : {robots}, queue : {q}, queued : {w.queued}, seen : {s},
                          listed : {w.listed}]
        BY <3>1, <3>2
      <3>4. Taken(w) = [robots |-> robots, queue |-> q, queued |-> w.queued, seen |-> s,
                        listed |-> w.listed]
        BY <3>3
      <3> QED BY <3>4 DEF s
    <2> QED BY <2>3 DEF q, a
  <1>10. Taken(w) \in WalksOf(at, robots)
    BY <1>1, <1>7, <1>8, <1>9 DEF WalksOf
  <1> QED BY <1>2, <1>3, <1>4, <1>5, <1>7, <1>9, <1>10

\* What answers is what did not fail.
LEMMA AnsweringSays ==
  ASSUME NEW at, NEW robots, NEW w \in WalksOf(at, robots), NEW failed
  PROVE  /\ Answering(w, failed) \in Seq(Entries(at))
         /\ ToSet(Answering(w, failed)) = {e \in ToSet(InBatch(w)) : e.map \notin failed}
  <1> DEFINE places == {i \in DOMAIN InBatch(w) : InBatch(w)[i].map \notin failed}
  <1>1. InBatch(w) \in Seq(Entries(at))
    BY TakenBatch
  <1>2. /\ KeptAt(InBatch(w), places) \in Seq(Entries(at))
        /\ ToSet(KeptAt(InBatch(w), places)) = {InBatch(w)[i] : i \in places}
    <2>1. places = {i \in DOMAIN InBatch(w) : i \in places}
      OBVIOUS
    <2> HIDE DEF places
    <2> QED BY <1>1, <2>1, KeptSays
  <1>3. Answering(w, failed) = KeptAt(InBatch(w), places)
    BY DEF Answering
  <1>4. {InBatch(w)[i] : i \in places} = {e \in ToSet(InBatch(w)) : e.map \notin failed}
    BY DEF ToSet
  <1> QED BY <1>2, <1>3, <1>4

\* A turn leaves a walk of the same site.
LEMMA BatchKeepsShape ==
  ASSUME SiteOk(site), NEW robots, walk \in WalksOf(site, robots), FetchBatch
  PROVE  walk' \in WalksOf(site, robots)
  <1>1. PICK failed \in SUBSET Asked(walk) :
           walk' = FoldLeft(Absorbed, Taken(walk), Answering(walk, failed))
    BY BatchIs
  <1> DEFINE sv == Answering(walk, failed)
  <1>2. Taken(walk) \in WalksOf(site, robots) /\ sv \in Seq(Entries(site))
    BY TakenBatch, AnsweringSays
  <1>3. PICK v \in [0..Len(sv) -> WalksOf(site, robots)] : Answered(robots, Taken(walk), sv, v)
    <2> HIDE DEF sv
    <2> QED BY <1>2, BatchRuns
  <1>4. walk' = v[Len(sv)]
    BY <1>1, <1>3 DEF Answered
  <1>5. Len(sv) \in 0..Len(sv)
    <2> HIDE DEF sv
    <2>1. Len(sv) \in Nat
      BY <1>2, SeqIs
    <2> QED BY <2>1
  <1> QED BY <1>3, <1>4, <1>5

-----------------------------------------------------------------------------
(* What a run is while it lasts. *)

\* The shape of the state, and the list handed to the fetcher.
Stages == {"preflight", "review", "crawling", "fetching"}
Shape ==
    /\ SiteOk(site) /\ RobotsOk(walk.robots, site) /\ walk \in WalksOf(site, walk.robots)
    /\ stage \in Stages /\ (stage # "preflight" => cap \in Nat \ {0})
ListIsSelected ==
    stage = "fetching" => fetched.urls = CrawlListOf(Urls(walk), plan, cap, embargoed, walk.robots)

\* Every count has a tier.
LEMMA TierSays ==
  ASSUME NEW count
  PROVE  TierOf(count) \in DOMAIN Tiers
  <1> DEFINE above == {i \in DOMAIN Tiers : count < Tiers[i].below}
  <1>1. Len(Tiers) \in Nat \ {0} /\ DOMAIN Tiers = 1..Len(Tiers)
    BY SitePlanAssumption
  <1>2. TierOf(count) =
          IF above = {} THEN Len(Tiers) ELSE CHOOSE i \in above : \A j \in above : i <= j
    BY DEF TierOf
  <1>3. above \subseteq DOMAIN Tiers
    OBVIOUS
  <1> HIDE DEF above
  <1>4. CASE above = {}
    BY <1>1, <1>2, <1>4
  <1>5. CASE above # {}
    <2>1. above \in SUBSET Nat
      BY <1>1, <1>3
    <2>2. \E i \in above : \A j \in above : i <= j
      BY <1>5, <2>1, Least, Zenon
    <2>3. (CHOOSE i \in above : \A j \in above : i <= j) \in above
      BY <2>2, Zenon
    <2> QED BY <1>2, <1>3, <1>5, <2>3
  <1> QED BY <1>4, <1>5

\* The cap of a run is a positive number.
LEMMA CapSays ==
  ASSUME NEW T, NEW urls \in Seq(T), NEW indexed, NEW requested \in Nat
  PROVE  EffectiveCap(Assess(urls, indexed), requested, Configured) \in Nat \ {0}
  <1> DEFINE size == Assess(urls, indexed)
             tier == TierOf(LargerOf(CountHtml(urls), indexed.count))
             places == {i \in DOMAIN urls : urls[i] = <<>> \/ urls[i][Len(urls[i])] \notin Assets}
  <1>1. size.cap = Tiers[tier].cap /\ size.html = CountHtml(urls)
    BY DEF Assess
  <1>2. CountHtml(urls) = Len(KeptAt(urls, places))
    BY DEF CountHtml, Kept
  <1>3. CountHtml(urls) \in Nat
    <2>1. places = {i \in DOMAIN urls : i \in places}
      OBVIOUS
    <2> HIDE DEF places
    <2>2. KeptAt(urls, places) \in Seq(T)
      BY <2>1, KeptSays
    <2> QED BY <1>2, <2>2, SeqIs
  <1>4. Tiers[tier].cap \in Nat
    <2>1. tier \in DOMAIN Tiers
      BY TierSays
    <2> HIDE DEF tier
    <2>2. Tiers[tier] \in [below : Nat, cap : Nat]
      <3> DEFINE R == [below : Nat, cap : Nat]
      <3>1. Tiers \in Seq(R)
        BY SitePlanAssumption
      <3> HIDE DEF R
      <3>2. Tiers \in [1..Len(Tiers) -> R] /\ DOMAIN Tiers = 1..Len(Tiers)
        BY <3>1, SeqIs
      <3> QED BY <2>1, <3>2 DEF R
    <2> QED BY <2>2
  <1>5. Configured \in Nat \ {0}
    BY CrawlListAssumption
  <1> HIDE DEF size, tier
  <1> QED BY <1>1, <1>3, <1>4, <1>5 DEF EffectiveCap, SmallerOf, size

\* The addresses of a walk are those its sitemaps list.
LEMMA UrlsSay ==
  ASSUME NEW at, NEW robots, NEW w \in WalksOf(at, robots)
  PROVE  /\ Urls(w) \in Seq(Pages(at))
         /\ ToSet(Urls(w)) = {pair.url : pair \in ToSet(w.listed)}
  <1> DEFINE s == [i \in DOMAIN w.listed |-> w.listed[i].url]
  <1>1. w.listed \in Seq(Pairs(at))
    BY DEF WalksOf
  <1>2. Len(w.listed) \in Nat /\ DOMAIN w.listed = 1..Len(w.listed)
        /\ \A i \in 1..Len(w.listed) : w.listed[i] \in Pairs(at)
    BY <1>1, SeqIs
  <1>3. s \in [1..Len(w.listed) -> Pages(at)]
    BY <1>2 DEF Pairs
  <1>4. Urls(w) = Distinct(s)
    BY DEF Urls, Mapped
  <1>5. ToSet(s) = {pair.url : pair \in ToSet(w.listed)}
    BY DEF ToSet
  <1> HIDE DEF s
  <1>6. s \in Seq(Pages(at))
    BY <1>2, <1>3, IsSeq
  <1> QED BY <1>4, <1>5, <1>6, DistinctSays

\* The initial states, and the start of the second walk.
LEMMA WalkStarts ==
  ASSUME NEW at \in Sites, NEW robots \in FetchRobots(at)
  PROVE  /\ SiteOk(at) /\ RobotsOk(robots, at) /\ NewWalk(robots) \in WalksOf(at, robots)
         /\ NewWalk(robots).robots = robots
  <1>1. SiteOk(at)
    BY CrawlListAssumption
  <1>2. RobotsOk(robots, at)
    BY <1>1, FetchedRobots
  <1>3. NewWalk(robots) \in WalksOf(at, robots)
    BY <1>1, <1>2, NewWalkSays
  <1> QED BY <1>1, <1>2, <1>3 DEF WalksOf

\* Initially.
LEMMA ShapeInit == Init => Shape /\ ListIsSelected
  <1> SUFFICES ASSUME Init PROVE Shape /\ ListIsSelected
    OBVIOUS
  <1>1. PICK robots \in FetchRobots(site) : walk = NewWalk(robots)
    BY DEF Init
  <1>2. site \in Sites /\ stage = "preflight"
    BY DEF Init
  <1>3. SiteOk(site) /\ RobotsOk(robots, site) /\ walk \in WalksOf(site, robots)
        /\ walk.robots = robots
    BY <1>1, <1>2, WalkStarts
  <1> QED BY <1>2, <1>3 DEF Shape, ListIsSelected, Stages

\* Every step leaves it so.
LEMMA ShapeStep == Shape /\ ListIsSelected /\ [Next]_vars => (Shape /\ ListIsSelected)'
  <1> SUFFICES ASSUME Shape, ListIsSelected, [Next]_vars PROVE (Shape /\ ListIsSelected)'
    OBVIOUS
  <1> USE DEF Stages
  <1>0. SiteOk(site) /\ RobotsOk(walk.robots, site) /\ walk \in WalksOf(site, walk.robots)
        /\ stage \in Stages /\ (stage # "preflight" => cap \in Nat \ {0})
    BY DEF Shape
  <1>1. CASE Walks
    <2>1. FetchBatch /\ site' = site /\ stage' = stage /\ cap' = cap /\ stage # "fetching"
      BY <1>1 DEF Walks
    <2>2. walk' \in WalksOf(site, walk.robots)
      BY <1>0, <2>1, BatchKeepsShape
    <2>3. walk'.robots = walk.robots
      BY <2>2 DEF WalksOf
    <2>4. SiteOk(site)' /\ RobotsOk(walk.robots, site)' /\ walk' \in WalksOf(site', walk'.robots)
      BY <1>0, <2>1, <2>2, <2>3
    <2> QED BY <1>0, <2>1, <2>4 DEF Shape, ListIsSelected
  <1>2. CASE Preflight
    <2>1. /\ site' = site /\ walk' = walk /\ stage' = "review"
          /\ \E answer \in Answers, requested \in Ceilings :
                cap' = EffectiveCap(Assess(Urls(walk), IndexedCount(answer)), requested, Configured)
      BY <1>2 DEF Preflight
    <2>2. Urls(walk) \in Seq(Pages(site))
      BY <1>0, UrlsSay
    <2>3. cap' \in Nat \ {0}
      <3>1. PICK answer \in Answers, requested \in Ceilings :
               cap' = EffectiveCap(Assess(Urls(walk), IndexedCount(answer)), requested, Configured)
        BY <2>1
      <3>2. requested \in Nat
        BY CrawlListAssumption
      <3> QED BY <2>2, <3>1, <3>2, CapSays
    <2>4. SiteOk(site)' /\ RobotsOk(walk.robots, site)' /\ walk' \in WalksOf(site', walk'.robots)
      BY <1>0, <2>1
    <2> QED BY <2>1, <2>3, <2>4 DEF Shape, ListIsSelected
  <1>3. CASE Approve
    <2>1. /\ site' \in Sites /\ stage = "review" /\ stage' = "crawling"
          /\ \E ceiling \in Ceilings : cap' = IF ceiling > 0 THEN ceiling ELSE cap
          /\ \E robots \in FetchRobots(site') : walk' = NewWalk(robots)
      BY <1>3 DEF Approve
    <2>2. cap' \in Nat \ {0}
      <3>1. PICK ceiling \in Ceilings : cap' = IF ceiling > 0 THEN ceiling ELSE cap
        BY <2>1
      <3>2. ceiling \in Nat /\ cap \in Nat \ {0}
        BY <1>0, <2>1, CrawlListAssumption
      <3> QED BY <3>1, <3>2
    <2>3. PICK robots \in FetchRobots(site') : walk' = NewWalk(robots)
      BY <2>1
    <2>4. SiteOk(site') /\ RobotsOk(robots, site') /\ walk' \in WalksOf(site', robots)
          /\ walk'.robots = robots
      BY <2>1, <2>3, WalkStarts
    <2>5. SiteOk(site)' /\ RobotsOk(walk.robots, site)' /\ walk' \in WalksOf(site', walk'.robots)
      BY <2>4
    <2> QED BY <2>1, <2>2, <2>5 DEF Shape, ListIsSelected
  <1>4. CASE Select
    <2>1. UNCHANGED <<site, walk, plan, cap, embargoed>> /\ stage = "crawling" /\ stage' = "fetching"
          /\ fetched'.urls = CrawlListOf(Urls(walk), plan, cap, embargoed, walk.robots)
      BY <1>4 DEF Select
    <2>2. SiteOk(site)' /\ RobotsOk(walk.robots, site)' /\ walk' \in WalksOf(site', walk'.robots)
      BY <1>0, <2>1
    <2>3. Urls(walk)' = Urls(walk)
      BY <2>1
    <2>4. Shape'
      BY <1>0, <2>1, <2>2 DEF Shape
    <2>5. ListIsSelected'
      BY <2>1, <2>3 DEF ListIsSelected
    <2> QED BY <2>4, <2>5
  <1>5. CASE UNCHANGED vars
    <2>1. UNCHANGED <<site, walk, plan, cap, embargoed, stage, fetched>>
      BY <1>5 DEF vars
    <2>2. SiteOk(site)' /\ RobotsOk(walk.robots, site)' /\ walk' \in WalksOf(site', walk'.robots)
      BY <1>0, <2>1
    <2>3. Urls(walk)' = Urls(walk)
      BY <2>1
    <2>4. Shape'
      BY <1>0, <2>1, <2>2 DEF Shape
    <2>5. ListIsSelected'
      BY <2>1, <2>3 DEF ListIsSelected
    <2> QED BY <2>4, <2>5
  <1>6. CASE Over
    BY <1>5, <1>6 DEF Over
  <1> QED BY <1>1, <1>2, <1>3, <1>4, <1>5, <1>6 DEF Next

\* What is left of a list: within its length, each element once, by the two tests.
LeftOf(selected, budget, globs, robots, out) ==
    /\ Len(out) <= budget /\ IsInjective(out)
    /\ ToSet(out) = {url \in ToSet(selected) : /\ \A glob \in globs : ~Matches(url, glob)
                                              /\ PathIsAllowed(url, robots)}

\* The embargo and robots.txt take off the list what they cover, and nothing else.
LEMMA CrawlListSays ==
  ASSUME NEW T, NEW urls \in Seq(T), NEW p, NEW budget \in Nat \ {0}, NEW globs, NEW robots
  PROVE  LeftOf(SelectUrls(urls, p, budget), budget, globs, robots,
                CrawlListOf(urls, p, budget, globs, robots))
  <1> DEFINE s == SelectUrls(urls, p, budget)
             U == T \cup {<<>>}
             one == {i \in DOMAIN s : \A glob \in globs : ~Matches(s[i], glob)}
             left == KeptAt(s, one)
             two == {i \in DOMAIN left : PathIsAllowed(left[i], robots)}
             out == KeptAt(left, two)
  <1>1. s \in Seq(U) /\ IsInjective(s) /\ Len(s) <= budget
    BY SelectSays
  <1>2. CrawlListOf(urls, p, budget, globs, robots) = out
    BY DEF CrawlListOf, SplitDisallowed, SplitEmbargoed, Kept
  <1>3. one = {i \in DOMAIN s : i \in one} /\ two = {i \in DOMAIN left : i \in two}
    OBVIOUS
  <1>4. {s[i] : i \in one} = {url \in ToSet(s) : \A glob \in globs : ~Matches(url, glob)}
    BY DEF ToSet
  <1>5. {left[i] : i \in two} = {url \in ToSet(left) : PathIsAllowed(url, robots)}
    BY DEF ToSet
  <1> HIDE DEF s, one, two
  <1>6. /\ left \in Seq(U) /\ Len(left) <= Len(s) /\ IsInjective(left)
        /\ ToSet(left) = {s[i] : i \in one}
    BY <1>1, <1>3, KeptSays
  <1> HIDE DEF left
  <1>7. /\ out \in Seq(U) /\ Len(out) <= Len(left) /\ IsInjective(out)
        /\ ToSet(out) = {left[i] : i \in two}
    BY <1>3, <1>6, KeptSays
  <1> HIDE DEF out
  <1>8. Len(out) <= budget
    <2>1. Len(out) \in Nat /\ Len(left) \in Nat /\ Len(s) \in Nat
      BY <1>1, <1>6, <1>7, SeqIs
    <2> QED BY <1>1, <1>6, <1>7, <2>1
  <1>9. ToSet(out) = {url \in ToSet(s) : /\ \A glob \in globs : ~Matches(url, glob)
                                         /\ PathIsAllowed(url, robots)}
    BY <1>4, <1>5, <1>6, <1>7
  <1> QED BY <1>2, <1>7, <1>8, <1>9 DEF s, LeftOf

\* It implies the property.
LEMMA ShapeIsSafe == Shape /\ ListIsSelected => FetchesOnlyWhatItMay
  <1> SUFFICES ASSUME Shape, ListIsSelected, stage = "fetching"
               PROVE  LET selected == SelectUrls(Urls(walk), plan, cap)
                          Withheld(url) == \E glob \in embargoed : Matches(url, glob)
                          Barred(url) ==
                              \E rule \in walk.robots.disallowed :
                                  /\ MatchLength(url, rule) >= 0
                                  /\ \A other \in walk.robots.allowed :
                                        MatchLength(url, other) < MatchLength(url, rule)
                      IN  /\ Len(fetched.urls) <= cap /\ IsInjective(fetched.urls)
                          /\ ToSet(fetched.urls) =
                                {url \in ToSet(selected) : ~Withheld(url) /\ ~Barred(url)}
    BY DEF FetchesOnlyWhatItMay
  <1> DEFINE selected == SelectUrls(Urls(walk), plan, cap)
             Withheld(url) == \E glob \in embargoed : Matches(url, glob)
             Barred(url) ==
                 \E rule \in walk.robots.disallowed :
                     /\ MatchLength(url, rule) >= 0
                     /\ \A other \in walk.robots.allowed :
                           MatchLength(url, other) < MatchLength(url, rule)
  <1>1. SiteOk(site) /\ RobotsOk(walk.robots, site) /\ walk \in WalksOf(site, walk.robots)
        /\ cap \in Nat \ {0}
        /\ fetched.urls = CrawlListOf(Urls(walk), plan, cap, embargoed, walk.robots)
    BY DEF Shape, ListIsSelected
  <1>2. Urls(walk) \in Seq(Pages(site))
    BY <1>1, UrlsSay
  <1>3. /\ Len(fetched.urls) <= cap /\ IsInjective(fetched.urls)
        /\ ToSet(fetched.urls) = {url \in ToSet(selected) :
                                    /\ \A glob \in embargoed : ~Matches(url, glob)
                                    /\ PathIsAllowed(url, walk.robots)}
    <2>1. LeftOf(selected, cap, embargoed, walk.robots,
                 CrawlListOf(Urls(walk), plan, cap, embargoed, walk.robots))
      BY <1>1, <1>2, CrawlListSays
    <2> QED BY <1>1, <2>1 DEF LeftOf
  <1>4. ASSUME NEW url \in ToSet(selected) PROVE PathIsAllowed(url, walk.robots) <=> ~Barred(url)
    <2>1. selected \in Seq(Pages(site) \cup {<<>>})
      BY <1>1, <1>2, SelectSays
    <2>2. url \in Pages(site) \/ url = <<>>
      <3> HIDE DEF selected
      <3>1. ToSet(selected) \subseteq Pages(site) \cup {<<>>}
        BY <2>1, SeqIs
      <3> QED BY <1>4, <3>1
    <2>3. IsSequence(<<>>)
      BY DEF IsSequence
    <2>4. IsSequence(url)
      BY <1>1, <2>2, <2>3, PagesAreSequences
    <2>5. \A rule \in walk.robots.disallowed \cup walk.robots.allowed : GlobOk(rule)
      BY <1>1 DEF RobotsOk
    <2> QED BY <2>4, <2>5, AllowedMeans
  <1> HIDE DEF selected, Barred
  <1>5. ToSet(fetched.urls) = {url \in ToSet(selected) : ~Withheld(url) /\ ~Barred(url)}
    BY <1>3, <1>4
  <1> QED BY <1>3, <1>5 DEF selected, Barred

\* generate_task hands the fetcher addresses of the crawl list only, each once,
\* within the budget, and exactly those neither the embargo nor robots.txt
\* forbids, whatever the site, the plan and the review.
THEOREM FetchesOnlyWhatItMayHolds == Spec => []FetchesOnlyWhatItMay
  BY ShapeInit, ShapeStep, ShapeIsSafe, PTL DEF Spec

-----------------------------------------------------------------------------
(* The walk reaches what is within the depth limit. *)

NestedOf(map) == ToSet(NestedIn(site.maps[map]))
ListedOf(map) == {[url |-> url, by |-> map] : url \in ToSet(PagesOf(site.maps[map]))}
CandidatesOf(w) == ToSet(Candidates(w.robots))

\* d is how many links each sitemap ever queued is from the seeds, as the walk
\* found it: the queue goes from the nearer to the farther, and what was
\* queued is at most one link farther than what is still on the queue.
Depths(w, d) ==
    /\ d \in [w.queued -> 0..MaxDepth]
    /\ \A i \in 1..Len(w.queue) :
          w.queue[i].map \in w.queued /\ w.queue[i].depth = d[w.queue[i].map]
    /\ \A i, j \in 1..Len(w.queue) : i <= j => w.queue[i].depth <= w.queue[j].depth
    /\ \A map \in w.queued, i \in 1..Len(w.queue) : d[map] <= w.queue[i].depth + 1

\* done are the sitemaps that answered: what they name was queued, and what
\* was queued is a seed or named by one of them, one link nearer.
Reaching(w, done, d) ==
    /\ CandidatesOf(w) \subseteq w.queued /\ done \subseteq w.queued
    /\ \A map \in w.queued : d[map] = 0 <=> map \in CandidatesOf(w)
    /\ \A map \in done : d[map] < MaxDepth =>
          \A child \in NestedOf(map) : child \in w.queued /\ d[child] <= d[map] + 1
    /\ \A map \in w.queued :
          d[map] > 0 => \E by \in done : d[map] = d[by] + 1 /\ map \in NestedOf(by)
    /\ ToSet(w.listed) = UNION {ListedOf(map) : map \in done}

\* The entries of a batch whose answers are still to be absorbed.
Pending(w, d, answers, k) ==
    /\ \A i, j \in 1..Len(answers) : i <= j => answers[i].depth <= answers[j].depth
    /\ \A j \in (k + 1)..Len(answers) :
          /\ answers[j].map \in w.queued /\ answers[j].depth = d[answers[j].map]
          /\ \A map \in w.queued : d[map] <= answers[j].depth + 1
          /\ \A i \in 1..Len(w.queue) : answers[j].depth <= w.queue[i].depth

Deeper(w, d, entry) ==
    [map \in w.queued \cup FreshFrom(w, entry) |->
        IF map \in w.queued THEN d[map] ELSE entry.depth + 1]

\* Absorbing an answer extends the distances by what it adds to the queue.
LEMMA AbsorbKeeps ==
  ASSUME SiteOk(site), NEW robots, NEW w \in WalksOf(site, robots),
         NEW answers \in Seq(Entries(site)), NEW k \in 1..Len(answers), NEW done, NEW d,
         Depths(w, d), Reaching(w, done, d), Pending(w, d, answers, k - 1)
  PROVE  LET out == Absorbed(w, answers[k])
             e == Deeper(w, d, answers[k])
         IN  /\ Depths(out, e) /\ Reaching(out, done \cup {answers[k].map}, e)
             /\ Pending(out, e, answers, k)
  <1> DEFINE entry == answers[k]
             out == Absorbed(w, entry)
             e == Deeper(w, d, entry)
             fresh == FreshFrom(w, entry)
  <1>1. /\ Len(answers) \in Nat /\ DOMAIN answers = 1..Len(answers)
        /\ \A i \in 1..Len(answers) : answers[i] \in Entries(site)
    BY SeqIs
  <1>2. entry \in Entries(site) /\ entry.map \in DOMAIN site.maps /\ entry.depth \in 0..MaxDepth
        /\ MaxDepth \in Nat
    BY <1>1, CrawlListAssumption DEF Entries
  <1>3. PICK fr, added, named : Absorbing(w, entry, out, fr, added, named)
    BY <1>2, AbsorbedSays
  <1> HIDE DEF entry
  <1>4. /\ out.robots = w.robots /\ out.queue = Cat(w.queue, added)
        /\ out.queued = w.queued \cup fresh /\ out.listed = Cat(w.listed, named)
    BY <1>3 DEF Absorbing
  <1>5. /\ fr \in Seq(DOMAIN site.maps) /\ ToSet(fr) = fresh
        /\ added \in Seq(Entries(site)) /\ DOMAIN added = DOMAIN fr
        /\ \A i \in DOMAIN fr : added[i] = [map |-> fr[i], depth |-> entry.depth + 1]
        /\ named \in Seq(Pairs(site)) /\ ToSet(named) = ListedFrom(entry)
    BY <1>3 DEF Absorbing
  <1> DEFINE q == w.queue
             r == out.queue
             n == Len(q)
  <1>6. q \in Seq(Entries(site)) /\ w.listed \in Seq(Pairs(site))
    BY DEF WalksOf
  <1>7. Follows(Entries(site), q, added, r)
    BY <1>4, <1>5, <1>6, ConcatSays
  <1>8. ToSet(out.listed) = ToSet(w.listed) \cup ListedFrom(entry)
    <2>1. Follows(Pairs(site), w.listed, named, Cat(w.listed, named))
      BY <1>5, <1>6, ConcatSays
    <2> QED BY <1>4, <1>5, <2>1 DEF Follows
  <1>9. n \in Nat /\ Len(added) \in Nat /\ Len(r) = n + Len(added)
        /\ \A i \in 1..n : r[i] = q[i] /\ q[i] \in Entries(site)
    BY <1>5, <1>6, <1>7, SeqIs DEF Follows
  \* What stands after the old queue.
  <1>10. ASSUME NEW i \in 1..Len(added)
         PROVE  r[n + i].map \in fresh /\ r[n + i].depth = entry.depth + 1
    <2>1. i \in DOMAIN fr
      BY <1>5, SeqIs
    <2>2. added[i] = [map |-> fr[i], depth |-> entry.depth + 1] /\ fr[i] \in fresh
      BY <1>5, <2>1 DEF ToSet
    <2>3. r[n + i] = added[i]
      BY <1>7 DEF Follows
    <2> QED BY <2>2, <2>3
  <1>11. ASSUME NEW i \in 1..Len(r)
         PROVE  \/ i \in 1..n /\ r[i] = q[i]
                \/ i > n /\ r[i].map \in fresh /\ r[i].depth = entry.depth + 1
    <2> HIDE DEF n, q, r
    <2>1. CASE i <= n
      BY <1>9, <2>1
    <2>2. CASE i > n
      <3>1. i - n \in 1..Len(added) /\ n + (i - n) = i
        BY <1>9, <2>2
      <3> QED BY <1>10, <2>2, <3>1
    <2> QED BY <1>9, <2>1, <2>2
  <1>12. fresh \cap w.queued = {} /\ (fresh # {} => entry.depth < MaxDepth)
    BY <1>2 DEF FreshFrom
  <1>13. entry.depth < MaxDepth => fresh = NestedOf(entry.map) \ w.queued
    BY <1>2 DEF FreshFrom, NestedOf
  <1>14. fresh \subseteq NestedOf(entry.map)
    BY DEF FreshFrom, NestedOf
  \* What the entry at hand is to the others.
  <1>15. /\ entry.map \in w.queued /\ entry.depth = d[entry.map]
         /\ \A map \in w.queued : d[map] <= entry.depth + 1
         /\ \A i \in 1..n : entry.depth <= q[i].depth
    BY <1>1 DEF Pending, entry
  <1>16. d \in [w.queued -> 0..MaxDepth]
    BY DEF Depths
  <1>17. /\ \A map \in w.queued : e[map] = d[map] /\ e[map] \in 0..MaxDepth
         /\ \A map \in fresh : e[map] = entry.depth + 1 /\ e[map] \in 0..MaxDepth
    BY <1>2, <1>12, <1>16 DEF Deeper
  <1>18. e \in [out.queued -> 0..MaxDepth]
    <2>1. e = [map \in out.queued |-> IF map \in w.queued THEN d[map] ELSE entry.depth + 1]
      BY <1>4 DEF Deeper
    <2>2. \A map \in out.queued : e[map] \in 0..MaxDepth
      BY <1>4, <1>17
    <2> HIDE DEF e
    <2> QED BY <2>1, <2>2
  <1> HIDE DEF e, fresh, n, q, r, out
  <1>19. Depths(out, e)
    <2>1. ASSUME NEW i \in 1..Len(r)
          PROVE  r[i].map \in out.queued /\ r[i].depth = e[r[i].map]
      BY <1>4, <1>11, <1>17, <2>1 DEF Depths, n, q
    <2>2. ASSUME NEW i \in 1..Len(r), NEW j \in 1..Len(r), i <= j
          PROVE  r[i].depth <= r[j].depth
      <3>1. CASE i \in 1..n /\ j \in 1..n
        <4>1. r[i] = q[i] /\ r[j] = q[j]
          BY <1>9, <3>1
        <4> QED BY <2>2, <3>1, <4>1 DEF Depths, n, q
      <3>2. CASE i \in 1..n /\ j > n
        <4>1. r[i] = q[i] /\ q[i].map \in w.queued /\ q[i].depth = d[q[i].map]
          BY <1>9, <3>2 DEF Depths, n, q
        <4>2. q[i].depth <= entry.depth + 1
          BY <1>15, <4>1
        <4>3. r[j].depth = entry.depth + 1
          BY <1>11, <3>2, <1>9
        <4> QED BY <4>1, <4>2, <4>3
      <3>3. CASE i > n /\ j > n
        <4>1. r[i].depth = entry.depth + 1 /\ r[j].depth = entry.depth + 1
          BY <1>11, <3>3, <1>9
        <4> QED BY <1>2, <4>1
      <3> QED BY <1>9, <2>2, <3>1, <3>2, <3>3
    <2>3. ASSUME NEW map \in out.queued, NEW i \in 1..Len(r)
          PROVE  e[map] <= r[i].depth + 1
      <3>1. e[map] <= entry.depth + 1
        BY <1>2, <1>4, <1>15, <1>17
      <3>2. CASE i \in 1..n
        <4>1. r[i] = q[i] /\ entry.depth <= q[i].depth /\ q[i].depth \in Nat
          BY <1>9, <1>15, <3>2 DEF Entries
        <4> QED BY <1>2, <1>4, <1>17, <3>1, <4>1
      <3>3. CASE i > n
        <4>1. r[i].depth = entry.depth + 1
          BY <1>11, <3>3, <1>9
        <4> QED BY <1>2, <1>4, <1>17, <3>1, <4>1
      <3> QED BY <1>9, <3>2, <3>3
    <2> QED BY <1>18, <2>1, <2>2, <2>3 DEF Depths, r
  <1>20. Reaching(out, done \cup {entry.map}, e)
    <2>1. CandidatesOf(out) = CandidatesOf(w)
      BY <1>4 DEF CandidatesOf
    <2>2. CandidatesOf(out) \subseteq out.queued /\ done \cup {entry.map} \subseteq out.queued
      BY <1>4, <1>15, <2>1 DEF Reaching
    <2>3. ASSUME NEW map \in out.queued PROVE e[map] = 0 <=> map \in CandidatesOf(out)
      <3>1. CASE map \in w.queued
        BY <1>17, <2>1, <3>1 DEF Reaching
      <3>2. CASE map \in fresh
        <4>1. e[map] # 0
          BY <1>2, <1>17, <3>2
        <4>2. map \notin CandidatesOf(w)
          BY <1>12, <3>2 DEF Reaching
        <4> QED BY <2>1, <4>1, <4>2
      <3> QED BY <1>4, <3>1, <3>2
    <2>4. ASSUME NEW map \in done \cup {entry.map}, e[map] < MaxDepth, NEW child \in NestedOf(map)
          PROVE  child \in out.queued /\ e[child] <= e[map] + 1
      <3>0. map \in w.queued /\ e[map] = d[map]
        BY <1>15, <1>17 DEF Reaching
      <3>1. CASE map \in done
        <4>1. child \in w.queued /\ d[child] <= d[map] + 1
          BY <2>4, <3>0, <3>1 DEF Reaching
        <4> QED BY <1>4, <1>17, <3>0, <4>1
      <3>2. CASE map = entry.map
        <4>1. entry.depth < MaxDepth /\ e[map] = entry.depth
          BY <1>15, <2>4, <3>0, <3>2
        <4>2. child \in w.queued \/ child \in fresh
          BY <1>13, <3>2, <4>1
        <4> QED BY <1>2, <1>4, <1>15, <1>17, <4>1, <4>2
      <3> QED BY <3>1, <3>2
    <2>5. ASSUME NEW map \in out.queued, e[map] > 0
          PROVE  \E by \in done \cup {entry.map} : e[map] = e[by] + 1 /\ map \in NestedOf(by)
      <3>1. CASE map \in w.queued
        <4>1. PICK by \in done : d[map] = d[by] + 1 /\ map \in NestedOf(by)
          BY <1>17, <2>5, <3>1 DEF Reaching
        <4>2. by \in w.queued
          BY DEF Reaching
        <4> QED BY <1>17, <3>1, <4>1, <4>2
      <3>2. CASE map \in fresh
        <4>1. e[map] = entry.depth + 1 /\ map \in NestedOf(entry.map) /\ e[entry.map] = entry.depth
          BY <1>14, <1>15, <1>17, <3>2
        <4> QED BY <4>1
      <3> QED BY <1>4, <3>1, <3>2
    <2>6. ToSet(out.listed) = UNION {ListedOf(map) : map \in done \cup {entry.map}}
      <3>1. ListedFrom(entry) = ListedOf(entry.map)
        BY DEF ListedFrom, ListedOf
      <3>2. ToSet(w.listed) = UNION {ListedOf(map) : map \in done}
        BY DEF Reaching
      <3> QED BY <1>8, <3>1, <3>2
    <2> QED BY <2>2, <2>3, <2>4, <2>5, <2>6 DEF Reaching
  <1>21. Pending(out, e, answers, k)
    <2>1. \A i, j \in 1..Len(answers) : i <= j => answers[i].depth <= answers[j].depth
      BY DEF Pending
    <2>2. ASSUME NEW j \in (k + 1)..Len(answers)
          PROVE  /\ answers[j].map \in out.queued /\ answers[j].depth = e[answers[j].map]
                 /\ \A map \in out.queued : e[map] <= answers[j].depth + 1
                 /\ \A i \in 1..Len(r) : answers[j].depth <= r[i].depth
      <3>1. j \in ((k - 1) + 1)..Len(answers) /\ j \in 1..Len(answers) /\ k <= j
        BY <1>1
      <3>2. /\ answers[j].map \in w.queued /\ answers[j].depth = d[answers[j].map]
            /\ \A map \in w.queued : d[map] <= answers[j].depth + 1
            /\ \A i \in 1..n : answers[j].depth <= q[i].depth
        BY <3>1 DEF Pending, n, q
      <3>3. entry.depth <= answers[j].depth /\ answers[j].depth \in Nat
        BY <1>1, <2>1, <3>1 DEF entry, Entries
      <3>4. answers[j].map \in out.queued /\ answers[j].depth = e[answers[j].map]
        BY <1>4, <1>17, <3>2
      <3>5. ASSUME NEW map \in out.queued PROVE e[map] <= answers[j].depth + 1
        BY <1>2, <1>4, <1>17, <3>2, <3>3
      <3>6. ASSUME NEW i \in 1..Len(r) PROVE answers[j].depth <= r[i].depth
        <4>1. CASE i \in 1..n /\ r[i] = q[i]
          BY <3>2, <4>1
        <4>2. CASE r[i].depth = entry.depth + 1
          BY <1>15, <3>2, <4>2
        <4> QED BY <1>11, <4>1, <4>2
      <3> QED BY <3>4, <3>5, <3>6
    <2> QED BY <2>1, <2>2 DEF Pending, r
  <1> QED BY <1>19, <1>20, <1>21 DEF entry, out, e

\* What a walk holds at any time, between two batches.
WalkReaches ==
    /\ \E d : Depths(walk, d) /\ Reaching(walk, walk.seen \ lost, d)
    /\ walk.queued = walk.seen \cup {entry.map : entry \in ToSet(walk.queue)}
    /\ lost \subseteq walk.seen /\ IsFiniteSet(walk.seen)
    /\ Cardinality(walk.seen) < MaxSitemaps + Batch

Nearer(at) == {pair \in Entries(at) \X Entries(at) : pair[1].depth < pair[2].depth}

\* The answers of a batch are absorbed from the nearer to the farther.
LEMMA AnswersInOrder ==
  ASSUME SiteOk(site), NEW robots, NEW w \in WalksOf(site, robots), NEW failed, NEW d, Depths(w, d)
  PROVE  Pending(Taken(w), d, Answering(w, failed), 0)
  <1> DEFINE ahead == Nearer(site)
             f == FrontOf(w)
             b == InBatch(w)
             sv == Answering(w, failed)
             q == w.queue
             one == {i \in DOMAIN f : f[i].map \notin w.seen}
             two == {i \in DOMAIN b : b[i].map \notin failed}
  <1>1. /\ q \in Seq(Entries(site)) /\ f \in Seq(Entries(site)) /\ b \in Seq(Entries(site))
        /\ sv \in Seq(Entries(site)) /\ Behind(w) \in Seq(Entries(site))
    BY FrontSays, TakenBatch, AnsweringSays DEF WalksOf
  <1>2. PICK n : Parted(w, n)
    BY FrontSays
  <1>3. /\ Len(q) \in Nat /\ n \in 0..Len(q) /\ Len(f) = n /\ DOMAIN f = 1..n /\ DOMAIN q = 1..Len(q)
        /\ \A i \in 1..n : f[i] = q[i]
    BY <1>1, <1>2, SeqIs DEF Parted
  <1>4. \A i \in 1..Len(q) : q[i] \in Entries(site) /\ q[i].depth \in Nat
    <2>1. \A e \in Entries(site) : e.depth \in Nat
      BY DEF Entries
    <2> HIDE DEF q
    <2> QED BY <1>1, <2>1, SeqIs
  <1>5. /\ d \in [w.queued -> 0..MaxDepth]
        /\ \A i \in 1..Len(q) : q[i].map \in w.queued /\ q[i].depth = d[q[i].map]
        /\ \A i, j \in 1..Len(q) : i <= j => q[i].depth <= q[j].depth
        /\ \A map \in w.queued, i \in 1..Len(q) : d[map] <= q[i].depth + 1
    BY DEF Depths
  <1>6. b = KeptAt(f, one) /\ sv = KeptAt(b, two)
    BY DEF InBatch, Answering
  <1>7. one = {i \in DOMAIN f : i \in one} /\ two = {i \in DOMAIN b : i \in two}
    OBVIOUS
  <1> HIDE DEF q, f, b, sv, one, two
  <1>8. InOrder(f, ahead)
    <2> SUFFICES ASSUME NEW i \in 1..n, NEW j \in 1..n, i < j PROVE <<f[j], f[i]>> \notin ahead
      BY <1>3 DEF InOrder
    <2>1. q[i].depth <= q[j].depth /\ q[i].depth \in Nat /\ q[j].depth \in Nat
          /\ f[i] = q[i] /\ f[j] = q[j]
      BY <1>3, <1>4, <1>5
    <2> QED BY <2>1 DEF Nearer
  <1> HIDE DEF ahead
  <1>9. InOrder(sv, ahead)
    <2>1. one \in SUBSET (1..Len(f)) /\ two \in SUBSET (1..Len(b))
      BY <1>1, <1>7, SeqIs
    <2>2. InOrder(b, ahead)
      BY <1>1, <1>6, <1>8, <2>1, KeptInOrder
    <2> QED BY <1>1, <1>6, <2>1, <2>2, KeptInOrder
  <1>10. ToSet(sv) \subseteq ToSet(f)
    <2>1. ToSet(b) \subseteq ToSet(f)
      BY TakenBatch DEF b, f
    <2>2. ToSet(sv) \subseteq ToSet(b)
      BY AnsweringSays DEF b, sv
    <2> QED BY <2>1, <2>2
  <1>11. /\ Len(sv) \in Nat /\ DOMAIN sv = 1..Len(sv)
         /\ \A i \in 1..Len(sv) : sv[i] \in Entries(site) /\ sv[i] \in ToSet(f)
    BY <1>1, <1>10, SeqIs
  <1>12. \A i \in 1..Len(sv) : sv[i].depth \in Nat
    BY <1>11 DEF Entries
  <1>13. ASSUME NEW i \in 1..Len(sv), NEW j \in 1..Len(sv), i <= j
         PROVE  sv[i].depth <= sv[j].depth
    <2>1. CASE i = j
      BY <1>12, <2>1
    <2>2. CASE i < j
      <3>1. <<sv[j], sv[i]>> \notin ahead
        BY <1>9, <1>11, <2>2 DEF InOrder
      <3>2. ~(sv[j].depth < sv[i].depth)
        BY <1>11, <3>1 DEF ahead, Nearer
      <3> QED BY <1>12, <3>2
    <2> QED BY <1>11, <1>13, <2>1, <2>2
  <1>14. Taken(w).queue = Behind(w) /\ Taken(w).queued = w.queued
    BY TakenBatch
  <1>15. ASSUME NEW j \in 1..Len(sv)
         PROVE  /\ sv[j].map \in w.queued /\ sv[j].depth = d[sv[j].map]
                /\ \A map \in w.queued : d[map] <= sv[j].depth + 1
                /\ \A i \in 1..Len(Behind(w)) : sv[j].depth <= Behind(w)[i].depth
    <2>1. PICK p \in 1..n : sv[j] = f[p]
      BY <1>3, <1>11 DEF ToSet
    <2>2. sv[j] = q[p] /\ p \in 1..Len(q)
      BY <1>3, <2>1
    <2>3. ASSUME NEW i \in 1..Len(Behind(w)) PROVE sv[j].depth <= Behind(w)[i].depth
      <3>1. i \in 1..(Len(q) - n) /\ Behind(w)[i] = q[i + n]
        BY <1>2 DEF Parted, q
      <3>2. i + n \in 1..Len(q) /\ p <= i + n
        BY <1>3, <3>1
      <3> QED BY <1>5, <2>2, <3>1, <3>2
    <2> QED BY <1>5, <2>2, <2>3
  <1>16. 0 + 1 = 1
    OBVIOUS
  <1> QED BY <1>13, <1>14, <1>15, <1>16 DEF Pending, sv

\* The walk while a batch is out.
LEMMA TakenReaches ==
  ASSUME SiteOk(site), NEW robots, NEW w \in WalksOf(site, robots), NEW done, NEW d,
         Depths(w, d), Reaching(w, done, d)
  PROVE  Depths(Taken(w), d) /\ Reaching(Taken(w), done, d)
  <1> DEFINE q == w.queue
             b == Behind(w)
  <1>1. q \in Seq(Entries(site)) /\ Len(q) \in Nat
    BY SeqIs DEF WalksOf
  <1>2. PICK n : Parted(w, n)
    BY FrontSays
  <1>3. /\ Taken(w).queue = b /\ Taken(w).queued = w.queued /\ Taken(w).listed = w.listed
        /\ Taken(w).robots = w.robots
    BY TakenBatch DEF WalksOf
  <1>4. n \in 0..Len(q) /\ Len(b) = Len(q) - n /\ \A i \in 1..Len(b) : b[i] = q[i + n]
    BY <1>2 DEF Parted
  <1>5. \A i \in 1..Len(b) : i + n \in 1..Len(q) /\ b[i] = q[i + n]
    BY <1>1, <1>4
  <1>6. /\ d \in [w.queued -> 0..MaxDepth]
        /\ \A i \in 1..Len(q) : q[i].map \in w.queued /\ q[i].depth = d[q[i].map]
        /\ \A i, j \in 1..Len(q) : i <= j => q[i].depth <= q[j].depth
        /\ \A map \in w.queued, i \in 1..Len(q) : d[map] <= q[i].depth + 1
    BY DEF Depths
  <1> HIDE DEF q, b
  <1>7. ASSUME NEW i \in 1..Len(b), NEW j \in 1..Len(b), i <= j PROVE b[i].depth <= b[j].depth
    <2>1. i + n <= j + n
      BY <1>1, <1>4, <1>7
    <2> QED BY <1>5, <1>6, <2>1
  <1>8. Depths(Taken(w), d)
    <2>1. \A i \in 1..Len(b) : b[i].map \in w.queued /\ b[i].depth = d[b[i].map]
      BY <1>5, <1>6
    <2>2. \A map \in w.queued, i \in 1..Len(b) : d[map] <= b[i].depth + 1
      BY <1>5, <1>6
    <2> QED BY <1>3, <1>6, <1>7, <2>1, <2>2 DEF Depths
  <1>9. Reaching(Taken(w), done, d)
    BY <1>3 DEF Reaching, CandidatesOf
  <1> QED BY <1>8, <1>9

\* After each answer.
AnsweredSoFar(robots, w, done, answers, v, k) ==
    \E d : /\ Depths(v[k], d)
           /\ Reaching(v[k], done \cup {answers[j].map : j \in 1..k}, d)
           /\ Pending(v[k], d, answers, k)

\* After every answer the distances are as they should be.
LEMMA AnswersReach ==
  ASSUME SiteOk(site), NEW robots, NEW w \in WalksOf(site, robots), NEW done, NEW d,
         NEW answers \in Seq(Entries(site)), NEW v \in [0..Len(answers) -> WalksOf(site, robots)],
         Depths(w, d), Reaching(w, done, d), Pending(w, d, answers, 0),
         Answered(robots, w, answers, v)
  PROVE  AnsweredSoFar(robots, w, done, answers, v, Len(answers))
  <1> DEFINE n == Len(answers)
             So(k) == AnsweredSoFar(robots, w, done, answers, v, k)
             S == {k \in Nat : k <= n => So(k)}
             upto(k) == done \cup {answers[j].map : j \in 1..k}
  <1>1. n \in Nat /\ \A i \in 1..n : answers[i] \in Entries(site)
    BY SeqIs
  <1>2. v[0] = w /\ \A k \in 1..n : v[k] = Absorbed(v[k - 1], answers[k])
    BY DEF Answered
  <1>3. So(0)
    <2>1. done \cup {answers[j].map : j \in 1..0} = done
      OBVIOUS
    <2> QED BY <1>2, <2>1, Zenon DEF AnsweredSoFar
  <1>4. ASSUME NEW k \in Nat, k + 1 <= n, So(k) PROVE So(k + 1)
    <2> DEFINE m == k + 1
    <2>1. m \in 1..n /\ m - 1 = k /\ k \in 0..n
      BY <1>1, <1>4
    <2>2. PICK e : Depths(v[k], e) /\ Reaching(v[k], upto(k), e) /\ Pending(v[k], e, answers, k)
      BY <1>4 DEF AnsweredSoFar
    <2>3. v[m] = Absorbed(v[k], answers[m]) /\ v[k] \in WalksOf(site, robots)
      BY <1>2, <2>1
    <2>4. upto(k) \cup {answers[m].map} = upto(m)
      <3>1. 1..m = (1..k) \cup {m}
        BY <2>1
      <3> HIDE DEF m
      <3> QED BY <3>1
    <2> DEFINE before == upto(k)
               after == upto(m)
    <2>5. Reaching(v[k], before, e) /\ before \cup {answers[m].map} = after
      BY <2>2, <2>4
    <2>6. Pending(v[k], e, answers, m - 1)
      BY <2>1, <2>2
    <2> HIDE DEF m, before, after
    <2> DEFINE g == Deeper(v[k], e, answers[m])
    <2>7. /\ Depths(Absorbed(v[k], answers[m]), g)
          /\ Reaching(Absorbed(v[k], answers[m]), before \cup {answers[m].map}, g)
          /\ Pending(Absorbed(v[k], answers[m]), g, answers, m)
      BY <2>1, <2>2, <2>3, <2>5, <2>6, AbsorbKeeps
    <2>8. Depths(v[m], g) /\ Reaching(v[m], after, g) /\ Pending(v[m], g, answers, m)
      BY <2>3, <2>5, <2>7
    <2> HIDE DEF g
    <2>9. So(m)
      BY <2>8 DEF AnsweredSoFar, after
    <2> QED BY <2>9 DEF m
  <1>5. 0 \in S
    BY <1>3
  <1> HIDE DEF So
  <1>6. \A k \in Nat : k \in S => k + 1 \in S
    BY <1>1, <1>4
  <1> HIDE DEF S
  <1>7. \A k \in Nat : k \in S
    BY <1>5, <1>6, Induct
  <1>8. n \in S
    BY <1>1, <1>7
  <1> QED BY <1>1, <1>8 DEF S, So

\* The sitemaps of the entries of a sequence.
MapsOn(queue) == {entry.map : entry \in ToSet(queue)}
QueuedOrSeen(w, seen) == w.seen = seen /\ w.queued = w.seen \cup MapsOn(w.queue)

\* Taking a batch off the queue: what was queued is on it or has been asked for.
LEMMA TakenQueued ==
  ASSUME NEW at, NEW robots, NEW w \in WalksOf(at, robots), QueuedOrSeen(w, w.seen)
  PROVE  QueuedOrSeen(Taken(w), w.seen \cup Asked(w))
  <1> DEFINE q == w.queue
             f == FrontOf(w)
             b == Behind(w)
  <1>1. q \in Seq(Entries(at)) /\ f \in Seq(Entries(at)) /\ b \in Seq(Entries(at))
    BY FrontSays DEF WalksOf
  <1>2. PICK n : Parted(w, n)
    BY FrontSays
  <1>3. /\ Taken(w).queue = b /\ Taken(w).queued = w.queued /\ Taken(w).seen = w.seen \cup Asked(w)
        /\ Asked(w) = {e.map : e \in ToSet(InBatch(w))}
        /\ ToSet(InBatch(w)) = {e \in ToSet(f) : e.map \notin w.seen}
    BY TakenBatch
  <1>4. /\ n \in 0..Len(q) /\ Len(f) = n /\ \A i \in 1..n : f[i] = q[i]
        /\ Len(b) = Len(q) - n /\ \A i \in 1..(Len(q) - n) : b[i] = q[i + n]
    BY <1>2 DEF Parted
  <1>5. w.queued = w.seen \cup MapsOn(q)
    BY DEF QueuedOrSeen
  <1> HIDE DEF q, f, b
  <1>6. /\ Len(q) \in Nat /\ DOMAIN q = 1..Len(q) /\ DOMAIN f = 1..Len(f) /\ DOMAIN b = 1..Len(b)
    BY <1>1, SeqIs
  <1>7. ToSet(q) = ToSet(f) \cup ToSet(b)
    <2>1. ASSUME NEW i \in 1..Len(q) PROVE q[i] \in ToSet(f) \cup ToSet(b)
      <3>1. CASE i <= n
        <4>1. i \in DOMAIN f /\ f[i] = q[i]
          BY <1>4, <1>6, <3>1
        <4> QED BY <4>1 DEF ToSet
      <3>2. CASE i > n
        <4>1. i - n \in DOMAIN b /\ (i - n) + n = i
          BY <1>4, <1>6, <3>2
        <4>2. b[i - n] = q[i]
          BY <1>4, <1>6, <4>1
        <4> QED BY <4>1, <4>2 DEF ToSet
      <3> QED BY <1>4, <1>6, <3>1, <3>2
    <2>2. ASSUME NEW i \in 1..n PROVE f[i] \in ToSet(q)
      <3>1. i \in DOMAIN q /\ f[i] = q[i]
        BY <1>4, <1>6
      <3> QED BY <3>1 DEF ToSet
    <2>3. ASSUME NEW i \in 1..(Len(q) - n) PROVE b[i] \in ToSet(q)
      <3>1. i + n \in DOMAIN q /\ b[i] = q[i + n]
        BY <1>4, <1>6
      <3> QED BY <3>1 DEF ToSet
    <2>4. ToSet(q) = {q[i] : i \in 1..Len(q)} /\ ToSet(f) = {f[i] : i \in 1..n}
          /\ ToSet(b) = {b[i] : i \in 1..(Len(q) - n)}
      BY <1>4, <1>6 DEF ToSet
    <2> QED BY <2>1, <2>2, <2>3, <2>4
  <1>8. w.queued = (w.seen \cup Asked(w)) \cup MapsOn(b)
    BY <1>3, <1>5, <1>7 DEF MapsOn
  <1> QED BY <1>3, <1>8 DEF QueuedOrSeen

\* So it is when an answer is absorbed.
LEMMA AbsorbQueued ==
  ASSUME SiteOk(site), NEW robots, NEW w \in WalksOf(site, robots), NEW entry \in Entries(site),
         NEW seen, QueuedOrSeen(w, seen)
  PROVE  QueuedOrSeen(Absorbed(w, entry), seen)
  <1> DEFINE out == Absorbed(w, entry)
             fresh == FreshFrom(w, entry)
  <1>1. PICK fr, added, named : Absorbing(w, entry, out, fr, added, named)
    BY AbsorbedSays
  <1>2. /\ out.queue = Cat(w.queue, added) /\ out.queued = w.queued \cup fresh /\ out.seen = w.seen
        /\ fr \in Seq(DOMAIN site.maps) /\ ToSet(fr) = fresh
        /\ added \in Seq(Entries(site)) /\ DOMAIN added = DOMAIN fr
        /\ \A i \in DOMAIN fr : added[i] = [map |-> fr[i], depth |-> entry.depth + 1]
    BY <1>1 DEF Absorbing
  <1>3. Follows(Entries(site), w.queue, added, Cat(w.queue, added))
    BY <1>2, ConcatSays DEF WalksOf
  <1> HIDE DEF out, fresh
  <1>4. MapsOn(added) = fresh
    BY <1>2 DEF MapsOn, ToSet
  <1>5. ToSet(out.queue) = ToSet(w.queue) \cup ToSet(added)
    BY <1>2, <1>3 DEF Follows
  <1>6. MapsOn(out.queue) = MapsOn(w.queue) \cup fresh
    BY <1>4, <1>5 DEF MapsOn
  <1> QED BY <1>2, <1>6 DEF QueuedOrSeen, out

\* So it is when all are.
LEMMA AnswersQueued ==
  ASSUME SiteOk(site), NEW robots, NEW w \in WalksOf(site, robots), NEW seen,
         NEW answers \in Seq(Entries(site)), NEW v \in [0..Len(answers) -> WalksOf(site, robots)],
         QueuedOrSeen(w, seen), Answered(robots, w, answers, v)
  PROVE  QueuedOrSeen(v[Len(answers)], seen)
  <1> DEFINE n == Len(answers)
             So(k) == QueuedOrSeen(v[k], seen)
             S == {k \in Nat : k <= n => So(k)}
  <1>1. n \in Nat /\ \A i \in 1..n : answers[i] \in Entries(site)
    BY SeqIs
  <1>2. v[0] = w /\ \A k \in 1..n : v[k] = Absorbed(v[k - 1], answers[k])
    BY DEF Answered
  <1>3. So(0)
    BY <1>2
  <1>4. ASSUME NEW k \in Nat, k + 1 <= n, So(k) PROVE So(k + 1)
    <2> DEFINE m == k + 1
    <2>1. m \in 1..n /\ m - 1 = k /\ k \in 0..n
      BY <1>1, <1>4
    <2>2. v[m] = Absorbed(v[k], answers[m]) /\ v[k] \in WalksOf(site, robots)
          /\ answers[m] \in Entries(site)
      BY <1>1, <1>2, <2>1
    <2> HIDE DEF m
    <2>3. QueuedOrSeen(Absorbed(v[k], answers[m]), seen)
      BY <1>4, <2>2, AbsorbQueued
    <2> QED BY <2>2, <2>3 DEF m
  <1>5. 0 \in S
    BY <1>3
  <1> HIDE DEF So
  <1>6. \A k \in Nat : k \in S => k + 1 \in S
    BY <1>1, <1>4
  <1> HIDE DEF S
  <1>7. \A k \in Nat : k \in S
    BY <1>5, <1>6, Induct
  <1>8. n \in S
    BY <1>1, <1>7
  <1> QED BY <1>1, <1>8 DEF S, So

\* A batch asks for no more sitemaps than it has room for.
LEMMA AskedIsSmall ==
  ASSUME NEW at, NEW robots, NEW w \in WalksOf(at, robots)
  PROVE  IsFiniteSet(Asked(w)) /\ Cardinality(Asked(w)) <= Batch
  <1> DEFINE f == FrontOf(w)
  <1>1. f \in Seq(Entries(at))
    BY FrontSays
  <1>2. PICK n : Parted(w, n)
    BY FrontSays
  <1>3. w.queue \in Seq(Entries(at)) /\ Len(w.queue) \in Nat
    BY SeqIs DEF WalksOf
  <1>4. n \in Nat /\ n <= Batch /\ Len(f) = n
    BY <1>2, <1>3 DEF Parted
  <1>5. Asked(w) = {e.map : e \in ToSet(InBatch(w))}
        /\ ToSet(InBatch(w)) = {e \in ToSet(f) : e.map \notin w.seen}
    BY TakenBatch
  <1> HIDE DEF f
  <1> DEFINE named == {f[i].map : i \in 1..n}
             g == [i \in 1..n |-> f[i].map]
  <1>6. DOMAIN f = 1..n
    BY <1>1, <1>4, SeqIs
  <1>7. Asked(w) \subseteq named
    BY <1>5, <1>6 DEF ToSet
  <1>8. g \in Surjection(1..n, named)
    BY DEF Surjection
  <1> HIDE DEF named, g
  <1>9. IsFiniteSet(1..n) /\ Cardinality(1..n) = n
    <2>1. IsFiniteSet(1..n) /\ Cardinality(1..n) = IF 1 > n THEN 0 ELSE n - 1 + 1
      BY <1>4, FS_Interval
    <2> QED BY <1>4, <2>1
  <1>10. IsFiniteSet(named) /\ Cardinality(named) <= n
    BY <1>8, <1>9, FS_Surjection
  <1>11. IsFiniteSet(Asked(w)) /\ Cardinality(Asked(w)) <= Cardinality(named)
    BY <1>7, <1>10, FS_Subset
  <1>12. Cardinality(Asked(w)) \in Nat /\ Cardinality(named) \in Nat
    BY <1>10, <1>11, FS_CardinalityType
  <1> QED BY <1>4, <1>10, <1>11, <1>12, CrawlListAssumption

\* A turn of the walk keeps WalkReaches.
LEMMA TurnReaches ==
  ASSUME SiteOk(site), walk \in WalksOf(site, walk.robots), WalkReaches, Walking, FetchBatch,
         site' = site
  PROVE  WalkReaches'
  <1> DEFINE robots == walk.robots
             w == Taken(walk)
             done == walk.seen \ lost
  <1>1. PICK failed \in SUBSET Asked(walk) :
           /\ walk' = FoldLeft(Absorbed, Taken(walk), Answering(walk, failed))
           /\ lost' = lost \cup failed
    BY BatchIs
  <1> DEFINE sv == Answering(walk, failed)
  <1>2. w \in WalksOf(site, robots) /\ sv \in Seq(Entries(site))
    BY TakenBatch, AnsweringSays
  <1>3. PICK v \in [0..Len(sv) -> WalksOf(site, robots)] : Answered(robots, w, sv, v)
    <2> HIDE DEF sv, w, robots
    <2> QED BY <1>2, BatchRuns
  <1>4. walk' = v[Len(sv)]
    BY <1>1, <1>3 DEF Answered
  <1>5. PICK d : Depths(walk, d) /\ Reaching(walk, done, d)
    BY DEF WalkReaches
  <1>6. Pending(w, d, sv, 0) /\ Depths(w, d) /\ Reaching(w, done, d)
    BY <1>5, AnswersInOrder, TakenReaches
  <1>7. QueuedOrSeen(walk, walk.seen)
    BY DEF WalkReaches, QueuedOrSeen, MapsOn
  <1>8. QueuedOrSeen(w, walk.seen \cup Asked(walk))
    BY <1>7, TakenQueued
  <1> DEFINE seen == walk.seen \cup Asked(walk)
  <1>9. ToSet(InBatch(walk)) = {e \in ToSet(FrontOf(walk)) : e.map \notin walk.seen}
        /\ Asked(walk) = {e.map : e \in ToSet(InBatch(walk))}
    BY TakenBatch
  <1>10. ToSet(sv) = {e \in ToSet(InBatch(walk)) : e.map \notin failed}
    BY AnsweringSays
  <1>11. {sv[j].map : j \in 1..Len(sv)} = Asked(walk) \ failed
    <2> HIDE DEF sv
    <2>1. DOMAIN sv = 1..Len(sv)
      BY <1>2, SeqIs
    <2>2. {sv[j].map : j \in 1..Len(sv)} = {e.map : e \in ToSet(sv)}
      BY <2>1 DEF ToSet
    <2> QED BY <1>9, <1>10, <2>2
  <1>12. lost \subseteq walk.seen /\ IsFiniteSet(walk.seen) /\ Cardinality(walk.seen) < MaxSitemaps
    BY DEF WalkReaches, Walking
  <1>13. done \cup (Asked(walk) \ failed) = seen \ lost'
    BY <1>1, <1>9, <1>12
  <1> HIDE DEF sv, w, done, seen, robots
  <1>14. PICK e : Depths(walk', e) /\ Reaching(walk', done \cup {sv[j].map : j \in 1..Len(sv)}, e)
    <2>1. AnsweredSoFar(robots, w, done, sv, v, Len(sv))
      BY <1>2, <1>3, <1>6, AnswersReach
    <2> QED BY <1>4, <2>1 DEF AnsweredSoFar
  <1>15. QueuedOrSeen(walk', seen)
    BY <1>2, <1>3, <1>4, <1>8, AnswersQueued DEF seen
  <1>16. walk'.seen = seen /\ walk'.queued = walk'.seen \cup MapsOn(walk'.queue)
    BY <1>15 DEF QueuedOrSeen
  <1>17. Reaching(walk', walk'.seen \ lost', e)
    BY <1>11, <1>13, <1>14, <1>16
  <1>18. (\E d_1 : Depths(walk, d_1) /\ Reaching(walk, walk.seen \ lost, d_1))'
    BY <1>14, <1>17 DEF Depths, Reaching, CandidatesOf, NestedOf, ListedOf
  <1>19. lost' \subseteq walk'.seen
    BY <1>1, <1>12, <1>16 DEF seen
  <1>20. IsFiniteSet(walk'.seen) /\ Cardinality(walk'.seen) < MaxSitemaps + Batch
    <2>1. IsFiniteSet(Asked(walk)) /\ Cardinality(Asked(walk)) <= Batch
      BY AskedIsSmall
    <2>2. /\ IsFiniteSet(seen)
          /\ Cardinality(seen) = Cardinality(walk.seen) + Cardinality(Asked(walk))
                                 - Cardinality(walk.seen \cap Asked(walk))
      BY <1>12, <2>1, FS_Union DEF seen
    <2>3. IsFiniteSet(walk.seen \cap Asked(walk))
      BY <1>12, FS_Subset
    <2>4. /\ Cardinality(walk.seen) \in Nat /\ Cardinality(Asked(walk)) \in Nat
          /\ Cardinality(walk.seen \cap Asked(walk)) \in Nat
      BY <1>12, <2>1, <2>3, FS_CardinalityType
    <2> QED BY <1>12, <1>16, <2>1, <2>2, <2>4, CrawlListAssumption
  <1>21. walk'.queued = walk'.seen \cup {entry.map : entry \in ToSet(walk'.queue)}
    BY <1>16 DEF MapsOn
  <1> QED BY <1>18, <1>19, <1>20, <1>21 DEF WalkReaches

\* A walk that has only begun.
LEMMA NewWalkReaches ==
  ASSUME NEW at, SiteOk(at), NEW robots, RobotsOk(robots, at), NEW w, w = NewWalk(robots)
  PROVE  /\ w.seen = {} /\ w.listed = <<>> /\ w.queued = MapsOn(w.queue)
         /\ \E d : /\ Depths(w, d) /\ CandidatesOf(w) \subseteq w.queued
                   /\ \A map \in w.queued : d[map] = 0 /\ map \in CandidatesOf(w)
  <1> DEFINE c == Candidates(robots)
             q == w.queue
             d == [map \in w.queued |-> 0]
  <1>1. /\ w \in WalksOf(at, robots) /\ w.queued = ToSet(c) /\ w.seen = {} /\ w.listed = <<>>
        /\ DOMAIN q = DOMAIN c /\ \A i \in DOMAIN c : q[i] = [map |-> c[i], depth |-> 0]
    BY NewWalkSays
  <1>2. w.robots = robots /\ q \in Seq(Entries(at))
    BY <1>1 DEF WalksOf
  <1>3. CandidatesOf(w) = ToSet(c)
    BY <1>2 DEF CandidatesOf
  <1> HIDE DEF c, q
  <1>4. Len(q) \in Nat /\ DOMAIN q = 1..Len(q)
    BY <1>2, SeqIs
  <1>5. MapsOn(q) = ToSet(c)
    BY <1>1 DEF MapsOn, ToSet
  <1>6. \A i \in 1..Len(q) : q[i].map \in w.queued /\ q[i].depth = 0
    BY <1>1, <1>4 DEF ToSet
  <1>7. 0 \in 0..MaxDepth
    BY CrawlListAssumption
  <1>8. d \in [w.queued -> 0..MaxDepth] /\ \A map \in w.queued : d[map] = 0
    BY <1>7
  <1> HIDE DEF d
  <1>9. Depths(w, d)
    BY <1>6, <1>8 DEF Depths, q
  <1> QED BY <1>1, <1>3, <1>5, <1>8, <1>9 DEF q

\* Initially.
LEMMA ReachesInit == Init => WalkReaches
  <1> SUFFICES ASSUME Init PROVE WalkReaches
    OBVIOUS
  <1>1. PICK robots \in FetchRobots(site) : walk = NewWalk(robots)
    BY DEF Init
  <1>2. site \in Sites /\ lost = {}
    BY DEF Init
  <1>3. SiteOk(site) /\ RobotsOk(robots, site)
    BY <1>1, <1>2, WalkStarts
  <1>4. walk.seen = {} /\ walk.listed = <<>> /\ walk.queued = MapsOn(walk.queue)
    BY <1>1, <1>3, NewWalkReaches
  <1>5. PICK d : /\ Depths(walk, d) /\ CandidatesOf(walk) \subseteq walk.queued
                 /\ \A map \in walk.queued : d[map] = 0 /\ map \in CandidatesOf(walk)
    BY <1>1, <1>3, NewWalkReaches
  <1>6. ToSet(<<>>) = {}
    BY DEF ToSet
  <1>7. Reaching(walk, walk.seen \ lost, d)
    BY <1>4, <1>5, <1>6 DEF Reaching
  <1>8. IsFiniteSet({}) /\ Cardinality({}) = 0
    BY FS_EmptySet
  <1>9. Cardinality(walk.seen) < MaxSitemaps + Batch
    BY <1>4, <1>8, CrawlListAssumption
  <1> QED BY <1>2, <1>4, <1>5, <1>7, <1>8, <1>9 DEF WalkReaches, MapsOn

\* Every step keeps WalkReaches.
LEMMA ReachesStep ==
  Shape /\ WalkReaches /\ [Next]_vars => WalkReaches'
  <1> SUFFICES ASSUME Shape, WalkReaches, [Next]_vars PROVE WalkReaches'
    OBVIOUS
  <1>1. CASE Walks
    BY <1>1, TurnReaches DEF Walks, Shape
  <1>2. CASE Approve
    <2>1. /\ site' \in Sites /\ lost' = {}
          /\ \E robots \in FetchRobots(site') : walk' = NewWalk(robots)
      BY <1>2 DEF Approve
    <2>2. PICK robots \in FetchRobots(site') : walk' = NewWalk(robots)
      BY <2>1
    <2>3. SiteOk(site') /\ RobotsOk(robots, site')
      BY <2>1, <2>2, WalkStarts
    <2>4. walk'.seen = {} /\ walk'.listed = <<>> /\ walk'.queued = MapsOn(walk'.queue)
      BY <2>2, <2>3, NewWalkReaches
    <2>5. PICK d : /\ Depths(walk', d) /\ CandidatesOf(walk') \subseteq walk'.queued
                   /\ \A map \in walk'.queued : d[map] = 0 /\ map \in CandidatesOf(walk')
      BY <2>2, <2>3, NewWalkReaches
    <2>6. ToSet(<<>>) = {}
      BY DEF ToSet
    <2>7. Reaching(walk, walk.seen \ lost, d)'
      BY <2>1, <2>4, <2>5, <2>6 DEF Reaching, CandidatesOf
    <2>8. IsFiniteSet({}) /\ Cardinality({}) = 0
      BY FS_EmptySet
    <2>9. Cardinality(walk'.seen) < MaxSitemaps + Batch
      BY <2>4, <2>8, CrawlListAssumption
    <2>10. Depths(walk, d)'
      BY <2>5 DEF Depths
    <2> QED BY <2>1, <2>4, <2>7, <2>8, <2>9, <2>10 DEF WalkReaches, MapsOn
  <1>3. CASE Preflight \/ Select \/ Over \/ UNCHANGED vars
    <2>1. UNCHANGED <<site, walk, lost>>
      BY <1>3 DEF Preflight, Select, Over, vars
    <2>2. PICK d : Depths(walk, d) /\ Reaching(walk, walk.seen \ lost, d)
      BY DEF WalkReaches
    <2>3. Depths(walk, d)'
      BY <2>1, <2>2
    <2>4. Reaching(walk, walk.seen \ lost, d)'
      BY <2>1, <2>2 DEF Reaching, CandidatesOf, NestedOf, ListedOf
    <2>5. /\ walk.queued = walk.seen \cup {entry.map : entry \in ToSet(walk.queue)}
          /\ lost \subseteq walk.seen /\ IsFiniteSet(walk.seen)
          /\ Cardinality(walk.seen) < MaxSitemaps + Batch
      BY DEF WalkReaches
    <2> QED BY <2>1, <2>3, <2>4, <2>5 DEF WalkReaches
  <1> QED BY <1>1, <1>2, <1>3 DEF Next

-----------------------------------------------------------------------------
(* The end of a walk. *)

\* The distances of a walk that has ended are those of Within.
LEMMA ReachedIsWithin ==
  ASSUME WalkReaches, walk.queue = <<>>
  PROVE  Within = walk.seen
  <1>1. MaxDepth \in Nat
    BY CrawlListAssumption
  <1>2. walk.queued = walk.seen /\ lost \subseteq walk.seen
    BY DEF WalkReaches, ToSet
  <1>3. PICK d : Depths(walk, d) /\ Reaching(walk, walk.seen \ lost, d)
    BY DEF WalkReaches
  <1>4. d \in [walk.seen -> 0..MaxDepth]
    BY <1>2, <1>3 DEF Depths
  <1> DEFINE near(n) == {map \in walk.seen : d[map] <= n}
             grown(s) == s \cup UNION {NestedOf(map) : map \in s \ lost}
             reached == CHOOSE f : f = [n \in 0..MaxDepth |->
                          IF n = 0 THEN CandidatesOf(walk)
                          ELSE f[n - 1] \cup UNION {NestedOf(map) : map \in f[n - 1] \ lost}]
             g == [n \in 0..MaxDepth |-> near(n)]
  <1>5. Within = reached[MaxDepth]
    BY Zenon DEF Within, NestedOf, CandidatesOf
  <1>6. near(0) = CandidatesOf(walk)
    BY <1>1, <1>2, <1>3, <1>4 DEF Reaching
  <1>7. ASSUME NEW n \in 1..MaxDepth PROVE near(n) = grown(near(n - 1))
    <2>1. ASSUME NEW map \in near(n) PROVE map \in grown(near(n - 1))
      <3>1. CASE d[map] <= n - 1
        BY <3>1
      <3>2. CASE d[map] = n
        <4>1. d[map] > 0
          BY <3>2
        <4>2. PICK by \in walk.seen \ lost : d[map] = d[by] + 1 /\ map \in NestedOf(by)
          BY <1>2, <1>3, <4>1 DEF Reaching
        <4>3. d[by] <= n - 1
          BY <1>4, <3>2, <4>2
        <4> QED BY <4>2, <4>3
      <3> QED BY <1>4, <3>1, <3>2
    <2>2. ASSUME NEW map \in near(n - 1) PROVE map \in near(n)
      BY <1>4
    <2>3. ASSUME NEW by \in near(n - 1) \ lost, NEW map \in NestedOf(by) PROVE map \in near(n)
      <3>1. by \in walk.seen \ lost /\ d[by] \in 0..MaxDepth /\ d[by] <= n - 1
        BY <1>4
      <3>2. d[by] < MaxDepth
        BY <1>1, <3>1
      <3>3. map \in walk.seen /\ d[map] <= d[by] + 1
        BY <1>2, <1>3, <3>1, <3>2 DEF Reaching
      <3>4. d[map] <= n
        BY <1>4, <3>1, <3>3
      <3> QED BY <3>3, <3>4
    <2> HIDE DEF near
    <2> QED BY <2>1, <2>2, <2>3
  <1>8. near(MaxDepth) = walk.seen
    BY <1>4
  <1> DEFINE Turn(f, n) == IF n = 0 THEN CandidatesOf(walk)
                           ELSE f[n - 1] \cup UNION {NestedOf(map) : map \in f[n - 1] \ lost}
  <1>9. g = [n \in 0..MaxDepth |-> Turn(g, n)]
    <2>1. ASSUME NEW n \in 0..MaxDepth PROVE near(n) = Turn(g, n)
      <3>1. CASE n = 0
        BY <1>6, <3>1
      <3>2. CASE n # 0
        <4>1. n \in 1..MaxDepth /\ n - 1 \in 0..MaxDepth
          BY <1>1, <3>2
        <4>2. g[n - 1] = near(n - 1)
          BY <4>1
        <4>3. near(n) = g[n - 1] \cup UNION {NestedOf(map) : map \in g[n - 1] \ lost}
          BY <1>7, <4>1, <4>2
        <4> HIDE DEF near, g
        <4> QED BY <3>2, <4>3
      <3> QED BY <3>1, <3>2
    <2> QED BY <2>1, Zenon
  <1> HIDE DEF near, g
  <1>10. reached = [n \in 0..MaxDepth |-> Turn(reached, n)]
    BY <1>9, Zenon
  <1> HIDE DEF reached
  <1> DEFINE S == {k \in Nat : k <= MaxDepth => reached[k] = near(k)}
  <1>11. 0 \in S
    <2>1. reached[0] = Turn(reached, 0)
      BY <1>1, <1>10
    <2> QED BY <1>6, <2>1
  <1>12. \A k \in Nat : k \in S => k + 1 \in S
    <2> SUFFICES ASSUME NEW k \in Nat, k + 1 <= MaxDepth, reached[k] = near(k)
                 PROVE  reached[k + 1] = near(k + 1)
      BY <1>1
    <2>1. k + 1 \in 1..MaxDepth /\ k + 1 \in 0..MaxDepth /\ (k + 1) - 1 = k /\ k + 1 # 0
      BY <1>1
    <2>2. reached[k + 1] = Turn(reached, k + 1)
      BY <1>10, <2>1
    <2>3. Turn(reached, k + 1) = grown(near(k))
      BY <2>1
    <2>4. near(k + 1) = grown(near(k))
      BY <1>7, <2>1
    <2> QED BY <2>2, <2>3, <2>4
  <1> HIDE DEF S
  <1>13. MaxDepth \in S
    BY <1>1, <1>11, <1>12, Induct
  <1> QED BY <1>1, <1>5, <1>8, <1>13 DEF S

\* The names of some sitemaps are no longer than some number.
LEMMA SizesAreBounded ==
  ASSUME NEW maps \in SUBSET ToSet(Alphabet), \A map \in maps : NameSize[map] \in Nat
  PROVE  \E b \in Nat : \A map \in maps : NameSize[map] <= b
  <1> DEFINE n == Len(Alphabet)
             So(k) == \E b \in Nat : \A i \in 1..k :
                         Alphabet[i] \in maps => NameSize[Alphabet[i]] <= b
             S == {k \in Nat : k <= n => So(k)}
  <1>1. n \in Nat /\ DOMAIN Alphabet = 1..n
    BY CrawlListAssumption, SeqIs DEF IsSequence
  <1>2. So(0)
    OBVIOUS
  <1>3. ASSUME NEW k \in Nat, k + 1 <= n, So(k) PROVE So(k + 1)
    <2>1. PICK b \in Nat : \A i \in 1..k : Alphabet[i] \in maps => NameSize[Alphabet[i]] <= b
      BY <1>3
    <2> DEFINE a == Alphabet[k + 1]
    <2>2. \A i \in 1..(k + 1) : i \in 1..k \/ Alphabet[i] = a
      OBVIOUS
    <2> HIDE DEF a
    <2>3. CASE a \notin maps
      BY <2>1, <2>2, <2>3
    <2>4. CASE a \in maps /\ NameSize[a] <= b
      BY <2>1, <2>2, <2>4
    <2>5. CASE a \in maps /\ ~(NameSize[a] <= b)
      <3>1. NameSize[a] \in Nat
        BY <2>5
      <3>2. \A i \in 1..(k + 1) : Alphabet[i] \in maps => NameSize[Alphabet[i]] <= NameSize[a]
        BY <2>1, <2>2, <2>5, <3>1
      <3> QED BY <3>1, <3>2
    <2> QED BY <2>3, <2>4, <2>5
  <1>4. 0 \in S
    BY <1>2
  <1> HIDE DEF So
  <1>5. \A k \in Nat : k \in S => k + 1 \in S
    BY <1>1, <1>3
  <1> HIDE DEF S
  <1>6. n \in S
    BY <1>1, <1>4, <1>5, Induct
  <1>7. So(n)
    BY <1>1, <1>6 DEF S
  <1> QED BY <1>1, <1>7 DEF So, ToSet

\* The sitemap named the most specific of some is one of them.
LEMMA MostSpecificSays ==
  ASSUME NEW maps \in SUBSET ToSet(Alphabet), maps # {}, \A map \in maps : NameSize[map] \in Nat
  PROVE  MostSpecific(maps) \in maps
  <1> DEFINE Below(a, b) ==
               \/ a \in Numbered /\ b \notin Numbered
               \/ /\ (a \in Numbered) = (b \in Numbered)
                  /\ \/ NameSize[a] < NameSize[b]
                     \/ NameSize[a] = NameSize[b] /\ Rank(a) < Rank(b)
             named == IF maps \subseteq Numbered THEN maps ELSE maps \ Numbered
  <1>1. /\ Len(Alphabet) \in Nat /\ DOMAIN Alphabet = 1..Len(Alphabet)
    BY CrawlListAssumption, SeqIs DEF IsSequence
  <1>2. \A a \in maps : Rank(a) \in 1..Len(Alphabet) /\ Alphabet[Rank(a)] = a
    <2> SUFFICES ASSUME NEW a \in maps PROVE Rank(a) \in 1..Len(Alphabet) /\ Alphabet[Rank(a)] = a
      OBVIOUS
    <2>1. \E i \in DOMAIN Alphabet : Alphabet[i] = a
      BY DEF ToSet
    <2> QED BY <1>1, <2>1 DEF Rank
  <1>3. named \subseteq maps /\ named # {}
    OBVIOUS
  <1>4. \A a \in named, b \in maps \ named : b \in Numbered /\ a \notin Numbered
    OBVIOUS
  <1>5. \A a \in named, b \in named : (a \in Numbered) = (b \in Numbered)
    OBVIOUS
  <1> HIDE DEF named
  \* The longest name.
  <1>6. PICK c \in Nat : \A map \in maps : NameSize[map] <= c
    BY SizesAreBounded
  <1> DEFINE sizes == {NameSize[a] : a \in named}
  <1>7. sizes \in SUBSET Int /\ sizes # {} /\ c \in Int /\ \A x \in sizes : x <= c
    BY <1>3, <1>6
  <1> HIDE DEF sizes
  <1>8. PICK size \in sizes : \A x \in sizes : x <= size
    BY <1>7, Greatest, Zenon
  <1> DEFINE longest == {a \in named : NameSize[a] = size}
  <1>9. longest # {} /\ longest \subseteq named /\ \A a \in named : NameSize[a] <= size
    BY <1>8 DEF sizes
  <1>10. \A a \in longest, b \in named \ longest : NameSize[b] < NameSize[a]
    BY <1>3, <1>9
  <1>11. \A a \in longest, b \in longest : NameSize[a] = NameSize[b]
    OBVIOUS
  <1> HIDE DEF longest
  \* The last of those as text.
  <1> DEFINE ranks == {Rank(a) : a \in longest}
  <1>12. ranks \in SUBSET Int /\ ranks # {} /\ Len(Alphabet) \in Int
         /\ \A x \in ranks : x <= Len(Alphabet)
    BY <1>1, <1>2, <1>3, <1>9
  <1> HIDE DEF ranks
  <1>13. PICK r \in ranks : \A x \in ranks : x <= r
    BY <1>12, Greatest, Zenon
  <1>14. PICK top \in longest : Rank(top) = r
    BY <1>13 DEF ranks
  <1>15. top \in named /\ top \in maps
    BY <1>3, <1>9
  <1>16. ASSUME NEW b \in maps \ {top} PROVE Below(b, top)
    <2>1. CASE b \notin named
      <3>1. b \in Numbered /\ top \notin Numbered
        BY <1>4, <1>15, <2>1
      <3> QED BY <3>1
    <2>2. CASE b \in named \ longest
      <3>1. (b \in Numbered) = (top \in Numbered)
        BY <1>5, <1>15, <2>2
      <3>2. NameSize[b] < NameSize[top]
        BY <1>10, <2>2
      <3> QED BY <3>1, <3>2, Zenon
    <2>3. CASE b \in longest
      <3>1. (b \in Numbered) = (top \in Numbered)
        BY <1>5, <1>9, <1>15, <2>3
      <3>2. NameSize[b] = NameSize[top]
        BY <1>11, <2>3
      <3>3. Rank(b) <= r
        BY <1>13, <2>3 DEF ranks
      <3>4. Rank(b) # Rank(top)
        BY <1>2, <1>15, <1>16
      <3>5. Rank(b) < Rank(top)
        BY <1>2, <1>14, <1>15, <3>3, <3>4
      <3> QED BY <3>1, <3>2, <3>5, Zenon
    <2> QED BY <1>16, <2>1, <2>2, <2>3
  <1>17. \E a \in maps : \A b \in maps \ {a} : Below(b, a)
    BY <1>15, <1>16, Zenon
  <1>18. (CHOOSE a \in maps : \A b \in maps \ {a} : Below(b, a)) \in maps
    BY <1>17, Zenon
  <1> QED BY <1>18, Zenon DEF MostSpecific

\* Shape and WalkReaches imply the property.
LEMMA WalkIsSafe == Shape /\ WalkReaches => WalkIsWhole
  <1> SUFFICES ASSUME Shape, WalkReaches PROVE WalkIsWhole
    OBVIOUS
  <1>1. SiteOk(site) /\ walk \in WalksOf(site, walk.robots)
    BY DEF Shape
  <1>2. PICK d : Depths(walk, d) /\ Reaching(walk, walk.seen \ lost, d)
    BY DEF WalkReaches
  <1> DEFINE done == walk.seen \ lost
  <1>3. ToSet(walk.listed) = UNION {ListedOf(map) : map \in done}
    BY <1>2 DEF Reaching
  <1>4. ToSet(Urls(walk)) = {pair.url : pair \in ToSet(walk.listed)}
    BY <1>1, UrlsSay
  <1>5. Cardinality(walk.seen) < MaxSitemaps + Batch /\ IsFiniteSet(walk.seen)
    BY DEF WalkReaches
  <1>6. Cardinality(walk.seen) \in Nat /\ walk.seen \subseteq DOMAIN site.maps
    BY <1>1, <1>5, FS_CardinalityType DEF WalksOf
  <1>7. ASSUME ~Walking, Cardinality(walk.seen) < MaxSitemaps PROVE walk.seen = Within
    <2>1. walk.queue = <<>>
      BY <1>7 DEF Walking
    <2> QED BY <2>1, ReachedIsWithin
  <1> HIDE DEF done
  <1>8. ToSet(Urls(walk)) = UNION {ToSet(PagesOf(site.maps[map])) : map \in done}
    <2> DEFINE pages(map) == ToSet(PagesOf(site.maps[map]))
    <2>1. \A map : \A pair \in ListedOf(map) : pair.url \in pages(map)
      BY DEF ListedOf
    <2>2. \A map : \A url \in pages(map) : \E pair \in ListedOf(map) : pair.url = url
      <3> SUFFICES ASSUME NEW map, NEW url \in pages(map)
                   PROVE  \E pair \in ListedOf(map) : pair.url = url
        OBVIOUS
      <3>1. [url |-> url, by |-> map] \in ListedOf(map)
        BY DEF ListedOf
      <3> QED BY <3>1
    <2> HIDE DEF pages
    <2>3. {pair.url : pair \in UNION {ListedOf(map) : map \in done}} = UNION {pages(map) : map \in done}
      BY <2>1, <2>2
    <2> QED BY <1>3, <1>4, <2>3 DEF pages
  <1>9. ASSUME NEW url \in ToSet(Urls(walk))
        PROVE  url \in ToSet(PagesOf(site.maps[Source(walk, url)]))
    <2> DEFINE by == ListedBy(walk, url)
    <2>1. by = {pair.by : pair \in {p \in ToSet(walk.listed) : p.url = url}}
      BY DEF ListedBy, ToSet
    <2>2. by # {}
      BY <1>4, <1>9, <2>1
    <2>3. \A map \in by : map \in done /\ url \in ToSet(PagesOf(site.maps[map]))
      BY <1>3, <2>1 DEF ListedOf
    <2>4. \A map \in by : map \in ToSet(Alphabet) /\ NameSize[map] \in Nat
      BY <1>1, <1>6, <2>3 DEF SiteOk, done
    <2> HIDE DEF by
    <2>5. MostSpecific(by) \in by
      BY <2>2, <2>4, MostSpecificSays
    <2>6. Source(walk, url) = MostSpecific(by)
      BY DEF Source, by
    <2> QED BY <2>3, <2>5, <2>6
  <1> QED BY <1>5, <1>7, <1>8, <1>9 DEF WalkIsWhole, done

\* collect_sitemap_urls: a walk that ends below its ceiling has asked for every
\* sitemap within the depth limit, for every site, batch size and depth,
\* whatever failed, and attributes each page to a sitemap that lists it.
THEOREM WalkIsWholeHolds == Spec => []WalkIsWhole
  <1> DEFINE Inv == Shape /\ ListIsSelected /\ WalkReaches
  <1>1. Init => Inv
    BY ShapeInit, ReachesInit
  <1>2. Inv /\ [Next]_vars => Inv'
    BY ShapeStep, ReachesStep
  <1>3. Inv => WalkIsWhole
    BY WalkIsSafe
  <1> QED BY <1>1, <1>2, <1>3, PTL DEF Spec


-----------------------------------------------------------------------------
(* Only the review leaves pages out. *)

TemplatesOf(urls) == {TemplateOf(url, urls) : url \in ToSet(urls)}

\* The templates of some addresses do not depend on their order.
LEMMA SameTemplates ==
  ASSUME NEW a, NEW b, ToSet(a) = ToSet(b), NEW url
  PROVE  TemplateOf(url, a) = TemplateOf(url, b)
  <1>1. ASSUME NEW prefix PROVE Children(a, prefix) = Children(b, prefix)
    <2>1. ASSUME NEW s, NEW t, ToSet(s) = ToSet(t), NEW x \in Children(s, prefix)
          PROVE  x \in Children(t, prefix)
      <3>1. PICK i \in DOMAIN s : /\ Len(s[i]) > Len(prefix) /\ SubSeq(s[i], 1, Len(prefix)) = prefix
                                  /\ x = s[i][Len(prefix) + 1]
        BY <2>1 DEF Children
      <3>2. PICK j \in DOMAIN t : t[j] = s[i]
        BY <2>1 DEF ToSet
      <3> QED BY <3>1, <3>2 DEF Children
    <2> QED BY <2>1
  <1> DEFINE s == TemplateOf(url, a)
             t == TemplateOf(url, b)
  <1>2. s = [i \in DOMAIN url |-> s[i]] /\ t = [i \in DOMAIN url |-> t[i]]
    BY DEF TemplateOf
  <1>3. ASSUME NEW i \in DOMAIN url PROVE s[i] = t[i]
    <2>1. \A urls : TemplateOf(url, urls)[i] =
            IF Cardinality(Children(urls, SubSeq(url, 1, i - 1))) >= CollapseMin
            THEN Classify(url[i]) ELSE url[i]
      BY DEF TemplateOf
    <2>2. Children(a, SubSeq(url, 1, i - 1)) = Children(b, SubSeq(url, 1, i - 1))
      BY <1>1, Zenon
    <2> QED BY <2>1, <2>2, Zenon
  <1> HIDE DEF s, t
  <1>4. s = t
    BY <1>2, <1>3, Zenon
  <1> QED BY <1>4 DEF s, t

\* A template is a path.
LEMMA TemplateIsPath ==
  ASSUME NEW url, IsSequence(url), NEW urls
  PROVE  /\ IsSequence(TemplateOf(url, urls)) /\ Len(TemplateOf(url, urls)) = Len(url)
         /\ DOMAIN TemplateOf(url, urls) = DOMAIN url
  <1> DEFINE t == TemplateOf(url, urls)
  <1>1. Len(url) \in Nat /\ DOMAIN url = 1..Len(url)
    BY SeqIs DEF IsSequence
  <1>2. DOMAIN t = 1..Len(url) /\ t = [i \in 1..Len(url) |-> t[i]]
    BY <1>1 DEF TemplateOf
  <1> HIDE DEF t
  <1>3. t \in [1..Len(url) -> ToSet(t)]
    BY <1>2 DEF ToSet
  <1>4. t \in Seq(ToSet(t)) /\ Len(t) = Len(url)
    BY <1>1, <1>3, IsSeq
  <1> QED BY <1>1, <1>2, <1>4 DEF IsSequence, t

\* An address fits its own template.
LEMMA OwnTemplateFits ==
  ASSUME NEW url, IsSequence(url), NEW urls
  PROVE  Fits(url, TemplateOf(url, urls))
  <1>1. ASSUME NEW i \in DOMAIN url
        PROVE  TemplateOf(url, urls)[i] \in Placeholders \/ TemplateOf(url, urls)[i] = url[i]
    <2>1. TemplateOf(url, urls)[i] = Classify(url[i]) \/ TemplateOf(url, urls)[i] = url[i]
      BY DEF TemplateOf
    <2>2. Classify(url[i]) \in Placeholders
      BY ShapesAssumption DEF Classify, Placeholders
    <2> QED BY <2>1, <2>2
  <1> QED BY <1>1, TemplateIsPath DEF Fits

\* The clusters are those of the templates of the addresses.
LEMMA ClustersAre ==
  ASSUME NEW T, NEW urls \in Seq(T)
  PROVE  {found.template : found \in ToSet(Clusters(urls))} = TemplatesOf(urls)
  <1> DEFINE of == [i \in DOMAIN urls |-> TemplateOf(urls[i], urls)]
             counted == [i \in DOMAIN Distinct(of) |->
                           [template |-> Distinct(of)[i],
                            count |-> Len(Kept(of, LAMBDA u : u = Distinct(of)[i]))]]
             ahead == {pair \in ToSet(counted) \X ToSet(counted) :
                         \/ pair[1].count > pair[2].count
                         \/ /\ pair[1].count = pair[2].count
                            /\ TextBefore(pair[1].template, pair[2].template)}
  <1>1. Clusters(urls) = SortedBy(counted, ahead)
    BY DEF Clusters, Mapped, Sorted
  <1>2. ToSet(of) = TemplatesOf(urls)
    BY DEF ToSet, TemplatesOf
  <1>3. of \in Seq(ToSet(of))
    <2>1. DOMAIN urls = 1..Len(urls) /\ Len(urls) \in Nat
      BY SeqIs
    <2>2. DOMAIN of = 1..Len(urls) /\ of = [i \in 1..Len(urls) |-> of[i]]
      BY <2>1
    <2> HIDE DEF of
    <2>3. of \in [1..Len(urls) -> ToSet(of)]
      BY <2>2 DEF ToSet
    <2> QED BY <2>1, <2>3, IsSeq
  <1>4. Distinct(of) \in Seq(ToSet(of)) /\ ToSet(Distinct(of)) = ToSet(of)
    <2> HIDE DEF of
    <2> QED BY <1>3, DistinctSays
  <1>5. {found.template : found \in ToSet(counted)} = ToSet(Distinct(of))
    <2>1. DOMAIN counted = DOMAIN Distinct(of)
      OBVIOUS
    <2>2. ASSUME NEW i \in DOMAIN Distinct(of) PROVE counted[i].template = Distinct(of)[i]
      <3> DEFINE d == Distinct(of)
                 n == Len(Kept(of, LAMBDA u : u = d[i]))
      <3>1. counted[i] = [template |-> d[i], count |-> n]
        BY <2>2
      <3> HIDE DEF n, counted
      <3> QED BY <3>1
    <2> HIDE DEF of, counted
    <2> QED BY <2>1, <2>2 DEF ToSet
  <1>6. counted \in Seq(ToSet(counted))
    <2>1. DOMAIN Distinct(of) = 1..Len(Distinct(of)) /\ Len(Distinct(of)) \in Nat
      <3> HIDE DEF of
      <3> QED BY <1>4, SeqIs
    <2>2. DOMAIN counted = 1..Len(Distinct(of)) /\ counted = [i \in 1..Len(Distinct(of)) |-> counted[i]]
      <3> HIDE DEF of
      <3> QED BY <2>1
    <2> HIDE DEF counted, of
    <2>3. counted \in [1..Len(Distinct(of)) -> ToSet(counted)]
      BY <2>2 DEF ToSet
    <2> QED BY <2>1, <2>3, IsSeq
  <1>7. ToSet(SortedBy(counted, ahead)) = ToSet(counted)
    <2> HIDE DEF counted, ahead
    <2> QED BY <1>6, SortedSays
  <1> HIDE DEF counted, ahead, of
  <1> QED BY <1>1, <1>2, <1>4, <1>5, <1>7

\* The rules of a plan.
PlanOk(p) ==
    /\ p = [rules |-> p.rules, source |-> p.source, fallbacks |-> p.fallbacks]
    /\ IsSequence(p.rules) /\ \A rule \in ToSet(p.rules) : RuleOk(rule)
Covers(p, templates) == \A t \in templates : \E rule \in ToSet(p.rules) : rule.template = t
Unsampled(p) == \A rule \in ToSet(p.rules) : rule.action # "sample"

\* A template's rules are the plan's rules of that template.
LEMMA RulesForSay ==
  ASSUME NEW p, PlanOk(p), NEW t
  PROVE  /\ (\E rule \in ToSet(p.rules) : rule.template = t) => RulesFor(p, t) # <<>>
         /\ RulesFor(p, t) # <<>> =>
               RulesFor(p, t)[1] \in ToSet(p.rules) /\ RulesFor(p, t)[1].template = t
  <1> DEFINE rs == RulesFor(p, t)
             s == p.rules
             places == {i \in DOMAIN s : s[i].template = t}
  <1>1. s \in Seq(ToSet(s))
    BY DEF PlanOk, IsSequence
  <1>2. rs = KeptAt(s, places)
    BY DEF RulesFor, Kept
  <1>3. places = {i \in DOMAIN s : i \in places}
    OBVIOUS
  <1>4. {s[i] : i \in places} = {rule \in ToSet(s) : rule.template = t}
    BY DEF ToSet
  <1> HIDE DEF places, s, rs
  <1>5. rs \in Seq(ToSet(s)) /\ ToSet(rs) = {rule \in ToSet(s) : rule.template = t}
    BY <1>1, <1>2, <1>3, <1>4, KeptSays
  <1>6. rs = <<>> => ToSet(rs) = {}
    BY DEF ToSet
  <1>7. ASSUME rs # <<>> PROVE rs[1] \in ToSet(rs)
    <2>1. Len(rs) \in Nat /\ DOMAIN rs = 1..Len(rs) /\ \A i \in 1..Len(rs) : rs[i] \in ToSet(rs)
      BY <1>5, SeqIs
    <2>2. Len(rs) # 0
      BY <1>5, <1>7
    <2> QED BY <2>1, <2>2
  <1> QED BY <1>5, <1>6, <1>7 DEF s, rs


\* The heuristic has a fitting rule for each template, and no other.
LEMMA HeuristicSays ==
  ASSUME NEW templates, IsSequence(templates),
         \A found \in ToSet(templates) : IsSequence(found.template)
  PROVE  /\ IsSequence(HeuristicRules(templates))
         /\ \A rule \in ToSet(HeuristicRules(templates)) : RuleOk(rule)
         /\ \A found \in ToSet(templates) :
               \E rule \in ToSet(HeuristicRules(templates)) : rule.template = found.template
  <1> DEFINE R(found) ==
                IF ToSet(found.template) \cap JunkParts # {} THEN Rule(found.template, "exclude", 5)
                ELSE IF found.count > SampleThreshold THEN Rule(found.template, "sample", 3)
                ELSE Rule(found.template, "include", SmallerOf(5, LargerOf(1, Len(found.template))))
             h == HeuristicRules(templates)
  <1>1. h = [i \in DOMAIN templates |-> R(templates[i])]
    BY Zenon DEF HeuristicRules, Mapped
  <1>2. ASSUME NEW found \in ToSet(templates)
        PROVE  RuleOk(R(found)) /\ R(found).template = found.template
    <2> DEFINE t == found.template
    <2>1. Len(t) \in Nat
      BY <1>2, SeqIs DEF IsSequence
    <2>2. SmallerOf(5, LargerOf(1, Len(t))) \in 1..5
      <3>1. \A n \in Nat : SmallerOf(5, LargerOf(1, n)) \in 1..5
        BY DEF SmallerOf, LargerOf
      <3> HIDE DEF t
      <3> QED BY <2>1, <3>1
    <2>3. ASSUME NEW action \in {"include", "exclude", "sample"}, NEW priority \in 1..5
          PROVE  RuleOk(Rule(t, action, priority)) /\ Rule(t, action, priority).template = t
      <3> HIDE DEF t
      <3> DEFINE rule == Rule(t, action, priority)
      <3>1. rule.template = t /\ rule.action = action /\ rule.priority = priority
        BY DEF Rule
      <3> HIDE DEF rule
      <3>2. rule = Rule(rule.template, rule.action, rule.priority)
        BY <3>1 DEF rule
      <3> QED BY <3>1, <3>2 DEF RuleOk, rule
    <2>4. \/ R(found) = Rule(t, "exclude", 5)
          \/ R(found) = Rule(t, "sample", 3)
          \/ R(found) = Rule(t, "include", SmallerOf(5, LargerOf(1, Len(t))))
      <3> DEFINE junk == ToSet(t) \cap JunkParts # {}
                 many == found.count > SampleThreshold
                 low == Rule(t, "include", SmallerOf(5, LargerOf(1, Len(t))))
      <3>1. R(found) = IF junk THEN Rule(t, "exclude", 5) ELSE IF many THEN Rule(t, "sample", 3) ELSE low
        OBVIOUS
      <3> HIDE DEF R, junk, many, low
      <3>2. R(found) \in {Rule(t, "exclude", 5), Rule(t, "sample", 3), low}
        BY <3>1
      <3> QED BY <3>2 DEF low
    <2> HIDE DEF R, t
    <2>5. RuleOk(R(found)) /\ R(found).template = t
      BY <2>2, <2>3, <2>4
    <2> QED BY <2>5 DEF t
  <1> HIDE DEF R
  <1>3. Len(templates) \in Nat /\ DOMAIN templates = 1..Len(templates)
    BY SeqIs DEF IsSequence
  <1> HIDE DEF h
  <1>4. DOMAIN h = DOMAIN templates /\ h \in [1..Len(templates) -> ToSet(h)]
    BY <1>1, <1>3 DEF ToSet
  <1>5. IsSequence(h)
    BY <1>3, <1>4, IsSeq DEF IsSequence
  <1>6. \A i \in DOMAIN templates : h[i] = R(templates[i]) /\ templates[i] \in ToSet(templates)
    BY <1>1 DEF ToSet
  <1>7. \A rule \in ToSet(h) : RuleOk(rule)
    BY <1>2, <1>4, <1>6 DEF ToSet
  <1>8. \A found \in ToSet(templates) : \E rule \in ToSet(h) : rule.template = found.template
    <2> SUFFICES ASSUME NEW found \in ToSet(templates)
                 PROVE  \E rule \in ToSet(h) : rule.template = found.template
      OBVIOUS
    <2>1. PICK i \in DOMAIN templates : templates[i] = found
      BY DEF ToSet
    <2>2. h[i] \in ToSet(h) /\ h[i].template = found.template
      BY <1>2, <1>4, <1>6, <2>1 DEF ToSet
    <2> QED BY <2>2
  <1> QED BY <1>5, <1>7, <1>8 DEF h

\* Whatever the model replies, the plan has a rule for every template.
LEMMA PlanSays ==
  ASSUME NEW T, NEW urls \in Seq(T), \A url \in T : IsSequence(url),
         NEW reply, Conforms(reply)
  PROVE  /\ PlanOk(PlanCrawl(reply, Clusters(urls)))
         /\ Covers(PlanCrawl(reply, Clusters(urls)), TemplatesOf(urls))
  <1> DEFINE templates == Clusters(urls)
             h == HeuristicRules(templates)
             sent == Structured(reply).rules
             unruled == {i \in DOMAIN h : \A j \in DOMAIN sent : sent[j].template # h[i].template}
             left == KeptAt(h, unruled)
             p == PlanCrawl(reply, templates)
  <1>1. IsSequence(templates) /\ {found.template : found \in ToSet(templates)} = TemplatesOf(urls)
    BY ClustersSay, ClustersAre
  <1>2. \A t \in TemplatesOf(urls) : IsSequence(t)
    <2>1. \A url \in ToSet(urls) : IsSequence(url)
      BY SeqIs
    <2> QED BY <2>1, TemplateIsPath DEF TemplatesOf
  <1>3. \/ p.rules = h /\ p = [rules |-> p.rules, source |-> p.source, fallbacks |-> p.fallbacks]
        \/ /\ p.rules = Cat(sent, left) /\ reply.kind = "object" /\ sent = reply.rules
           /\ p = [rules |-> p.rules, source |-> p.source, fallbacks |-> p.fallbacks]
    <2>1. \/ p = [rules |-> h, source |-> "heuristic", fallbacks |-> 0]
          \/ p = [rules |-> h, source |-> "heuristic", fallbacks |-> 1]
          \/ p = [rules |-> Cat(sent, left), source |-> "llm", fallbacks |-> 0] /\ sent # <<>>
      <3>1. p = CASE reply.kind = "no key" -> [rules |-> h, source |-> "heuristic", fallbacks |-> 0]
                  [] reply.kind # "no key" /\ sent = <<>> ->
                       [rules |-> h, source |-> "heuristic", fallbacks |-> 1]
                  [] OTHER -> [rules |-> Cat(sent, left), source |-> "llm", fallbacks |-> 0]
        BY DEF PlanCrawl, Kept, Cat
      <3> HIDE DEF p, h, sent, left
      <3> QED BY <3>1
    <2>2. sent # <<>> => reply.kind = "object" /\ sent = reply.rules
      BY DEF Structured
    <2> HIDE DEF p, h, sent, left
    <2> QED BY <2>1, <2>2
  <1> HIDE DEF templates
  <1>4. /\ IsSequence(h) /\ \A rule \in ToSet(h) : RuleOk(rule)
        /\ \A t \in TemplatesOf(urls) : \E rule \in ToSet(h) : rule.template = t
    BY <1>1, <1>2, HeuristicSays
  <1>5. unruled = {i \in DOMAIN h : i \in unruled}
    OBVIOUS
  <1>6. {h[i] : i \in unruled} = {rule \in ToSet(h) : \A other \in ToSet(sent) : other.template # rule.template}
    BY DEF ToSet
  <1> HIDE DEF h, unruled, sent
  <1>7. left \in Seq(ToSet(h)) /\ ToSet(left) = {h[i] : i \in unruled}
    <2>1. h \in Seq(ToSet(h))
      BY <1>4 DEF IsSequence
    <2> QED BY <1>5, <2>1, KeptSays
  <1> HIDE DEF left, p
  <1>8. CASE p.rules = h /\ p = [rules |-> p.rules, source |-> p.source, fallbacks |-> p.fallbacks]
    BY <1>4, <1>8 DEF PlanOk, Covers, p, templates
  <1>9. CASE /\ p.rules = Cat(sent, left) /\ reply.kind = "object" /\ sent = reply.rules
             /\ p = [rules |-> p.rules, source |-> p.source, fallbacks |-> p.fallbacks]
    <2>1. IsSequence(sent) /\ \A rule \in ToSet(sent) : RuleOk(rule)
      BY <1>9 DEF Conforms
    <2> DEFINE U == ToSet(sent) \cup ToSet(h)
    <2>2. sent \in Seq(U) /\ left \in Seq(U)
      <3>1. sent \in Seq(ToSet(sent))
        BY <2>1 DEF IsSequence
      <3>2. ToSet(sent) \subseteq U /\ ToSet(h) \subseteq U
        OBVIOUS
      <3> HIDE DEF U
      <3> QED BY <1>7, <3>1, <3>2
    <2>3. Follows(U, sent, left, Cat(sent, left))
      <3> HIDE DEF U
      <3> QED BY <2>2, ConcatSays
    <2>4. p.rules \in Seq(U) /\ ToSet(p.rules) = ToSet(sent) \cup ToSet(left)
      BY <1>9, <2>3 DEF Follows
    <2>5. \A rule \in ToSet(p.rules) : RuleOk(rule)
      BY <1>4, <1>6, <1>7, <2>1, <2>4
    <2>6. \A t \in TemplatesOf(urls) : \E rule \in ToSet(p.rules) : rule.template = t
      BY <1>4, <1>6, <1>7, <2>4
    <2>7. IsSequence(p.rules)
      <3> HIDE DEF U
      <3> QED BY <2>4, InSomeSeq
    <2> QED BY <1>9, <2>5, <2>6, <2>7 DEF PlanOk, Covers, p, templates
  <1> QED BY <1>3, <1>8, <1>9

\* The review keeps the rules' templates and priorities, and no sample.
LEMMA ApprovedSays ==
  ASSUME NEW p, PlanOk(p), NEW ticked
  PROVE  /\ PlanOk(Approved(p, ticked)) /\ Unsampled(Approved(p, ticked))
         /\ \A templates : Covers(p, templates) => Covers(Approved(p, ticked), templates)
  <1> DEFINE s == p.rules
             A(rule) == [rule EXCEPT !.action = IF rule.template \in ticked THEN "include" ELSE "exclude"]
             q == Approved(p, ticked)
             r == [i \in DOMAIN s |-> A(s[i])]
  <1>1. q = [p EXCEPT !.source = "manual", !.rules = r]
    BY Zenon DEF Approved, Mapped
  <1>2. q = [rules |-> r, source |-> "manual", fallbacks |-> p.fallbacks]
    <2> HIDE DEF q, r
    <2> QED BY <1>1 DEF PlanOk
  <1>3. Len(s) \in Nat /\ DOMAIN s = 1..Len(s)
    BY SeqIs DEF IsSequence, PlanOk
  <1>4. ASSUME NEW rule \in ToSet(s)
        PROVE  RuleOk(A(rule)) /\ A(rule).template = rule.template /\ A(rule).action # "sample"
    <2>1. rule = Rule(rule.template, rule.action, rule.priority) /\ rule.priority \in 1..5
      BY <1>4 DEF PlanOk, RuleOk
    <2>2. \E action \in {"include", "exclude"} : A(rule) = [rule EXCEPT !.action = action]
      OBVIOUS
    <2> HIDE DEF A
    <2>3. PICK action \in {"include", "exclude"} : A(rule) = [rule EXCEPT !.action = action]
      BY <2>2
    <2>4. A(rule) = Rule(rule.template, action, rule.priority)
      BY <2>1, <2>3 DEF Rule
    <2> QED BY <2>1, <2>4 DEF RuleOk, Rule
  <1> HIDE DEF A
  <1>5. \A i \in DOMAIN s : r[i] = A(s[i]) /\ s[i] \in ToSet(s)
    BY DEF ToSet
  <1>6. DOMAIN r = DOMAIN s /\ r \in [1..Len(s) -> ToSet(r)]
    BY <1>3 DEF ToSet
  <1> HIDE DEF r, s, q
  <1>7. IsSequence(r)
    BY <1>3, <1>6, IsSeq DEF IsSequence
  <1>8. \A rule \in ToSet(r) : RuleOk(rule) /\ rule.action # "sample"
    BY <1>4, <1>5, <1>6 DEF ToSet
  <1>9. ASSUME NEW rule \in ToSet(s) PROVE \E other \in ToSet(r) : other.template = rule.template
    <2>1. PICK i \in DOMAIN s : s[i] = rule
      BY <1>9 DEF ToSet
    <2>2. r[i] \in ToSet(r) /\ r[i].template = rule.template
      BY <1>4, <1>5, <1>6, <2>1 DEF ToSet
    <2> QED BY <2>2
  <1>10. q.rules = r /\ PlanOk(q) /\ Unsampled(q)
    BY <1>2, <1>7, <1>8 DEF PlanOk, Unsampled
  <1>11. ASSUME NEW templates, Covers(p, templates) PROVE Covers(q, templates)
    <2> SUFFICES ASSUME NEW t \in templates PROVE \E rule \in ToSet(q.rules) : rule.template = t
      BY DEF Covers
    <2>1. PICK rule \in ToSet(s) : rule.template = t
      BY <1>11 DEF Covers, s
    <2> QED BY <1>9, <1>10, <2>1
  <1> QED BY <1>10, <1>11 DEF q

\* What a template weighs, if its rule includes it, and what then enters the list.
Includes(p, t) == RulesFor(p, t) # <<>> /\ RulesFor(p, t)[1].action = "include"
Weight(p, t) == RulesFor(p, t)[1].priority
Entering(urls, p, t, e) ==
    Includes(p, t) /\ e.url \in ToSet(urls) /\ Fits(e.url, t) /\ e.priority = Weight(p, t)
Weighted(T) == PairsOf(T, 1..5)

\* Without samples a rule takes the whole template or nothing.
LEMMA TakenWhole ==
  ASSUME NEW T, NEW urls \in Seq(T), NEW p, PlanOk(p), Unsampled(p), NEW t
  PROVE  /\ TakenBy(urls, p, t).rest = <<>> /\ TakenBy(urls, p, t).whole \in Seq(Weighted(T))
         /\ \A e \in Weighted(T) : e \in ToSet(TakenBy(urls, p, t).whole) <=> Entering(urls, p, t, e)
  <1> DEFINE rules == RulesFor(p, t)
             places == {i \in DOMAIN urls : Fits(urls[i], t)}
             members == KeptAt(urls, places)
             some == Sample(members, SampleSize)
             others == Kept(members, LAMBDA u : u \notin ToSet(some))
             out == TakenBy(urls, p, t)
             w == rules[1].priority
             whole == Weighed(members, w)
  <1>1. out = IF rules = <<>> THEN [whole |-> <<>>, rest |-> <<>>]
              ELSE CASE rules[1].action = "include" -> [whole |-> whole, rest |-> <<>>]
                     [] rules[1].action = "sample" ->
                          [whole |-> Weighed(some, w), rest |-> Weighed(others, w)]
                     [] OTHER -> [whole |-> <<>>, rest |-> <<>>]
    BY Zenon DEF TakenBy, Kept
  <1>2. rules # <<>> => rules[1] \in ToSet(p.rules)
    BY RulesForSay
  <1>3. rules # <<>> => w \in 1..5 /\ rules[1].action \in {"include", "exclude"}
    BY <1>2 DEF PlanOk, RuleOk, Unsampled
  <1>4. members \in Seq(T) /\ ToSet(members) = {u \in ToSet(urls) : Fits(u, t)}
    <2>1. places = {i \in DOMAIN urls : i \in places}
      OBVIOUS
    <2>2. {urls[i] : i \in places} = {u \in ToSet(urls) : Fits(u, t)}
      BY DEF ToSet
    <2> HIDE DEF places
    <2> QED BY <2>1, <2>2, KeptSays
  <1> HIDE DEF members, some, others, out, whole
  <1>5. CASE Includes(p, t)
    <2>1. rules # <<>> /\ rules[1].action = "include" /\ w \in 1..5 /\ w = Weight(p, t)
      BY <1>3, <1>5 DEF Includes, Weight
    <2> HIDE DEF rules, w
    <2>2. out = [whole |-> whole, rest |-> <<>>]
      BY <1>1, <2>1
    <2>3. /\ whole \in Seq(Weighted(T)) /\ DOMAIN whole = DOMAIN members
          /\ \A i \in DOMAIN members : whole[i] = [url |-> members[i], priority |-> w]
      BY <1>4, <2>1, WeighedSays DEF Weighted, whole
    <2>4. ASSUME NEW e \in Weighted(T)
          PROVE  e \in ToSet(whole) <=> Entering(urls, p, t, e)
      <3>1. e = [url |-> e.url, priority |-> e.priority]
        BY <2>4 DEF Weighted, PairsOf
      <3>2. ASSUME e \in ToSet(whole) PROVE Entering(urls, p, t, e)
        <4>1. PICK i \in DOMAIN members : e = [url |-> members[i], priority |-> w]
          BY <2>3, <3>2 DEF ToSet
        <4>2. members[i] \in ToSet(members) /\ e.url = members[i] /\ e.priority = w
          BY <4>1 DEF ToSet
        <4> QED BY <1>4, <1>5, <2>1, <4>2 DEF Entering
      <3>3. ASSUME Entering(urls, p, t, e) PROVE e \in ToSet(whole)
        <4>1. e.url \in ToSet(members) /\ e.priority = w
          BY <1>4, <2>1, <3>3 DEF Entering
        <4>2. PICK i \in DOMAIN members : members[i] = e.url
          BY <4>1 DEF ToSet
        <4>3. whole[i] = e /\ i \in DOMAIN whole
          BY <2>3, <3>1, <4>1, <4>2
        <4> QED BY <4>3 DEF ToSet
      <3> QED BY <3>2, <3>3
    <2>5. out.rest = <<>> /\ out.whole = whole
      BY <2>2
    <2> QED BY <2>3, <2>4, <2>5 DEF out
  <1>6. CASE ~Includes(p, t)
    <2>1. rules = <<>> \/ (rules # <<>> /\ rules[1].action = "exclude")
      BY <1>3, <1>6 DEF Includes
    <2> HIDE DEF rules, w
    <2>2. out = [whole |-> <<>>, rest |-> <<>>]
      BY <1>1, <2>1
    <2>3. out.whole = <<>> /\ out.rest = <<>> /\ ToSet(<<>>) = {} /\ <<>> \in Seq(Weighted(T))
      BY <2>2 DEF ToSet
    <2> QED BY <1>6, <2>3 DEF out, Entering
  <1> QED BY <1>5, <1>6

\* So for all templates: what enters is what fits a template that is included.
LEMMA ChosenWhole ==
  ASSUME NEW T, NEW urls \in Seq(T), NEW p, PlanOk(p), Unsampled(p)
  PROVE  /\ Chosen(urls, p).rests = <<>> /\ Chosen(urls, p).whole \in Seq(Weighted(T))
         /\ \A e \in Weighted(T) : e \in ToSet(Chosen(urls, p).whole) <=>
               \E t \in TemplatesOf(urls) : Entering(urls, p, t, e)
  <1> DEFINE c == Clusters(urls)
             Q == Weighted(T)
             taken == [i \in DOMAIN c |-> TakenBy(urls, p, c[i].template)]
             wholes == [i \in DOMAIN taken |-> taken[i].whole]
             rests == [i \in DOMAIN taken |-> taken[i].rest]
             some == {i \in DOMAIN rests : rests[i] # <<>>}
  <1>1. Chosen(urls, p) = [whole |-> FlattenSeq(wholes), rests |-> KeptAt(rests, some)]
    BY DEF Chosen, TakenBy, Mapped, Kept
  <1>2. /\ Len(c) \in Nat /\ DOMAIN c = 1..Len(c)
        /\ {found.template : found \in ToSet(c)} = TemplatesOf(urls)
    BY ClustersSay, ClustersAre, SeqIs DEF IsSequence
  <1> HIDE DEF c
  <1>3. ASSUME NEW i \in DOMAIN c
        PROVE  /\ taken[i].rest = <<>> /\ taken[i].whole \in Seq(Q)
               /\ \A e \in Q : e \in ToSet(taken[i].whole) <=> Entering(urls, p, c[i].template, e)
    <2> DEFINE t == c[i].template
    <2>1. taken[i] = TakenBy(urls, p, t)
      OBVIOUS
    <2> HIDE DEF taken, t
    <2> QED BY <2>1, TakenWhole DEF t
  <1>4. DOMAIN taken = 1..Len(c)
    BY <1>2
  <1> HIDE DEF taken, Q
  <1>5. /\ wholes \in [1..Len(c) -> Seq(Q)] /\ rests \in [1..Len(c) -> Seq(Q)]
        /\ \A i \in 1..Len(c) : wholes[i] = taken[i].whole /\ rests[i] = <<>>
    <2>1. <<>> \in Seq(Q)
      OBVIOUS
    <2> QED BY <1>2, <1>3, <1>4, <2>1
  <1>6. some = {} /\ DOMAIN rests = 1..Len(c) /\ DOMAIN wholes = 1..Len(c)
    BY <1>4, <1>5
  <1> HIDE DEF wholes, rests, some
  <1>7. wholes \in Seq(Seq(Q)) /\ rests \in Seq(Seq(Q))
    BY <1>2, <1>5, IsSeq
  <1>8. KeptAt(rests, some) = <<>>
    <2>1. KeptAt(rests, some) \in Seq(Seq(Q)) /\ ToSet(KeptAt(rests, some)) = {}
      <3>1. some = {i \in DOMAIN rests : i \in some}
        BY <1>6
      <3> DEFINE V == Seq(Q)
      <3>2. rests \in Seq(V)
        BY <1>7
      <3> HIDE DEF V
      <3>3. /\ KeptAt(rests, some) \in Seq(V)
            /\ ToSet(KeptAt(rests, some)) = {rests[i] : i \in some}
        BY <3>1, <3>2, KeptSays
      <3>4. {rests[i] : i \in some} = {}
        BY <1>6
      <3>5. ToSet(KeptAt(rests, some)) = {}
        BY <3>3, <3>4
      <3> QED BY <3>3, <3>5 DEF V
    <2> DEFINE k == KeptAt(rests, some)
    <2> HIDE DEF k
    <2>2. k \in Seq(Seq(Q)) /\ ToSet(k) = {}
      BY <2>1 DEF k
    <2>3. Len(k) \in Nat /\ \A i \in 1..Len(k) : k[i] \in ToSet(k)
      BY <2>2, SeqIs
    <2>4. Len(k) = 0
      <3>1. Len(k) # 0 => 1 \in 1..Len(k)
        BY <2>3
      <3> QED BY <2>2, <2>3, <3>1
    <2>5. k = <<>>
      BY <2>2, <2>4, EmptySeq
    <2> QED BY <2>5 DEF k
  <1> DEFINE all == FlattenSeq(wholes)
  <1>9. all \in Seq(Q) /\ ToSet(all) = UNION {ToSet(wholes[i]) : i \in DOMAIN wholes}
    BY <1>7, FlattenSays
  <1> HIDE DEF all
  <1>10. ASSUME NEW e \in Q
         PROVE  e \in ToSet(all) <=> \E t \in TemplatesOf(urls) : Entering(urls, p, t, e)
    <2>1. e \in ToSet(all) <=> \E i \in 1..Len(c) : e \in ToSet(taken[i].whole)
      BY <1>5, <1>6, <1>9
    <2>2. e \in ToSet(all) <=> \E i \in DOMAIN c : Entering(urls, p, c[i].template, e)
      BY <1>2, <1>3, <1>10, <2>1
    <2>3. \A i \in DOMAIN c : c[i].template \in TemplatesOf(urls)
      BY <1>2 DEF ToSet
    <2>4. \A t \in TemplatesOf(urls) : \E i \in DOMAIN c : c[i].template = t
      BY <1>2 DEF ToSet
    <2> QED BY <2>2, <2>3, <2>4
  <1> QED BY <1>1, <1>8, <1>9, <1>10 DEF all, Q

\* The crawl list before the budget, and inside it.
Homed(ordered) == IF <<>> \in ToSet(ordered) THEN ordered ELSE Cat(<<(<<>>)>>, ordered)
CutAt(all, budget) == IF budget > 0 /\ budget < Len(all) THEN SubSeq(all, 1, budget) ELSE all
Behindhand(ordered, budget, list, url) ==
    /\ Len(list) = budget
    /\ \E b \in 1..Len(ordered) :
          /\ ordered[b] = url
          /\ \A u \in ToSet(list) \ {<<>>} : \E a \in 1..Len(ordered) : a < b /\ ordered[a] = u

\* What is cut off comes after whatever stays, but for the homepage.
LEMMA CutSays ==
  ASSUME NEW T, NEW ordered \in Seq(T), NEW budget \in Nat \ {0},
         NEW list, list = CutAt(Homed(ordered), budget),
         NEW url \in ToSet(ordered), url \notin ToSet(list)
  PROVE  Behindhand(ordered, budget, list, url)
  <1> DEFINE U == T \cup {<<>>}
             all == Homed(ordered)
             home == <<(<<>>)>>
             out == Cat(home, ordered)
  <1>1. Len(ordered) \in Nat /\ DOMAIN ordered = 1..Len(ordered)
    BY SeqIs
  <1>2. PICK b \in 1..Len(ordered) : ordered[b] = url
    BY <1>1 DEF ToSet
  <1>3. ordered \in Seq(U) /\ home \in Seq(U)
    OBVIOUS
  <1>4. Follows(U, home, ordered, out)
    <2> HIDE DEF U, home
    <2> QED BY <1>3, ConcatSays
  <1>5. Len(home) = 1 /\ home[1] = <<>>
    OBVIOUS
  <1> HIDE DEF out, home
  <1>6. /\ out \in Seq(U) /\ Len(out) = 1 + Len(ordered) /\ out[1] = <<>>
        /\ \A i \in 1..Len(ordered) : out[1 + i] = ordered[i]
    <2>1. /\ out \in Seq(U) /\ Len(out) = Len(home) + Len(ordered)
          /\ \A i \in 1..Len(home) : out[i] = home[i]
          /\ \A i \in 1..Len(ordered) : out[Len(home) + i] = ordered[i]
      BY <1>4 DEF Follows
    <2>2. 1 \in 1..1
      OBVIOUS
    <2> HIDE DEF U
    <2> QED BY <1>5, <2>1, <2>2
  <1>7. all = IF <<>> \in ToSet(ordered) THEN ordered ELSE out
    BY DEF Homed, out, home
  <1> HIDE DEF all, U
  \* shift is 0 or 1: where the addresses begin in the list.
  <1>8. PICK shift \in {0, 1} :
           /\ all \in Seq(U) /\ Len(all) = shift + Len(ordered)
           /\ \A i \in 1..Len(ordered) : all[shift + i] = ordered[i]
           /\ shift = 1 => all[1] = <<>>
    <2>1. CASE <<>> \in ToSet(ordered)
      <3>1. all = ordered
        BY <1>7, <2>1
      <3>2. /\ Len(all) = 0 + Len(ordered) /\ \A i \in 1..Len(ordered) : all[0 + i] = ordered[i]
            /\ all \in Seq(U)
        BY <1>1, <1>3, <3>1
      <3> QED BY <3>2
    <2>2. CASE <<>> \notin ToSet(ordered)
      BY <1>6, <1>7, <2>2
    <2> QED BY <2>1, <2>2
  <1>9. Len(all) \in Nat /\ DOMAIN all = 1..Len(all)
    BY <1>8, SeqIs
  <1>10. shift + b \in DOMAIN all /\ all[shift + b] = url
    BY <1>1, <1>2, <1>8, <1>9
  <1>11. list = IF budget < Len(all) THEN SubSeq(all, 1, budget) ELSE all
    BY <1>9 DEF CutAt, all
  <1>12. budget < Len(all)
    <2> SUFFICES ASSUME ~(budget < Len(all)) PROVE FALSE
      OBVIOUS
    <2>1. list = all
      BY <1>11
    <2> QED BY <1>10, <2>1 DEF ToSet
  <1>13. list \in Seq(U) /\ Len(list) = budget /\ \A i \in 1..budget : list[i] = all[i]
    BY <1>8, <1>11, <1>12, FirstOfSeq
  <1>14. DOMAIN list = 1..budget
    BY <1>13, SeqIs
  <1>15. shift + b > budget
    <2> SUFFICES ASSUME ~(shift + b > budget) PROVE FALSE
      OBVIOUS
    <2>1. shift + b \in 1..budget
      BY <1>9, <1>10
    <2>2. list[shift + b] = url /\ shift + b \in DOMAIN list
      BY <1>10, <1>13, <1>14, <2>1
    <2> QED BY <2>2 DEF ToSet
  <1>16. ASSUME NEW u \in ToSet(list) \ {<<>>}
         PROVE  \E a \in 1..Len(ordered) : a < b /\ ordered[a] = u
    <2>1. PICK i \in 1..budget : all[i] = u
      BY <1>13, <1>14, <1>16 DEF ToSet
    <2>2. shift = 1 => i # 1
      BY <1>8, <1>16, <2>1
    <2>3. i - shift \in 1..Len(ordered) /\ i - shift < b /\ shift + (i - shift) = i
      BY <1>1, <1>2, <1>8, <1>12, <1>15, <2>1, <2>2
    <2>4. ordered[i - shift] = u
      BY <1>8, <2>1, <2>3
    <2> QED BY <2>3, <2>4
  <1> QED BY <1>2, <1>13, <1>16 DEF Behindhand

\* The addresses of entries in order of priority: who comes first weighs no more.
Bare(entries) == [i \in DOMAIN entries |-> entries[i].url]
LEMMA BareSays ==
  ASSUME NEW T, NEW entries \in Seq(Weighted(T))
  PROVE  /\ Bare(entries) \in Seq(T) /\ DOMAIN Bare(entries) = DOMAIN entries
         /\ \A i \in DOMAIN entries : Bare(entries)[i] = entries[i].url
  <1>1. Len(entries) \in Nat /\ DOMAIN entries = 1..Len(entries)
        /\ \A i \in 1..Len(entries) : entries[i] \in Weighted(T)
    BY SeqIs
  <1>2. Bare(entries) \in [1..Len(entries) -> T]
    BY <1>1 DEF Weighted, PairsOf, Bare
  <1>3. \A i \in DOMAIN entries : Bare(entries)[i] = entries[i].url
    BY DEF Bare
  <1> QED BY <1>1, <1>2, <1>3, IsSeq

LEMMA RanksSay ==
  ASSUME NEW T, NEW entries \in Seq(Weighted(T)),
         \A i, j \in DOMAIN entries : i < j => entries[i].priority <= entries[j].priority,
         NEW ordered, ordered = Distinct(Bare(entries)),
         NEW a \in 1..Len(ordered), NEW b \in 1..Len(ordered), a < b,
         NEW q \in DOMAIN entries, entries[q].url = ordered[b]
  PROVE  \E r \in DOMAIN entries :
            entries[r].url = ordered[a] /\ entries[r].priority <= entries[q].priority
  <1> DEFINE bare == Bare(entries)
  <1>1. bare \in Seq(T) /\ DOMAIN bare = DOMAIN entries
        /\ \A i \in DOMAIN entries : bare[i] = entries[i].url
    BY BareSays
  <1> HIDE DEF bare
  <1>2. Len(bare) \in Nat /\ DOMAIN bare = 1..Len(bare)
    BY <1>1, SeqIs
  <1>3. PICK m, e : KeptBy(bare, Firsts(bare), m, e) /\ ordered = At(bare, m, e)
    BY <1>1, DistinctSays DEF bare
  <1>4. /\ m \in Nat /\ e \in [1..m -> Firsts(bare)] /\ \A i, j \in 1..m : i < j => e[i] < e[j]
    BY <1>3 DEF KeptBy
  <1>5. Len(ordered) = m /\ \A k \in 1..m : ordered[k] = bare[e[k]]
    <2> DEFINE f == [k \in 1..m |-> bare[e[k]]]
    <2>1. f \in [1..m -> ToSet(f)]
      BY DEF ToSet
    <2>2. \A k \in 1..m : f[k] = bare[e[k]]
      OBVIOUS
    <2> HIDE DEF f
    <2>3. Len(f) = m
      BY <1>4, <2>1, IsSeq
    <2> QED BY <1>3, <2>2, <2>3 DEF At, f
  <1>6. /\ e[a] \in 1..Len(bare) /\ e[b] \in 1..Len(bare) /\ e[a] < e[b]
        /\ e[b] \in Firsts(bare)
    BY <1>2, <1>4, <1>5 DEF Firsts
  <1>7. bare[e[b]] = bare[q]
    BY <1>1, <1>5
  <1>8. q \in 1..Len(bare) /\ ~(q < e[b])
    <2>1. q \in 1..Len(bare)
      BY <1>1, <1>2
    <2>2. \A j \in 1..(e[b] - 1) : bare[j] # bare[e[b]]
      BY <1>6 DEF Firsts
    <2> QED BY <1>2, <1>6, <1>7, <2>1, <2>2
  <1>9. e[a] < q
    BY <1>2, <1>6, <1>8
  <1>10. entries[e[a]].url = ordered[a] /\ entries[e[a]].priority <= entries[q].priority
         /\ e[a] \in DOMAIN entries
    BY <1>1, <1>2, <1>5, <1>6, <1>9
  <1> QED BY <1>10

\* An address that fits an included template and is not on the list was cut
\* off by the budget, and nothing on the list weighs more.
Prefers(urls, p, budget, list) ==
    \A url \in ToSet(urls) \ ToSet(list), t \in TemplatesOf(urls) :
        Includes(p, t) /\ Fits(url, t) =>
            /\ Len(list) = budget
            /\ \A u \in ToSet(list) \ {<<>>} : \E s \in TemplatesOf(urls) :
                  Includes(p, s) /\ Fits(u, s) /\ Weight(p, s) <= Weight(p, t)

LEMMA SelectPrefers ==
  ASSUME NEW T, NEW urls \in Seq(T), NEW p, PlanOk(p), Unsampled(p), NEW budget \in Nat \ {0}
  PROVE  Prefers(urls, p, budget, SelectUrls(urls, p, budget))
  <1> DEFINE Q == Weighted(T)
             topped == ToppedUp(Chosen(urls, p), budget)
             ahead == {pair \in ToSet(topped) \X ToSet(topped) : pair[1].priority < pair[2].priority}
             sorted == SortedBy(topped, ahead)
             ordered == Distinct(Bare(sorted))
             list == SelectUrls(urls, p, budget)
  <1>1. list = CutAt(Homed(ordered), budget)
    BY DEF SelectUrls, Sorted, Mapped, Cat, CutAt, Homed, Bare
  <1>2. /\ topped \in Seq(Q)
        /\ \A e \in Q : e \in ToSet(topped) <=> \E t \in TemplatesOf(urls) : Entering(urls, p, t, e)
    <2>1. /\ Chosen(urls, p).rests = <<>> /\ Chosen(urls, p).whole \in Seq(Q)
          /\ \A e \in Q : e \in ToSet(Chosen(urls, p).whole) <=>
                \E t \in TemplatesOf(urls) : Entering(urls, p, t, e)
      BY ChosenWhole
    <2> HIDE DEF Q
    <2>2. Chosen(urls, p).rests \in Seq(Seq(Q))
      BY <2>1
    <2>3. topped = Chosen(urls, p).whole
      BY <2>1, <2>2, ToppedUpSays
    <2> QED BY <2>1, <2>3
  <1> HIDE DEF topped, list
  <1>3. \A e \in Q : e.priority \in 1..5 /\ e.url \in T
    BY DEF Weighted, PairsOf
  <1>4. ToSet(topped) \subseteq Q
    <2> HIDE DEF Q
    <2> QED BY <1>2, SeqIs
  <1>5. Strictly(ahead)
    <2>1. ASSUME NEW x, NEW y, NEW z, <<x, y>> \in ahead, <<y, z>> \in ahead
          PROVE  <<x, z>> \in ahead
      <3>1. /\ x \in ToSet(topped) /\ y \in ToSet(topped) /\ z \in ToSet(topped)
            /\ x.priority < y.priority /\ y.priority < z.priority
        BY <2>1
      <3>2. x.priority \in 1..5 /\ y.priority \in 1..5 /\ z.priority \in 1..5
        BY <1>3, <1>4, <3>1
      <3>3. x.priority < z.priority
        BY <3>1, <3>2
      <3> QED BY <3>1, <3>3
    <2>2. ASSUME NEW x PROVE <<x, x>> \notin ahead
      <3> SUFFICES ASSUME <<x, x>> \in ahead PROVE FALSE
        OBVIOUS
      <3>1. x \in ToSet(topped) /\ x.priority < x.priority
        OBVIOUS
      <3>2. x.priority \in 1..5
        BY <1>3, <1>4, <3>1
      <3> QED BY <3>1, <3>2
    <2> HIDE DEF ahead
    <2> QED BY <2>1, <2>2 DEF Strictly
  <1>6. sorted \in Seq(Q) /\ ToSet(sorted) = ToSet(topped) /\ InOrder(sorted, ahead)
    <2> HIDE DEF ahead, Q
    <2> QED BY <1>2, <1>5, SortedSays
  <1> HIDE DEF sorted
  <1>7. ASSUME NEW i \in DOMAIN sorted, NEW j \in DOMAIN sorted, i < j
        PROVE  sorted[i].priority <= sorted[j].priority
    <2>1. sorted[i] \in ToSet(topped) /\ sorted[j] \in ToSet(topped)
      BY <1>6 DEF ToSet
    <2>2. <<sorted[j], sorted[i]>> \notin ahead
      BY <1>6, <1>7 DEF InOrder
    <2>3. ~(sorted[j].priority < sorted[i].priority)
      BY <2>1, <2>2
    <2>4. sorted[i].priority \in 1..5 /\ sorted[j].priority \in 1..5
      BY <1>3, <1>4, <2>1
    <2> QED BY <2>3, <2>4
  <1> HIDE DEF ahead
  <1>8. /\ Bare(sorted) \in Seq(T) /\ DOMAIN Bare(sorted) = DOMAIN sorted
        /\ \A i \in DOMAIN sorted : Bare(sorted)[i] = sorted[i].url
    BY <1>6, BareSays
  <1>9. ordered \in Seq(T) /\ ToSet(ordered) = ToSet(Bare(sorted))
    BY <1>8, DistinctSays
  <1> SUFFICES ASSUME NEW url \in ToSet(urls) \ ToSet(list), NEW t \in TemplatesOf(urls),
                      Includes(p, t), Fits(url, t)
               PROVE  /\ Len(list) = budget
                      /\ \A u \in ToSet(list) \ {<<>>} : \E s \in TemplatesOf(urls) :
                            Includes(p, s) /\ Fits(u, s) /\ Weight(p, s) <= Weight(p, t)
    BY DEF Prefers, list
  <1>10. PICK q \in DOMAIN sorted : sorted[q].url = url /\ sorted[q].priority = Weight(p, t)
    <2> DEFINE e == [url |-> url, priority |-> Weight(p, t)]
    <2>1. Weight(p, t) \in 1..5
      <3>1. RulesFor(p, t)[1] \in ToSet(p.rules)
        BY RulesForSay DEF Includes
      <3> QED BY <3>1 DEF PlanOk, RuleOk, Weight
    <2>2. url \in T
      BY SeqIs
    <2>3. e \in Q /\ e.url = url /\ e.priority = Weight(p, t)
      BY <2>1, <2>2 DEF Weighted, PairsOf
    <2> HIDE DEF e, Q
    <2>4. Entering(urls, p, t, e)
      BY <2>3 DEF Entering
    <2>5. e \in ToSet(sorted)
      BY <1>2, <1>6, <2>3, <2>4
    <2> QED BY <2>3, <2>5 DEF ToSet
  <1>11. url \in ToSet(ordered)
    BY <1>8, <1>9, <1>10 DEF ToSet
  <1>12. Behindhand(ordered, budget, list, url)
    <2> HIDE DEF ordered
    <2> QED BY <1>1, <1>9, <1>11, CutSays
  <1>13. PICK b \in 1..Len(ordered) :
            /\ ordered[b] = url
            /\ \A u \in ToSet(list) \ {<<>>} : \E a \in 1..Len(ordered) : a < b /\ ordered[a] = u
    <2> HIDE DEF ordered
    <2> QED BY <1>12 DEF Behindhand
  <1>14. ASSUME NEW u \in ToSet(list) \ {<<>>}
         PROVE  \E s \in TemplatesOf(urls) :
                   Includes(p, s) /\ Fits(u, s) /\ Weight(p, s) <= Weight(p, t)
    <2>1. PICK a \in 1..Len(ordered) : a < b /\ ordered[a] = u
      BY <1>13, <1>14
    <2>2. PICK r \in DOMAIN sorted :
             sorted[r].url = u /\ sorted[r].priority <= sorted[q].priority
      <3>1. sorted \in Seq(Weighted(T))
            /\ \A i, j \in DOMAIN sorted : i < j => sorted[i].priority <= sorted[j].priority
        BY <1>6, <1>7
      <3>2. sorted[q].url = ordered[b]
        BY <1>10, <1>13
      <3>3. \E r \in DOMAIN sorted :
               sorted[r].url = ordered[a] /\ sorted[r].priority <= sorted[q].priority
        <4> DEFINE o == ordered
        <4>1. o = Distinct(Bare(sorted)) /\ a \in 1..Len(o) /\ b \in 1..Len(o) /\ sorted[q].url = o[b]
          BY <3>2
        <4> HIDE DEF o
        <4>2. \E r \in DOMAIN sorted : sorted[r].url = o[a] /\ sorted[r].priority <= sorted[q].priority
          BY <2>1, <3>1, <4>1, RanksSay
        <4> QED BY <4>2 DEF o
      <3> QED BY <2>1, <3>3
    <2>3. sorted[r] \in Q /\ sorted[r] \in ToSet(topped)
      BY <1>4, <1>6 DEF ToSet
    <2>4. PICK s \in TemplatesOf(urls) : Entering(urls, p, s, sorted[r])
      BY <1>2, <2>3
    <2>5. Includes(p, s) /\ Fits(u, s) /\ sorted[r].priority = Weight(p, s)
      BY <2>2, <2>4 DEF Entering
    <2> QED BY <1>10, <2>2, <2>5
  <1> QED BY <1>12, <1>14 DEF Behindhand

\* From the review on there is a plan with a rule for every template of the
\* addresses it was made of; after it no rule samples.
Reviewed ==
    /\ stage # "preflight" => PlanOk(plan) /\ Covers(plan, TemplatesOf(planned))
    /\ stage \in {"crawling", "fetching"} => Unsampled(plan)

\* Initially.
LEMMA ReviewedInit == Init => Reviewed
  BY DEF Init, Reviewed

\* Every step leaves it so.
LEMMA ReviewedStep == Shape /\ Reviewed /\ [Next]_vars => Reviewed'
  <1> SUFFICES ASSUME Shape, Reviewed, [Next]_vars PROVE Reviewed'
    OBVIOUS
  <1>0. SiteOk(site) /\ walk \in WalksOf(site, walk.robots)
    BY DEF Shape
  <1>1. CASE UNCHANGED <<stage, plan, planned>>
    <2>1. stage' = stage /\ plan' = plan /\ planned' = planned
      BY <1>1
    <2> QED BY <2>1 DEF Reviewed
  <1>2. CASE Walks \/ Over \/ UNCHANGED vars
    BY <1>1, <1>2 DEF Walks, Over, vars
  <1>3. CASE Preflight
    <2>1. PICK reply : Conforms(reply) /\ plan' = PlanCrawl(reply, Clusters(Urls(walk)))
      BY <1>3 DEF Preflight
    <2>2. planned' = Urls(walk) /\ stage' = "review"
      BY <1>3 DEF Preflight
    <2>3. Urls(walk) \in Seq(Pages(site)) /\ \A url \in Pages(site) : IsSequence(url)
      BY <1>0, UrlsSay, PagesAreSequences
    <2>4. PlanOk(plan') /\ Covers(plan', TemplatesOf(planned'))
      BY <2>1, <2>2, <2>3, PlanSays
    <2> QED BY <2>2, <2>4 DEF Reviewed
  <1>4. CASE Approve
    <2>1. PICK ticked : plan' = Approved(plan, ticked)
      BY <1>4 DEF Approve
    <2>2. planned' = planned /\ stage = "review"
      BY <1>4 DEF Approve
    <2>3. PlanOk(plan) /\ Covers(plan, TemplatesOf(planned))
      BY <2>2 DEF Reviewed
    <2>4. PlanOk(plan') /\ Covers(plan', TemplatesOf(planned')) /\ Unsampled(plan')
      BY <2>1, <2>2, <2>3, ApprovedSays
    <2> QED BY <2>4 DEF Reviewed
  <1>5. CASE Select
    <2>1. plan' = plan /\ planned' = planned /\ stage = "crawling" /\ stage' = "fetching"
      BY <1>5 DEF Select
    <2> QED BY <2>1 DEF Reviewed
  <1> QED BY <1>2, <1>3, <1>4, <1>5 DEF Next

\* It implies the property: an address fits its own template, which has a
\* rule; the rule includes it unless it was left unticked; and then nothing
\* but the budget keeps it out.
LEMMA ReviewIsSafe == Shape /\ Reviewed => OnlyTheReviewLeavesPagesOut
  <1> SUFFICES ASSUME Shape, Reviewed, stage = "fetching", ToSet(Urls(walk)) = ToSet(planned)
               PROVE  OnlyTheReviewLeavesPagesOut
    BY DEF OnlyTheReviewLeavesPagesOut
  <1> DEFINE urls == Urls(walk)
             list == SelectUrls(urls, plan, cap)
             templates == {TemplateOf(url, planned) : url \in ToSet(planned)}
             Unticked(url) ==
                 \E i \in DOMAIN plan.rules :
                     /\ plan.rules[i].template = TemplateOf(url, planned)
                     /\ plan.rules[i].action = "exclude"
             Taking(url) ==
                 {template \in templates :
                     /\ Fits(url, template) /\ RulesFor(plan, template) # <<>>
                     /\ RulesFor(plan, template)[1].action = "include"}
             Priorities(url) == {RulesFor(plan, template)[1].priority : template \in Taking(url)}
             Before(u, v) == \A n \in Priorities(v) : \E m \in Priorities(u) : m <= n
  <1>1. SiteOk(site) /\ walk \in WalksOf(site, walk.robots) /\ cap \in Nat \ {0}
    BY DEF Shape
  <1>2. PlanOk(plan) /\ Covers(plan, TemplatesOf(planned)) /\ Unsampled(plan)
    BY DEF Reviewed
  <1>3. urls \in Seq(Pages(site)) /\ \A url \in Pages(site) : IsSequence(url)
    BY <1>1, UrlsSay, PagesAreSequences
  <1>4. templates = TemplatesOf(planned)
    BY DEF TemplatesOf
  <1> HIDE DEF urls
  <1>5. TemplatesOf(urls) = TemplatesOf(planned)
    <2>1. ToSet(urls) = ToSet(planned)
      BY DEF urls
    <2>2. \A url : TemplateOf(url, urls) = TemplateOf(url, planned)
      BY <2>1, SameTemplates
    <2> QED BY <2>1, <2>2 DEF TemplatesOf
  <1> HIDE DEF list, templates
  <1>6. Prefers(urls, plan, cap, list)
    BY <1>1, <1>2, <1>3, SelectPrefers DEF list
  <1>7. \A url : Taking(url) = {template \in TemplatesOf(planned) : Fits(url, template) /\ Includes(plan, template)}
    BY <1>4 DEF Includes
  <1>8. \A url : Priorities(url) = {Weight(plan, template) : template \in Taking(url)}
    BY DEF Weight
  <1>9. ASSUME NEW url \in ToSet(planned) \ ToSet(list), ~Unticked(url)
        PROVE  Len(list) = cap /\ \A u \in ToSet(list) \ {<<>>} : Before(u, url)
    <2> DEFINE t == TemplateOf(url, planned)
    <2>1. t \in TemplatesOf(planned)
      BY <1>9 DEF TemplatesOf
    <2>2. url \in ToSet(urls) /\ IsSequence(url)
      <3>1. url \in ToSet(urls)
        BY <1>9 DEF urls
      <3> QED BY <1>3, <3>1, SeqIs
    <2>3. Fits(url, t)
      BY <2>2, OwnTemplateFits
    <2>4. Includes(plan, t)
      <3>1. RulesFor(plan, t) # <<>>
        BY <1>2, <2>1, RulesForSay DEF Covers
      <3>2. RulesFor(plan, t)[1] \in ToSet(plan.rules) /\ RulesFor(plan, t)[1].template = t
        BY <1>2, <3>1, RulesForSay
      <3>3. RulesFor(plan, t)[1].action \in {"include", "exclude"}
        BY <1>2, <3>2 DEF PlanOk, RuleOk, Unsampled
      <3>4. RulesFor(plan, t)[1].action # "exclude"
        BY <1>9, <3>2 DEF ToSet
      <3> QED BY <3>1, <3>3, <3>4 DEF Includes
    <2> HIDE DEF t, Unticked
    <2>5. Len(list) = cap
      BY <1>5, <1>6, <1>9, <2>1, <2>2, <2>3, <2>4 DEF Prefers
    <2>6. ASSUME NEW u \in ToSet(list) \ {<<>>}, NEW n \in Priorities(url)
          PROVE  \E m \in Priorities(u) : m <= n
      <3> HIDE DEF Priorities, Taking
      <3>1. PICK s \in Taking(url) : n = Weight(plan, s)
        BY <1>8, <2>6
      <3>2. s \in TemplatesOf(urls) /\ Fits(url, s) /\ Includes(plan, s)
        BY <1>5, <1>7, <3>1
      <3>3. PICK r \in TemplatesOf(urls) :
               Includes(plan, r) /\ Fits(u, r) /\ Weight(plan, r) <= Weight(plan, s)
        BY <1>6, <1>9, <2>2, <2>6, <3>2 DEF Prefers
      <3>4. Weight(plan, r) \in Priorities(u)
        BY <1>5, <1>7, <1>8, <3>3
      <3> QED BY <3>1, <3>3, <3>4
    <2> QED BY <2>5, <2>6
  <1> HIDE DEF Unticked, Before
  <1>10. \A url \in ToSet(planned) \ ToSet(list) :
            \/ Unticked(url)
            \/ Len(list) = cap /\ \A u \in ToSet(list) \ {<<>>} : Before(u, url)
    BY <1>9
  <1> QED BY <1>10, Zenon DEF OnlyTheReviewLeavesPagesOut, list, templates, urls, Unticked, Before

\* Between the plan and the fetcher no address is lost but by an unticked
\* template or by a budget full of pages that come before it, whatever the
\* model replies, the person ticks and the site is rebuilt into, as long as
\* the crawl finds the addresses again.
THEOREM OnlyTheReviewLeavesPagesOutHolds == Spec => []OnlyTheReviewLeavesPagesOut
  <1>1. Init => Shape /\ Reviewed
    BY ShapeInit, ReviewedInit
  <1>2. Shape /\ ListIsSelected /\ Reviewed /\ [Next]_vars => (Shape /\ ListIsSelected /\ Reviewed)'
    BY ShapeStep, ReviewedStep
  <1> QED BY ShapeInit, <1>1, <1>2, ReviewIsSafe, PTL DEF Spec
=============================================================================
