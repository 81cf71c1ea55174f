------------------------ MODULE ClientRecords_proofs ------------------------
(***************************************************************************)
(* What holds of a client's records for every site, every set of figures,  *)
(* every declaration and every number of requests: the planning table      *)
(* keeps to the declarations, drift is what moved, an upload stands whole, *)
(* a mark never beats a probe, the lists agree, and an audit is one row.   *)
(***************************************************************************)
EXTENDS GroupTable, SiteStatus, Audits, FiniteSetTheorems, WellFoundedInduction, TLAPS

USE VerdictsAssumption, StatusAssumption, NoAuditAssumption

-----------------------------------------------------------------------------
(* Numbers and sums. *)

\* A set of numbers that is not empty has a least.
LEMMA Least ==
  ASSUME NEW S \in SUBSET Nat, S # {}
  PROVE  \E n \in S : \A m \in S : n <= m
  <1>1. PICK n \in S : \A m \in S : ~(<<m, n>> \in OpToRel(<, Nat))
    BY NatLessThanWellFounded, WFMin
  <1>2. n \in Nat /\ \A m \in S : m \in Nat
    OBVIOUS
  <1>3. \A m \in S : ~(m < n)
    BY <1>1, <1>2 DEF OpToRel
  <1>4. \A m \in S : n <= m
    BY <1>2, <1>3
  <1> QED BY <1>4

\* A set that holds 0 and the successor of what it holds is all the numbers:
\* induction, with a set in place of the operator the library's theorem takes.
LEMMA Induct ==
  ASSUME NEW S, 0 \in S, \A n \in Nat : n \in S => n + 1 \in S
  PROVE  \A n \in Nat : n \in S
  <1> SUFFICES ASSUME NEW k \in Nat, k \notin S PROVE FALSE
    OBVIOUS
  <1> DEFINE Out == {n \in Nat : n \notin S}
  <1>1. PICK n \in Out : \A m \in Out : n <= m
    <2>1. Out \in SUBSET Nat /\ Out # {}
      OBVIOUS
    <2> HIDE DEF Out
    <2> QED BY <2>1, Least
  <1>2. n \in Nat /\ n # 0 /\ n - 1 \in Nat /\ (n - 1) + 1 = n
    OBVIOUS
  <1>3. n - 1 \in S
    <2>1. ~(n <= n - 1)
      BY <1>2
    <2> QED BY <1>1, <1>2, <2>1
  <1> QED BY <1>1, <1>2, <1>3

\* What the sets g[x] hold, of the x in s.
Parts(s, g) == UNION {g[x] : x \in s}

\* fun counts sets that are finite and share nothing.
Counts(S, fun, g) ==
    /\ \A x \in S : IsFiniteSet(g[x]) /\ fun[x] = Cardinality(g[x])
    /\ \A x, y \in S : x # y => g[x] \cap g[y] = {}

\* The element a sum begins with.
Pick(s) == CHOOSE x \in s : TRUE

\* Parts of disjoint sets, taken one at a time.
LEMMA OnePart ==
  ASSUME NEW S, NEW fun, NEW g, Counts(S, fun, g), NEW s \in SUBSET S, s # {},
         IsFiniteSet(Parts(s \ {Pick(s)}, g))
  PROVE  /\ Pick(s) \in s
         /\ IsFiniteSet(Parts(s, g))
         /\ Cardinality(Parts(s, g)) = fun[Pick(s)] + Cardinality(Parts(s \ {Pick(s)}, g))
  <1>1. Pick(s) \in s
    BY DEF Pick
  <1> DEFINE p == Pick(s)
  <1>2. p \in s
    BY <1>1
  <1> HIDE DEF p
  <1>3. Parts(s, g) = g[p] \cup Parts(s \ {p}, g)
    BY <1>2 DEF Parts
  <1>4. g[p] \cap Parts(s \ {p}, g) = {}
    BY <1>2 DEF Parts, Counts
  <1>5. IsFiniteSet(g[p]) /\ fun[p] = Cardinality(g[p])
    BY <1>2 DEF Counts
  <1>6. IsFiniteSet(Parts(s \ {p}, g))
    BY DEF p
  <1> DEFINE A == g[p]
             B == Parts(s \ {p}, g)
  <1>7. A \cap B = {} /\ IsFiniteSet(A) /\ IsFiniteSet(B)
    BY <1>4, <1>5, <1>6
  <1> HIDE DEF A, B
  <1>8. IsFiniteSet(A \cup B) /\ Cardinality(A \cup B) = Cardinality(A) + Cardinality(B)
    <2>1. Cardinality(A \cap B) = 0
      BY <1>7, FS_EmptySet
    <2>2. Cardinality(A) \in Nat /\ Cardinality(B) \in Nat
      BY <1>7, FS_CardinalityType
    <2>3. /\ IsFiniteSet(A \cup B)
          /\ Cardinality(A \cup B) = Cardinality(A) + Cardinality(B) - Cardinality(A \cap B)
      BY <1>7, FS_Union
    <2> QED BY <2>1, <2>2, <2>3
  <1>9. Parts(s, g) = A \cup B
    BY <1>3 DEF A, B
  <1>10. fun[p] = Cardinality(A)
    BY <1>5 DEF A
  <1>11. Cardinality(Parts(s, g)) = fun[p] + Cardinality(Parts(s \ {p}, g))
    BY <1>8, <1>9, <1>10 DEF B
  <1> QED BY <1>1, <1>8, <1>9, <1>11 DEF p

\* A recursion over the parts of a set, as SumFunctionOnSet makes it.
Summing(S, fun, w) ==
    w = [s \in SUBSET S |-> IF s = {} THEN 0 ELSE fun[Pick(s)] + w[s \ {Pick(s)}]]

LEMMA PartsOfNone ==
  ASSUME NEW g
  PROVE  Parts({}, g) = {} /\ IsFiniteSet(Parts({}, g)) /\ Cardinality(Parts({}, g)) = 0
  <1>1. Parts({}, g) = {}
    BY DEF Parts
  <1> QED BY <1>1, FS_EmptySet

\* By induction on how many there are: the parts are finite, and whatever
\* recurs as the sum does counts them.
LEMMA PartsAreCounted ==
  ASSUME NEW S, IsFiniteSet(S), NEW fun, NEW g, Counts(S, fun, g)
  PROVE  /\ \A s \in SUBSET S : IsFiniteSet(Parts(s, g))
         /\ \A w : Summing(S, fun, w) => \A s \in SUBSET S : w[s] = Cardinality(Parts(s, g))
  <1> DEFINE Good(s) == /\ IsFiniteSet(Parts(s, g))
                        /\ \A w : Summing(S, fun, w) => w[s] = Cardinality(Parts(s, g))
             N == {n \in Nat : \A s \in SUBSET S : Cardinality(s) = n => Good(s)}
  <1>0. \A s \in SUBSET S : IsFiniteSet(s) /\ Cardinality(s) \in Nat
    BY FS_Subset, FS_CardinalityType
  <1>1. 0 \in N
    <2> SUFFICES ASSUME NEW s \in SUBSET S, Cardinality(s) = 0 PROVE Good(s)
      OBVIOUS
    <2>1. s = {}
      BY <1>0, FS_EmptySet
    <2>2. ASSUME NEW w, Summing(S, fun, w) PROVE w[{}] = 0
      <3>1. {} \in SUBSET S
        OBVIOUS
      <3>2. w[{}] = IF {} = {} THEN 0 ELSE fun[Pick({})] + w[{} \ {Pick({})}]
        BY <2>2, <3>1, Zenon DEF Summing
      <3> QED BY <3>2
    <2> QED BY <2>1, <2>2, PartsOfNone
  <1>2. ASSUME NEW n \in Nat, n \in N PROVE n + 1 \in N
    <2> SUFFICES ASSUME NEW s \in SUBSET S, Cardinality(s) = n + 1 PROVE Good(s)
      OBVIOUS
    <2> DEFINE r == s \ {Pick(s)}
    <2>1. s # {} /\ Pick(s) \in s
      <3>1. s # {}
        BY <1>0, FS_EmptySet
      <3> QED BY <3>1 DEF Pick
    <2>2. r \in SUBSET S /\ Cardinality(r) = n
      <3>1. IsFiniteSet(s)
        BY <1>0
      <3>2. Cardinality(r) = Cardinality(s) - 1
        BY <2>1, <3>1, FS_RemoveElement
      <3> QED BY <3>2
    <2>3. Good(r)
      <3> HIDE DEF Good, r
      <3> QED BY <1>2, <2>2
    <2>4. /\ IsFiniteSet(Parts(s, g))
          /\ Cardinality(Parts(s, g)) = fun[Pick(s)] + Cardinality(Parts(r, g))
      BY <2>1, <2>3, OnePart
    <2>5. ASSUME NEW w, Summing(S, fun, w) PROVE w[s] = Cardinality(Parts(s, g))
      <3>1. w[s] = IF s = {} THEN 0 ELSE fun[Pick(s)] + w[s \ {Pick(s)}]
        BY <2>5, Zenon DEF Summing
      <3>2. w[r] = Cardinality(Parts(r, g))
        BY <2>3, <2>5
      <3> QED BY <2>1, <2>4, <3>1, <3>2
    <2> QED BY <2>4, <2>5
  <1> HIDE DEF N
  <1>3. \A n \in Nat : n \in N
    BY <1>1, <1>2, Induct
  <1>4. ASSUME NEW s \in SUBSET S PROVE Good(s)
    <2>1. Cardinality(s) \in Nat
      BY <1>0
    <2>2. Cardinality(s) \in N
      BY <1>3, <2>1
    <2> HIDE DEF Good
    <2> QED BY <2>2 DEF N
  <1> QED BY <1>4

\* A sum of the sizes of disjoint sets is the size of all of them.
LEMMA SumsUp ==
  ASSUME NEW S, IsFiniteSet(S), NEW fun, NEW g, Counts(S, fun, g)
  PROVE  /\ IsFiniteSet(Parts(S, g))
         /\ SumFunctionOnSet(fun, S) = Cardinality(Parts(S, g))
  <1> DEFINE w == [s \in SUBSET S |-> Cardinality(Parts(s, g))]
  <1>1. Summing(S, fun, w)
    <2>1. ASSUME NEW s \in SUBSET S
          PROVE  w[s] = IF s = {} THEN 0 ELSE fun[Pick(s)] + w[s \ {Pick(s)}]
      <3>1. CASE s = {}
        BY <3>1, PartsOfNone
      <3>2. CASE s # {}
        <4>1. s \ {Pick(s)} \in SUBSET S
          OBVIOUS
        <4>2. IsFiniteSet(Parts(s \ {Pick(s)}, g))
          BY <4>1, PartsAreCounted
        <4>3. Cardinality(Parts(s, g)) = fun[Pick(s)] + Cardinality(Parts(s \ {Pick(s)}, g))
          BY <3>2, <4>2, OnePart
        <4> QED BY <3>2, <4>1, <4>3
      <3> QED BY <3>1, <3>2
    <2>2. w = [s \in SUBSET S |-> w[s]]
      OBVIOUS
    <2>3. [s \in SUBSET S |-> w[s]] =
             [s \in SUBSET S |-> IF s = {} THEN 0 ELSE fun[Pick(s)] + w[s \ {Pick(s)}]]
      <3> HIDE DEF w
      <3> QED BY <2>1, Zenon
    <2> HIDE DEF w
    <2> QED BY <2>2, <2>3, Zenon DEF Summing
  <1> DEFINE v == CHOOSE f : Summing(S, fun, f)
  <1>2. Summing(S, fun, v)
    <2> HIDE DEF w
    <2> QED BY <1>1, Zenon
  <1>3. SumFunctionOnSet(fun, S) = v[S]
    BY Zenon DEF SumFunctionOnSet, FoldFunctionOnSet, MapThenFoldSet, Summing, Pick
  <1> HIDE DEF v, w
  <1>4. S \in SUBSET S
    OBVIOUS
  <1> QED BY <1>2, <1>3, <1>4, PartsAreCounted

-----------------------------------------------------------------------------
(* The verdict. *)

\* What summarise_group says before the overrides is a record of four fields.
LEMMA NumbersSay ==
  ASSUME NEW s
  PROVE  \E verdict, confidence, exemplars, declared :
            ByTheNumbers(s) = [verdict |-> verdict, confidence |-> confidence,
                               exemplars |-> exemplars, declared |-> declared]
  <1>1. CASE Covers(s, Limits.include)
    BY <1>1 DEF ByTheNumbers
  <1>2. CASE ~Covers(s, Limits.include)
    BY <1>2 DEF ByTheNumbers
  <1> QED BY <1>1, <1>2

\* An override changes the verdict and nothing else, and never leaves a group
\* that holds a page that must appear excluded.
LEMMA OverrideSays ==
  ASSUME NEW said, NEW s, NEW identity \in BOOLEAN,
         \E verdict, confidence, exemplars, declared :
            said = [verdict |-> verdict, confidence |-> confidence,
                    exemplars |-> exemplars, declared |-> declared]
  PROVE  \E v : /\ Overridden(said, s, identity) = [said EXCEPT !.verdict = v]
                /\ identity => v # "exclude"
  <1>1. PICK verdict, confidence, exemplars, declared :
           said = [verdict |-> verdict, confidence |-> confidence,
                   exemplars |-> exemplars, declared |-> declared]
    OBVIOUS
  <1>2. CASE identity /\ said.verdict = "exclude"
    <2>1. Overridden(said, s, identity) = [said EXCEPT !.verdict = "include_group"]
      BY <1>2 DEF Overridden
    <2> QED BY <2>1
  <1>3. CASE identity /\ said.verdict # "exclude"
    <2>1. Overridden(said, s, identity) = [said EXCEPT !.verdict = said.verdict]
      BY <1>3 DEF Overridden
    <2> QED BY <1>3, <2>1
  <1>4. CASE ~identity
    <2>1. Overridden(said, s, identity) =
            [said EXCEPT !.verdict =
                IF Faceted(s, said) THEN "exclude"
                ELSE IF said.verdict = "exclude" /\ said.confidence = "low" THEN "review"
                ELSE said.verdict]
      BY <1>4 DEF Overridden
    <2> QED BY <1>4, <2>1
  <1> QED BY <1>2, <1>3, <1>4

\* The brief is a floor and a ceiling.
LEMMA BriefSays ==
  ASSUME NEW verdict, NEW confidence, NEW exemplars, NEW declared, NEW group, NEW answers
  PROVE  LET said == [verdict |-> verdict, confidence |-> confidence, exemplars |-> exemplars,
                      declared |-> declared]
             new == ApplyBrief(said, group, answers).verdict
         IN  /\ Declared(group, answers.valuable) # <<>> => new # "exclude"
             /\ verdict # "exclude" => new # "exclude"
             /\ Declared(group, answers.noise) # <<>> => new # "include_group"
  BY DEF ApplyBrief

LEMMA GroupIsBounded ==
  ASSUME NEW group, NEW figures, NEW said, NEW new,
         new = SummariseGroup(group, figures, said).verdict
  PROVE  LET Says(patterns) == Declared(group, patterns) # <<>>
         IN  /\ Says(said.embargoed) /\ Summary(group, figures).measured # 0 => new = "exclude"
             /\ (Says(said.valuable) \/ Identity(group, said)) /\ ~Says(said.embargoed)
                    => new # "exclude"
             /\ Says(said.noise) => new # "include_group"
  <1> DEFINE s == Summary(group, figures)
  <1>1. CASE s.measured = 0
    BY <1>1 DEF SummariseGroup, Unjudged
  <1>2. CASE s.measured # 0
    <2>1. PICK verdict, confidence, exemplars, declared :
             ByTheNumbers(s) = [verdict |-> verdict, confidence |-> confidence,
                                exemplars |-> exemplars, declared |-> declared]
      BY NumbersSay
    <2>2. PICK identity \in BOOLEAN : identity = Identity(group, said)
      BY DEF Identity
    <2>3. PICK v :
             /\ Overridden(ByTheNumbers(s), s, identity) =
                  [verdict |-> v, confidence |-> confidence, exemplars |-> exemplars,
                   declared |-> declared]
             /\ identity => v # "exclude"
      <3>1. PICK numbers, summary : numbers = ByTheNumbers(s) /\ summary = s
        OBVIOUS
      <3>2. numbers = [verdict |-> verdict, confidence |-> confidence, exemplars |-> exemplars,
                       declared |-> declared]
        BY <2>1, <3>1
      <3>3. PICK v : /\ Overridden(numbers, summary, identity) = [numbers EXCEPT !.verdict = v]
                     /\ identity => v # "exclude"
        BY <3>2, OverrideSays
      <3>4. [numbers EXCEPT !.verdict = v] =
               [verdict |-> v, confidence |-> confidence, exemplars |-> exemplars,
                declared |-> declared]
        BY <3>2
      <3> QED BY <3>1, <3>3, <3>4
    <2>4. SummariseGroup(group, figures, said) = ApplyOverrides(ByTheNumbers(s), s, group, said)
      BY <1>2 DEF SummariseGroup
    <2> HIDE DEF s
    <2>5. CASE Declared(group, said.embargoed) # <<>>
      BY <2>1, <2>4, <2>5 DEF ApplyOverrides
    <2>6. CASE Declared(group, said.embargoed) = <<>>
      <3>1. SummariseGroup(group, figures, said) =
              ApplyBrief([verdict |-> v, confidence |-> confidence, exemplars |-> exemplars,
                          declared |-> declared], group, said)
        BY <2>2, <2>3, <2>4, <2>6 DEF ApplyOverrides
      <3> QED BY <2>2, <2>3, <2>6, <3>1, BriefSays
    <2> QED BY <2>5, <2>6
  <1> QED BY <1>1, <1>2

-----------------------------------------------------------------------------
(* The planning table. *)

LEMMA One == \A x : ToSet(<<x>>) = {x}
  BY DEF ToSet

LEMMA None == ToSet(<<>>) = {}
  BY DEF ToSet

\* A group is what the site lists under its key.
LEMMA GroupsAreKeyed ==
  ASSUME NEW listed, NEW group \in ToSet(Groups(listed))
  PROVE  group = GroupOf(listed, group.key)
  <1>1. \A key : GroupOf(listed, key).key = key
    BY DEF GroupOf
  <1>2. \E key : group = GroupOf(listed, key)
    BY DEF ToSet, Groups, Mapped
  <1> QED BY <1>1, <1>2

LEMMA PlannedSays ==
  ASSUME NEW group, NEW figures, NEW declared, NEW reply
  PROVE  LET row == Planned(group, figures, declared, reply)
         IN  /\ row.key = group.key
             /\ row.judged = IF group.key = Unsourced THEN Unjudged
                             ELSE SummariseGroup(group, figures, declared)
  BY DEF Planned

\* The table there is was made of what the history says.
Tabled ==
    \A m \in ToSet(made) : \E reply \in Replies :
        table.rows = PlanningTable(m.site, m.metrics, m.brief, reply)

LEMMA TabledInitially == Init => Tabled
  BY None DEF Init, Tabled

LEMMA TabledStep ==
  ASSUME Tabled, [Next]_vars
  PROVE  Tabled'
  <1>1. CASE UNCHANGED <<made, table>>
    BY <1>1 DEF Tabled
  <1>2. CASE Recon \/ DeleteClient
    BY <1>2, None DEF Recon, DeleteClient, Tabled
  <1>3. CASE StoreTable
    <2>1. PICK reply \in Replies :
             table'.rows = PlanningTable(job.site, job.metrics, job.brief, reply)
      BY <1>3 DEF StoreTable
    <2>2. PICK m : made' = <<m>> /\ m.site = job.site /\ m.metrics = job.metrics
                   /\ m.brief = job.brief
      BY <1>3 DEF StoreTable
    <2> QED BY <2>1, <2>2, One DEF Tabled
  <1>4. CASE \/ SiteMoves \/ SaveBrief \/ SkipBrief
             \/ LoadBrief \/ LoadMetrics \/ JobFails
             \/ \E w \in Uploads : UploadBegins(w) \/ UploadCommits(w) \/ UploadFails(w)
             \/ UNCHANGED vars
    BY <1>1, <1>4 DEF SiteMoves, SaveBrief, SkipBrief, LoadBrief, LoadMetrics, JobFails,
       UploadBegins, UploadCommits, UploadFails, vars
  <1> QED BY <1>2, <1>3, <1>4 DEF Next

LEMMA TableIsBounded == Tabled => BriefBoundsTheVerdict
  <1> SUFFICES ASSUME Tabled, NEW m \in ToSet(made), NEW row \in table.rows
               PROVE  LET group == CHOOSE g \in ToSet(Groups(m.site)) : g.key = row.key
                          Says(patterns) == Declared(group, patterns) # <<>>
                          measured == Summary(group, m.metrics).measured # 0
                          verdict == row.judged.verdict
                      IN  IF row.key = Unsourced THEN verdict = "review"
                          ELSE /\ Says(m.brief.embargoed) /\ measured => verdict = "exclude"
                               /\ (Says(m.brief.valuable) \/ Identity(group, m.brief))
                                    /\ ~Says(m.brief.embargoed) => verdict # "exclude"
                               /\ Says(m.brief.noise) => verdict # "include_group"
    BY DEF BriefBoundsTheVerdict
  <1>1. PICK reply \in Replies, group \in ToSet(Groups(m.site)) :
           row = Planned(group, m.metrics, m.brief, reply)
    BY DEF Tabled, PlanningTable
  <1>2. /\ row.key = group.key
        /\ row.judged = IF group.key = Unsourced THEN Unjudged
                        ELSE SummariseGroup(group, m.metrics, m.brief)
    BY <1>1, PlannedSays
  <1>3. (CHOOSE g \in ToSet(Groups(m.site)) : g.key = row.key) = group
    <2>1. \A g \in ToSet(Groups(m.site)) : g.key = row.key => g = group
      BY <1>2, GroupsAreKeyed
    <2> QED BY <1>1, <1>2, <2>1
  <1>4. CASE row.key = Unsourced
    BY <1>2, <1>4 DEF Unjudged
  <1>5. CASE row.key # Unsourced
    <2>1. row.judged.verdict = SummariseGroup(group, m.metrics, m.brief).verdict
      BY <1>2, <1>5
    <2>2. PICK chosen : chosen = CHOOSE g \in ToSet(Groups(m.site)) : g.key = row.key
      OBVIOUS
    <2>3. chosen = group
      BY <1>3, <2>2
    <2>4. PICK verdict, figures, said : verdict = row.judged.verdict /\ figures = m.metrics
                                          /\ said = m.brief
      OBVIOUS
    <2>5. /\ Declared(group, said.embargoed) # <<>> /\ Summary(group, figures).measured # 0
                => verdict = "exclude"
          /\ (Declared(group, said.valuable) # <<>> \/ Identity(group, said))
                 /\ ~(Declared(group, said.embargoed) # <<>>) => verdict # "exclude"
          /\ Declared(group, said.noise) # <<>> => verdict # "include_group"
      BY <2>1, <2>4, GroupIsBounded
    <2> QED BY <1>5, <2>2, <2>3, <2>4, <2>5
  <1> QED BY <1>4, <1>5

-----------------------------------------------------------------------------
(* Drift. *)

\* A shape says how many addresses each sitemap of a name lists.
Counted(shape) == \A name \in DOMAIN shape : shape[name] \in Nat

LEMMA LeastOf ==
  ASSUME NEW S \in SUBSET Nat, S # {}
  PROVE  Min(S) \in Nat
  <1>1. PICK n \in S : \A m \in S : n <= m
    BY Least
  <1>2. n \in S /\ \A m \in S : n =< m
    BY <1>1
  <1>3. (CHOOSE x \in S : \A y \in S : x =< y) \in S
    BY <1>2, Zenon
  <1> QED BY <1>3, Zenon DEF Min

LEMMA ShapesAreCounted ==
  ASSUME NEW listing, IsFiniteSet(DOMAIN listing)
  PROVE  Counted(SiteShape(listing))
  <1> DEFINE keys == {listing[i].by : i \in DOMAIN listing} \ {Unsourced}
             Name(key) == key[Len(key)]
             Size(key) == Cardinality({i \in DOMAIN listing : listing[i].by = key})
             Sizes(name) == {Size(key) : key \in {k \in keys : Name(k) = name}}
             names == {Name(key) : key \in keys}
  <1>1. \A key : Size(key) \in Nat
    <2> SUFFICES ASSUME NEW key PROVE Size(key) \in Nat
      OBVIOUS
    <2>1. {i \in DOMAIN listing : listing[i].by = key} \subseteq DOMAIN listing
      OBVIOUS
    <2>2. IsFiniteSet({i \in DOMAIN listing : listing[i].by = key})
      BY <2>1, FS_Subset
    <2> QED BY <2>2, FS_CardinalityType
  <1>2. ASSUME NEW name \in names PROVE Min(Sizes(name)) \in Nat
    <2> HIDE DEF Size, Name, keys
    <2>1. Sizes(name) \in SUBSET Nat
      BY <1>1
    <2>2. Sizes(name) # {}
      <3>1. PICK key \in keys : name = Name(key)
        OBVIOUS
      <3> QED BY <3>1
    <2> HIDE DEF Sizes
    <2> QED BY <2>1, <2>2, LeastOf
  <1>3. SiteShape(listing) = [name \in names |-> Min(Sizes(name))]
    BY Zenon DEF SiteShape
  <1> HIDE DEF names, Sizes
  <1> QED BY <1>2, <1>3 DEF Counted

\* As large, times as large.
LEMMA TimesAsLarge ==
  ASSUME NEW a \in Nat, NEW b \in Nat, NEW fold \in Nat, a <= b
  PROVE  fold * a <= fold * b
  <1>1. PICK d \in Nat : b = a + d
    <2>1. b - a \in Nat /\ b = a + (b - a)
      OBVIOUS
    <2> QED BY <2>1
  <1>2. fold * b = fold * a + fold * d /\ fold * d \in Nat /\ fold * a \in Nat
    BY <1>1
  <1> DEFINE x == fold * a
             y == fold * d
             z == fold * b
  <1>3. z = x + y /\ x \in Nat /\ y \in Nat
    BY <1>2
  <1> HIDE DEF x, y, z
  <1>4. x <= z
    BY <1>3
  <1> QED BY <1>4 DEF x, z

\* fold_change, of the larger by the smaller, is a change in either direction.
LEMMA ResizedSays ==
  ASSUME NEW old \in Nat, NEW new \in Nat
  PROVE  Resized(old, new) <=>
            /\ old >= Limits.floor \/ new >= Limits.floor
            /\ old >= Limits.fold * new \/ new >= Limits.fold * old
  <1> DEFINE floor == Limits.floor
             fold == Limits.fold
             foldNew == fold * new
             foldOld == fold * old
  <1>1. floor \in Nat /\ fold \in Nat
    BY DEF VerdictsAssumption
  <1>2. foldNew \in Nat /\ foldOld \in Nat
    BY <1>1
  <1>3. (new <= old => foldNew <= foldOld) /\ (old <= new => foldOld <= foldNew)
    BY <1>1, TimesAsLarge
  <1>4. CASE old > new
    <2>1. Resized(old, new) <=> old >= floor /\ old >= foldNew
      BY <1>4 DEF Resized, LargerOf, SmallerOf
    <2> HIDE DEF floor, foldNew, foldOld
    <2>2. Resized(old, new) <=>
            /\ old >= floor \/ new >= floor
            /\ old >= foldNew \/ new >= foldOld
      BY <1>1, <1>2, <1>3, <1>4, <2>1
    <2> QED BY <2>2 DEF floor, foldNew, foldOld
  <1>5. CASE ~(old > new)
    <2>1. LargerOf(old, new) = new
      BY <1>5 DEF LargerOf
    <2>2. SmallerOf(old, new) = old
      BY <1>5 DEF SmallerOf
    <2>3. Resized(old, new) <=> new >= floor /\ new >= foldOld
      BY <2>1, <2>2 DEF Resized
    <2> HIDE DEF floor, foldNew, foldOld
    <2>4. Resized(old, new) <=>
            /\ old >= floor \/ new >= floor
            /\ old >= foldNew \/ new >= foldOld
      BY <1>1, <1>2, <1>3, <1>5, <2>3
    <2> QED BY <2>4 DEF floor, foldNew, foldOld
  <1> QED BY <1>4, <1>5

\* The shape a job holds against the site's is the one the brief was answered
\* with, however often it was answered since; and a table's drift is of those.
Baselined ==
    /\ site \in Sites /\ Counted(observed)
    /\ Counted(brief.shape) /\ answered.at = brief.shape
    /\ job.stage \in {"idle", "sited", "briefed", "ready"}
    /\ job.stage # "idle" => job.site \in Sites
    /\ job.stage \in {"briefed", "ready"} =>
          Counted(job.baseline) /\ job.baseline = job.brief.shape
    /\ \A m \in ToSet(made) :
          Counted(m.baseline) /\ Counted(m.shape) /\ table.drift = DetectDrift(m.baseline, m.shape)

LEMMA NoShape == Counted(<<>>)
  BY DEF Counted

LEMMA BaselinedInitially == Init => Baselined
  <1> SUFFICES ASSUME Init PROVE Baselined
    OBVIOUS
  <1>1. /\ site \in Sites /\ observed = <<>> /\ brief = NoBrief /\ answered = [times |-> 0, at |-> <<>>]
        /\ job = Idle /\ made = <<>>
    BY DEF Init
  <1>2. brief.shape = <<>> /\ answered.at = <<>> /\ job.stage = "idle"
    BY <1>1 DEF NoBrief, Idle
  <1> QED BY <1>1, <1>2, NoShape, None DEF Baselined

LEMMA BaselinedStep ==
  ASSUME Baselined, [Next]_vars
  PROVE  Baselined'
  <1> USE DEF Baselined
  <1>1. CASE SiteMoves
    BY <1>1 DEF SiteMoves
  <1>2. CASE SaveBrief
    <2>1. PICK answers \in Answers : brief' = BriefFromAnswers(answers, observed)
      BY <1>2 DEF SaveBrief
    <2>2. brief'.shape = observed
      BY <2>1 DEF BriefFromAnswers
    <2>3. answered' = [times |-> answered.times + 1, at |-> observed]
          /\ UNCHANGED <<site, observed, job, table, made>>
      BY <1>2 DEF SaveBrief
    <2>4. answered'.at = observed
      BY <2>3
    <2> QED BY <2>2, <2>3, <2>4
  <1>3. CASE SkipBrief
    <2>1. brief' = NoBrief /\ answered' = [times |-> answered.times + 1, at |-> <<>>]
          /\ UNCHANGED <<site, observed, job, table, made>>
      BY <1>3 DEF SkipBrief
    <2>2. brief'.shape = <<>> /\ answered'.at = <<>>
      BY <2>1 DEF NoBrief
    <2> QED BY <2>1, <2>2, NoShape
  <1>4. CASE Recon
    <2>1. /\ job' = [stage |-> "sited", runs |-> job.runs + 1, site |-> site] /\ made' = <<>>
          /\ UNCHANGED <<site, observed, brief, answered>>
      BY <1>4 DEF Recon
    <2>2. job'.stage = "sited" /\ job'.site = site
      BY <2>1
    <2>3. ToSet(made') = {}
      BY <2>1, None
    <2> QED BY <2>1, <2>2, <2>3
  <1>5. CASE LoadBrief
    <2>1. /\ job' = [stage |-> "briefed", runs |-> job.runs, site |-> job.site, brief |-> brief,
                     baseline |-> answered.at]
          /\ job.stage = "sited"
          /\ UNCHANGED <<site, observed, brief, answered, table, made>>
      BY <1>5 DEF LoadBrief
    <2>2. /\ job'.stage = "briefed" /\ job'.site = job.site /\ job'.brief = brief
          /\ job'.baseline = answered.at
      BY <2>1
    <2> QED BY <2>1, <2>2
  <1>6. CASE LoadMetrics
    <2>1. /\ job' = [stage |-> "ready", runs |-> job.runs, site |-> job.site, brief |-> job.brief,
                     baseline |-> job.baseline, metrics |-> LoadSiteMetrics]
          /\ job.stage = "briefed"
          /\ UNCHANGED <<site, observed, brief, answered, table, made>>
      BY <1>6 DEF LoadMetrics
    <2>2. /\ job'.stage = "ready" /\ job'.site = job.site /\ job'.brief = job.brief
          /\ job'.baseline = job.baseline
      BY <2>1
    <2> QED BY <2>1, <2>2
  <1>7. CASE StoreTable
    <2> DEFINE shape == SiteShape(job.site)
               m == [site |-> job.site, brief |-> job.brief, metrics |-> job.metrics,
                     baseline |-> job.baseline, shape |-> shape]
    <2>1. /\ job.stage = "ready" /\ observed' = shape /\ made' = <<m>>
          /\ job' = [stage |-> "idle", runs |-> job.runs]
          /\ UNCHANGED <<site, brief, answered>>
      BY <1>7 DEF StoreTable
    <2>2. table'.drift = DetectDrift(job.brief.shape, shape)
      BY <1>7 DEF StoreTable
    <2>3. Counted(shape)
      BY <2>1, ShapesAreCounted, SitesAssumption
    <2>4. m.baseline = job.baseline /\ m.shape = shape
      OBVIOUS
    <2>5. job'.stage = "idle"
      BY <2>1
    <2> HIDE DEF m, shape
    <2>6. ToSet(made') = {m}
      BY <2>1, One
    <2> QED BY <2>1, <2>2, <2>3, <2>4, <2>5, <2>6
  <1>8. CASE JobFails
    <2>1. job' = [stage |-> "idle", runs |-> job.runs]
          /\ UNCHANGED <<site, observed, brief, answered, table, made>>
      BY <1>8 DEF JobFails
    <2>2. job'.stage = "idle"
      BY <2>1
    <2> QED BY <2>1, <2>2
  <1>9. ASSUME NEW w \in Uploads, UploadBegins(w) \/ UploadCommits(w) \/ UploadFails(w)
        PROVE  Baselined'
    <2>1. UNCHANGED <<site, observed, brief, answered, job, table, made>>
      BY <1>9 DEF UploadBegins, UploadCommits, UploadFails
    <2> QED BY <2>1
  <1>10. CASE DeleteClient
    <2>1. /\ brief' = NoBrief /\ observed' = <<>> /\ made' = <<>> /\ site' = site
          /\ job' = [stage |-> "idle", runs |-> job.runs]
          /\ answered' = [times |-> answered.times, at |-> <<>>]
      BY <1>10 DEF DeleteClient
    <2>2. brief'.shape = <<>> /\ job'.stage = "idle"
      BY <2>1 DEF NoBrief
    <2>3. ToSet(made') = {}
      BY <2>1, None
    <2> QED BY <2>1, <2>2, <2>3, NoShape
  <1>11. CASE UNCHANGED vars
    BY <1>11 DEF vars
  <1> QED BY <1>1, <1>2, <1>3, <1>4, <1>5, <1>6, <1>7, <1>8, <1>9, <1>10, <1>11 DEF Next

LEMMA BaselineTells == Baselined => DriftTellsTheMoves
  <1> SUFFICES ASSUME Baselined, NEW m \in ToSet(made)
               PROVE  LET was == m.baseline
                          is == m.shape
                          Moved(name) ==
                              \/ name \notin DOMAIN was \/ name \notin DOMAIN is
                              \/ /\ was[name] >= Limits.floor \/ is[name] >= Limits.floor
                                 /\ \/ was[name] >= Limits.fold * is[name]
                                    \/ is[name] >= Limits.fold * was[name]
                      IN  table.drift = IF was = <<>> THEN {}
                                        ELSE {name \in DOMAIN was \cup DOMAIN is : Moved(name)}
    BY Zenon DEF DriftTellsTheMoves
  <1> DEFINE was == m.baseline
             is == m.shape
             Grown(name) == /\ was[name] >= Limits.floor \/ is[name] >= Limits.floor
                            /\ \/ was[name] >= Limits.fold * is[name]
                               \/ is[name] >= Limits.fold * was[name]
  <1>1. Counted(was) /\ Counted(is) /\ table.drift = DetectDrift(was, is)
    BY DEF Baselined
  <1> HIDE DEF was, is
  <1>2. \A name \in DOMAIN was \cap DOMAIN is : Resized(was[name], is[name]) <=> Grown(name)
    <2>1. \A name \in DOMAIN was \cap DOMAIN is : was[name] \in Nat /\ is[name] \in Nat
      BY <1>1 DEF Counted
    <2> QED BY <2>1, ResizedSays
  <1> HIDE DEF Grown
  <1>3. ASSUME was # <<>>
        PROVE  DetectDrift(was, is) =
                 {name \in DOMAIN was \cup DOMAIN is :
                     name \notin DOMAIN was \/ name \notin DOMAIN is \/ Grown(name)}
    BY <1>2, <1>3 DEF DetectDrift
  <1>4. was = <<>> => DetectDrift(was, is) = {}
    BY DEF DetectDrift
  <1> QED BY <1>1, <1>3, <1>4, Zenon DEF was, is, Grown

-----------------------------------------------------------------------------
(* Uploads. *)

\* Rows are of uploads that were stored.  One that is under way adds rows of
\* its own, and has deleted all there is of those stored before it began.
Standing ==
    /\ \A row \in metrics : row.by \in Committed
    /\ \A w \in Uploads : upload[w].stage = "deleted" =>
          /\ upload[w].after \subseteq Committed
          /\ \A row \in upload[w].new : row.by = w
          /\ \A row \in metrics : row.by \in upload[w].after => row \in upload[w].gone
    /\ superseded \subseteq Committed
    /\ DOMAIN upload = Uploads

FiguresInv == Standing /\ OldFiguresAreGone

LEMMA FiguresInitially == Init => FiguresInv
  <1> SUFFICES ASSUME Init PROVE FiguresInv
    OBVIOUS
  <1>1. /\ metrics = {} /\ superseded = {}
        /\ upload = [w \in Uploads |-> NotBegun] /\ NotBegun.stage = "to do"
    BY DEF Init, NotBegun
  <1> QED BY <1>1 DEF FiguresInv, Standing, OldFiguresAreGone

LEMMA FiguresStep ==
  ASSUME FiguresInv, [Next]_vars
  PROVE  FiguresInv'
  <1>0. Standing /\ OldFiguresAreGone
    BY DEF FiguresInv
  <1>1. CASE UNCHANGED <<metrics, upload, superseded>>
    BY <1>0, <1>1 DEF FiguresInv, Standing, OldFiguresAreGone, Committed
  <1>2. ASSUME NEW w \in Uploads, UploadBegins(w) PROVE FiguresInv'
    <2>1. PICK new :
             /\ upload[w].stage = "to do"
             /\ upload' = [upload EXCEPT ![w] =
                    [stage |-> "deleted", gone |-> metrics, after |-> Committed, new |-> new]]
             /\ \A row \in new : row.by = w
             /\ UNCHANGED <<metrics, superseded>>
      <3>1. PICK file \in Files :
               upload' = [upload EXCEPT ![w] =
                  [stage |-> "deleted", gone |-> metrics, after |-> Committed,
                   new |-> {[url |-> row.url, clicks |-> row.clicks,
                             impressions |-> row.impressions, by |-> w] :
                               row \in ParseGscExport(file)}]]
        BY <1>2 DEF UploadBegins
      <3>2. \A rows : \A row \in {[url |-> r.url, clicks |-> r.clicks,
                                   impressions |-> r.impressions, by |-> w] : r \in rows} :
                         row.by = w
        OBVIOUS
      <3>3. upload[w].stage = "to do" /\ UNCHANGED <<metrics, superseded>>
        BY <1>2 DEF UploadBegins
      <3> QED BY <3>1, <3>2, <3>3
    <2>2. /\ upload'[w] = [stage |-> "deleted", gone |-> metrics, after |-> Committed, new |-> new]
          /\ \A x \in Uploads : x # w => upload'[x] = upload[x]
          /\ DOMAIN upload' = Uploads
      BY <1>0, <2>1 DEF Standing
    <2>3. Committed' = Committed
      BY <2>1, <2>2 DEF Committed
    <2> HIDE DEF Committed
    <2> QED BY <1>0, <2>1, <2>2, <2>3 DEF FiguresInv, Standing, OldFiguresAreGone
  <1>3. ASSUME NEW w \in Uploads, UploadCommits(w) PROVE FiguresInv'
    <2> DEFINE u == upload[w]
    <2>1. /\ u.stage = "deleted"
          /\ \A row \in metrics \ u.gone, other \in u.new : row.url # other.url
          /\ metrics' = (metrics \ u.gone) \cup u.new
          /\ upload' = [upload EXCEPT ![w].stage = "stored"]
          /\ superseded' = superseded \cup u.after
      BY <1>3 DEF UploadCommits, Replaced, NoneTwice, Pages
    <2>2. /\ u.after \subseteq Committed /\ superseded \subseteq Committed
          /\ \A row \in u.new : row.by = w
          /\ \A row \in metrics : row.by \in u.after => row \in u.gone
      BY <1>0, <2>1 DEF Standing
    <2>3. /\ upload'[w].stage = "stored"
          /\ \A x \in Uploads : x # w => upload'[x] = upload[x]
          /\ DOMAIN upload' = Uploads
      BY <1>0, <2>1 DEF Standing
    <2>4. Committed' = Committed \cup {w} /\ w \notin Committed
      BY <2>1, <2>3 DEF Committed
    <2> HIDE DEF u
    <2>5. Standing'
      BY <1>0, <2>1, <2>2, <2>3, <2>4 DEF Standing
    <2>6. OldFiguresAreGone'
      BY <1>0, <2>1, <2>2, <2>4 DEF OldFiguresAreGone
    <2> QED BY <2>5, <2>6 DEF FiguresInv
  <1>4. ASSUME NEW w \in Uploads, UploadFails(w) PROVE FiguresInv'
    <2>1. /\ upload[w].stage = "deleted"
          /\ upload' = [upload EXCEPT ![w] = [NotBegun EXCEPT !.stage = "failed"]]
          /\ UNCHANGED <<metrics, superseded>>
      BY <1>4 DEF UploadFails
    <2>2. /\ upload'[w].stage = "failed"
          /\ \A x \in Uploads : x # w => upload'[x] = upload[x]
          /\ DOMAIN upload' = Uploads
      BY <1>0, <2>1 DEF Standing, NotBegun
    <2>3. Committed' = Committed
      BY <2>1, <2>2 DEF Committed
    <2> QED BY <1>0, <2>1, <2>2, <2>3 DEF FiguresInv, Standing, OldFiguresAreGone
  <1>5. CASE SaveBrief
    <2>1. /\ metrics' \subseteq metrics
          /\ UNCHANGED <<upload, superseded>>
      BY <1>5 DEF SaveBrief
    <2>2. Committed' = Committed
      BY <2>1 DEF Committed
    <2> QED BY <1>0, <2>1, <2>2 DEF FiguresInv, Standing, OldFiguresAreGone
  <1>6. CASE DeleteClient
    <2>1. metrics' = {} /\ superseded' = Committed /\ upload' = upload
      BY <1>6 DEF DeleteClient
    <2>2. Committed' = Committed
      BY <2>1 DEF Committed
    <2> QED BY <1>0, <2>1, <2>2 DEF FiguresInv, Standing, OldFiguresAreGone
  <1>7. CASE \/ SiteMoves \/ SkipBrief \/ Recon \/ LoadBrief \/ LoadMetrics \/ StoreTable
             \/ JobFails \/ UNCHANGED vars
    BY <1>1, <1>7 DEF SiteMoves, SkipBrief, Recon, LoadBrief, LoadMetrics, StoreTable, JobFails, vars
  <1> QED BY <1>2, <1>3, <1>4, <1>5, <1>6, <1>7 DEF Next

-----------------------------------------------------------------------------
(* Marks. *)

\* No mark is on what a probe decides, or on its way there.
MarksInv ==
    /\ DOMAIN marks = Keys
    /\ \A key \in StaticLayer1 : marks[key] = Nobody
    /\ \A w \in Markers : marking[w].stage = "loaded" => ManuallyMarkable(marking[w].key)
    /\ DOMAIN marking = Markers

LEMMA ProbesDecide ==
  /\ \A key : ManuallyMarkable(key) => key \notin StaticLayer1
  /\ StaticLayer1 \subseteq Keys
  BY DEF ManuallyMarkable, Layer1, Keys, Families

LEMMA MarksInitially == StatusInit => MarksInv
  <1> SUFFICES ASSUME StatusInit PROVE MarksInv
    OBVIOUS
  <1>1. marks = [key \in Keys |-> Nobody]
    BY DEF StatusInit
  <1>2. \A w \in Markers : marking[w].stage = "to do"
    BY DEF StatusInit
  <1>3. DOMAIN marking = Markers
    BY DEF StatusInit
  <1>4. DOMAIN marks = Keys /\ \A key \in StaticLayer1 : marks[key] = Nobody
    BY <1>1, ProbesDecide
  <1> QED BY <1>2, <1>3, <1>4 DEF MarksInv

LEMMA MarksStep ==
  ASSUME MarksInv, [StatusNext]_statusVars
  PROVE  MarksInv'
  <1>1. CASE UNCHANGED <<marks, marking>>
    BY <1>1 DEF MarksInv, ManuallyMarkable
  <1>2. ASSUME NEW w \in Markers, MarkBegins(w) PROVE MarksInv'
    <2>1. PICK key, held :
             /\ key \in Keys
             /\ ManuallyMarkable(key)
             /\ marking' = [marking EXCEPT ![w] = [stage |-> "loaded", key |-> key, held |-> held]]
             /\ UNCHANGED marks
      BY <1>2 DEF MarkBegins
    <2>2. DOMAIN marking = Markers /\ DOMAIN marking' = Markers
      BY <2>1 DEF MarksInv
    <2>3. \A x \in Markers : \/ marking'[x] = marking[x]
                            \/ marking'[x].key = key
      BY <2>1, <2>2
    <2>4. \A x \in Markers : marking'[x].stage = "loaded" => ManuallyMarkable(marking'[x].key)
      BY <2>1, <2>3 DEF MarksInv
    <2> QED BY <2>1, <2>2, <2>4 DEF MarksInv, ManuallyMarkable
  <1>3. ASSUME NEW w \in Markers, MarkCommits(w) PROVE MarksInv'
    <2>1. marking[w].key \notin StaticLayer1
      BY <1>3, ProbesDecide DEF MarkCommits, MarksInv
    <2>2. PICK mark : /\ (marks' = [marks EXCEPT ![marking[w].key] = mark] \/ marks' = marks)
                      /\ marking' = [marking EXCEPT ![w] = [stage |-> "done"]]
      BY <1>3 DEF MarkCommits
    <2>3. DOMAIN marking = Markers /\ DOMAIN marks = Keys
      BY DEF MarksInv
    <2>4. DOMAIN marks' = Keys /\ \A x \in StaticLayer1 : marks'[x] = marks[x]
      <3>1. CASE marks' = [marks EXCEPT ![marking[w].key] = mark]
        BY <2>1, <2>3, <3>1, ProbesDecide
      <3>2. CASE marks' = marks
        BY <2>3, <3>2
      <3> QED BY <2>2, <3>1, <3>2
    <2>5. /\ DOMAIN marking' = Markers
          /\ \A x \in Markers : marking'[x] = marking[x] \/ marking'[x].stage = "done"
      BY <2>2, <2>3
    <2> QED BY <2>4, <2>5 DEF MarksInv, ManuallyMarkable
  <1>4. ASSUME NEW w \in Markers, ClearMark(w) PROVE MarksInv'
    <2>1. PICK key \in Keys :
             /\ marks' = [marks EXCEPT ![key] = Nobody]
             /\ marking' = [marking EXCEPT ![w] = [stage |-> "done"]]
      BY <1>4 DEF ClearMark
    <2>2. DOMAIN marking = Markers /\ DOMAIN marks = Keys
      BY DEF MarksInv
    <2>3. /\ DOMAIN marks' = Keys /\ DOMAIN marking' = Markers
          /\ \A x \in Keys : marks'[x] = marks[x] \/ marks'[x] = Nobody
          /\ \A x \in Markers : marking'[x] = marking[x] \/ marking'[x].stage = "done"
      BY <2>1, <2>2
    <2>4. \A x \in StaticLayer1 : marks'[x] = Nobody
      BY <2>3, ProbesDecide DEF MarksInv
    <2> QED BY <2>3, <2>4 DEF MarksInv, ManuallyMarkable
  <1>5. CASE CreateClient \/ SaveClientSettings \/ RefreshClient \/ UNCHANGED statusVars
    BY <1>1, <1>5 DEF CreateClient, SaveClientSettings, RefreshClient, statusVars
  <1>6. CASE DeleteClientStatus
    <2>1. marks' = [key \in Keys |-> Nobody] /\ UNCHANGED marking
      BY <1>6 DEF DeleteClientStatus
    <2> QED BY <2>1, ProbesDecide DEF MarksInv, ManuallyMarkable
  <1> QED BY <1>2, <1>3, <1>4, <1>5, <1>6 DEF StatusNext

LEMMA MeasuredStates ==
  ASSUME NEW key, NEW found, NEW marked, StateOf(key, found, marked) = "live"
  PROVE  /\ found.checks[key] # "fail"
         /\ found.checks[key] # "pass" => marked[key] # Nobody /\ ManuallyMarkable(key)
  <1>1. found.checks[key] = "pass" \/ MarkedDone(key, found, marked)
    BY DEF StateOf
  <1> QED BY <1>1 DEF MarkedDone, Decided

LEMMA MarksBound == MarksInv => NoMarkBeatsAMeasurement
  BY MeasuredStates, ProbesDecide DEF MarksInv, NoMarkBeatsAMeasurement

-----------------------------------------------------------------------------
(* The two lists and the overview. *)

\* Sets that are written out are finite.
LEMMA NineAreFinite ==
  ASSUME NEW a, NEW b, NEW c, NEW d, NEW e, NEW f, NEW g, NEW h, NEW i
  PROVE  IsFiniteSet({a, b, c, d, e, f, g, h, i})
  <1>1. IsFiniteSet({})
    BY FS_EmptySet
  <1>2. IsFiniteSet({a})
    BY <1>1, FS_Singleton
  <1>3. IsFiniteSet({b, a}) /\ IsFiniteSet({c, b, a}) /\ IsFiniteSet({d, c, b, a})
    <2>1. {b, a} = {a} \cup {b} /\ {c, b, a} = {b, a} \cup {c} /\ {d, c, b, a} = {c, b, a} \cup {d}
      OBVIOUS
    <2>2. IsFiniteSet({b, a})
      BY <1>2, <2>1, FS_AddElement
    <2>3. IsFiniteSet({c, b, a})
      BY <2>2, <2>1, FS_AddElement
    <2> QED BY <2>1, <2>2, <2>3, FS_AddElement
  <1> DEFINE four == {d, c, b, a}
  <1>4. IsFiniteSet(four \cup {e}) /\ IsFiniteSet((four \cup {e}) \cup {f})
    <2>1. IsFiniteSet(four \cup {e})
      BY <1>3, FS_AddElement
    <2> QED BY <2>1, FS_AddElement
  <1> DEFINE six == (four \cup {e}) \cup {f}
  <1>5. IsFiniteSet(((six \cup {g}) \cup {h}) \cup {i})
    <2>1. IsFiniteSet(six \cup {g})
      BY <1>4, FS_AddElement
    <2>2. IsFiniteSet((six \cup {g}) \cup {h})
      BY <2>1, FS_AddElement
    <2> QED BY <2>2, FS_AddElement
  <1>6. ((six \cup {g}) \cup {h}) \cup {i} = {a, b, c, d, e, f, g, h, i}
    OBVIOUS
  <1> QED BY <1>5, <1>6

\* Each component is in one family.
LEMMA FamiliesPart ==
  /\ IsFiniteSet(Families)
  /\ \A family \in Families : IsFiniteSet(family)
  /\ \A one, other \in Families : one # other => one \cap other = {}
  <1> USE DEF PageKeys, CrawlKeys, ContentKeys, AgentsKeys, CapabilitiesKeys, DeliveryKeys
  <1>1. Families = {PageKeys, CrawlKeys, ContentKeys, AgentsKeys, CapabilitiesKeys, DeliveryKeys,
                    DeliveryKeys, DeliveryKeys, DeliveryKeys}
    BY DEF Families
  <1>2. IsFiniteSet(Families)
    <2> HIDE DEF PageKeys, CrawlKeys, ContentKeys, AgentsKeys, CapabilitiesKeys, DeliveryKeys
    <2>1. IsFiniteSet({PageKeys, CrawlKeys, ContentKeys, AgentsKeys, CapabilitiesKeys, DeliveryKeys,
                       DeliveryKeys, DeliveryKeys, DeliveryKeys})
      BY NineAreFinite
    <2> QED BY <1>1, <2>1, Zenon
  <1>3. IsFiniteSet(PageKeys)
    BY NineAreFinite, Zenon
  <1>4. IsFiniteSet(CrawlKeys)
    <2>1. CrawlKeys = {"robots", "content-signals", "web-bot-auth", "robots", "robots", "robots",
                       "robots", "robots", "robots"}
      OBVIOUS
    <2> QED BY <2>1, NineAreFinite, Zenon
  <1>5. IsFiniteSet(ContentKeys)
    <2>1. ContentKeys = {"llms-txt", "llms-full", "sitemap", "sitemap", "sitemap", "sitemap",
                         "sitemap", "sitemap", "sitemap"}
      OBVIOUS
    <2> QED BY <2>1, NineAreFinite, Zenon
  <1>6. IsFiniteSet(AgentsKeys)
    BY FS_Singleton
  <1>7. IsFiniteSet(CapabilitiesKeys)
    <2>1. CapabilitiesKeys =
            {"ai-catalog", "mcp-card", "a2a-card", "oauth-resource", "skills", "api-catalog",
             "commerce-protocols", "skills", "skills"}
      OBVIOUS
    <2> QED BY <2>1, NineAreFinite, Zenon
  <1>8. IsFiniteSet(DeliveryKeys)
    <2>1. DeliveryKeys = {"link-header", "markdown-negotiation", "webmcp", "webmcp", "webmcp",
                          "webmcp", "webmcp", "webmcp", "webmcp"}
      OBVIOUS
    <2> QED BY <2>1, NineAreFinite, Zenon
  <1>9. /\ PageKeys \cap (CrawlKeys \cup ContentKeys \cup AgentsKeys \cup CapabilitiesKeys \cup DeliveryKeys) = {}
        /\ CrawlKeys \cap (ContentKeys \cup AgentsKeys \cup CapabilitiesKeys \cup DeliveryKeys) = {}
        /\ ContentKeys \cap (AgentsKeys \cup CapabilitiesKeys \cup DeliveryKeys) = {}
        /\ AgentsKeys \cap (CapabilitiesKeys \cup DeliveryKeys) = {}
        /\ CapabilitiesKeys \cap DeliveryKeys = {}
    OBVIOUS
  <1> HIDE DEF PageKeys, CrawlKeys, ContentKeys, AgentsKeys, CapabilitiesKeys, DeliveryKeys
  <1>10. \A one, other \in Families : one # other => one \cap other = {}
    BY <1>9 DEF Families
  <1>11. \A family \in Families : IsFiniteSet(family)
    BY <1>3, <1>4, <1>5, <1>6, <1>7, <1>8 DEF Families
  <1> QED BY <1>2, <1>10, <1>11

\* The components in some states, of a family and of the site.
Stand(keys, states, found, marked) ==
    {key \in keys : StateOf(key, found, marked) \in states}

States == {"live", "ready", "template", "missing"}

LEMMA ApplicableIn ==
  ASSUME NEW found, NEW marked
  PROVE  /\ Applicable(found, marked) \subseteq Keys
         /\ \A key \in Applicable(found, marked) : StateOf(key, found, marked) \in States
  <1>1. \A key \in Keys : StateOf(key, found, marked) \in States \cup {"not_applicable"}
    <2> SUFFICES ASSUME NEW key \in Keys
                 PROVE  StateOf(key, found, marked) \in States \cup {"not_applicable"}
      OBVIOUS
    <2> QED BY Zenon DEF StateOf, States
  <1> HIDE DEF StateOf
  <1> QED BY <1>1 DEF Applicable

\* What the overview says of one family.
LEMMA FamilySum ==
  ASSUME NEW found, NEW marked, NEW states \in SUBSET States,
         NEW family \in DOMAIN FamilyCounts(found, marked)
  PROVE  SumFunctionOnSet(FamilyCounts(found, marked)[family], states) =
           Cardinality(Stand(family \cap Applicable(found, marked), states, found, marked))
  <1> DEFINE members == family \cap Applicable(found, marked)
             g == [state \in States |-> Stand(members, {state}, found, marked)]
             fun == FamilyCounts(found, marked)[family]
  <1>1. family \in Families
    BY DEF FamilyCounts
  <1>2. IsFiniteSet(members)
    BY <1>1, FamiliesPart, FS_Subset
  <1>3. fun = [state \in States |-> Cardinality(Stand(members, {state}, found, marked))]
    <2>1. fun = [state \in States |->
                   Cardinality({key \in members : StateOf(key, found, marked) = state})]
      BY Zenon DEF FamilyCounts, States
    <2>2. \A state : {key \in members : StateOf(key, found, marked) = state} =
                        Stand(members, {state}, found, marked)
      BY DEF Stand
    <2> HIDE DEF members, fun
    <2> QED BY <2>1, <2>2
  <1> HIDE DEF members, fun
  <1>4. Counts(states, fun, g)
    <2>1. \A state \in States : IsFiniteSet(Stand(members, {state}, found, marked))
      <3>1. \A state : Stand(members, {state}, found, marked) \subseteq members
        BY DEF Stand
      <3> QED BY <1>2, <3>1, FS_Subset
    <2>2. \A one, other \in States : one # other =>
             Stand(members, {one}, found, marked) \cap Stand(members, {other}, found, marked) = {}
      BY DEF Stand
    <2>3. \A state \in states : state \in States
      OBVIOUS
    <2>4. \A state \in states : g[state] = Stand(members, {state}, found, marked)
      BY <2>3
    <2> HIDE DEF g, States, Stand
    <2> QED BY <1>3, <2>1, <2>2, <2>3, <2>4 DEF Counts
  <1>5. IsFiniteSet(states)
    <2>1. IsFiniteSet(States)
      <3>1. States = {"live", "ready", "template", "missing", "missing", "missing", "missing",
                      "missing", "missing"}
        BY DEF States
      <3> QED BY <3>1, NineAreFinite, Zenon
    <2> QED BY <2>1, FS_Subset
  <1>6. Parts(states, g) = Stand(members, states, found, marked)
    <2>1. \A state \in states : g[state] = Stand(members, {state}, found, marked)
      OBVIOUS
    <2> HIDE DEF g
    <2> QED BY <2>1 DEF Parts, Stand
  <1> HIDE DEF g
  <1>7. SumFunctionOnSet(fun, states) = Cardinality(Parts(states, g))
    BY <1>4, <1>5, SumsUp
  <1> QED BY <1>6, <1>7 DEF fun, members

\* What it says of them all.
Overview(counts, states) ==
    SumFunction([family \in DOMAIN counts |-> SumFunctionOnSet(counts[family], states)])

LEMMA OverviewSums ==
  ASSUME NEW found, NEW marked, NEW states \in SUBSET States
  PROVE  /\ IsFiniteSet(Applicable(found, marked))
         /\ Overview(FamilyCounts(found, marked), states) =
              Cardinality(Stand(Applicable(found, marked), states, found, marked))
  <1> DEFINE shown == DOMAIN FamilyCounts(found, marked)
             expected == Applicable(found, marked)
             fun == [family \in shown |->
                        SumFunctionOnSet(FamilyCounts(found, marked)[family], states)]
             g == [family \in shown |-> Stand(family \cap expected, states, found, marked)]
  <1>1. shown = {family \in Families : family \cap expected # {}}
    BY DEF FamilyCounts
  <1>2. \A family \in shown :
           fun[family] = Cardinality(Stand(family \cap expected, states, found, marked))
    BY FamilySum
  <1>3. Overview(FamilyCounts(found, marked), states) = SumFunctionOnSet(fun, shown)
    <2>1. shown = DOMAIN fun
      OBVIOUS
    <2>2. Overview(FamilyCounts(found, marked), states) = SumFunction(fun)
      BY Zenon DEF Overview
    <2> HIDE DEF fun, shown
    <2> QED BY <2>1, <2>2 DEF SumFunction
  <1>4. \A family \in shown : g[family] = Stand(family \cap expected, states, found, marked)
    OBVIOUS
  <1> HIDE DEF fun, g, shown
  <1>5. IsFiniteSet(shown)
    BY <1>1, FamiliesPart, FS_Subset
  <1>6. Counts(shown, fun, g)
    <2>1. \A family \in shown : IsFiniteSet(Stand(family \cap expected, states, found, marked))
      <3> SUFFICES ASSUME NEW family \in shown
                   PROVE  IsFiniteSet(Stand(family \cap expected, states, found, marked))
        OBVIOUS
      <3>1. Stand(family \cap expected, states, found, marked) \subseteq family
        BY DEF Stand
      <3>2. IsFiniteSet(family)
        BY <1>1, FamiliesPart
      <3> QED BY <3>1, <3>2, FS_Subset
    <2>2. \A one, other \in shown : one # other =>
             Stand(one \cap expected, states, found, marked)
               \cap Stand(other \cap expected, states, found, marked) = {}
      <3>1. \A one, other \in shown : one # other => one \cap other = {}
        BY <1>1, FamiliesPart
      <3> QED BY <3>1 DEF Stand
    <2> HIDE DEF expected
    <2> QED BY <1>2, <1>4, <2>1, <2>2, Zenon DEF Counts
  <1>7. Parts(shown, g) = Stand(expected, states, found, marked)
    <2>1. \A key \in expected : \E family \in shown : key \in family \cap expected
      <3> SUFFICES ASSUME NEW key \in expected PROVE \E family \in shown : key \in family \cap expected
        OBVIOUS
      <3>1. key \in Keys
        BY ApplicableIn
      <3>2. PICK family \in Families : key \in family
        BY <3>1 DEF Keys
      <3> HIDE DEF expected
      <3> QED BY <1>1, <3>2
    <2> HIDE DEF expected
    <2> QED BY <1>4, <2>1 DEF Parts, Stand
  <1>8. /\ IsFiniteSet(Parts(shown, g))
        /\ SumFunctionOnSet(fun, shown) = Cardinality(Parts(shown, g))
    BY <1>5, <1>6, SumsUp
  <1>9. IsFiniteSet(expected)
    <2>1. IsFiniteSet(Keys)
      BY FamiliesPart, FS_UNION DEF Keys
    <2> QED BY <2>1, ApplicableIn, FS_Subset
  <1> QED BY <1>3, <1>7, <1>8, <1>9 DEF expected

\* Whatever was found and marked, the two lists are what the overview leaves.
LEMMA ListsAndOverview == ListsAgree
  <1> SUFFICES ASSUME NEW found \in snapshot
               PROVE  LET counts == FamilyCounts(found, marks)
                          client_todo == Todo(ForClient(found, marks), found, marks)
                          dev_todo == Todo(ForDeveloper(found, marks), found, marks)
                      IN  /\ Cardinality(client_todo) + Cardinality(dev_todo) =
                               Overview(counts, {"ready", "template", "missing"})
                          /\ Cardinality(Applicable(found, marks)) =
                               Overview(counts, {"live", "ready", "template", "missing"})
    BY Zenon DEF ListsAgree, Overview
  <1> DEFINE expected == Applicable(found, marks)
             A == Todo(ForClient(found, marks), found, marks)
             B == Todo(ForDeveloper(found, marks), found, marks)
             open == {"ready", "template", "missing"}
  <1>1. /\ open \in SUBSET States
        /\ States = {"live", "ready", "template", "missing"}
    BY DEF States
  <1>2. Stand(expected, States, found, marks) = expected
    BY ApplicableIn DEF Stand
  <1>3. A \cup B = Stand(expected, open, found, marks) /\ A \cap B = {}
    <2>1. \A key \in expected : StateOf(key, found, marks) \in open <=>
                              StateOf(key, found, marks) # "live"
      BY ApplicableIn DEF States
    <2>2. A = {key \in expected : ~NeedsDeveloper(key) /\ StateOf(key, found, marks) # "live"}
      BY DEF Todo, ForClient
    <2>3. B = {key \in expected : NeedsDeveloper(key) /\ StateOf(key, found, marks) # "live"}
      BY DEF Todo, ForDeveloper
    <2> HIDE DEF A, B, expected, open
    <2> QED BY <2>1, <2>2, <2>3 DEF Stand
  <1>4. IsFiniteSet(expected)
    BY <1>1, OverviewSums
  <1>5. IsFiniteSet(A) /\ IsFiniteSet(B)
    <2>1. A \subseteq expected /\ B \subseteq expected
      BY DEF Todo, ForClient, ForDeveloper
    <2> HIDE DEF A, B, expected
    <2> QED BY <1>4, <2>1, FS_Subset
  <1>6. Cardinality(A) + Cardinality(B) = Cardinality(Stand(expected, open, found, marks))
    <2> HIDE DEF A, B
    <2>1. Cardinality(A \cup B) = Cardinality(A) + Cardinality(B) - Cardinality(A \cap B)
      BY <1>5, FS_Union
    <2>2. Cardinality(A \cap B) = 0
      BY <1>3, FS_EmptySet
    <2>3. Cardinality(A) \in Nat /\ Cardinality(B) \in Nat
      BY <1>5, FS_CardinalityType
    <2>4. Cardinality(A) + Cardinality(B) = Cardinality(A \cup B)
      BY <2>1, <2>2, <2>3
    <2> QED BY <1>3, <2>4, Zenon
  <1>7. Overview(FamilyCounts(found, marks), open) = Cardinality(Stand(expected, open, found, marks))
    <2> HIDE DEF open
    <2> QED BY <1>1, OverviewSums
  <1>8. Overview(FamilyCounts(found, marks), States) = Cardinality(expected)
    <2>1. States \in SUBSET States
      OBVIOUS
    <2>2. Overview(FamilyCounts(found, marks), States) = Cardinality(Stand(expected, States, found, marks))
      BY <2>1, OverviewSums
    <2> QED BY <1>2, <2>2
  <1> HIDE DEF open, A, B, expected
  <1> QED BY <1>1, <1>6, <1>7, <1>8 DEF open, A, B, expected

-----------------------------------------------------------------------------
(* Pushed audits. *)

AuditsShaped ==
    /\ audits \in [AuditIds -> Rows \cup {NoAudit}]
    /\ created \in [AuditIds -> Nat] /\ retracted \in [AuditIds -> Nat]
    /\ DOMAIN delivery = Deliveries
    /\ \A d \in Deliveries : delivery[d].stage = "loaded" =>
          delivery[d].push \in Pushes /\ delivery[d].row \in Rows \cup {NoAudit}

AuditsInv == AuditsShaped /\ AuditsBalance

LEMMA RowsStored ==
  ASSUME NEW push \in Pushes, NEW now \in Rows, NEW loaded \in Rows
  PROVE  RowOf(push) \in Rows /\ Updated(now, loaded, push) \in Rows
  <1>1. RowOf(push) \in Rows
    BY DEF RowOf, Rows
  <1>2. \A row \in Rows : /\ row["domain"] \in {p.domain : p \in Pushes} /\ row["payload"] \in Pushes
                           /\ row["score"] \in {p.score : p \in Pushes}
                           /\ row["at"] \in {p.at : p \in Pushes}
    BY DEF Rows
  <1> QED BY <1>1, <1>2 DEF Updated, Rows

LEMMA AuditsInitially == AuditsInit => AuditsInv
  <1> SUFFICES ASSUME AuditsInit PROVE AuditsInv
    OBVIOUS
  <1>1. \A id \in AuditIds : audits[id] = NoAudit /\ created[id] = 0 /\ retracted[id] = 0
    BY DEF AuditsInit
  <1>2. \A d \in Deliveries : delivery[d].stage = "to do"
    BY DEF AuditsInit
  <1>3. AuditsShaped
    BY <1>2 DEF AuditsInit, AuditsShaped
  <1> QED BY <1>1, <1>3 DEF AuditsInv, AuditsBalance

LEMMA AuditsStep ==
  ASSUME AuditsInv, [AuditsNext]_auditVars
  PROVE  AuditsInv'
  <1>0. AuditsShaped /\ AuditsBalance
    BY DEF AuditsInv
  <1>1. ASSUME NEW d \in Deliveries, AuditArrives(d) PROVE AuditsInv'
    <2>1. PICK push \in Pushes :
             delivery' = [delivery EXCEPT ![d] =
                 [stage |-> "loaded", push |-> push, row |-> audits[push.id],
                  key |-> created[push.id]]]
      BY <1>1 DEF AuditArrives
    <2>2. audits[push.id] \in Rows \cup {NoAudit}
      BY <1>0 DEF AuditsShaped, AuditIds
    <2>3. UNCHANGED <<audits, created, retracted>>
      BY <1>1 DEF AuditArrives
    <2> QED BY <1>0, <2>1, <2>2, <2>3 DEF AuditsInv, AuditsShaped, AuditsBalance
  <1>2. ASSUME NEW d \in Deliveries, AuditStored(d) PROVE AuditsInv'
    <2>1. PICK push \in Pushes, loaded \in Rows \cup {NoAudit} :
             push = delivery[d].push /\ loaded = delivery[d].row
      BY <1>0, <1>2 DEF AuditStored, AuditsShaped
    <2>2. PICK now \in Rows \cup {NoAudit} : now = audits[push.id] /\ push.id \in AuditIds
      BY <1>0 DEF AuditsShaped, AuditIds
    <2>3. /\ \A x \in Deliveries : delivery'[x].stage = "loaded" => delivery'[x] = delivery[x]
          /\ DOMAIN delivery' = Deliveries
          /\ UNCHANGED retracted
      BY <1>0, <1>2 DEF AuditStored, AuditsShaped
    <2> DEFINE same == delivery[d].key = created[push.id]
    <2>4. CASE ~Accepted(loaded, now, same)
      <3>1. UNCHANGED <<audits, created>>
        BY <1>2, <2>1, <2>2, <2>4 DEF AuditStored
      <3> QED BY <1>0, <2>3, <3>1 DEF AuditsInv, AuditsShaped, AuditsBalance
    <2>5. CASE Accepted(loaded, now, same) /\ loaded = NoAudit
      <3>1. /\ audits' = [audits EXCEPT ![push.id] = RowOf(push)]
            /\ created' = [created EXCEPT ![push.id] = @ + 1]
        BY <1>2, <2>1, <2>2, <2>5 DEF AuditStored
      <3>2. RowOf(push) \in Rows /\ now = NoAudit
        BY <2>5 DEF RowOf, Rows, Accepted
      <3>3. PICK new \in Rows : new = RowOf(push) /\ new # NoAudit
        BY <3>2
      <3>4. /\ audits' \in [AuditIds -> Rows \cup {NoAudit}]
            /\ created' \in [AuditIds -> Nat]
        <4>1. \A n \in Nat : n + 1 \in Nat
          OBVIOUS
        <4>2. /\ audits \in [AuditIds -> Rows \cup {NoAudit}] /\ created \in [AuditIds -> Nat]
              /\ RowOf(push) \in Rows
          BY <1>0, <3>2 DEF AuditsShaped
        <4>3. audits' \in [AuditIds -> Rows \cup {NoAudit}]
          BY <3>1, <4>2
        <4>4. created' \in [AuditIds -> Nat]
          BY <3>1, <4>1, <4>2
        <4> QED BY <4>3, <4>4
      <3>5. AuditsShaped'
        BY <1>0, <2>3, <3>4 DEF AuditsShaped
      <3>6. ASSUME NEW id \in AuditIds
            PROVE  created'[id] - retracted[id] = IF audits'[id] = NoAudit THEN 0 ELSE 1
        <4>1. CASE id = push.id
          <5>1. audits[id] = NoAudit /\ audits'[id] # NoAudit
            BY <1>0, <2>2, <3>1, <3>2, <3>3, <4>1 DEF AuditsShaped
          <5>2. created[id] - retracted[id] = 0
            BY <1>0, <5>1 DEF AuditsBalance
          <5>3. created'[id] = created[id] + 1 /\ created[id] \in Nat /\ retracted[id] \in Nat
            BY <1>0, <3>1, <4>1 DEF AuditsShaped
          <5> QED BY <5>1, <5>2, <5>3
        <4>2. CASE id # push.id
          BY <1>0, <3>1, <4>2 DEF AuditsShaped, AuditsBalance
        <4> QED BY <4>1, <4>2
      <3> QED BY <2>3, <3>5, <3>6 DEF AuditsInv, AuditsBalance
    <2>6. CASE Accepted(loaded, now, same) /\ loaded # NoAudit
      <3>1. /\ audits' = [audits EXCEPT ![push.id] = Updated(now, loaded, push)]
            /\ created' = [created EXCEPT ![push.id] = @ + 0]
        BY <1>2, <2>1, <2>2, <2>6 DEF AuditStored
      <3>2. now \in Rows /\ loaded \in Rows
        BY <2>1, <2>2, <2>6 DEF Accepted
      <3>3. Updated(now, loaded, push) \in Rows
        BY <3>2, RowsStored
      <3> QED BY <1>0, <2>2, <2>3, <3>1, <3>2, <3>3 DEF AuditsInv, AuditsShaped, AuditsBalance
    <2> QED BY <2>4, <2>5, <2>6
  <1>3. CASE DeleteAudit \/ DeleteClientAudits
    <2>1. PICK ids : TakenBack(ids) /\ \A id \in ids : id \in AuditIds /\ audits[id] # NoAudit
      <3>1. CASE DeleteAudit
        <4>1. PICK id \in AuditIds : audits[id] # NoAudit /\ TakenBack({id})
          BY <3>1 DEF DeleteAudit
        <4>2. \A other \in {id} : other \in AuditIds /\ audits[other] # NoAudit
          BY <4>1
        <4> QED BY <4>1, <4>2
      <3>2. CASE DeleteClientAudits
        <4>1. PICK domain \in {push.domain : push \in Pushes} :
                TakenBack({id \in AuditIds : audits[id] # NoAudit /\ audits[id].domain = domain})
          BY <3>2 DEF DeleteClientAudits
        <4>2. \A other \in {id \in AuditIds : audits[id] # NoAudit /\ audits[id].domain = domain} :
                other \in AuditIds /\ audits[other] # NoAudit
          OBVIOUS
        <4> QED BY <4>1, <4>2
      <3> QED BY <1>3, <3>1, <3>2
    <2>2. /\ audits' = [id \in AuditIds |-> IF id \in ids THEN NoAudit ELSE audits[id]]
          /\ retracted' = [id \in AuditIds |-> retracted[id] + (IF id \in ids THEN 1 ELSE 0)]
          /\ UNCHANGED <<delivery, created>>
      BY <2>1 DEF TakenBack
    <2>3. \A id \in AuditIds : retracted[id] \in Nat /\ audits[id] \in Rows \cup {NoAudit}
      BY <1>0 DEF AuditsShaped
    <2>4. AuditsShaped'
      BY <1>0, <2>2, <2>3 DEF AuditsShaped
    <2> QED BY <1>0, <2>1, <2>2, <2>4 DEF AuditsInv, AuditsShaped, AuditsBalance
  <1>4. CASE UNCHANGED auditVars
    BY <1>0, <1>4 DEF auditVars, AuditsInv, AuditsShaped, AuditsBalance
  <1> QED BY <1>1, <1>2, <1>3, <1>4 DEF AuditsNext

-----------------------------------------------------------------------------
(* Theorems. *)

\* Whatever a site lists and whatever its figures, a declaration moves the
\* verdict of a group as far as it should and no further (summarise_group,
\* _apply_overrides, _apply_brief), of every table a preflight stores.
THEOREM DeclarationsBound == Spec => []BriefBoundsTheVerdict
  <1>1. Tabled /\ [Next]_vars => Tabled'
    BY TabledStep
  <1> QED BY <1>1, TabledInitially, TableIsBounded, PTL DEF Spec

\* Nothing is left of an upload once another that began after it is stored, or
\* once its client is deleted, and no page has figures of two
\* (replace_site_metrics, delete_client), for any number of uploads, briefs
\* and deletions that overlap.
THEOREM OldFiguresGo == Spec => []OldFiguresAreGone
  <1>1. FiguresInv /\ [Next]_vars => FiguresInv'
    BY FiguresStep
  <1>2. FiguresInv => OldFiguresAreGone
    BY DEF FiguresInv
  <1> QED BY <1>1, <1>2, FiguresInitially, PTL DEF Spec

\* A run names the groups that moved since the brief was answered and no
\* other (detect_drift, fold_change, record_observed_shape), whenever the
\* site moves and however often the brief is answered while a job works.
THEOREM DriftIsTold == Spec => []DriftTellsTheMoves
  <1>1. Baselined /\ [Next]_vars => Baselined'
    BY BaselinedStep
  <1> QED BY <1>1, BaselinedInitially, BaselineTells, PTL DEF Spec

\* What a check found wrong is never shown as done, and no mark is stored on
\* what a probe decides (derive, manually_markable, set_component_mark), for
\* any findings and any number of people who mark at once.
THEOREM MarksNeverWin == StatusSpec => []NoMarkBeatsAMeasurement
  <1>1. MarksInv /\ [StatusNext]_statusVars => MarksInv'
    BY MarksStep
  <1> QED BY <1>1, MarksInitially, MarksBound, PTL DEF StatusSpec

\* What is left to do on the client's list and the developer's is what the
\* overview does not count as live (for_client, for_developer, family_counts),
\* whatever a check found and whoever marked what.
THEOREM ListsAgreeHolds == StatusSpec => []ListsAgree
  BY ListsAndOverview, PTL

\* An audit is one row, told as new once for each time it was put there
\* (save_audit, uq audit_id), however often and in whatever order it is
\* pushed and taken back.
THEOREM AuditsAreOnce == AuditsSpec => []AuditsBalance
  <1>1. AuditsInv /\ [AuditsNext]_auditVars => AuditsInv'
    BY AuditsStep
  <1>2. AuditsInv => AuditsBalance
    BY DEF AuditsInv
  <1> QED BY <1>1, <1>2, AuditsInitially, PTL DEF AuditsSpec
=============================================================================
