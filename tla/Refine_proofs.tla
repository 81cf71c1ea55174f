---------------------------- MODULE Refine_proofs ----------------------------
(* Theorems about Refine, for any site, facts, turns in flight and ceiling. *)
EXTENDS Refine, FiniteSetTheorems, FunctionTheorems, SequenceTheorems, TLAPS

-----------------------------------------------------------------------------
(* Operations and facts. *)

\* What may be asked about some links may be asked about all.
LEMMA OperationsWithin ==
  ASSUME NEW N \in SUBSET Urls
  PROVE  Operations(N) \subseteq AnOperation
  BY DEF Operations, AnOperation

LEMMA NamedWithin ==
  ASSUME NEW P \in SUBSET Urls, NEW s
  PROVE  Named(P, s) \in SUBSET P
  BY DEF Named

LEMMA StandingIsFinite ==
  ASSUME NEW s, Len(s) \in Nat, NEW f
  PROVE  IsFiniteSet(Standing(s, f)) /\ Cardinality(Standing(s, f)) \in Nat
<1>1. IsFiniteSet(1..Len(s))
  BY FS_Interval
<1>2. Standing(s, f) \in SUBSET (1..Len(s))
  BY DEF Standing
<1> QED BY <1>1, <1>2, FS_Subset, FS_CardinalityType

LEMMA ToldCounts ==
  ASSUME NEW s, Len(s) \in Nat
  PROVE  Told(s) \in Counts
  BY StandingIsFinite DEF Told, Counts

LEMMA AfterCounts ==
  ASSUME NEW s, Len(s) \in Nat, NEW before \in Counts
  PROVE  FactsAfter(before, s) \in Counts
<1>1. Told(s) \in Counts
  BY ToldCounts
<1> QED BY <1>1 DEF FactsAfter, Counts

\* Facts counted from the whole list, or turn by turn, are the same.
LEMMA ToldConcat ==
  ASSUME NEW S, NEW a \in Seq(S), NEW b \in Seq(S)
  PROVE  Told(a \o b) = FactsAfter(Told(a), b)
<1> DEFINE ab == a \o b
           cleared == \E i \in 1..Len(b) : b[i] = Clear
<1>1. /\ Len(a) \in Nat /\ Len(b) \in Nat /\ Len(ab) = Len(a) + Len(b)
      /\ \A i \in 1..Len(a) : ab[i] = a[i]
      /\ \A i \in 1..Len(b) : ab[Len(a) + i] = b[i]
      /\ \A i \in 1..Len(ab) : i > Len(a) => i - Len(a) \in 1..Len(b) /\ ab[i] = b[i - Len(a)]
  BY ConcatProperties, LenProperties
<1> HIDE DEF ab
<1>2. ASSUME NEW f \in Facts
      PROVE  Cardinality(Standing(ab, f)) =
               Cardinality(Standing(b, f))
                 + IF cleared THEN 0 ELSE Cardinality(Standing(a, f))
  <2> DEFINE Of(s) == Standing(s, f)
             Moved == {i \in Of(ab) : i > Len(a)}
             First == Of(ab) \ Moved
             shift == [i \in Of(b) |-> Len(a) + i]
  <2>1. First = IF cleared THEN {} ELSE Of(a)
    <3>1. CASE cleared
      <4>1. PICK k \in 1..Len(b) : b[k] = Clear
        BY <3>1
      <4>2. ab[Len(a) + k] = Clear
        BY <1>1, <4>1
      <4>3. ASSUME NEW i \in Of(ab), ~(i > Len(a)) PROVE FALSE
        <5>1. Len(a) + k \in i..Len(ab)
          BY <1>1, <4>1, <4>3 DEF Standing
        <5> QED BY <4>2, <5>1 DEF Standing
      <4> QED BY <3>1, <4>3
    <3>2. CASE ~cleared
      <4>1. First \subseteq Of(a)
        BY <1>1 DEF Standing
      <4>2. ASSUME NEW i \in Of(a) PROVE i \in First
        <5>1. i \in 1..Len(a) /\ i \in 1..Len(ab) /\ ab[i] = State(f)
          BY <1>1 DEF Standing
        <5>2. ASSUME NEW j \in i..Len(ab) PROVE ab[j] # Clear
          <6>1. CASE j > Len(a)
            BY <1>1, <3>2, <5>1, <6>1
          <6>2. CASE ~(j > Len(a))
            BY <1>1, <5>1, <6>2 DEF Standing
          <6> QED BY <6>1, <6>2
        <5>3. i \in Of(ab) /\ ~(i > Len(a))
          BY <1>1, <5>1, <5>2 DEF Standing
        <5> QED BY <5>3
      <4> QED BY <3>2, <4>1, <4>2
    <3> QED BY <3>1, <3>2
  <2>2. Cardinality(Moved) = Cardinality(Of(b))
    <3>1. ASSUME NEW i \in Of(b) PROVE Len(a) + i \in Moved
      <4>1. i \in 1..Len(b) /\ Len(a) + i \in 1..Len(ab) /\ ab[Len(a) + i] = State(f)
        BY <1>1 DEF Standing
      <4>2. ASSUME NEW j \in (Len(a) + i)..Len(ab) PROVE ab[j] # Clear
        <5>1. j - Len(a) \in i..Len(b) /\ ab[j] = b[j - Len(a)]
          BY <1>1, <4>1, <4>2
        <5> QED BY <5>1 DEF Standing
      <4> QED BY <1>1, <4>1, <4>2 DEF Standing
    <3>2. ASSUME NEW i \in Moved PROVE i - Len(a) \in Of(b)
      <4>1. /\ i \in 1..Len(ab) /\ i > Len(a)
            /\ i - Len(a) \in 1..Len(b) /\ b[i - Len(a)] = State(f)
        BY <1>1 DEF Standing
      <4>2. ASSUME NEW j \in (i - Len(a))..Len(b) PROVE b[j] # Clear
        <5>1. j \in 1..Len(b) /\ Len(a) + j \in i..Len(ab) /\ ab[Len(a) + j] = b[j]
          BY <1>1, <4>1, <4>2
        <5> QED BY <5>1 DEF Standing
      <4> QED BY <4>1, <4>2 DEF Standing
    <3>3. \A i \in Of(b) : i \in Nat
      BY <1>1 DEF Standing
    <3>4. \A i \in Moved : i \in Nat
      BY <1>1 DEF Standing
    <3> HIDE DEF Of, Moved
    <3>5. shift \in Bijection(Of(b), Moved)
      <4>1. shift \in [Of(b) -> Moved]
        BY <3>1
      <4>2. \A i, j \in Of(b) : shift[i] = shift[j] => i = j
        BY <1>1, <3>3
      <4>3. \A i \in Moved : \E j \in Of(b) : shift[j] = i
        <5> TAKE i \in Moved
        <5>1. shift[i - Len(a)] = i
          BY <1>1, <3>2, <3>4
        <5> QED BY <3>2, <5>1
      <4> QED BY <4>1, <4>2, <4>3, Fun_IsBij
    <3>6. IsFiniteSet(Of(b))
      BY <1>1, StandingIsFinite DEF Of
    <3> QED BY <3>5, <3>6, FS_Bijection, Fun_ExistsBij
  <2>3. /\ IsFiniteSet(First) /\ IsFiniteSet(Moved) /\ First \cap Moved = {}
        /\ Of(ab) = First \cup Moved
    <3>1. IsFiniteSet(Of(ab))
      BY <1>1, StandingIsFinite
    <3> QED BY <3>1, FS_Subset
  <2>4. /\ Cardinality(Of(ab)) = Cardinality(First) + Cardinality(Moved)
        /\ Cardinality(First) \in Nat /\ Cardinality(Moved) \in Nat
    <3> HIDE DEF First, Moved, Of
    <3>1. Cardinality(First \cap Moved) = 0
      BY <2>3, FS_EmptySet
    <3>2. Cardinality(First) \in Nat /\ Cardinality(Moved) \in Nat
      BY <2>3, FS_CardinalityType
    <3>3. Cardinality(First \cup Moved)
            = Cardinality(First) + Cardinality(Moved) - Cardinality(First \cap Moved)
      BY <2>3, FS_Union
    <3> QED BY <2>3, <3>1, <3>2, <3>3
  <2>5. Cardinality(First) = IF cleared THEN 0 ELSE Cardinality(Of(a))
    BY <2>1, FS_EmptySet
  <2> QED BY <2>2, <2>4, <2>5
<1> QED BY <1>2 DEF Told, FactsAfter, ab

LEMMA FunctionAsSequence ==
  ASSUME NEW S, NEW n \in Nat, NEW f \in [1..n -> S]
  PROVE  f \in Seq(S) /\ Len(f) = n
<1>1. f \in Seq(S)
  BY SeqDef
<1>2. DOMAIN f = 1..Len(f) /\ Len(f) \in Nat
  BY <1>1, LenProperties
<1>3. 1..Len(f) = 1..n
  BY <1>2
<1> QED BY <1>1, <1>2, <1>3

\* A turn asks about links of the file it read.
LEMMA AskedAbout ==
  ASSUME BoundAssumption, NEW t \in Turns, NEW s \in AskedFor(t)
  PROVE  s \in Seq(Operations(Named(turn[t].probed, turn[t].ops)))
<1> DEFINE Shown == Operations(Named(turn[t].probed, turn[t].ops))
<1>1. PICK n \in 0..MaxAsked : s \in [1..n -> Shown]
  BY DEF AskedFor
<1>2. n \in Nat
  BY <1>1 DEF BoundAssumption
<1> QED BY <1>1, <1>2, FunctionAsSequence

-----------------------------------------------------------------------------
(* Types. *)

LEMMA RequestTypes ==
  ASSUME TypeOK, NEW t \in InFlight
  PROVE  /\ turn[t].at \in {"reading", "asking", "writing"}
         /\ turn[t].probed \in SUBSET Urls
         /\ turn[t].ops \in Seq(AnOperation)
         /\ turn[t].facts \in Counts
         /\ turn[t].at \in {"reading", "asking"} =>
              turn[t] \in [at : {"reading", "asking"}, probed : SUBSET Urls,
                           ops : Seq(AnOperation), facts : Counts]
         /\ turn[t].at = "writing" =>
              turn[t] \in [at : {"writing"}, probed : SUBSET Urls, ops : Seq(AnOperation),
                           facts : Counts, found : BOOLEAN, gone : BOOLEAN]
<1>1. turn[t] \in Requests /\ turn[t].at # "idle"
  BY DEF TypeOK, InFlight
<1>2. turn[t] # Idle
  BY <1>1 DEF Idle
<1>3. CASE turn[t] \in [at : {"reading", "asking"}, probed : SUBSET Urls,
                        ops : Seq(AnOperation), facts : Counts]
  BY <1>3
<1>4. CASE turn[t] \in [at : {"writing"}, probed : SUBSET Urls, ops : Seq(AnOperation),
                        facts : Counts, found : BOOLEAN, gone : BOOLEAN]
  BY <1>4
<1> QED BY <1>1, <1>2, <1>3, <1>4 DEF Requests

\* What the end of a request does to the requests.
LEMMA Ended ==
  ASSUME TypeOK, NEW t \in InFlight, Ends(t)
  PROVE  /\ turn' \in [Turns -> Requests]
         /\ InFlight' = InFlight \ {t}
         /\ Called' = Called \ {t}
         /\ \A x \in Turns \ {t} : turn'[x] = turn[x]
<1>1. turn \in [Turns -> Requests] /\ t \in Turns
  BY DEF TypeOK, InFlight
<1>2. /\ turn' \in [Turns -> Requests] /\ turn'[t] = Idle
      /\ \A x \in Turns \ {t} : turn'[x] = turn[x]
  BY <1>1 DEF Ends, Requests
<1> QED BY <1>1, <1>2 DEF InFlight, Called, Idle

\* ... and what the steps before it do.
LEMMA Begun ==
  ASSUME TypeOK, NEW t \in Turns, Begin(t)
  PROVE  /\ turn' \in [Turns -> Requests]
         /\ InFlight' = InFlight \cup {t}
         /\ Called' = Called
         /\ turn'[t].probed = probed /\ turn'[t].facts = facts
         /\ \A x \in Turns \ {t} : turn'[x] = turn[x]
<1> DEFINE new == [at |-> "reading", probed |-> probed, ops |-> ops, facts |-> facts]
<1>1. turn \in [Turns -> Requests] /\ new \in Requests
  BY DEF TypeOK, Requests
<1>2. turn' = [turn EXCEPT ![t] = new] /\ turn[t] = Idle
  BY DEF Begin
<1>3. new.at = "reading" /\ new.probed = probed /\ new.facts = facts
  OBVIOUS
<1> HIDE DEF new
<1>4. /\ turn' \in [Turns -> Requests] /\ turn'[t] = new
      /\ \A x \in Turns \ {t} : turn'[x] = turn[x]
  BY <1>1, <1>2
<1> QED BY <1>1, <1>2, <1>3, <1>4 DEF InFlight, Called, Idle

LEMMA Asks ==
  ASSUME TypeOK, NEW t \in Turns, Ask(t)
  PROVE  /\ turn' \in [Turns -> Requests]
         /\ InFlight' = InFlight
         /\ t \notin Called /\ Called' = Called \cup {t}
         /\ \A x \in InFlight : /\ turn'[x].probed = turn[x].probed
                                /\ turn'[x].facts = turn[x].facts
<1> DEFINE new == [turn[t] EXCEPT !.at = "asking"]
<1>1. t \in InFlight /\ turn[t].at = "reading" /\ turn \in [Turns -> Requests]
  BY DEF Ask, InFlight, TypeOK
<1>2. turn[t] \in [at : {"reading", "asking"}, probed : SUBSET Urls,
                   ops : Seq(AnOperation), facts : Counts]
  BY <1>1, RequestTypes
<1>3. /\ new \in [at : {"reading", "asking"}, probed : SUBSET Urls,
                  ops : Seq(AnOperation), facts : Counts]
      /\ new.at = "asking" /\ new.probed = turn[t].probed /\ new.facts = turn[t].facts
  BY <1>2
<1>4. turn' = [turn EXCEPT ![t] = new]
  BY DEF Ask
<1>5. new \in Requests
  BY <1>3 DEF Requests
<1> HIDE DEF new
<1>6. /\ turn' \in [Turns -> Requests] /\ turn'[t] = new
      /\ \A x \in Turns \ {t} : turn'[x] = turn[x]
  BY <1>1, <1>4, <1>5
<1> QED BY <1>1, <1>3, <1>6 DEF InFlight, Called

LEMMA AnswerComes ==
  ASSUME TypeOK, NEW t \in Turns, Answered(t)
  PROVE  /\ turn' \in [Turns -> Requests]
         /\ InFlight' = InFlight
         /\ Called' = Called
         /\ \A x \in InFlight : /\ turn'[x].probed = turn[x].probed
                                /\ turn'[x].facts = turn[x].facts
<1> DEFINE new == [at |-> "writing", probed |-> turn[t].probed, ops |-> turn[t].ops,
                   facts |-> turn[t].facts, found |-> stored, gone |-> FALSE]
<1>1. t \in InFlight /\ turn[t].at = "asking" /\ turn \in [Turns -> Requests]
  BY DEF Answered, InFlight, TypeOK
<1>2. turn' = [turn EXCEPT ![t] = new]
  BY DEF Answered
<1>3. /\ new \in Requests
      /\ new.at = "writing" /\ new.probed = turn[t].probed /\ new.facts = turn[t].facts
  BY <1>1, RequestTypes DEF Requests, TypeOK
<1> HIDE DEF new
<1>4. /\ turn' \in [Turns -> Requests] /\ turn'[t] = new
      /\ \A x \in Turns \ {t} : turn'[x] = turn[x]
  BY <1>1, <1>2, <1>3
<1> QED BY <1>1, <1>3, <1>4 DEF InFlight, Called

LEMMA Deletion ==
  ASSUME TypeOK, EditDeleted
  PROVE  /\ turn' \in [Turns -> Requests]
         /\ InFlight' = InFlight
         /\ Called' = Called
         /\ \A x \in InFlight : /\ turn'[x].probed = turn[x].probed
                                /\ turn'[x].facts = turn[x].facts
<1> DEFINE After(t) ==
      IF turn[t].at = "writing" THEN [turn[t] EXCEPT !.gone = TRUE] ELSE turn[t]
<1>1. turn' = [t \in Turns |-> After(t)] /\ turn \in [Turns -> Requests]
  BY DEF EditDeleted, TypeOK
<1>2. ASSUME NEW t \in Turns
      PROVE  /\ After(t) \in Requests /\ After(t).at = turn[t].at
             /\ t \in InFlight => /\ After(t).probed = turn[t].probed
                                  /\ After(t).facts = turn[t].facts
  <2>1. CASE turn[t].at # "writing"
    BY <2>1, <1>1
  <2>2. CASE turn[t].at = "writing"
    <3>1. turn[t] \in [at : {"writing"}, probed : SUBSET Urls, ops : Seq(AnOperation),
                       facts : Counts, found : BOOLEAN, gone : BOOLEAN]
      BY <2>2, RequestTypes DEF InFlight
    <3>2. After(t) = [turn[t] EXCEPT !.gone = TRUE]
      BY <2>2
    <3>3. /\ [turn[t] EXCEPT !.gone = TRUE] \in
               [at : {"writing"}, probed : SUBSET Urls, ops : Seq(AnOperation),
                facts : Counts, found : BOOLEAN, gone : BOOLEAN]
          /\ [turn[t] EXCEPT !.gone = TRUE].at = turn[t].at
          /\ [turn[t] EXCEPT !.gone = TRUE].probed = turn[t].probed
          /\ [turn[t] EXCEPT !.gone = TRUE].facts = turn[t].facts
      BY <3>1
    <3> QED BY <3>2, <3>3 DEF Requests
  <2> QED BY <2>1, <2>2
<1> HIDE DEF After
<1>3. turn' \in [Turns -> Requests] /\ \A t \in Turns : turn'[t] = After(t)
  BY <1>1, <1>2
<1> QED BY <1>2, <1>3 DEF InFlight, Called

LEMMA Crash ==
  ASSUME TypeOK, WebCrash
  PROVE  turn' \in [Turns -> Requests] /\ InFlight' = {} /\ Called' = {}
  BY DEF WebCrash, Requests, InFlight, Called, Idle

\* What an applied turn makes of the edit.
LEMMA SavedTypes ==
  ASSUME TypeOK, BoundAssumption, NEW t \in InFlight, NEW s \in AskedFor(t), SaveEdit(t, s)
  PROVE  /\ s \in Seq(AnOperation)
         /\ ops' \in Seq(AnOperation)
         /\ facts' \in Counts
<1>1. t \in Turns /\ ops \in Seq(AnOperation)
  BY DEF TypeOK, InFlight
<1>2. turn[t].probed \in SUBSET Urls /\ turn[t].facts \in Counts
  BY RequestTypes
<1>3. Named(turn[t].probed, turn[t].ops) \in SUBSET Urls
  BY <1>2, NamedWithin
<1>4. s \in Seq(AnOperation)
  BY <1>1, <1>3, AskedAbout, OperationsWithin
<1>5. Len(s) \in Nat
  BY <1>4, LenProperties
<1>6. FactsAfter(turn[t].facts, s) \in Counts
  BY <1>2, <1>5, AfterCounts
<1>7. ops \o s \in Seq(AnOperation)
  BY <1>1, <1>4, ConcatProperties
<1> QED BY <1>1, <1>4, <1>6, <1>7 DEF SaveEdit

LEMMA SpendTypes ==
  ASSUME TypeOK, NEW n \in {0, 1}, RecordSpend(n)
  PROVE  /\ spent' \in [refine : Nat, other : Nat] /\ spent'.refine = spent.refine + n
         /\ records' \in Nat /\ records' = records + 1
<1>1. spent \in [refine : Nat, other : Nat] /\ records \in Nat
  BY DEF TypeOK
<1>2. spent' = [spent EXCEPT !.refine = @ + n] /\ records' = records + 1
  BY DEF RecordSpend
<1> QED BY <1>1, <1>2

LEMMA TypeInit == Init => TypeOK
<1> SUFFICES ASSUME Init PROVE TypeOK
  OBVIOUS
<1>1. <<>> \in Seq(AnOperation) /\ NoFacts \in Counts
  BY EmptySeq DEF NoFacts, Counts
<1> QED BY <1>1 DEF Init, TypeOK, Requests

LEMMA TypeStep == BoundAssumption /\ TypeOK /\ [Next]_vars => TypeOK'
<1> SUFFICES ASSUME BoundAssumption, TypeOK, [Next]_vars PROVE TypeOK'
  OBVIOUS
<1>1. CASE UNCHANGED vars
  BY <1>1 DEF TypeOK, vars, site, edit, ledger, history
<1>2. ASSUME NEW t \in Turns, Begin(t) PROVE TypeOK'
  BY <1>2, Begun DEF Begin, TypeOK, site, edit, ledger, history
<1>3. ASSUME NEW t \in Turns, Ask(t) PROVE TypeOK'
  <2>1. turn' \in [Turns -> Requests]
    BY <1>3, Asks
  <2>2. /\ calls' = calls + 1
        /\ UNCHANGED <<site, edit, ledger, lost, asked, crossed, moved>>
    BY <1>3 DEF Ask
  <2> QED BY <2>1, <2>2 DEF TypeOK, site, edit, ledger
<1>4. ASSUME NEW t \in Turns, OverCeiling(t) PROVE TypeOK'
  <2>1. t \in InFlight
    BY <1>4 DEF OverCeiling, InFlight
  <2> QED BY <1>4, <2>1, Ended DEF OverCeiling, TypeOK, site, ledger, history
<1>5. ASSUME NEW t \in Turns, Answered(t) PROVE TypeOK'
  BY <1>5, AnswerComes DEF Answered, TypeOK, site, edit, ledger, history
<1>6. ASSUME NEW t \in Turns, TurnNothing(t) PROVE TypeOK'
  <2>1. t \in InFlight
    BY <1>6 DEF TurnNothing, CanWrite, InFlight
  <2>2. spent' \in [refine : Nat, other : Nat] /\ records' \in Nat
    <3>1. PICK n \in {0, 1} : RecordSpend(n)
      BY <1>6 DEF TurnNothing
    <3> QED BY <3>1, SpendTypes
  <2>3. turn' \in [Turns -> Requests] /\ stored' = TRUE /\ UNCHANGED <<site, ops, facts, history>>
    BY <1>6, <2>1, Ended DEF TurnNothing
  <2> QED BY <2>2, <2>3 DEF TypeOK, site, history
<1>7. ASSUME NEW t \in Turns, TurnRefused(t) PROVE TypeOK'
  <2>1. t \in InFlight
    BY <1>7 DEF TurnRefused, CanWrite, InFlight
  <2>2. spent' \in [refine : Nat, other : Nat] /\ records' \in Nat
    <3>1. RecordSpend(1)
      BY <1>7 DEF TurnRefused
    <3> QED BY <3>1, SpendTypes
  <2>3. turn' \in [Turns -> Requests] /\ stored' = TRUE /\ UNCHANGED <<site, ops, facts, history>>
    BY <1>7, <2>1, Ended DEF TurnRefused
  <2> QED BY <2>2, <2>3 DEF TypeOK, site, history
<1>8. ASSUME NEW t \in Turns, TurnApplied(t) PROVE TypeOK'
  <2>1. t \in InFlight /\ Ends(t)
    BY <1>8 DEF TurnApplied, CanWrite, InFlight
  <2>2. turn' \in [Turns -> Requests]
    BY <2>1, Ended
  <2>3. PICK s \in AskedFor(t) : /\ SaveEdit(t, s)
                                /\ asked' = IF Changed(s) THEN asked \o s ELSE asked
    BY <1>8 DEF TurnApplied
  <2>4. s \in Seq(AnOperation) /\ ops' \in Seq(AnOperation) /\ facts' \in Counts
    BY <2>1, <2>3, SavedTypes
  <2>5. asked' \in Seq(AnOperation)
    BY <2>3, <2>4, ConcatProperties DEF TypeOK
  <2>6. spent' \in [refine : Nat, other : Nat] /\ records' \in Nat
    <3>1. RecordSpend(1)
      BY <1>8 DEF TurnApplied
    <3> QED BY <3>1, SpendTypes
  <2>7. stored' \in BOOLEAN /\ crossed' \in BOOLEAN
    BY <1>8 DEF TurnApplied
  <2>8. UNCHANGED <<site, calls, lost, moved>>
    BY <1>8 DEF TurnApplied
  <2> QED BY <2>2, <2>4, <2>5, <2>6, <2>7, <2>8 DEF TypeOK, site
<1>9. ASSUME NEW t \in Turns, TurnBreaks(t) PROVE TypeOK'
  <2>1. t \in InFlight
    BY <1>9 DEF TurnBreaks, InFlight
  <2> QED BY <1>9, <2>1, Ended DEF TurnBreaks, TypeOK, site, edit, ledger
<1>10. ASSUME NEW urls \in Probes, Check(urls) PROVE TypeOK'
  BY <1>10, ProbesAssumption DEF Check, TypeOK, edit, ledger
<1>11. ASSUME EditDeleted
       PROVE  /\ stored' \in BOOLEAN /\ ops' \in Seq(AnOperation) /\ facts' \in Counts
              /\ turn' \in [Turns -> Requests]
              /\ asked' \in Seq(AnOperation) /\ crossed' \in BOOLEAN /\ moved' \in BOOLEAN
  <2>1. turn' \in [Turns -> Requests]
    BY <1>11, Deletion
  <2>2. <<>> \in Seq(AnOperation) /\ NoFacts \in Counts
    BY EmptySeq DEF NoFacts, Counts
  <2> QED BY <1>11, <2>1, <2>2 DEF EditDeleted, TypeOK
<1>12. CASE Reset
  BY <1>11, <1>12 DEF Reset, TypeOK, site, ledger
<1>13. CASE DeleteClient
  <2>1. EditDeleted
    BY <1>13 DEF DeleteClient
  <2>2. /\ checked' = FALSE /\ probed' = {}
        /\ spent' = [refine |-> 0, other |-> 0] /\ records' = 0
        /\ lost' = lost + records /\ calls' = calls
    BY <1>13 DEF DeleteClient
  <2>3. checked' \in BOOLEAN /\ probed' \in SUBSET Urls
    BY <2>2
  <2>4. spent' \in [refine : Nat, other : Nat]
    BY <2>2
  <2>5. records' \in Nat /\ calls' \in Nat /\ lost' \in Nat
    BY <2>2 DEF TypeOK
  <2> QED BY <1>11, <2>1, <2>3, <2>4, <2>5 DEF TypeOK
<1>14. CASE OtherCall
  <2>1. spent \in [refine : Nat, other : Nat] /\ spent' = [spent EXCEPT !.other = @ + 1]
    BY <1>14 DEF OtherCall, TypeOK
  <2>2. spent' \in [refine : Nat, other : Nat]
    BY <2>1
  <2>3. UNCHANGED <<site, edit, turn, records, history>>
    BY <1>14 DEF OtherCall
  <2> QED BY <2>2, <2>3 DEF TypeOK, site, edit, history
<1>15. CASE Midnight
  BY <1>15 DEF Midnight, TypeOK, site, edit, history
<1>16. CASE WebCrash
  <2>1. Cardinality(Called) \in Nat
    <3>1. IsFiniteSet(Called)
      BY TurnsAssumption, FS_Subset DEF Called
    <3> QED BY <3>1, FS_CardinalityType
  <2> QED BY <1>16, <2>1, Crash DEF WebCrash, TypeOK, site, edit, ledger
<1> QED BY <1>1, <1>2, <1>3, <1>4, <1>5, <1>6, <1>7, <1>8, <1>9, <1>10, <1>12, <1>13,
          <1>14, <1>15, <1>16 DEF Next

\* Every state has the shape the module declares.
THEOREM RefineTypes == Spec => []TypeOK
<1>1. BoundAssumption
  BY BoundAssumption
<1> QED BY <1>1, TypeInit, TypeStep, PTL DEF Spec

-----------------------------------------------------------------------------
(* The ledger. *)

LEMMA CalledIsFinite ==
  /\ IsFiniteSet(Turns) /\ IsFiniteSet(Called) /\ Cardinality(Called) \in Nat
  /\ Cardinality(Turns) \in Nat /\ Cardinality(Called) <= Cardinality(Turns)
<1>1. IsFiniteSet(Turns) /\ Called \in SUBSET Turns
  BY TurnsAssumption DEF Called
<1>2. IsFiniteSet(Called) /\ Cardinality(Called) <= Cardinality(Turns)
  BY <1>1, FS_Subset
<1> QED BY <1>1, <1>2, FS_CardinalityType

\* How a step changes the number of calls that have left no row yet.
LEMMA OneMoreCalled ==
  ASSUME TypeOK, NEW t \in Turns, Ask(t)
  PROVE  /\ Cardinality(Called') = Cardinality(Called) + 1
         /\ Cardinality(Called) + 1 <= Cardinality(Turns)
<1>1. t \notin Called /\ Called' = Called \cup {t}
  BY Asks
<1>2. Cardinality(Called') = Cardinality(Called) + 1
  BY <1>1, CalledIsFinite, FS_AddElement
<1>3. Called' \in SUBSET Turns
  BY <1>1 DEF Called
<1>4. Cardinality(Called') <= Cardinality(Turns)
  BY <1>3, CalledIsFinite, FS_Subset
<1> QED BY <1>2, <1>4

LEMMA OneLessCalled ==
  ASSUME TypeOK, NEW t \in InFlight, Ends(t)
  PROVE  /\ turn[t].at \in {"asking", "writing"} =>
              Cardinality(Called') = Cardinality(Called) - 1 /\ Cardinality(Called) >= 1
         /\ turn[t].at = "reading" => Cardinality(Called') = Cardinality(Called)
<1>1. Called' = Called \ {t} /\ IsFiniteSet(Called) /\ Cardinality(Called) \in Nat
  BY Ended, CalledIsFinite
<1>2. t \in Turns /\ (t \in Called <=> turn[t].at \in {"asking", "writing"})
  BY DEF InFlight, Called
<1>3. CASE t \in Called
  <2>1. Cardinality(Called') = Cardinality(Called) - 1
    BY <1>1, <1>3, FS_RemoveElement
  <2>2. Cardinality(Called) # 0
    BY <1>1, <1>3, FS_EmptySet
  <2> QED BY <1>1, <1>2, <1>3, <2>1, <2>2
<1>4. CASE t \notin Called
  <2>1. Called' = Called
    BY <1>1, <1>4
  <2> QED BY <1>2, <1>4, <2>1
<1> QED BY <1>3, <1>4

Kept == OvershootIsBounded /\ EveryCallIsOnRecord

LEMMA KeptInit == Init => Kept
<1> SUFFICES ASSUME Init PROVE Kept
  OBVIOUS
<1>1. Called = {} /\ Cardinality(Called) = 0
  <2>1. Called = {}
    BY DEF Init, Called, Idle
  <2> QED BY <2>1, FS_EmptySet
<1> QED BY <1>1, CalledIsFinite, CeilingAssumption
     DEF Init, Kept, OvershootIsBounded, EveryCallIsOnRecord

LEMMA KeptStep == TypeOK /\ Kept /\ [Next]_vars => Kept'
<1> SUFFICES ASSUME TypeOK, Kept, [Next]_vars PROVE Kept'
  OBVIOUS
<1> DEFINE n == Cardinality(Called)
<1>a. /\ n \in Nat /\ Cardinality(Turns) \in Nat /\ n <= Cardinality(Turns)
      /\ Ceiling \in Nat /\ Ceiling > 0
      /\ spent.refine \in Nat /\ spent.other \in Nat
      /\ records \in Nat /\ calls \in Nat /\ lost \in Nat
      /\ spent \in [refine : Nat, other : Nat]
  BY CalledIsFinite, CeilingAssumption DEF TypeOK
<1>b. /\ spent.refine + n < Ceiling + Cardinality(Turns)
      /\ calls = records + lost + n
  BY DEF Kept, OvershootIsBounded, EveryCallIsOnRecord
<1>c. ASSUME spent'.refine + n' < Ceiling + Cardinality(Turns), calls' = records' + lost' + n'
      PROVE  Kept'
  BY <1>c DEF Kept, OvershootIsBounded, EveryCallIsOnRecord
<1>d. ASSUME Called' = Called, spent' = spent, calls' = calls, records' = records, lost' = lost
      PROVE  Kept'
  <2>1. n' = n
    BY <1>d
  <2> HIDE DEF n
  <2> QED BY <1>a, <1>b, <1>c, <1>d, <2>1
<1>e. ASSUME NEW t \in Turns, CanWrite(t), Ends(t), NEW k \in {0, 1}, RecordSpend(k),
             calls' = calls, lost' = lost
      PROVE  Kept'
  <2>1. t \in InFlight /\ turn[t].at \in {"asking", "writing"}
    BY <1>e DEF CanWrite, InFlight
  <2>2. n' = n - 1
    BY <1>e, <2>1, OneLessCalled
  <2>3. spent'.refine = spent.refine + k /\ records' = records + 1
    BY <1>e, SpendTypes
  <2> HIDE DEF n
  <2>4. spent'.refine + n' < Ceiling + Cardinality(Turns) /\ calls' = records' + lost' + n'
    BY <1>a, <1>b, <1>e, <2>2, <2>3
  <2> QED BY <1>c, <2>4
<1>1. CASE UNCHANGED vars
  <2>1. Called' = Called
    BY <1>1 DEF vars, Called
  <2> QED BY <1>1, <1>d, <2>1 DEF vars, ledger, history
<1>2. ASSUME NEW t \in Turns, Begin(t) PROVE Kept'
  <2>1. Called' = Called
    BY <1>2, Begun
  <2> QED BY <1>2, <1>d, <2>1 DEF Begin, ledger, history
<1>3. ASSUME NEW t \in Turns, Ask(t) PROVE Kept'
  <2>1. n' = n + 1 /\ n + 1 <= Cardinality(Turns)
    BY <1>3, OneMoreCalled
  <2>2. /\ spent.refine + spent.other < Ceiling
        /\ calls' = calls + 1 /\ UNCHANGED <<spent, records, lost>>
    BY <1>3 DEF Ask, SpentToday, ledger
  <2> HIDE DEF n
  <2>3. spent'.refine + n' < Ceiling + Cardinality(Turns) /\ calls' = records' + lost' + n'
    BY <1>a, <1>b, <2>1, <2>2
  <2> QED BY <1>c, <2>3
<1>4. ASSUME NEW t \in Turns, OverCeiling(t) PROVE Kept'
  <2>1. t \in InFlight /\ turn[t].at = "reading" /\ Ends(t)
    BY <1>4 DEF OverCeiling, InFlight
  <2>2. Called' = Called
    BY <2>1, Ended DEF Called
  <2> QED BY <1>4, <1>d, <2>2 DEF OverCeiling, ledger, history
<1>5. ASSUME NEW t \in Turns, Answered(t) PROVE Kept'
  <2>1. Called' = Called
    BY <1>5, AnswerComes
  <2> QED BY <1>5, <1>d, <2>1 DEF Answered, ledger, history
<1>6. ASSUME NEW t \in Turns, TurnNothing(t) PROVE Kept'
  <2>1. PICK k \in {0, 1} : RecordSpend(k)
    BY <1>6 DEF TurnNothing
  <2> QED BY <1>6, <1>e, <2>1 DEF TurnNothing, history
<1>7. ASSUME NEW t \in Turns, TurnRefused(t) PROVE Kept'
  BY <1>7, <1>e DEF TurnRefused, history
<1>8. ASSUME NEW t \in Turns, TurnApplied(t) PROVE Kept'
  BY <1>8, <1>e DEF TurnApplied
<1>9. ASSUME NEW t \in Turns, TurnBreaks(t) PROVE Kept'
  <2>1. t \in InFlight /\ turn[t].at = "writing" /\ Ends(t)
    BY <1>9 DEF TurnBreaks, InFlight
  <2>2. n' = n - 1 /\ n >= 1
    BY <2>1, OneLessCalled
  <2>3. lost' = lost + 1 /\ UNCHANGED <<spent, records, calls>>
    BY <1>9 DEF TurnBreaks, ledger
  <2> HIDE DEF n
  <2>4. spent'.refine + n' < Ceiling + Cardinality(Turns) /\ calls' = records' + lost' + n'
    BY <1>a, <1>b, <2>2, <2>3
  <2> QED BY <1>c, <2>4
<1>10. ASSUME NEW urls \in Probes, Check(urls) PROVE Kept'
  <2>1. Called' = Called
    BY <1>10 DEF Check, Called
  <2> QED BY <1>10, <1>d, <2>1 DEF Check, ledger
<1>11. CASE Reset
  <2>1. Called' = Called
    BY <1>11, Deletion DEF Reset
  <2> QED BY <1>11, <1>d, <2>1 DEF Reset, ledger
<1>12. CASE DeleteClient
  <2>1. n' = n
    BY <1>12, Deletion DEF DeleteClient
  <2>2. spent'.refine = 0 /\ records' = 0 /\ lost' = lost + records /\ calls' = calls
    BY <1>12 DEF DeleteClient
  <2> HIDE DEF n
  <2>3. spent'.refine + n' < Ceiling + Cardinality(Turns) /\ calls' = records' + lost' + n'
    BY <1>a, <1>b, <2>1, <2>2
  <2> QED BY <1>c, <2>3
<1>13. CASE OtherCall
  <2>1. n' = n
    BY <1>13 DEF OtherCall, Called
  <2>2. spent'.refine = spent.refine /\ UNCHANGED <<records, calls, lost>>
    BY <1>13, <1>a DEF OtherCall, history
  <2> HIDE DEF n
  <2> QED BY <1>a, <1>b, <1>c, <2>1, <2>2
<1>14. CASE Midnight
  <2>1. n' = n
    BY <1>14 DEF Midnight, Called
  <2>2. spent'.refine = 0 /\ UNCHANGED <<records, calls, lost>>
    BY <1>14 DEF Midnight, history
  <2> HIDE DEF n
  <2>3. spent'.refine + n' < Ceiling + Cardinality(Turns) /\ calls' = records' + lost' + n'
    BY <1>a, <1>b, <2>1, <2>2
  <2> QED BY <1>c, <2>3
<1>15. CASE WebCrash
  <2>1. n' = 0
    BY <1>15, Crash, FS_EmptySet
  <2>2. lost' = lost + n /\ UNCHANGED <<spent, records, calls>>
    BY <1>15 DEF WebCrash, ledger
  <2> HIDE DEF n
  <2>3. spent'.refine + n' < Ceiling + Cardinality(Turns) /\ calls' = records' + lost' + n'
    BY <1>a, <1>b, <2>1, <2>2
  <2> QED BY <1>c, <2>3
<1> QED BY <1>1, <1>2, <1>3, <1>4, <1>5, <1>6, <1>7, <1>8, <1>9, <1>10, <1>11, <1>12,
          <1>13, <1>14, <1>15 DEF Next

LEMMA AlwaysKept == Spec => []Kept
<1>1. BoundAssumption
  BY BoundAssumption
<1> QED BY <1>1, TypeInit, TypeStep, KeptInit, KeptStep, PTL DEF Spec

\* The daily ceiling is passed by no more calls than there are other requests in
\* flight, however many people refine at once.
THEOREM OvershootBound == Spec => []OvershootIsBounded
<1>1. Kept => OvershootIsBounded
  BY DEF Kept
<1> QED BY <1>1, AlwaysKept, PTL

\* Every call of a refining turn has its row of the ledger, unless the turn broke on
\* another's row, the web process died, or the client was deleted.
THEOREM CallsOnRecord == Spec => []EveryCallIsOnRecord
<1>1. Kept => EveryCallIsOnRecord
  BY DEF Kept
<1> QED BY <1>1, AlwaysKept, PTL

-----------------------------------------------------------------------------
(* The edit. *)

\* The operations are those asked for; and as long as no write has crossed another
\* turn, who is in flight has read the facts that are there.
FactsAsRead == ~crossed => facts = Told(ops) /\ \A t \in InFlight : turn[t].facts = facts
Asked == NothingAskedIsLost /\ FactsAsRead

LEMMA ToldNothing == Told(<<>>) = NoFacts
<1>1. \A f \in Facts : Standing(<<>>, f) = {}
  BY DEF Standing
<1> QED BY <1>1, FS_EmptySet DEF Told, NoFacts

\* A turn of unusable operations states and clears nothing.
LEMMA UnchangedFacts ==
  ASSUME NEW s, Len(s) \in Nat, ~Changed(s), NEW before \in Counts
  PROVE  FactsAfter(before, s) = before
<1>1. \A i \in 1..Len(s) : s[i] = Unusable
  BY DEF Changed
<1>2. \A f \in Facts : Standing(s, f) = {}
  BY <1>1 DEF Standing, State, Unusable
<1>3. \A f \in Facts : Told(s)[f] = 0
  BY <1>2, FS_EmptySet DEF Told
<1>4. ~\E i \in 1..Len(s) : s[i] = Clear
  BY <1>1 DEF Unusable, Clear
<1> QED BY <1>3, <1>4 DEF FactsAfter, Counts

LEMMA AskedInit == Init => Asked
<1> SUFFICES ASSUME Init PROVE Asked
  OBVIOUS
<1>1. InFlight = {}
  BY DEF Init, InFlight, Idle
<1> QED BY <1>1, ToldNothing DEF Init, Asked, NothingAskedIsLost, FactsAsRead

LEMMA AskedStep == BoundAssumption /\ TypeOK /\ Asked /\ [Next]_vars => Asked'
<1> SUFFICES ASSUME BoundAssumption, TypeOK, Asked, [Next]_vars PROVE Asked'
  OBVIOUS
<1>a. /\ ops = asked /\ (~stored => ops = <<>> /\ facts = NoFacts)
      /\ ~crossed => facts = Told(ops) /\ \A t \in InFlight : turn[t].facts = facts
  BY DEF Asked, NothingAskedIsLost, FactsAsRead
\* Most steps leave the edit alone, and nobody in flight reads it again.
<1>b. ASSUME UNCHANGED <<ops, facts, asked, crossed>>, stored' \in {stored, TRUE},
             \A t \in InFlight' : t \in InFlight /\ turn'[t].facts = turn[t].facts
      PROVE  Asked'
  <2>1. Told(ops)' = Told(ops)
    BY <1>b DEF Told, Standing
  <2>2. stored' = stored \/ stored'
    BY <1>b
  <2>3. NothingAskedIsLost'
    BY <1>a, <1>b, <2>2 DEF NothingAskedIsLost
  <2>4. FactsAsRead'
    BY <1>a, <1>b, <2>1 DEF FactsAsRead
  <2> QED BY <2>3, <2>4 DEF Asked
<1>c. ASSUME NEW t \in InFlight, Ends(t), UNCHANGED <<ops, facts, asked, crossed>>,
             stored' \in {stored, TRUE}
      PROVE  Asked'
  <2>1. \A x \in InFlight' : x \in InFlight /\ turn'[x].facts = turn[x].facts
    BY <1>c, Ended DEF InFlight
  <2> QED BY <1>b, <1>c, <2>1
<1>d. ASSUME EditDeleted PROVE Asked'
  <2>1. /\ ops' = <<>> /\ asked' = <<>> /\ facts' = NoFacts
        /\ crossed' = (InFlight # {}) /\ InFlight' = InFlight
    BY <1>d, Deletion DEF EditDeleted
  <2>2. Told(ops)' = NoFacts
    BY <2>1, ToldNothing DEF Told, Standing
  <2> QED BY <2>1, <2>2 DEF Asked, NothingAskedIsLost, FactsAsRead
<1>1. CASE UNCHANGED vars
  BY <1>1, <1>b DEF vars, edit, history, InFlight
<1>2. ASSUME NEW t \in Turns, Begin(t) PROVE Asked'
  <2>1. /\ InFlight' = InFlight \cup {t} /\ turn'[t].facts = facts
        /\ \A x \in InFlight \ {t} : turn'[x] = turn[x]
    BY <1>2, Begun DEF InFlight
  <2>2. UNCHANGED <<ops, facts, stored, asked, crossed>>
    BY <1>2 DEF Begin, edit, history
  <2>3. Told(ops)' = Told(ops)
    BY <2>2 DEF Told, Standing
  <2> QED BY <1>a, <2>1, <2>2, <2>3 DEF Asked, NothingAskedIsLost, FactsAsRead
<1>3. ASSUME NEW t \in Turns, Ask(t) PROVE Asked'
  BY <1>3, <1>b, Asks DEF Ask, edit
<1>4. ASSUME NEW t \in Turns, OverCeiling(t) PROVE Asked'
  BY <1>4, <1>c DEF OverCeiling, InFlight, history
<1>5. ASSUME NEW t \in Turns, Answered(t) PROVE Asked'
  BY <1>5, <1>b, AnswerComes DEF Answered, edit, history
<1>6. ASSUME NEW t \in Turns, TurnNothing(t) PROVE Asked'
  BY <1>6, <1>c DEF TurnNothing, CanWrite, InFlight, history
<1>7. ASSUME NEW t \in Turns, TurnRefused(t) PROVE Asked'
  BY <1>7, <1>c DEF TurnRefused, CanWrite, InFlight, history
<1>8. ASSUME NEW t \in Turns, TurnApplied(t) PROVE Asked'
  <2>1. t \in InFlight /\ Ends(t) /\ stored' = TRUE /\ crossed' = (crossed \/ InFlight # {t})
    BY <1>8 DEF TurnApplied, CanWrite, InFlight
  <2>2. PICK s \in AskedFor(t) : /\ SaveEdit(t, s)
                                /\ asked' = IF Changed(s) THEN asked \o s ELSE asked
    BY <1>8 DEF TurnApplied
  <2>3. ops' = asked'
    BY <1>a, <2>2 DEF SaveEdit
  <2>4. ASSUME ~crossed'
        PROVE  facts' = Told(ops)' /\ InFlight' = {}
    <3>1. ~crossed /\ InFlight = {t}
      BY <2>1, <2>4
    <3>2. turn[t].facts = Told(ops)
      BY <1>a, <3>1
    <3>3. InFlight' = {}
      BY <2>1, <3>1, Ended
    <3>4. s \in Seq(AnOperation) /\ Len(s) \in Nat /\ ops \in Seq(AnOperation)
      BY <2>1, <2>2, SavedTypes, LenProperties DEF TypeOK
    <3>5. facts' = FactsAfter(Told(ops), s)
      BY <2>2, <3>2 DEF SaveEdit
    <3>6. CASE Changed(s)
      <4>1. ops' = ops \o s
        BY <2>2, <3>6 DEF SaveEdit
      <4>2. Told(ops)' = Told(ops \o s)
        BY <4>1 DEF Told, Standing
      <4> QED BY <3>3, <3>4, <3>5, <4>2, ToldConcat
    <3>7. CASE ~Changed(s)
      <4>1. ops' = ops
        BY <2>2, <3>7 DEF SaveEdit
      <4>2. Told(ops)' = Told(ops)
        BY <4>1 DEF Told, Standing
      <4>3. Told(ops) \in Counts
        BY <3>4, ToldCounts, LenProperties
      <4> QED BY <3>3, <3>4, <3>5, <3>7, <4>2, <4>3, UnchangedFacts
    <3> QED BY <3>6, <3>7
  <2>5. NothingAskedIsLost'
    BY <2>1, <2>3 DEF NothingAskedIsLost
  <2>6. FactsAsRead'
    BY <2>4 DEF FactsAsRead
  <2> QED BY <2>5, <2>6 DEF Asked
<1>9. ASSUME NEW t \in Turns, TurnBreaks(t) PROVE Asked'
  BY <1>9, <1>c DEF TurnBreaks, InFlight, edit
<1>10. ASSUME NEW urls \in Probes, Check(urls) PROVE Asked'
  BY <1>10, <1>b DEF Check, edit, InFlight
<1>11. CASE Reset
  BY <1>11, <1>d DEF Reset
<1>12. CASE DeleteClient
  BY <1>12, <1>d DEF DeleteClient
<1>13. CASE OtherCall
  BY <1>13, <1>b DEF OtherCall, edit, history, InFlight
<1>14. CASE Midnight
  BY <1>14, <1>b DEF Midnight, edit, history, InFlight
<1>15. CASE WebCrash
  BY <1>15, <1>b, Crash DEF WebCrash, edit
<1> QED BY <1>1, <1>2, <1>3, <1>4, <1>5, <1>6, <1>7, <1>8, <1>9, <1>10, <1>11, <1>12,
          <1>13, <1>14, <1>15 DEF Next

LEMMA AlwaysAsked == Spec => []Asked
<1>1. BoundAssumption
  BY BoundAssumption
<1> QED BY <1>1, TypeInit, TypeStep, AskedInit, AskedStep, PTL DEF Spec

\* Every operation of every turn that was told it was applied is in the edit, in
\* order, however many people refine at once.
THEOREM OperationsKept == Spec => []NothingAskedIsLost
<1>1. Asked => NothingAskedIsLost
  BY DEF Asked
<1> QED BY <1>1, AlwaysAsked, PTL

\* The facts shown are those the operations state, until a write crosses a turn.
THEOREM FactsFollow == Spec => []FactsFollowTheOperations
<1>1. Asked => FactsFollowTheOperations
  BY DEF Asked, FactsAsRead, FactsFollowTheOperations
<1> QED BY <1>1, AlwaysAsked, PTL

-----------------------------------------------------------------------------
(* The file and its evidence. *)

\* As long as the site was not checked again under the edit, the labels are backed
\* and who is in flight has read the probe that is there (or the client is gone).
Backed ==
  ~moved => /\ Mentioned(probed, ops) \subseteq probed
            /\ probed = {} \/ \A t \in InFlight : turn[t].probed = probed

LEMMA MentionedOfNothing ==
  ASSUME NEW s
  PROVE  Mentioned({}, s) = {} /\ \A urls : Mentioned(urls, <<>>) = {}
  BY DEF Mentioned, Named

\* What labels mention after a turn is what they did before it, or what the gate saw
\* when it laid the turn on the operations that were read: a turn only names links
\* that were in the file it read.
LEMMA GateSees ==
  ASSUME NEW urls, NEW S, NEW now \in Seq(S), NEW read \in Seq(S),
         NEW s \in Seq(S), s \in Seq(Operations(Named(urls, read)))
  PROVE  Mentioned(urls, now \o s) \subseteq
           Mentioned(urls, now) \cup Mentioned(urls, read \o s)
<1> DEFINE a == now \o s
           b == read \o s
           Texts == Labels \cup {"plain"}
<1>1. /\ Len(now) \in Nat /\ Len(read) \in Nat /\ Len(s) \in Nat
      /\ Len(a) = Len(now) + Len(s) /\ Len(b) = Len(read) + Len(s)
      /\ \A i \in 1..Len(now) : a[i] = now[i]
      /\ \A i \in 1..Len(read) : b[i] = read[i]
      /\ \A i \in 1..Len(s) : a[Len(now) + i] = s[i] /\ b[Len(read) + i] = s[i]
      /\ \A i \in 1..Len(a) :
           i > Len(now) => i - Len(now) \in 1..Len(s) /\ a[i] = s[i - Len(now)]
      /\ \A i \in 1..Len(b) :
           i > Len(read) => i - Len(read) \in 1..Len(s) /\ b[i] = s[i - Len(read)]
  BY ConcatProperties, LenProperties
<1> HIDE DEF a, b
<1>2. SUFFICES ASSUME NEW v \in Mentioned(urls, a), v \notin Mentioned(urls, now)
               PROVE  v \in Mentioned(urls, b)
  BY DEF a, b
<1>3. PICK u \in Named(urls, a), i \in 1..Len(a) :
        /\ a[i] = Relabel(u, v)
        /\ \A j \in (i + 1)..Len(a) : \A text \in Texts : a[j] # Relabel(u, text)
  BY <1>2 DEF Mentioned
<1>4. v \in Labels /\ u \in urls /\ \A j \in 1..Len(a) : a[j] # Drop(u)
  BY <1>2, <1>3 DEF Mentioned, Named
\* It was this turn that relabelled the link.
<1>5. i > Len(now)
  <2> SUFFICES ASSUME ~(i > Len(now)) PROVE FALSE
    OBVIOUS
  <2>1. i \in 1..Len(now) /\ now[i] = Relabel(u, v)
    BY <1>1, <1>3
  <2>2. \A j \in (i + 1)..Len(now) : \A text \in Texts : now[j] # Relabel(u, text)
    BY <1>1, <1>3, <2>1
  <2>3. u \in Named(urls, now)
    BY <1>1, <1>4 DEF Named
  <2>4. v \in Mentioned(urls, now)
    BY <1>4, <2>1, <2>2, <2>3 DEF Mentioned
  <2> QED BY <1>2, <2>4
<1> DEFINE k == i - Len(now)
<1>6. k \in 1..Len(s) /\ s[k] = Relabel(u, v)
  BY <1>1, <1>3, <1>5
\* So the link was in the file the turn read ...
<1>7. u \in Named(urls, read)
  <2>1. s[k] \in Operations(Named(urls, read))
    BY <1>6, ElementOfSeq
  <2> QED BY <1>6, <2>1 DEF Operations, Relabel, Drop, State, Clear, Unusable
\* ... and is still, with this label, in the one the gate looked at.
<1>8. u \in Named(urls, b)
  <2> SUFFICES ASSUME NEW j \in 1..Len(b) PROVE b[j] # Drop(u)
    BY <1>4 DEF Named
  <2>1. CASE j \in 1..Len(read)
    BY <1>1, <1>7, <2>1 DEF Named
  <2>2. CASE j \notin 1..Len(read)
    <3>1. j > Len(read) /\ j - Len(read) \in 1..Len(s) /\ b[j] = s[j - Len(read)]
      BY <1>1, <2>2
    <3>2. Len(now) + (j - Len(read)) \in 1..Len(a)
      BY <1>1, <3>1
    <3>3. a[Len(now) + (j - Len(read))] = s[j - Len(read)]
      BY <1>1, <3>1
    <3> QED BY <1>4, <3>1, <3>2, <3>3
  <2> QED BY <2>1, <2>2
<1>9. Len(read) + k \in 1..Len(b) /\ b[Len(read) + k] = Relabel(u, v)
  <2>1. Len(read) + k \in 1..Len(b) /\ b[Len(read) + k] = s[k]
    <3> HIDE DEF k
    <3> QED BY <1>1, <1>6
  <2> QED BY <1>6, <2>1
<1>10. ASSUME NEW j \in (Len(read) + k + 1)..Len(b), NEW text \in Texts
       PROVE  b[j] # Relabel(u, text)
  <2>1. j - Len(read) \in 1..Len(s) /\ b[j] = s[j - Len(read)]
    BY <1>1, <1>6, <1>10
  <2>2. Len(now) + (j - Len(read)) \in (i + 1)..Len(a)
    BY <1>1, <1>3, <1>6, <1>10
  <2>3. a[Len(now) + (j - Len(read))] = s[j - Len(read)]
    BY <1>1, <2>1
  <2> QED BY <1>3, <2>1, <2>2, <2>3
<1> HIDE DEF k
<1>11. \E x \in Named(urls, b), y \in 1..Len(b) :
         /\ b[y] = Relabel(x, v)
         /\ \A j \in (y + 1)..Len(b) : \A text \in Texts : b[j] # Relabel(x, text)
  BY <1>8, <1>9, <1>10
<1> QED BY <1>4, <1>11 DEF Mentioned

LEMMA BackedInit == Init => Backed
<1> SUFFICES ASSUME Init PROVE Backed
  OBVIOUS
<1> QED BY MentionedOfNothing DEF Init, Backed

LEMMA BackedStep == BoundAssumption /\ TypeOK /\ Backed /\ [Next]_vars => Backed'
<1> SUFFICES ASSUME BoundAssumption, TypeOK, Backed, [Next]_vars PROVE Backed'
  OBVIOUS
<1>a. ~moved => /\ Mentioned(probed, ops) \subseteq probed
                /\ probed = {} \/ \A t \in InFlight : turn[t].probed = probed
  BY DEF Backed
\* Most steps leave probe and operations alone.
<1>b. ASSUME UNCHANGED <<probed, ops, moved>>,
             \A t \in InFlight' : t \in InFlight /\ turn'[t].probed = turn[t].probed
      PROVE  Backed'
  <2>1. Mentioned(probed, ops)' = Mentioned(probed, ops)
    BY <1>b DEF Mentioned, Named
  <2> QED BY <1>a, <1>b, <2>1 DEF Backed
<1>c. ASSUME NEW t \in InFlight, Ends(t), UNCHANGED <<probed, ops, moved>>
      PROVE  Backed'
  <2>1. \A x \in InFlight' : x \in InFlight /\ turn'[x].probed = turn[x].probed
    BY <1>c, Ended DEF InFlight
  <2> QED BY <1>b, <1>c, <2>1
<1>d. ASSUME EditDeleted, probed' \in {probed, {}} PROVE Backed'
  <2>1. /\ ops' = <<>> /\ moved' = (moved /\ InFlight # {})
        /\ InFlight' = InFlight
        /\ \A x \in InFlight : turn'[x].probed = turn[x].probed
    BY <1>d, Deletion DEF EditDeleted
  <2>2. Mentioned(probed, ops)' = {}
    <3>1. Mentioned(probed, ops)' = Mentioned(probed', <<>>)
      BY <2>1 DEF Mentioned, Named
    <3> QED BY <3>1, MentionedOfNothing
  <2> QED BY <1>a, <1>d, <2>1, <2>2 DEF Backed
<1>1. CASE UNCHANGED vars
  BY <1>1, <1>b DEF vars, site, edit, history, InFlight
<1>2. ASSUME NEW t \in Turns, Begin(t) PROVE Backed'
  <2>1. /\ InFlight' = InFlight \cup {t} /\ turn'[t].probed = probed
        /\ \A x \in InFlight \ {t} : turn'[x] = turn[x]
    BY <1>2, Begun DEF InFlight
  <2>2. UNCHANGED <<probed, ops, moved>>
    BY <1>2 DEF Begin, site, edit, history
  <2>3. Mentioned(probed, ops)' = Mentioned(probed, ops)
    BY <2>2 DEF Mentioned, Named
  <2> QED BY <1>a, <2>1, <2>2, <2>3 DEF Backed
<1>3. ASSUME NEW t \in Turns, Ask(t) PROVE Backed'
  BY <1>3, <1>b, Asks DEF Ask, site, edit
<1>4. ASSUME NEW t \in Turns, OverCeiling(t) PROVE Backed'
  BY <1>4, <1>c DEF OverCeiling, InFlight, site, history
<1>5. ASSUME NEW t \in Turns, Answered(t) PROVE Backed'
  BY <1>5, <1>b, AnswerComes DEF Answered, site, edit, history
<1>6. ASSUME NEW t \in Turns, TurnNothing(t) PROVE Backed'
  BY <1>6, <1>c DEF TurnNothing, CanWrite, InFlight, site, history
<1>7. ASSUME NEW t \in Turns, TurnRefused(t) PROVE Backed'
  BY <1>7, <1>c DEF TurnRefused, CanWrite, InFlight, site, history
<1>8. ASSUME NEW t \in Turns, TurnApplied(t) PROVE Backed'
  <2>1. t \in InFlight /\ t \in Turns /\ Ends(t) /\ UNCHANGED <<probed, moved>>
    BY <1>8 DEF TurnApplied, CanWrite, InFlight, site
  <2>2. PICK s \in AskedFor(t) : Passes(t, s) /\ SaveEdit(t, s)
    BY <1>8 DEF TurnApplied
  <2>3. /\ s \in Seq(AnOperation) /\ ops \in Seq(AnOperation)
        /\ turn[t].ops \in Seq(AnOperation)
        /\ s \in Seq(Operations(Named(turn[t].probed, turn[t].ops)))
    BY <2>1, <2>2, SavedTypes, RequestTypes, AskedAbout DEF TypeOK
  <2>4. ASSUME ~moved PROVE Mentioned(probed, ops') \subseteq probed
    <3>1. CASE probed = {}
      <4>1. Mentioned({}, ops') = {}
        BY MentionedOfNothing
      <4> QED BY <3>1, <4>1
    <3>2. CASE turn[t].probed = probed
      <4>1. Mentioned(probed, turn[t].ops \o s) \subseteq probed
        BY <2>2, <3>2 DEF Passes
      <4>2. Mentioned(probed, ops \o s) \subseteq
              Mentioned(probed, ops) \cup Mentioned(probed, turn[t].ops \o s)
        BY <2>3, <3>2, GateSees
      <4> QED BY <1>a, <2>2, <2>4, <4>1, <4>2 DEF SaveEdit
    <3> QED BY <1>a, <2>1, <2>4, <3>1, <3>2
  <2>5. Mentioned(probed, ops)' = Mentioned(probed, ops')
    BY <2>1 DEF Mentioned, Named
  <2>6. \A x \in InFlight' : x \in InFlight /\ turn'[x].probed = turn[x].probed
    BY <2>1, Ended DEF InFlight
  <2> QED BY <1>a, <2>1, <2>4, <2>5, <2>6 DEF Backed
<1>9. ASSUME NEW t \in Turns, TurnBreaks(t) PROVE Backed'
  BY <1>9, <1>c DEF TurnBreaks, InFlight, site, edit
<1>10. ASSUME NEW urls \in Probes, Check(urls) PROVE Backed'
  <2>1. /\ probed' = urls /\ UNCHANGED <<ops, turn>>
        /\ moved' = (moved \/ (urls # probed /\ (ops # <<>> \/ InFlight # {})))
    BY <1>10 DEF Check, edit
  <2>2. InFlight' = InFlight
    BY <2>1 DEF InFlight
  <2>3. CASE urls = probed
    <3>1. moved' = moved
      BY <2>1, <2>3 DEF TypeOK
    <3>2. \A t \in InFlight' : t \in InFlight /\ turn'[t].probed = turn[t].probed
      BY <2>1, <2>2
    <3>3. probed' = probed /\ ops' = ops
      BY <2>1, <2>3
    <3> QED BY <1>b, <3>1, <3>2, <3>3
  <2>4. CASE urls # probed
    <3> SUFFICES ASSUME ~moved'
                 PROVE  /\ Mentioned(probed, ops)' \subseteq probed'
                        /\ \A t \in InFlight' : turn'[t].probed = probed'
      BY DEF Backed
    <3>1. ops = <<>> /\ InFlight = {}
      BY <2>1, <2>4
    <3>2. Mentioned(probed, ops)' = Mentioned(urls, <<>>)
      BY <2>1, <3>1 DEF Mentioned, Named
    <3> QED BY <2>2, <3>1, <3>2, MentionedOfNothing
  <2> QED BY <2>3, <2>4
<1>11. CASE Reset
  BY <1>11, <1>d DEF Reset, site
<1>12. CASE DeleteClient
  BY <1>12, <1>d DEF DeleteClient
<1>13. CASE OtherCall
  BY <1>13, <1>b DEF OtherCall, site, edit, history, InFlight
<1>14. CASE Midnight
  BY <1>14, <1>b DEF Midnight, site, edit, history, InFlight
<1>15. CASE WebCrash
  BY <1>15, <1>b, Crash DEF WebCrash, site, edit
<1> QED BY <1>1, <1>2, <1>3, <1>4, <1>5, <1>6, <1>7, <1>8, <1>9, <1>10, <1>11, <1>12,
          <1>13, <1>14, <1>15 DEF Next

\* The file only mentions URLs that the probe confirmed, whoever took turns over whose
\* edit, as long as the site was not checked again under it.
THEOREM LabelsBacked == Spec => []EvidenceBacksTheFile
<1>1. Backed => EvidenceBacksTheFile
  BY DEF Backed, EvidenceBacksTheFile
<1>2. BoundAssumption
  BY BoundAssumption
<1> QED BY <1>1, <1>2, TypeInit, TypeStep, BackedInit, BackedStep, PTL DEF Spec

=============================================================================
