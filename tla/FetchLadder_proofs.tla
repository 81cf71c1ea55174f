------------------------- MODULE FetchLadder_proofs -------------------------
(***************************************************************************)
(* What holds of a crawl for every list of pages, every pool size and      *)
(* every delay.                                                            *)
(***************************************************************************)
EXTENDS FetchLadder, FiniteSetTheorems, TLAPS

\* The ladders `_ladder` can build.
Free == {<<"http">>, <<"http", "dynamic", "stealth">>}
Ladders == Free \cup {Append(l, "firecrawl") : l \in Free}

\* A page that climbs is on a rung of such a ladder; before, it is on the first.
Climbing ==
    \A u \in Urls :
        /\ stage[u] \in {"new", "pacing"} => rung[u] = 1
        /\ stage[u] \in {"waiting", "sent"} =>
             ladder[u] \in Ladders /\ rung[u] \in 1..Len(ladder[u])

Base == TypeOK /\ Climbing

-----------------------------------------------------------------------------
(* The ladder and the answers. *)

LEMMA LadderIsOne == Ladder \in Ladders
  BY DEF Ladder, Ladders, Free

LEMMA RungsOfAFreeLadder ==
  ASSUME NEW l \in Free
  PROVE  /\ l \in Seq(Tiers) /\ Len(l) >= 1
         /\ \A i \in 1..Len(l) :
              l[i] \in Tiers /\ l[i] # "firecrawl" /\ (l[i] = "http" => i = 1)
  <1>1. CASE l = <<"http">>
    BY <1>1 DEF Tiers, Browsers
  <1>2. CASE l = <<"http", "dynamic", "stealth">>
    BY <1>2 DEF Tiers, Browsers
  <1> QED BY <1>1, <1>2 DEF Free

LEMMA RungsOfALadder ==
  ASSUME NEW l \in Ladders
  PROVE  /\ l \in Seq(Tiers) /\ Len(l) >= 1
         /\ \A i \in 1..Len(l) :
              /\ l[i] \in Tiers
              /\ l[i] = "http" => i = 1
              /\ l[i] = "firecrawl" => i = Len(l)
  <1>1. CASE l \in Free
    BY <1>1, RungsOfAFreeLadder
  <1>2. ASSUME NEW k \in Free, l = Append(k, "firecrawl")
        PROVE  /\ l \in Seq(Tiers) /\ Len(l) >= 1
               /\ \A i \in 1..Len(l) :
                    /\ l[i] \in Tiers
                    /\ l[i] = "http" => i = 1
                    /\ l[i] = "firecrawl" => i = Len(l)
    <2>1. k \in Seq(Tiers) /\ "firecrawl" \in Tiers
      BY RungsOfAFreeLadder DEF Tiers
    <2>2. /\ l \in Seq(Tiers) /\ Len(l) = Len(k) + 1
          /\ \A i \in 1..Len(k) : l[i] = k[i]
          /\ l[Len(l)] = "firecrawl"
      BY <1>2, <2>1
    <2> QED BY <2>1, <2>2, RungsOfAFreeLadder
  <1> QED BY <1>1, <1>2 DEF Ladders

LEMMA AnswerType ==
  ASSUME NEW tier \in Tiers, NEW attempt \in Answers(tier)
  PROVE  /\ attempt.page \in Pages /\ attempt.status \in Statuses
         /\ attempt.terminal \in BOOLEAN
         /\ attempt.status = "none" => attempt.page = "none"
         /\ attempt.status = "gone" => attempt.terminal \/ tier = "firecrawl"
         /\ attempt.page = "none" /\ attempt.status = "ok"
              => tier \in {"http", "firecrawl"}
  BY DEF Answers, Tiers, Browsers, Pages, Statuses

LEMMA RecordType ==
  ASSUME NEW r \in [page : Pages, status : Statuses, tier : Tiers \cup {"none"},
                    http : Statuses \cup {"untried"}, raw : Nat, rendered : Nat],
         NEW tier \in Tiers, NEW attempt \in Answers(tier)
  PROVE  Record(r, tier, attempt) \in
             [page : Pages, status : Statuses, tier : Tiers \cup {"none"},
              http : Statuses \cup {"untried"}, raw : Nat, rendered : Nat]
  <1>1. attempt.page \in Pages /\ attempt.status \in Statuses
    BY AnswerType
  <1>2. Words(attempt.page) \in Nat
    BY <1>1 DEF Words, Pages
  <1> QED BY <1>1, <1>2 DEF Record

-----------------------------------------------------------------------------
(* Types. *)

LEMMA InitBase == Init => Base
  <1> SUFFICES ASSUME Init PROVE Base
    OBVIOUS
  <1> USE DEF Init
  <1>1. /\ ladder \in [Urls -> Seq(Tiers)] /\ permits \in [{"http", "browser"} -> Nat]
    BY PoolAssumption DEF Size
  <1>2. NoResult \in [page : Pages, status : Statuses, tier : Tiers \cup {"none"},
                     http : Statuses \cup {"untried"}, raw : Nat, rendered : Nat]
    BY DEF NoResult, Pages, Statuses
  <1>5. result \in [Urls -> [page : Pages, status : Statuses, tier : Tiers \cup {"none"},
                            http : Statuses \cup {"untried"}, raw : Nat, rendered : Nat]]
    BY <1>2
  <1>6. /\ clock \in Nat /\ nextAt \in Nat /\ disabled \in BOOLEAN
        /\ slot \in [Urls -> Nat] /\ sentAt \in [Urls -> Nat]
        /\ stage \in [Urls -> {"new", "pacing", "waiting", "sent", "done"}]
    OBVIOUS
  <1>8. rung \in [Urls -> Nat \ {0}]
    OBVIOUS
  <1>7. stats \in [Tiers \cup {"failed"} -> Nat]
    OBVIOUS
  <1>3. TypeOK
    BY <1>1, <1>5, <1>6, <1>7, <1>8 DEF TypeOK
  <1>4. Climbing
    BY DEF Climbing
  <1> QED BY <1>3, <1>4 DEF Base

\* The tier of a page that climbs, and the pool it is taken from.
LEMMA TierType ==
  ASSUME Base, NEW u \in Urls, stage[u] \in {"waiting", "sent"}
  PROVE  /\ Tier(u) \in Tiers /\ Pool(Tier(u)) \in {"http", "browser"}
         /\ Tier(u) = "http" => rung[u] = 1
         /\ Tier(u) = "firecrawl" => rung[u] = Len(ladder[u])
  <1>1. ladder[u] \in Ladders /\ rung[u] \in 1..Len(ladder[u])
    BY DEF Base, Climbing
  <1>2. \A i \in 1..Len(ladder[u]) :
          /\ ladder[u][i] \in Tiers
          /\ ladder[u][i] = "http" => i = 1
          /\ ladder[u][i] = "firecrawl" => i = Len(ladder[u])
    BY <1>1, RungsOfALadder
  <1> QED BY <1>1, <1>2 DEF Tier, Pool

LEMMA StepBase == Base /\ [Next]_vars => Base'
  <1> SUFFICES ASSUME Base, [Next]_vars PROVE Base'
    OBVIOUS
  <1> USE DEF Base
  <1>1. CASE UNCHANGED vars
    BY <1>1 DEF vars, TypeOK, Climbing
  <1>2. CASE Tick
    BY <1>2 DEF Tick, TypeOK, Climbing
  <1>3. ASSUME NEW u \in Urls, ClaimSlot(u) PROVE Base'
    <2>3. slot' \in [Urls -> Nat] /\ nextAt' \in Nat
      <3>1. CASE Delay = 0
        BY <1>3, <3>1 DEF ClaimSlot, TypeOK
      <3>2. CASE Delay # 0
        <4> DEFINE mine == IF nextAt > clock THEN nextAt ELSE clock
        <4>1. mine \in Nat
          BY DEF TypeOK
        <4>2. slot' = [slot EXCEPT ![u] = mine] /\ nextAt' = mine + Delay
          BY <1>3, <3>2 DEF ClaimSlot
        <4> HIDE DEF mine
        <4> QED BY <4>1, <4>2, DelayAssumption DEF TypeOK
      <3> QED BY <3>1, <3>2
    <2>4. stage' = [stage EXCEPT ![u] = "pacing"]
          /\ UNCHANGED <<clock, ladder, rung, result, permits, disabled, stats, sentAt>>
      BY <1>3 DEF ClaimSlot, Go
    <2>1. TypeOK'
      BY <2>3, <2>4 DEF TypeOK
    <2>2. Climbing'
      BY <1>3 DEF ClaimSlot, Go, TypeOK, Climbing
    <2> QED BY <2>1, <2>2
  <1>4. ASSUME NEW u \in Urls, StartLadder(u) PROVE Base'
    <2>1. Ladder \in Ladders /\ Ladder \in Seq(Tiers) /\ Len(Ladder) >= 1
      BY LadderIsOne, RungsOfALadder
    <2>5. ladder' = [ladder EXCEPT ![u] = Ladder] /\ stage' = [stage EXCEPT ![u] = "waiting"]
      BY <1>4 DEF StartLadder, Go
    <2>6. ladder' \in [Urls -> Seq(Tiers)]
      BY <2>1, <2>5 DEF TypeOK
    <2>7. UNCHANGED <<clock, nextAt, slot, rung, result, permits, disabled, stats, sentAt>>
      BY <1>4 DEF StartLadder
    <2>8. stage' \in [Urls -> {"new", "pacing", "waiting", "sent", "done"}]
      BY <2>5 DEF TypeOK
    <2>2. TypeOK'
      BY <2>6, <2>7, <2>8 DEF TypeOK
    <2>3. Len(Ladder) \in Nat
      BY <2>1
    <2>4. Climbing'
      BY <1>4, <2>1, <2>3 DEF StartLadder, Go, TypeOK, Climbing
    <2> QED BY <2>2, <2>4
  <1>5. ASSUME NEW u \in Urls, Acquire(u) PROVE Base'
    <2>1. Pool(Tier(u)) \in {"http", "browser"}
      BY <1>5, TierType DEF Acquire
    <2>2. TypeOK'
      BY <1>5, <2>1 DEF Acquire, Go, TypeOK
    <2>3. Climbing'
      BY <1>5 DEF Acquire, Go, TypeOK, Climbing
    <2> QED BY <2>2, <2>3
  <1>6. ASSUME NEW u \in Urls, Answered(u) PROVE Base'
    <2>1. PICK attempt \in Answers(Tier(u)) : Answered(u)!2!(attempt)
      BY <1>6 DEF Answered
    <2> DEFINE r == Record(result[u], Tier(u), attempt)
    <2>2. /\ Tier(u) \in Tiers /\ Pool(Tier(u)) \in {"http", "browser"}
      BY <1>6, TierType DEF Answered
    <2>3. r \in [page : Pages, status : Statuses, tier : Tiers \cup {"none"},
                http : Statuses \cup {"untried"}, raw : Nat, rendered : Nat]
      BY <2>2, RecordType DEF TypeOK
    <2>4. r.tier \in Tiers
      BY <2>2 DEF Record
    <2>5. result' = [result EXCEPT ![u] = r]
      BY <2>1
    <2>6. permits' = [permits EXCEPT ![Pool(Tier(u))] = @ + 1]
      BY <2>1 DEF Release
    <2>7. attempt.terminal \in BOOLEAN
      BY <2>2, AnswerType
    <2>8. disabled' \in BOOLEAN
      BY <2>1, <2>7 DEF TypeOK
    <2>9. \/ /\ stage' = [stage EXCEPT ![u] = "done"] /\ UNCHANGED rung
             /\ stats' = [stats EXCEPT ![IF Ok(r) THEN r.tier ELSE "failed"] = @ + 1]
          \/ /\ stage' = [stage EXCEPT ![u] = "waiting"]
             /\ rung' = [rung EXCEPT ![u] = @ + 1] /\ UNCHANGED stats
             /\ rung[u] # Len(ladder[u])
      BY <2>1 DEF Go, RecordStats, Ends
    <2>10. UNCHANGED <<clock, nextAt, slot, ladder, sentAt>>
      BY <1>6 DEF Answered
    <2> HIDE DEF r
    <2>11. TypeOK'
      <3>1. /\ clock' \in Nat /\ nextAt' \in Nat /\ slot' \in [Urls -> Nat]
            /\ ladder' \in [Urls -> Seq(Tiers)] /\ sentAt' \in [Urls -> Nat]
        BY <2>10 DEF TypeOK
      <3>5. stage' \in [Urls -> {"new", "pacing", "waiting", "sent", "done"}]
        BY <2>9 DEF TypeOK
      <3>6. rung' \in [Urls -> Nat \ {0}]
        BY <2>9 DEF TypeOK
      <3>7. stats' \in [Tiers \cup {"failed"} -> Nat]
        <4>1. (IF Ok(r) THEN r.tier ELSE "failed") \in Tiers \cup {"failed"}
          BY <2>4
        <4> QED BY <2>9, <4>1 DEF TypeOK
      <3>3. permits' \in [{"http", "browser"} -> Nat]
        BY <2>6, <2>2 DEF TypeOK
      <3>4. result' \in [Urls -> [page : Pages, status : Statuses,
                                 tier : Tiers \cup {"none"},
                                 http : Statuses \cup {"untried"},
                                 raw : Nat, rendered : Nat]]
        BY <2>5, <2>3 DEF TypeOK
      <3> QED BY <3>1, <3>3, <3>4, <3>5, <3>6, <3>7, <2>8 DEF TypeOK
    <2>12. Climbing'
      <3>1. rung[u] \in 1..Len(ladder[u]) /\ ladder[u] \in Ladders
        BY <1>6 DEF Answered, Climbing
      <3>2. Len(ladder[u]) \in Nat
        BY <3>1, RungsOfALadder
      <3>3. CASE stage' = [stage EXCEPT ![u] = "done"] /\ UNCHANGED rung
        BY <2>10, <3>3 DEF TypeOK, Climbing
      <3>4. CASE /\ stage' = [stage EXCEPT ![u] = "waiting"]
                 /\ rung' = [rung EXCEPT ![u] = @ + 1]
                 /\ rung[u] # Len(ladder[u])
        <4>1. rung[u] + 1 \in 1..Len(ladder[u])
          BY <3>1, <3>2, <3>4
        <4> QED BY <2>10, <3>1, <3>4, <4>1 DEF TypeOK, Climbing
      <3> QED BY <2>9, <3>3, <3>4
    <2> QED BY <2>11, <2>12
  <1> QED BY <1>1, <1>2, <1>3, <1>4, <1>5, <1>6 DEF Next, PageStep

\* Type correctness of the crawl: whatever the answers, in whatever order.
THEOREM LadderTypeCorrect == Spec => []TypeOK
  <1>1. Base => TypeOK
    BY DEF Base
  <1> QED BY InitBase, StepBase, <1>1, PTL DEF Spec

-----------------------------------------------------------------------------
(* The door. *)

\* What SlotsApart rests on: the next slot is a delay behind every slot given
\* out, and a page that has started did not start before its own.
Pace ==
    /\ \A u \in Urls : ~Claimed(u) => slot[u] = 0
    /\ \A u \in Urls : Claimed(u) => slot[u] + Delay <= nextAt
    /\ \A u \in Urls : stage[u] \notin {"new", "pacing"} => slot[u] <= clock
    /\ SlotsApart

LEMMA StepPace == Base /\ Base' /\ Pace /\ [Next]_vars => Pace'
  <1> SUFFICES ASSUME Base, Base', Pace, [Next]_vars PROVE Pace'
    OBVIOUS
  <1> USE DelayAssumption DEF Base
  <1>1. CASE UNCHANGED vars
    BY <1>1 DEF vars, Pace, SlotsApart, Claimed, Sent
  <1>2. CASE Tick
    BY <1>2 DEF Tick, Pace, SlotsApart, Claimed, Sent, TypeOK
  <1>3. ASSUME NEW u \in Urls, ClaimSlot(u) PROVE Pace'
    <2> DEFINE mine == IF Delay = 0 THEN slot[u]
                       ELSE IF nextAt > clock THEN nextAt ELSE clock
    <2>1. /\ stage[u] = "new" /\ slot[u] = 0 /\ rung[u] = 1
          /\ stage' = [stage EXCEPT ![u] = "pacing"]
          /\ UNCHANGED <<clock, rung, sentAt>>
      BY <1>3 DEF ClaimSlot, Go, Pace, Claimed, Climbing
    <2>2. /\ slot' = [slot EXCEPT ![u] = mine]
          /\ nextAt' \in Nat /\ nextAt' >= nextAt
          /\ mine \in Nat /\ mine + Delay <= nextAt'
          /\ Delay # 0 => mine >= nextAt
      <3>1. CASE Delay = 0
        BY <1>3, <2>1, <3>1 DEF ClaimSlot, TypeOK
      <3>2. CASE Delay # 0
        BY <1>3, <3>2 DEF ClaimSlot, TypeOK
      <3> QED BY <3>1, <3>2
    <2> HIDE DEF mine
    <2>3. \A v \in Urls \ {u} : slot'[v] = slot[v] /\ stage'[v] = stage[v]
      BY <2>1, <2>2 DEF TypeOK
    <2>4. slot'[u] = mine /\ stage'[u] = "pacing"
      BY <2>1, <2>2 DEF TypeOK
    <2>5. \A v \in Urls \ {u} :
            Claimed(v) => mine + Delay <= slot[v] \/ slot[v] + Delay <= mine
      <3> SUFFICES ASSUME NEW v \in Urls \ {u}, Claimed(v)
                   PROVE  mine + Delay <= slot[v] \/ slot[v] + Delay <= mine
        OBVIOUS
      <3>1. /\ slot[v] \in Nat /\ nextAt \in Nat /\ mine \in Nat
            /\ slot[v] + Delay <= nextAt
        BY <2>2 DEF Pace, TypeOK
      <3> QED BY <2>2, <3>1
    <2>6. /\ \A v \in Urls : ~Claimed(v)' => slot'[v] = 0
          /\ \A v \in Urls : stage'[v] \notin {"new", "pacing"} => slot'[v] <= clock'
      BY <2>1, <2>3, <2>4 DEF Pace, Claimed
    <2>8. \A v \in Urls : Claimed(v)' => slot'[v] + Delay <= nextAt'
      <3> SUFFICES ASSUME NEW v \in Urls, Claimed(v)' PROVE slot'[v] + Delay <= nextAt'
        OBVIOUS
      <3>1. CASE v = u
        BY <2>2, <2>4, <3>1
      <3>2. CASE v # u
        <4>1. slot'[v] = slot[v] /\ Claimed(v)
          BY <2>3, <3>2 DEF Claimed
        <4>2. slot[v] + Delay <= nextAt
          BY <4>1 DEF Pace
        <4>3. slot[v] \in Nat /\ nextAt \in Nat
          BY DEF TypeOK
        <4> QED BY <2>2, <4>1, <4>2, <4>3
      <3> QED BY <3>1, <3>2
    <2>7. SlotsApart'
      BY <2>1, <2>3, <2>4, <2>5 DEF Pace, SlotsApart, Claimed, Sent
    <2> QED BY <2>6, <2>7, <2>8 DEF Pace, Claimed
  <1>4. ASSUME NEW u \in Urls, StartLadder(u) PROVE Pace'
    <2>1. /\ stage[u] = "pacing" /\ slot[u] <= clock /\ rung[u] = 1
          /\ stage' = [stage EXCEPT ![u] = "waiting"]
          /\ UNCHANGED <<clock, nextAt, slot, rung, sentAt>>
      BY <1>4 DEF StartLadder, Go, Climbing
    <2>2. \A v \in Urls \ {u} : stage'[v] = stage[v]
      BY <2>1 DEF TypeOK
    <2>3. stage'[u] = "waiting"
      BY <2>1 DEF TypeOK
    <2>4. \A v \in Urls : (Claimed(v)' <=> Claimed(v)) /\ (Sent(v)' => Sent(v))
      BY <2>1, <2>2, <2>3 DEF Claimed, Sent
    <2>5. SlotsApart'
      BY <2>1, <2>4 DEF Pace, SlotsApart
    <2>6. \A v \in Urls : stage'[v] \notin {"new", "pacing"} => slot'[v] <= clock'
      BY <2>1, <2>2, <2>3 DEF Pace
    <2> QED BY <2>1, <2>4, <2>5, <2>6 DEF Pace
  <1>5. ASSUME NEW u \in Urls, Acquire(u) PROVE Pace'
    <2>1. /\ stage[u] = "waiting"
          /\ stage' = [stage EXCEPT ![u] = "sent"]
          /\ sentAt' = IF rung[u] = 1 THEN [sentAt EXCEPT ![u] = clock] ELSE sentAt
          /\ rung[u] \in Nat \ {0}
          /\ UNCHANGED <<clock, nextAt, slot, rung>>
      BY <1>5 DEF Acquire, Go, TypeOK
    <2>2. slot[u] <= sentAt'[u]
      <3>1. CASE rung[u] = 1
        BY <2>1, <3>1 DEF Pace, TypeOK
      <3>2. CASE rung[u] > 1
        BY <2>1, <3>2 DEF Pace, SlotsApart, Sent
      <3> QED BY <2>1, <3>1, <3>2
    <2>3. \A v \in Urls \ {u} : sentAt'[v] = sentAt[v] /\ stage'[v] = stage[v]
      BY <2>1 DEF TypeOK
    <2>4. stage'[u] = "sent"
      BY <2>1 DEF TypeOK
    <2>5. \A v \in Urls : (Claimed(v)' <=> Claimed(v))
      BY <2>1, <2>3, <2>4 DEF Claimed
    <2>6. SlotsApart'
      BY <2>1, <2>2, <2>3, <2>5 DEF Pace, SlotsApart, Sent
    <2>7. \A v \in Urls : stage'[v] \notin {"new", "pacing"} => slot'[v] <= clock'
      BY <2>1, <2>3, <2>4 DEF Pace
    <2> QED BY <2>1, <2>5, <2>6, <2>7 DEF Pace
  <1>6. ASSUME NEW u \in Urls, Answered(u) PROVE Pace'
    <2>1. PICK attempt \in Answers(Tier(u)) : Answered(u)!2!(attempt)
      BY <1>6 DEF Answered
    <2>2. /\ stage[u] = "sent"
          /\ UNCHANGED <<clock, nextAt, slot, sentAt>>
      BY <1>6 DEF Answered
    <2>3. \/ stage' = [stage EXCEPT ![u] = "done"] /\ rung' = rung
          \/ /\ stage' = [stage EXCEPT ![u] = "waiting"]
             /\ rung' = [rung EXCEPT ![u] = @ + 1]
      BY <2>1 DEF Go
    <2>4. /\ \A v \in Urls \ {u} : stage'[v] = stage[v] /\ rung'[v] = rung[v]
          /\ stage'[u] \in {"done", "waiting"}
      BY <2>3 DEF TypeOK
    <2> QED BY <2>2, <2>4 DEF Pace, SlotsApart, Claimed, Sent
  <1> QED BY <1>1, <1>2, <1>3, <1>4, <1>5, <1>6 DEF Next, PageStep

\* The delay is kept at the door for any number of pages and any delay.
THEOREM SlotsApartHolds == Spec => []SlotsApart
  <1>1. Init => Pace
    BY DelayAssumption DEF Init, Pace, SlotsApart, Claimed, Sent
  <1>2. Pace => SlotsApart
    BY DEF Pace
  <1> QED BY InitBase, StepBase, <1>1, <1>2, StepPace, PTL DEF Spec

-----------------------------------------------------------------------------
(* What a settled page costs. *)

Settled(r) == r.status = "gone" \/ (r.status = "ok" /\ Ok(r))

\* A page that still climbs is not settled, and has nothing before its first rung.
Unsettled ==
    \A u \in Urls :
        /\ rung[u] = 1 /\ stage[u] # "done" => result[u] = NoResult
        /\ stage[u] \in {"waiting", "sent"} => ~Settled(result[u])

LEMMA StepUnsettled == Base /\ Unsettled /\ [Next]_vars => Unsettled'
  <1> SUFFICES ASSUME Base, Unsettled, [Next]_vars PROVE Unsettled'
    OBVIOUS
  <1> USE DEF Base
  <1>1. CASE UNCHANGED vars \/ Tick
    BY <1>1 DEF vars, Tick, Unsettled
  <1>2. ASSUME NEW u \in Urls, ClaimSlot(u) PROVE Unsettled'
    BY <1>2 DEF ClaimSlot, Go, Unsettled, TypeOK
  <1>3. ASSUME NEW u \in Urls, StartLadder(u) PROVE Unsettled'
    <2>1. /\ stage[u] = "pacing" /\ stage' = [stage EXCEPT ![u] = "waiting"]
          /\ rung' = rung /\ result' = result
      BY <1>3 DEF StartLadder, Go
    <2>2. result[u] = NoResult
      BY <2>1 DEF Unsettled, Climbing
    <2>3. ~Settled(result[u])
      BY <2>2 DEF Settled, NoResult, Ok
    <2> QED BY <2>1, <2>3 DEF Unsettled, TypeOK
  <1>4. ASSUME NEW u \in Urls, Acquire(u) PROVE Unsettled'
    BY <1>4 DEF Acquire, Go, Unsettled, TypeOK
  <1>5. ASSUME NEW u \in Urls, Answered(u) PROVE Unsettled'
    <2>1. PICK attempt \in Answers(Tier(u)) : Answered(u)!2!(attempt)
      BY <1>5 DEF Answered
    <2> DEFINE r == Record(result[u], Tier(u), attempt)
    <2>2. /\ stage[u] = "sent" /\ Tier(u) \in Tiers
          /\ Tier(u) = "http" => rung[u] = 1
          /\ Tier(u) = "firecrawl" => rung[u] = Len(ladder[u])
          /\ rung[u] \in Nat \ {0}
      BY <1>5, TierType DEF Answered, TypeOK
    <2>3. result' = [result EXCEPT ![u] = r]
      BY <2>1
    <2>4. ~Settled(result[u])
      BY <2>2 DEF Unsettled
    <2>5. CASE Ends(u, attempt)
      <3>1. stage' = [stage EXCEPT ![u] = "done"] /\ rung' = rung
        BY <2>1, <2>5 DEF Go
      <3> QED BY <2>3, <3>1 DEF Unsettled, TypeOK
    <2>6. CASE ~Ends(u, attempt)
      <3>1. stage' = [stage EXCEPT ![u] = "waiting"] /\ rung' = [rung EXCEPT ![u] = @ + 1]
        BY <2>1, <2>6 DEF Go
      <3>2. /\ ~attempt.terminal /\ rung[u] # Len(ladder[u])
            /\ attempt.status = "blocked" \/ attempt.page # "full"
        BY <2>6 DEF Ends, ShouldEscalate
      <3>3. Tier(u) # "firecrawl" /\ attempt.status # "gone"
        BY <2>2, <3>2, AnswerType
      <3>4. ~Settled(r)
        <4>1. CASE attempt.status = "none"
          <5>1. attempt.page = "none"
            BY <2>2, <4>1, AnswerType
          <5>2. r.page = result[u].page /\ r.status = result[u].status
            BY <4>1, <5>1 DEF Record
          <5> QED BY <2>4, <5>2 DEF Settled, Ok
        <4>2. CASE attempt.status = "blocked"
          BY <4>2 DEF Record, Settled
        <4>3. CASE attempt.status = "ok"
          <5>1. attempt.page = "none" => result[u].page = "none"
            BY <2>2, <3>3, <4>3, AnswerType DEF Unsettled, NoResult
          <5> QED BY <3>2, <4>3, <5>1 DEF Record, Settled, Ok
        <4> QED BY <2>2, <3>3, <4>1, <4>2, <4>3, AnswerType DEF Statuses
      <3>5. rung'[u] # 1
        BY <2>2, <3>1 DEF TypeOK
      <3> HIDE DEF r
      <3> QED BY <2>3, <3>1, <3>4, <3>5 DEF Unsettled, TypeOK
    <2> QED BY <2>5, <2>6
  <1> QED BY <1>1, <1>2, <1>3, <1>4, <1>5 DEF Next, PageStep

\* No browser and no paid call for a page whose answer is in: for every ladder,
\* every sequence of answers and any number of pages competing.
THEOREM NothingSpentHolds == Spec => []NothingSpentOnASettledPage
  <1>1. Init => Unsettled
    BY DEF Init, Unsettled
  <1>2. Unsettled => NothingSpentOnASettledPage
    BY DEF Unsettled, NothingSpentOnASettledPage, Settled
  <1> QED BY InitBase, StepBase, <1>1, <1>2, StepUnsettled, PTL DEF Spec

-----------------------------------------------------------------------------
(* Permits. *)

LEMMA HoldersFinite ==
  ASSUME NEW pool
  PROVE  IsFiniteSet(Holders(pool)) /\ Cardinality(Holders(pool)) \in Nat
  <1>1. IsFiniteSet(Holders(pool))
    BY UrlsAssumption, FS_Subset DEF Holders
  <1> QED BY <1>1, FS_CardinalityType

\* One page takes or gives back one permit of one pool.
LEMMA StepPermits == Base /\ PermitsAreReturned /\ [Next]_vars => PermitsAreReturned'
  <1> SUFFICES ASSUME Base, PermitsAreReturned, [Next]_vars PROVE PermitsAreReturned'
    OBVIOUS
  <1> USE DEF Base
  <1>1. ASSUME UNCHANGED permits, \A pool \in {"http", "browser"} : Holders(pool)' = Holders(pool)
        PROVE  PermitsAreReturned'
    BY <1>1 DEF PermitsAreReturned, Size
  <1>2. CASE UNCHANGED vars \/ Tick
    <2>1. \A pool \in {"http", "browser"} : Holders(pool)' = Holders(pool)
      BY <1>2 DEF vars, Tick, Holders, Tier
    <2> QED BY <1>1, <1>2, <2>1 DEF vars, Tick
  <1>3. ASSUME NEW u \in Urls, ClaimSlot(u) PROVE PermitsAreReturned'
    <2>1. \A pool \in {"http", "browser"} : Holders(pool)' = Holders(pool)
      BY <1>3 DEF ClaimSlot, Go, Holders, Tier, TypeOK
    <2> QED BY <1>1, <1>3, <2>1 DEF ClaimSlot
  <1>4. ASSUME NEW u \in Urls, StartLadder(u) PROVE PermitsAreReturned'
    <2>1. \A pool \in {"http", "browser"} : Holders(pool)' = Holders(pool)
      BY <1>4 DEF StartLadder, Go, Holders, Tier, TypeOK
    <2> QED BY <1>1, <1>4, <2>1 DEF StartLadder
  <1>5. ASSUME NEW u \in Urls, Acquire(u) PROVE PermitsAreReturned'
    <2>1. /\ stage[u] = "waiting" /\ Pool(Tier(u)) \in {"http", "browser"}
          /\ permits' = [permits EXCEPT ![Pool(Tier(u))] = @ - 1]
          /\ stage' = [stage EXCEPT ![u] = "sent"]
          /\ UNCHANGED <<ladder, rung>>
      BY <1>5, TierType DEF Acquire, Go
    <2>2. ASSUME NEW pool \in {"http", "browser"}
          PROVE  permits'[pool] + Cardinality(Holders(pool)') = Size[pool]
      <3>1. permits[pool] + Cardinality(Holders(pool)) = Size[pool]
        BY DEF PermitsAreReturned
      <3>2. permits[pool] \in Nat /\ Cardinality(Holders(pool)) \in Nat
        BY HoldersFinite DEF TypeOK
      <3>3. CASE pool = Pool(Tier(u))
        <4>1. Holders(pool)' = Holders(pool) \cup {u} /\ u \notin Holders(pool)
          BY <2>1, <3>3 DEF Holders, Tier, TypeOK
        <4>2. Cardinality(Holders(pool)') = Cardinality(Holders(pool)) + 1
          BY <4>1, HoldersFinite, FS_AddElement
        <4>3. permits'[pool] = permits[pool] - 1
          BY <2>1, <3>3 DEF TypeOK
        <4> QED BY <3>1, <3>2, <4>2, <4>3
      <3>4. CASE pool # Pool(Tier(u))
        <4>1. Holders(pool)' = Holders(pool)
          BY <2>1, <3>4 DEF Holders, Tier, TypeOK
        <4>2. permits'[pool] = permits[pool]
          BY <2>1, <3>4 DEF TypeOK
        <4> QED BY <3>1, <4>1, <4>2
      <3> QED BY <3>3, <3>4
    <2> QED BY <2>2 DEF PermitsAreReturned, Size
  <1>6. ASSUME NEW u \in Urls, Answered(u) PROVE PermitsAreReturned'
    <2>1. PICK attempt \in Answers(Tier(u)) : Answered(u)!2!(attempt)
      BY <1>6 DEF Answered
    <2>2. /\ stage[u] = "sent" /\ Pool(Tier(u)) \in {"http", "browser"}
          /\ permits' = [permits EXCEPT ![Pool(Tier(u))] = @ + 1]
          /\ UNCHANGED ladder
      BY <1>6, <2>1, TierType DEF Answered, Release
    <2>3. /\ \A v \in Urls \ {u} : stage'[v] = stage[v] /\ rung'[v] = rung[v]
          /\ stage'[u] # "sent"
      BY <2>1 DEF Go, TypeOK
    <2>4. ASSUME NEW pool \in {"http", "browser"}
          PROVE  permits'[pool] + Cardinality(Holders(pool)') = Size[pool]
      <3>1. permits[pool] + Cardinality(Holders(pool)) = Size[pool]
        BY DEF PermitsAreReturned
      <3>2. permits[pool] \in Nat /\ Cardinality(Holders(pool)) \in Nat
        BY HoldersFinite DEF TypeOK
      <3>5. Holders(pool)' = Holders(pool) \ {u}
        BY <2>2, <2>3 DEF Holders, Tier
      <3>3. CASE pool = Pool(Tier(u))
        <4>1. u \in Holders(pool)
          BY <2>2, <3>3 DEF Holders
        <4>2. Cardinality(Holders(pool)') = Cardinality(Holders(pool)) - 1
          BY <3>5, <4>1, HoldersFinite, FS_RemoveElement
        <4>3. permits'[pool] = permits[pool] + 1
          BY <2>2, <3>3 DEF TypeOK
        <4> QED BY <3>1, <3>2, <4>2, <4>3
      <3>4. CASE pool # Pool(Tier(u))
        <4>1. Holders(pool)' = Holders(pool)
          BY <3>4, <3>5 DEF Holders
        <4>2. permits'[pool] = permits[pool]
          BY <2>2, <3>4 DEF TypeOK
        <4> QED BY <3>1, <4>1, <4>2
      <3> QED BY <3>3, <3>4
    <2> QED BY <2>4 DEF PermitsAreReturned, Size
  <1> QED BY <1>2, <1>3, <1>4, <1>5, <1>6 DEF Next, PageStep

\* No exception, escalation or paid call loses a permit, for any pool sizes and
\* any finite list of pages.
THEOREM PermitsAreReturnedHolds == Spec => []PermitsAreReturned
  <1>1. Init => PermitsAreReturned
    <2> SUFFICES ASSUME Init PROVE PermitsAreReturned
      OBVIOUS
    <2>1. \A pool \in {"http", "browser"} : Holders(pool) = {}
      BY DEF Init, Holders
    <2>2. Cardinality({}) = 0
      BY FS_EmptySet
    <2>3. permits = Size /\ \A pool \in {"http", "browser"} : Size[pool] \in Nat
      BY PoolAssumption DEF Init, Size
    <2> QED BY <2>1, <2>2, <2>3 DEF PermitsAreReturned
  <1> QED BY InitBase, StepBase, <1>1, StepPermits, PTL DEF Spec

-----------------------------------------------------------------------------
(* The counts. *)

\* What `Sum` comes to: the recursion, run over the five keys of FetchStats.
Keys == <<"http", "dynamic", "stealth", "firecrawl", "failed">>

SumOf(count, keys) ==
    LET total[n \in 0..Len(keys)] ==
            IF n = 0 THEN 0 ELSE total[n - 1] + count[keys[n]]
    IN  total[Len(keys)]

LEMMA SumOfTheCounts ==
  ASSUME NEW count \in [Tiers \cup {"failed"} -> Nat]
  PROVE  SumOf(count, Keys) = count["http"] + count["dynamic"] + count["stealth"]
                               + count["firecrawl"] + count["failed"]
  <1> DEFINE keys == Keys
             total == CHOOSE f : f = [n \in 0..Len(keys) |->
                        IF n = 0 THEN 0 ELSE f[n - 1] + count[keys[n]]]
             one == count["http"]
             two == one + count["dynamic"]
             three == two + count["stealth"]
             four == three + count["firecrawl"]
             run == [n \in 0..Len(keys) |->
                       IF n = 0 THEN 0 ELSE IF n = 1 THEN one ELSE IF n = 2 THEN two
                       ELSE IF n = 3 THEN three ELSE IF n = 4 THEN four
                       ELSE four + count["failed"]]
  <1>1. /\ Len(keys) = 5 /\ keys[1] = "http" /\ keys[2] = "dynamic"
        /\ keys[3] = "stealth" /\ keys[4] = "firecrawl" /\ keys[5] = "failed"
    BY DEF Keys
  <1>2. /\ one \in Nat /\ count["dynamic"] \in Nat /\ count["stealth"] \in Nat
        /\ count["firecrawl"] \in Nat /\ count["failed"] \in Nat
    BY DEF Tiers, Browsers
  <1> HIDE DEF keys
  <1>3. run = [n \in 0..Len(keys) |->
                 IF n = 0 THEN 0 ELSE run[n - 1] + count[keys[n]]]
    BY <1>1, <1>2
  <1>4. total = [n \in 0..Len(keys) |->
                   IF n = 0 THEN 0 ELSE total[n - 1] + count[keys[n]]]
    BY <1>3
  <1> HIDE DEF total, run
  <1>5. total[0] = 0 /\ total[1] = total[0] + count[keys[1]]
    BY <1>1, <1>4
  <1>6. /\ total[2] = total[1] + count[keys[2]]
        /\ total[3] = total[2] + count[keys[3]]
    BY <1>1, <1>4
  <1>7. /\ total[4] = total[3] + count[keys[4]]
        /\ total[5] = total[4] + count[keys[5]]
    BY <1>1, <1>4
  <1>8. total[Len(keys)] = four + count["failed"]
    BY <1>1, <1>2, <1>5, <1>6, <1>7
  <1> QED BY <1>8 DEF SumOf, total, keys

Finished == {u \in Urls : stage[u] = "done"}

\* A page is counted in the step that finishes it, under one key, and in no other.
LEMMA StepStats ==
  ASSUME Base, Base', StatsAddUp, [Next]_vars
  PROVE  StatsAddUp'
  <1> USE DEF Base
  <1>1. ASSUME UNCHANGED stats, Finished' = Finished PROVE StatsAddUp'
    BY <1>1 DEF StatsAddUp, Sum, Finished
  <1>2. CASE UNCHANGED vars \/ Tick
    BY <1>1, <1>2 DEF vars, Tick, Finished
  <1>3. ASSUME NEW u \in Urls, ClaimSlot(u) \/ StartLadder(u) \/ Acquire(u)
        PROVE  StatsAddUp'
    <2>1. Finished' = Finished
      BY <1>3 DEF ClaimSlot, StartLadder, Acquire, Go, Finished, TypeOK
    <2> QED BY <1>1, <1>3, <2>1 DEF ClaimSlot, StartLadder, Acquire
  <1>4. ASSUME NEW u \in Urls, Answered(u) PROVE StatsAddUp'
    <2>1. PICK attempt \in Answers(Tier(u)) : Answered(u)!2!(attempt)
      BY <1>4 DEF Answered
    <2> DEFINE r == Record(result[u], Tier(u), attempt)
               key == IF Ok(r) THEN r.tier ELSE "failed"
    <2>2. stage[u] = "sent" /\ Tier(u) \in Tiers
      BY <1>4, TierType DEF Answered
    <2>3. key \in Tiers \cup {"failed"}
      BY <2>2 DEF Record
    <2>4. CASE ~Ends(u, attempt)
      <3>1. UNCHANGED stats /\ stage' = [stage EXCEPT ![u] = "waiting"]
        BY <2>1, <2>4 DEF Go
      <3>2. Finished' = Finished
        BY <2>2, <3>1 DEF Finished, TypeOK
      <3> QED BY <1>1, <3>1, <3>2
    <2>5. CASE Ends(u, attempt)
      <3>1. /\ stage' = [stage EXCEPT ![u] = "done"]
            /\ stats' = [stats EXCEPT ![key] = @ + 1]
        BY <2>1, <2>5 DEF Go, RecordStats
      <3> HIDE DEF key
      <3>2. Finished' = Finished \cup {u} /\ u \notin Finished
        <4>1. \A v \in Urls : stage'[v] = IF v = u THEN "done" ELSE stage[v]
          BY <3>1 DEF TypeOK
        <4> QED BY <2>2, <4>1 DEF Finished
      <3>3. IsFiniteSet(Finished) /\ Cardinality(Finished) \in Nat
        BY UrlsAssumption, FS_Subset, FS_CardinalityType DEF Finished
      <3>4. Cardinality(Finished') = Cardinality(Finished) + 1
        BY <3>2, <3>3, FS_AddElement
      <3>5. /\ stats["http"] \in Nat /\ stats["dynamic"] \in Nat
            /\ stats["stealth"] \in Nat /\ stats["firecrawl"] \in Nat
            /\ stats["failed"] \in Nat
        BY DEF TypeOK, Tiers, Browsers
      <3>6. stats'["http"] + stats'["dynamic"] + stats'["stealth"]
              + stats'["firecrawl"] + stats'["failed"]
            = stats["http"] + stats["dynamic"] + stats["stealth"]
              + stats["firecrawl"] + stats["failed"] + 1
        <4>1. \A k \in Tiers \cup {"failed"} :
                stats'[k] = IF k = key THEN stats[k] + 1 ELSE stats[k]
          BY <3>1 DEF TypeOK
        <4>2. /\ stats'["http"] = IF key = "http" THEN stats["http"] + 1 ELSE stats["http"]
              /\ stats'["dynamic"] = IF key = "dynamic" THEN stats["dynamic"] + 1
                                     ELSE stats["dynamic"]
              /\ stats'["stealth"] = IF key = "stealth" THEN stats["stealth"] + 1
                                     ELSE stats["stealth"]
              /\ stats'["firecrawl"] = IF key = "firecrawl" THEN stats["firecrawl"] + 1
                                       ELSE stats["firecrawl"]
              /\ stats'["failed"] = IF key = "failed" THEN stats["failed"] + 1
                                    ELSE stats["failed"]
          BY <4>1 DEF Tiers, Browsers
        <4>3. key \in {"http", "dynamic", "stealth", "firecrawl", "failed"}
          BY <2>3 DEF Tiers, Browsers
        <4> QED BY <3>5, <4>2, <4>3
      <3>7. Sum(<<"http", "dynamic", "stealth", "firecrawl", "failed">>)'
            = Sum(<<"http", "dynamic", "stealth", "firecrawl", "failed">>) + 1
        <4>1. SumOf(stats', Keys) = SumOf(stats, Keys) + 1
          BY <3>6, SumOfTheCounts DEF TypeOK
        <4> QED BY <4>1 DEF Sum, SumOf, Keys
      <3> QED BY <3>4, <3>7 DEF StatsAddUp, Finished
    <2> QED BY <2>4, <2>5
  <1> QED BY <1>2, <1>3, <1>4 DEF Next, PageStep

\* The counts of a crawl add up to its finished pages, for any finite list of
\* pages and every order of their answers.
THEOREM StatsAddUpHolds == Spec => []StatsAddUp
  <1>1. Init => StatsAddUp
    <2> SUFFICES ASSUME Init PROVE StatsAddUp
      OBVIOUS
    <2>1. TypeOK
      BY InitBase DEF Base
    <2>2. /\ stats["http"] = 0 /\ stats["dynamic"] = 0 /\ stats["stealth"] = 0
          /\ stats["firecrawl"] = 0 /\ stats["failed"] = 0
      BY DEF Init, Tiers, Browsers
    <2>3. {u \in Urls : stage[u] = "done"} = {}
      BY DEF Init
    <2>4. Sum(<<"http", "dynamic", "stealth", "firecrawl", "failed">>) = 0
      <3>1. SumOf(stats, Keys) = 0
        <4>1. stats \in [Tiers \cup {"failed"} -> Nat]
          BY <2>1 DEF TypeOK
        <4>2. SumOf(stats, Keys) = stats["http"] + stats["dynamic"] + stats["stealth"]
                                   + stats["firecrawl"] + stats["failed"]
          BY <4>1, SumOfTheCounts
        <4> QED BY <2>2, <4>2
      <3> QED BY <3>1 DEF Sum, SumOf, Keys
    <2> QED BY <2>3, <2>4, FS_EmptySet DEF StatsAddUp
  <1> QED BY InitBase, StepBase, <1>1, StepStats, PTL DEF Spec

=============================================================================
