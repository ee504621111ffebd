------------------------- MODULE AccountRecoveryProofs -------------------------
(***************************************************************************)
(* Proofs about the two reconcilers: the types and counts of the periodic  *)
(* one, what it acts on, and what a successful startup leaves behind.      *)
(***************************************************************************)
EXTENDS AccountRecovery, TLAPS

-----------------------------------------------------------------------------
(* The invariant                                                           *)

States == {"FLAT", "ENTERING", "OPEN", "REDUCING", "CLOSING"}
RowRecords == [state : States, direction : {"LONG", "SHORT", "NONE"}, quantity : Held]

\* A row that is not FLAT has a side, which is what the comparison relies on.
WellFormedRow(row) ==
    /\ row \in RowRecords
    /\ row.state = "FLAT" => row = Startup!FlatRow
    /\ row.state /= "FLAT" => row.direction /= "NONE"

RowsInv ==
    /\ rows \in [Symbols -> RowRecords]
    /\ \A s \in Symbols : WellFormedRow(rows[s])
    /\ DOMAIN listing \subseteq Symbols
    /\ \A s \in DOMAIN listing : listing[s] \in Held

\* A verdict is there only between the reconcile and the start of trading.
PhaseInv ==
    /\ verdict \in {"none", "success", "manual"}
    /\ phase \in {"down", "starting", "resolved", "running"}
    /\ verdict /= "none" => phase = "resolved"
    /\ moves \in 0 .. MaxMoves
    /\ calm \in BOOLEAN

\* The counts the code keeps are the detections there were, which came one
\* directly after the other unless something broke the streak: those of a
\* position as missing outlive it only when the callers cleared it, and those of
\* one as unknown outlive its being untracked only when they tracked it.
CountsAreHistory ==
    \A s \in Symbols :
        /\ missed[s].total = consecutive_missing[s]
        /\ untracked[s].total = consecutive_unknown[s]
        /\ missed[s].streak = missed[s].total \/ missed[s].broken
        /\ untracked[s].streak = untracked[s].total \/ untracked[s].broken
        /\ ~IsTracked(s) => missed[s].total = 0 \/ missed[s].broken
        /\ IsTracked(s) => untracked[s].total = 0 \/ untracked[s].broken

IndInv == BookTypeOK /\ CountsAreHistory /\ RowsInv /\ PhaseInv /\ SuccessMeansAgreement

-----------------------------------------------------------------------------
(* Sizes                                                                   *)

LEMMA SizesAreNaturals ==
    /\ \A n \in Sizes : n \in Nat /\ n > 0
    /\ \A n \in Held : n \in Int /\ (n /= 0 => n \in SignedSizes /\ Magnitude(n) \in Sizes)
    /\ \A n \in SignedSizes : n \in Held /\ n \in Int /\ n /= 0 /\ Magnitude(n) \in Sizes
    /\ \A n \in Sizes : n \in Held /\ -n \in Held
<1>1. \A n \in Sizes : n \in Nat /\ n > 0
  BY SizesAssumption
<1>2. \A n \in Sizes : n \in SignedSizes /\ -n \in SignedSizes
  BY DEF SignedSizes
<1>3. ASSUME NEW n \in SignedSizes
      PROVE  n \in Int /\ n /= 0 /\ Magnitude(n) \in Sizes
  <2>1. CASE n \in Sizes
    BY <1>1, <2>1 DEF Magnitude
  <2>2. CASE n \in {-m : m \in Sizes}
    <3>1. PICK m \in Sizes : n = -m
      BY <2>2
    <3>2. m \in Nat /\ m > 0
      BY <1>1
    <3>3. n < 0 /\ -n = m /\ n \in Int
      BY <3>1, <3>2
    <3> QED BY <3>3 DEF Magnitude
  <2> QED BY <2>1, <2>2 DEF SignedSizes
<1>4. \A n \in Held : n \in SignedSizes \/ n = 0
  BY DEF Held
<1>5. \A n \in SignedSizes : n \in Held
  BY DEF Held
<1> QED BY <1>1, <1>2, <1>3, <1>4, <1>5

LEMMA TrackedPositions ==
    /\ NoPosition \notin Tracked
    /\ \A position \in Tracked : /\ position \in [side : Sides, size : Sizes]
                                  /\ position.size \in Nat /\ position.size > 0
<1>1. \A position \in Tracked : position \in [side : Sides, size : Sizes] /\ position.size \in Sizes
  BY DEF Tracked
<1>2. NoPosition.size = 0 /\ 0 \notin Sizes
  BY SizesAssumption DEF NoPosition
<1>3. NoPosition \notin Tracked
  BY <1>1, <1>2
<1>4. \A n \in Sizes : n \in Nat /\ n > 0
  BY SizesAssumption
<1> QED BY <1>1, <1>3, <1>4

\* What a close leaves is nothing, or the rest on the same side.
LEMMA ClosedSizes ==
    ASSUME NEW n \in SignedSizes, NEW held \in Held, held /= 0, SideOf(held) = SideOf(n),
           NEW rest, rest = Magnitude(held) - Magnitude(n)
    PROVE  (IF rest <= 0 THEN 0 ELSE IF n > 0 THEN rest ELSE -rest) \in Held
<1>1. /\ Magnitude(held) \in Sizes /\ Magnitude(n) \in Sizes
      /\ Magnitude(held) \in Nat /\ Magnitude(n) \in Nat
  BY SizesAreNaturals
<1>2. CASE rest > 0
  <2>1. rest \in Sizes
    BY <1>1, <1>2, SizesAssumption
  <2> QED BY <1>1, <1>2, <2>1, SizesAreNaturals
<1>3. CASE ~(rest > 0)
  BY <1>1, <1>3 DEF Held
<1> QED BY <1>2, <1>3

-----------------------------------------------------------------------------
(* The periodic reconciler                                                 *)

BookInv == BookTypeOK /\ CountsAreHistory

LEMMA CountsStayBelow ==
    ASSUME NEW count \in 0 .. Required - 1
    PROVE  CountAfter(count) \in 0 .. Required - 1 /\ 0 \in 0 .. Required - 1
BY RequiredAssumption DEF CountAfter, Confirmed

\* What becomes of detections.
LEMMA DetectionsKept ==
    /\ NoDetection \in Detections /\ NoDetection.total = 0 /\ NoDetection.streak = 0
    /\ \A d \in Detections :
         /\ d.total \in Nat /\ d.streak \in Nat /\ d.broken \in BOOLEAN
         /\ OneMore(d) \in Detections
         /\ OneMore(d).total = d.total + 1 /\ OneMore(d).streak = d.streak + 1
         /\ OneMore(d).broken <=> d.broken
         /\ Breaks(d) \in Detections
         /\ Breaks(d).total = d.total /\ Breaks(d).streak = d.streak
         /\ Breaks(d).broken <=> d.broken \/ d.total > 0
         /\ EndsStreak(d) \in Detections
         /\ EndsStreak(d).total = d.total /\ EndsStreak(d).streak = 0
         /\ EndsStreak(d).broken <=> d.broken
<1>1. NoDetection \in Detections /\ NoDetection.total = 0 /\ NoDetection.streak = 0
  BY DEF NoDetection, Detections
<1>2. ASSUME NEW d \in Detections
      PROVE  /\ d.total \in Nat /\ d.streak \in Nat /\ d.broken \in BOOLEAN
             /\ d = [total |-> d.total, streak |-> d.streak, broken |-> d.broken]
  BY DEF Detections
<1>3. ASSUME NEW d \in Detections
      PROVE  /\ OneMore(d) \in Detections
             /\ OneMore(d).total = d.total + 1 /\ OneMore(d).streak = d.streak + 1
             /\ OneMore(d).broken <=> d.broken
  BY <1>2 DEF OneMore, Detections
<1>4. ASSUME NEW d \in Detections
      PROVE  /\ Breaks(d) \in Detections
             /\ Breaks(d).total = d.total /\ Breaks(d).streak = d.streak
             /\ Breaks(d).broken <=> d.broken \/ d.total > 0
  <2>1. CASE d.total > 0
    <3>1. Breaks(d) = [total |-> d.total, streak |-> d.streak, broken |-> TRUE]
      BY <2>1 DEF Breaks, Detections
    <3> QED BY <1>2, <2>1, <3>1 DEF Detections
  <2>2. CASE ~(d.total > 0)
    BY <2>2 DEF Breaks
  <2> QED BY <2>1, <2>2
<1>5. ASSUME NEW d \in Detections
      PROVE  /\ EndsStreak(d) \in Detections
             /\ EndsStreak(d).total = d.total /\ EndsStreak(d).streak = 0
             /\ EndsStreak(d).broken <=> d.broken
  <2>1. EndsStreak(d) = [total |-> d.total, streak |-> 0, broken |-> d.broken]
    BY <1>2 DEF EndsStreak
  <2> QED BY <1>2, <2>1 DEF Detections
<1> QED BY <1>1, <1>2, <1>3, <1>4, <1>5

\* What a comparison does to the position of a symbol.
LEMMA ComparedPosition ==
    ASSUME BookTypeOK, NEW p \in Passes, NEW s \in Symbols
    PROVE  /\ PositionAfter(p, s) \in Tracked \union {NoPosition}
           /\ IsTracked(s) /\ PositionAfter(p, s) = NoPosition
                <=> Missing(p, s) /\ Confirmed(consecutive_missing[s])
<1>1. positions[s] \in Tracked \union {NoPosition} /\ snapshot[p].sizes[s] \in Held
  BY DEF BookTypeOK
<1>2. ASSUME Mismatched(p, s)
      PROVE  [positions[s] EXCEPT !.size = Magnitude(snapshot[p].sizes[s])] \in Tracked
  <2>1. Magnitude(snapshot[p].sizes[s]) \in Sizes
    BY <1>1, <1>2, SizesAreNaturals DEF Mismatched, Seen
  <2>2. positions[s] \in Tracked
    BY <1>1, <1>2 DEF Mismatched, IsTracked
  <2> QED BY <2>1, <2>2 DEF Tracked
<1>3. Mismatched(p, s) => ~Missing(p, s)
  BY DEF Mismatched, Missing
<1>4. PositionAfter(p, s) \in Tracked \union {NoPosition}
  BY <1>1, <1>2 DEF PositionAfter
<1>5. ASSUME IsTracked(s), PositionAfter(p, s) = NoPosition
      PROVE  Missing(p, s) /\ Confirmed(consecutive_missing[s])
  BY <1>2, <1>5, TrackedPositions DEF PositionAfter, IsTracked
<1>6. ASSUME Missing(p, s), Confirmed(consecutive_missing[s])
      PROVE  IsTracked(s) /\ PositionAfter(p, s) = NoPosition
  BY <1>6 DEF PositionAfter, Missing
<1> QED BY <1>4, <1>5, <1>6

LEMMA CompareKeepsBook ==
    ASSUME BookInv, NEW p \in Passes, Compare(p)
    PROVE  BookInv'
<1> USE DEF BookInv
<1>1. /\ exchange' = exchange
      /\ positions' = [s \in Symbols |-> PositionAfter(p, s)]
      /\ consecutive_unknown' = [s \in Symbols |-> UnknownAfter(p, s)]
      /\ consecutive_missing' = [s \in Symbols |-> MissingAfter(p, s)]
      /\ closes' = [s \in Symbols |-> closes[s] \union EmergencyCloses(p, s)]
      /\ snapshot' = [snapshot EXCEPT ![p] = Idle]
  BY DEF Compare
<1>2. ASSUME NEW s \in Symbols
      PROVE  /\ consecutive_unknown[s] \in 0 .. Required - 1
             /\ consecutive_missing[s] \in 0 .. Required - 1
             /\ missed[s] \in Detections /\ untracked[s] \in Detections
             /\ snapshot[p].sizes[s] \in Held /\ closes[s] \in SUBSET SignedSizes
  BY DEF BookTypeOK, CountsAreHistory
<1>3. positions' \in [Symbols -> Tracked \union {NoPosition}]
  BY <1>1, ComparedPosition
<1>4. /\ consecutive_unknown' \in [Symbols -> 0 .. Required - 1]
      /\ consecutive_missing' \in [Symbols -> 0 .. Required - 1]
  <2>1. \A s \in Symbols : UnknownAfter(p, s) \in 0 .. Required - 1
    BY <1>2, CountsStayBelow DEF UnknownAfter
  <2>2. \A s \in Symbols : MissingAfter(p, s) \in 0 .. Required - 1
    BY <1>2, CountsStayBelow DEF MissingAfter
  <2> QED BY <1>1, <2>1, <2>2
<1>5. closes' \in [Symbols -> SUBSET SignedSizes]
  <2>1. \A s \in Symbols : EmergencyCloses(p, s) \subseteq SignedSizes
    BY <1>2, SizesAreNaturals DEF EmergencyCloses, Unknown, Seen
  <2> QED BY <1>1, <1>2, <2>1
<1>6. snapshot' \in [Passes -> [fetched : BOOLEAN, sizes : [Symbols -> Held]]]
  BY <1>1 DEF BookTypeOK, Idle, Held
<1>7. /\ missed' = [s \in Symbols |->
              IF Missing(p, s)
              THEN (IF PositionAfter(p, s) = NoPosition THEN NoDetection ELSE OneMore(missed[s]))
              ELSE IF Seen(p, s) /\ IsTracked(s) THEN NoDetection
              ELSE EndsStreak(missed[s])]
      /\ untracked' = [s \in Symbols |->
              IF Unknown(p, s)
              THEN (IF EmergencyCloses(p, s) /= {} THEN NoDetection ELSE OneMore(untracked[s]))
              ELSE IF Matching(p, s) THEN NoDetection
              ELSE IF Seen(p, s) THEN EndsStreak(untracked[s])
              ELSE EndsStreak(Breaks(untracked[s]))]
  BY <1>1 DEF Compare, Observed
<1>8. missed' \in [Symbols -> Detections] /\ untracked' \in [Symbols -> Detections]
  BY <1>2, <1>7, DetectionsKept
<1>9. ASSUME NEW s \in Symbols
      PROVE  /\ missed'[s].total = consecutive_missing'[s]
             /\ untracked'[s].total = consecutive_unknown'[s]
             /\ missed'[s].streak = missed'[s].total \/ missed'[s].broken
             /\ untracked'[s].streak = untracked'[s].total \/ untracked'[s].broken
             /\ positions'[s] = NoPosition => missed'[s].total = 0 \/ missed'[s].broken
             /\ positions'[s] /= NoPosition => untracked'[s].total = 0 \/ untracked'[s].broken
  <2>1. /\ missed[s].total = consecutive_missing[s]
        /\ untracked[s].total = consecutive_unknown[s]
        /\ missed[s].streak = missed[s].total \/ missed[s].broken
        /\ untracked[s].streak = untracked[s].total \/ untracked[s].broken
        /\ ~IsTracked(s) => missed[s].total = 0 \/ missed[s].broken
        /\ IsTracked(s) => untracked[s].total = 0 \/ untracked[s].broken
    BY DEF CountsAreHistory
  <2>2. /\ consecutive_missing'[s] = MissingAfter(p, s)
        /\ consecutive_unknown'[s] = UnknownAfter(p, s)
        /\ positions'[s] = PositionAfter(p, s)
    BY <1>1
  <2>3. IsTracked(s) \/ PositionAfter(p, s) = NoPosition
    BY DEF PositionAfter, Missing, Mismatched, IsTracked
  <2>4. /\ missed'[s].total = consecutive_missing'[s]
        /\ missed'[s].streak = missed'[s].total \/ missed'[s].broken
        /\ positions'[s] = NoPosition => missed'[s].total = 0 \/ missed'[s].broken
    <3>1. CASE Missing(p, s)
      <4>1. PositionAfter(p, s) = NoPosition <=> Confirmed(consecutive_missing[s])
        BY <3>1, ComparedPosition DEF Missing
      <4>2. CASE Confirmed(consecutive_missing[s])
        BY <1>7, <2>2, <3>1, <4>1, <4>2, DetectionsKept DEF MissingAfter, CountAfter
      <4>3. CASE ~Confirmed(consecutive_missing[s])
        BY <1>2, <1>7, <2>1, <2>2, <3>1, <4>1, <4>3, DetectionsKept DEF MissingAfter, CountAfter
      <4> QED BY <4>2, <4>3
    <3>2. CASE ~Missing(p, s) /\ Seen(p, s) /\ IsTracked(s)
      BY <1>7, <2>2, <3>2, DetectionsKept DEF MissingAfter
    <3>3. CASE ~Missing(p, s) /\ ~(Seen(p, s) /\ IsTracked(s))
      <4>1. ~IsTracked(s)
        BY <3>3 DEF Missing
      <4> QED BY <1>2, <1>7, <2>1, <2>2, <3>3, <4>1, DetectionsKept DEF MissingAfter
    <3> QED BY <3>1, <3>2, <3>3
  <2>5. /\ untracked'[s].total = consecutive_unknown'[s]
        /\ untracked'[s].streak = untracked'[s].total \/ untracked'[s].broken
        /\ IsTracked(s) => untracked'[s].total = 0 \/ untracked'[s].broken
    <3>1. CASE Unknown(p, s)
      <4>1. EmergencyCloses(p, s) /= {} <=> Confirmed(consecutive_unknown[s])
        BY <3>1 DEF EmergencyCloses
      <4>2. ~IsTracked(s)
        BY <3>1 DEF Unknown
      <4>3. CASE Confirmed(consecutive_unknown[s])
        BY <1>7, <2>2, <3>1, <4>1, <4>3, DetectionsKept DEF UnknownAfter, CountAfter
      <4>4. CASE ~Confirmed(consecutive_unknown[s])
        BY <1>2, <1>7, <2>1, <2>2, <3>1, <4>1, <4>2, <4>4, DetectionsKept
           DEF UnknownAfter, CountAfter
      <4> QED BY <4>3, <4>4
    <3>2. CASE ~Unknown(p, s) /\ Matching(p, s)
      BY <1>7, <2>2, <3>2, DetectionsKept DEF UnknownAfter
    <3>3. CASE ~Unknown(p, s) /\ ~Matching(p, s) /\ Seen(p, s)
      <4>1. IsTracked(s)
        BY <3>3 DEF Unknown
      <4> QED BY <1>2, <1>7, <2>1, <2>2, <3>3, <4>1, DetectionsKept DEF UnknownAfter
    <3>4. CASE ~Unknown(p, s) /\ ~Matching(p, s) /\ ~Seen(p, s)
      <4>1. untracked'[s] = EndsStreak(Breaks(untracked[s]))
        BY <1>7, <3>4
      <4>2. /\ untracked'[s].total = untracked[s].total /\ untracked'[s].streak = 0
            /\ untracked'[s].broken <=> untracked[s].broken \/ untracked[s].total > 0
            /\ untracked[s].total \in Nat
        BY <1>2, <4>1, DetectionsKept
      <4> QED BY <2>1, <2>2, <3>4, <4>2 DEF UnknownAfter
    <3> QED BY <3>1, <3>2, <3>3, <3>4
  <2> QED BY <2>2, <2>3, <2>4, <2>5
<1>10. exchange' \in [Symbols -> Held]
  BY <1>1 DEF BookTypeOK
<1> QED BY <1>3, <1>4, <1>5, <1>6, <1>8, <1>9, <1>10 DEF BookTypeOK, CountsAreHistory, IsTracked

LEMMA BookHolds ==
    ASSUME BookInv, [Next]_vars
    PROVE  BookInv'
<1> USE DEF BookInv
<1>1. ASSUME NEW s \in Symbols, Trade(s)
      PROVE  BookInv'
  BY <1>1 DEF Trade, book, counters, history, BookTypeOK, CountsAreHistory, IsTracked
<1>2. ASSUME NEW s \in Symbols, ExecuteClose(s)
      PROVE  BookInv'
  <2>1. PICK n \in closes[s] :
          /\ exchange' = [exchange EXCEPT ![s] =
               IF exchange[s] /= 0 /\ SideOf(exchange[s]) = SideOf(n)
               THEN LET rest == Magnitude(exchange[s]) - Magnitude(n)
                    IN  IF rest <= 0 THEN 0 ELSE IF n > 0 THEN rest ELSE -rest
               ELSE exchange[s]]
          /\ closes' = [closes EXCEPT ![s] = @ \ {n}]
          /\ UNCHANGED book
    BY <1>2 DEF ExecuteClose
  <2>2. n \in SignedSizes /\ exchange[s] \in Held
    BY DEF BookTypeOK
  <2>3. PICK size : size = IF exchange[s] /= 0 /\ SideOf(exchange[s]) = SideOf(n)
                           THEN LET rest == Magnitude(exchange[s]) - Magnitude(n)
                                IN  IF rest <= 0 THEN 0 ELSE IF n > 0 THEN rest ELSE -rest
                           ELSE exchange[s]
    OBVIOUS
  <2>4. size \in Held
    BY <2>2, <2>3, ClosedSizes
  <2>5. exchange' = [exchange EXCEPT ![s] = size]
    BY <2>1, <2>3
  <2>6. exchange' \in [Symbols -> Held] /\ closes' \in [Symbols -> SUBSET SignedSizes]
    BY <2>1, <2>4, <2>5 DEF BookTypeOK
  <2> QED BY <2>1, <2>6 DEF book, counters, history, BookTypeOK, CountsAreHistory, IsTracked
<1>3. ASSUME NEW s \in Symbols, set_local_position(s) \/ clear_local_position(s)
      PROVE  BookInv'
  <2>1. missed[s] \in Detections /\ untracked[s] \in Detections
    BY DEF BookTypeOK
  <2>2. CASE set_local_position(s)
    <3>1. PICK new \in Tracked : positions' = [positions EXCEPT ![s] = new]
      BY <2>2 DEF set_local_position
    <3>2. PICK broken \in Detections : broken = Breaks(untracked[s])
      BY <2>1, DetectionsKept
    <3>3. /\ untracked' = [untracked EXCEPT ![s] = broken]
          /\ UNCHANGED <<account, counters, snapshot, missed>>
      BY <2>2, <3>2 DEF set_local_position
    <3>4. BookTypeOK'
      BY <3>1, <3>3 DEF account, counters, BookTypeOK
    <3>5. /\ new /= NoPosition
          /\ untracked[s].total = 0 \/ untracked[s].total > 0
          /\ broken.total = untracked[s].total /\ broken.streak = untracked[s].streak
          /\ broken.broken <=> untracked[s].broken \/ untracked[s].total > 0
      <4>1. untracked[s].total \in Nat
        BY <2>1, DetectionsKept
      <4>2. untracked[s].total = 0 \/ untracked[s].total > 0
        BY <4>1
      <4> QED BY <2>1, <3>2, <4>2, TrackedPositions, DetectionsKept
    <3>6. ASSUME NEW t \in Symbols
          PROVE  /\ missed'[t].total = consecutive_missing'[t]
                 /\ untracked'[t].total = consecutive_unknown'[t]
                 /\ missed'[t].streak = missed'[t].total \/ missed'[t].broken
                 /\ untracked'[t].streak = untracked'[t].total \/ untracked'[t].broken
                 /\ positions'[t] = NoPosition => missed'[t].total = 0 \/ missed'[t].broken
                 /\ positions'[t] /= NoPosition => untracked'[t].total = 0 \/ untracked'[t].broken
      <4>1. UNCHANGED <<missed, consecutive_missing, consecutive_unknown>>
        BY <3>3 DEF counters
      <4>2. CASE t = s
        <5>1. untracked'[s] = broken /\ positions'[s] = new
          BY <3>1, <3>3 DEF BookTypeOK
        <5> QED BY <3>5, <4>1, <4>2, <5>1, Zenon DEF CountsAreHistory
      <4>3. CASE t /= s
        <5>1. untracked'[t] = untracked[t] /\ positions'[t] = positions[t]
          BY <3>1, <3>3, <4>3 DEF BookTypeOK
        <5> QED BY <4>1, <5>1 DEF CountsAreHistory, IsTracked
      <4> QED BY <4>2, <4>3
    <3>7. CountsAreHistory'
      BY <3>6 DEF CountsAreHistory, IsTracked
    <3> QED BY <3>4, <3>7
  <2>3. CASE clear_local_position(s)
    <3>1. PICK broken \in Detections : broken = Breaks(missed[s])
      BY <2>1, DetectionsKept
    <3>2. /\ missed' = [missed EXCEPT ![s] = broken]
          /\ positions' = [positions EXCEPT ![s] = NoPosition]
          /\ UNCHANGED <<account, counters, snapshot, untracked>>
      BY <2>3, <3>1 DEF clear_local_position
    <3>3. BookTypeOK'
      BY <3>1, <3>2 DEF account, counters, BookTypeOK
    <3>4. /\ missed[s].total = 0 \/ missed[s].total > 0
          /\ broken.total = missed[s].total /\ broken.streak = missed[s].streak
          /\ broken.broken <=> missed[s].broken \/ missed[s].total > 0
      <4>1. missed[s].total \in Nat
        BY <2>1, DetectionsKept
      <4>2. missed[s].total = 0 \/ missed[s].total > 0
        BY <4>1
      <4> QED BY <2>1, <3>1, <4>2, DetectionsKept
    <3>5. ASSUME NEW t \in Symbols
          PROVE  /\ missed'[t].total = consecutive_missing'[t]
                 /\ untracked'[t].total = consecutive_unknown'[t]
                 /\ missed'[t].streak = missed'[t].total \/ missed'[t].broken
                 /\ untracked'[t].streak = untracked'[t].total \/ untracked'[t].broken
                 /\ positions'[t] = NoPosition => missed'[t].total = 0 \/ missed'[t].broken
                 /\ positions'[t] /= NoPosition => untracked'[t].total = 0 \/ untracked'[t].broken
      <4>1. UNCHANGED <<untracked, consecutive_missing, consecutive_unknown>>
        BY <3>2 DEF counters
      <4>2. CASE t = s
        <5>1. missed'[s] = broken /\ positions'[s] = NoPosition
          BY <3>2 DEF BookTypeOK
        <5> QED BY <3>4, <4>1, <4>2, <5>1, Zenon DEF CountsAreHistory
      <4>3. CASE t /= s
        <5>1. missed'[t] = missed[t] /\ positions'[t] = positions[t]
          BY <3>2, <4>3 DEF BookTypeOK
        <5> QED BY <4>1, <5>1 DEF CountsAreHistory, IsTracked
      <4> QED BY <4>2, <4>3
    <3>6. CountsAreHistory'
      BY <3>5 DEF CountsAreHistory, IsTracked
    <3> QED BY <3>3, <3>6
  <2> QED BY <1>3, <2>2, <2>3
<1>4. ASSUME NEW p \in Passes, Fetch(p) \/ FailedFetch(p)
      PROVE  BookInv'
  <2>1. exchange \in [Symbols -> Held] /\ [s \in Symbols |-> 0] \in [Symbols -> Held]
    BY DEF BookTypeOK, Held
  <2>2. \A sizes \in [Symbols -> Held] :
          Fetched(sizes) \in [fetched : BOOLEAN, sizes : [Symbols -> Held]]
    BY DEF Fetched
  <2>3. PICK sizes \in [Symbols -> Held] : snapshot' = [snapshot EXCEPT ![p] = Fetched(sizes)]
    BY <1>4, <2>1 DEF Fetch, FailedFetch
  <2>4. snapshot' \in [Passes -> [fetched : BOOLEAN, sizes : [Symbols -> Held]]]
    BY <2>2, <2>3 DEF BookTypeOK
  <2>5. UNCHANGED <<account, positions, counters, history>>
    BY <1>4 DEF Fetch, FailedFetch
  <2> QED BY <2>4, <2>5 DEF account, counters, history, BookTypeOK, CountsAreHistory, IsTracked
<1>5. CASE Crash
  <2>1. 0 \in 0 .. Required - 1
    BY RequiredAssumption
  <2> QED BY <1>5, <2>1
       DEF Crash, LoseBook, NoCounts, NoneDetected, NoDetection, Detections, Idle, Held, account,
           BookTypeOK, CountsAreHistory, IsTracked
<1>6. CASE CalmDown \/ Query \/ StartupReconciles \/ Resume \/ DiesStarting \/ UNCHANGED vars
  <2>1. UNCHANGED <<account, book>>
    BY <1>6 DEF CalmDown, Query, StartupReconciles, Resume, DiesStarting, vars
  <2> QED BY <2>1 DEF account, book, counters, history, BookTypeOK, CountsAreHistory, IsTracked
<1> QED BY <1>1, <1>2, <1>3, <1>4, <1>5, <1>6, CompareKeepsBook
        DEF Next, AccountTrades, CallerTracks, ClosesExecute, Fetches, FetchFails, Compares, Running

-----------------------------------------------------------------------------
(* The startup reconciler                                                  *)

LEMMA SavedRowsAreWellFormed ==
    \A row \in SavedRows : WellFormedRow(row)
<1> TAKE row \in SavedRows
<1>1. 0 \in Held /\ Sizes \subseteq Held /\ SignedSizes \subseteq Held
  BY DEF Held, SignedSizes
<1>2. CASE row = Startup!FlatRow
  BY <1>1, <1>2 DEF WellFormedRow, RowRecords, States, Startup!FlatRow
<1>3. ASSUME NEW states \in SUBSET {"ENTERING", "OPEN", "REDUCING", "CLOSING"},
             NEW d \in {"LONG", "SHORT"}, NEW n \in Held, row \in Saved(states, d, n)
      PROVE  WellFormedRow(row)
  BY <1>3 DEF Saved, WellFormedRow, RowRecords, States
<1>4. ASSUME NEW n \in Sizes, row \in Saved({"OPEN", "REDUCING", "CLOSING"}, "LONG", n)
      PROVE  WellFormedRow(row)
  BY <1>1, <1>3, <1>4
<1>5. ASSUME NEW n \in SignedSizes, row \in Saved({"OPEN", "REDUCING", "CLOSING"}, "SHORT", n)
      PROVE  WellFormedRow(row)
  BY <1>1, <1>3, <1>5
<1>6. ASSUME NEW d \in {"LONG", "SHORT"}, row \in Saved({"ENTERING", "CLOSING"}, d, 0)
      PROVE  WellFormedRow(row)
  BY <1>1, <1>3, <1>6
<1>7. \/ row = Startup!FlatRow
      \/ \E n \in Sizes : row \in Saved({"OPEN", "REDUCING", "CLOSING"}, "LONG", n)
      \/ \E n \in SignedSizes : row \in Saved({"OPEN", "REDUCING", "CLOSING"}, "SHORT", n)
      \/ \E d \in {"LONG", "SHORT"} : row \in Saved({"ENTERING", "CLOSING"}, d, 0)
  BY DEF SavedRows
<1> QED BY <1>2, <1>4, <1>5, <1>6, <1>7

LEMMA ResolvedRowIsWellFormed ==
    ASSUME RowsInv, NEW s \in Startup!Rewritten
    PROVE  /\ WellFormedRow(Startup!ResolvedRow(s))
           /\ Startup!Listed(s) /\ listing[s] /= 0 =>
                 Startup!ResolvedRow(s) = [state |-> "OPEN",
                   direction |-> Startup!ExchangeSide(listing[s]),
                   quantity |-> Startup!AbsInt(listing[s])]
           /\ ~(Startup!Listed(s) /\ listing[s] /= 0) => Startup!ResolvedRow(s) = Startup!FlatRow
<1>1. /\ s \in Symbols
      /\ Startup!Discrepancy(s) \in {"GHOST_POSITION", "SIZE_MISMATCH", "STATE_MISMATCH"}
  BY DEF Startup!Rewritten, Startup!Found
<1>2. /\ Startup!Discrepancy(s) = "GHOST_POSITION" <=> ~Startup!Listed(s)
      /\ Startup!IsLocal(s)
  BY <1>1 DEF Startup!Discrepancy, Startup!ComparePositions
<1>3. Startup!Listed(s) => listing[s] \in Held
  BY DEF RowsInv, Startup!Listed
<1>4. CASE Startup!Listed(s) /\ listing[s] /= 0
  <2>1. PICK n : n = listing[s]
    OBVIOUS
  <2>2. n \in Held /\ n /= 0 /\ n \in Int
    BY <1>3, <1>4, <2>1, SizesAreNaturals
  <2>3. Startup!AbsInt(n) \in Held
    BY <2>2, SizesAreNaturals DEF Startup!AbsInt, Magnitude
  <2>4. Startup!ExchangeSide(n) \in {"LONG", "SHORT"}
    BY <2>2 DEF Startup!ExchangeSide
  <2>5. Startup!ResolvedRow(s) = [state |-> "OPEN", direction |-> Startup!ExchangeSide(n),
                                  quantity |-> Startup!AbsInt(n)]
    BY <1>2, <1>4, <2>1 DEF Startup!ResolvedRow
  <2>6. WellFormedRow(Startup!ResolvedRow(s))
    BY <2>3, <2>4, <2>5 DEF WellFormedRow, RowRecords, States
  <2> QED BY <1>4, <2>1, <2>5, <2>6
<1>5. CASE ~(Startup!Listed(s) /\ listing[s] /= 0)
  <2>1. Startup!ResolvedRow(s) = Startup!FlatRow
    BY <1>2, <1>5 DEF Startup!ResolvedRow
  <2>2. WellFormedRow(Startup!FlatRow)
    BY DEF WellFormedRow, RowRecords, States, Startup!FlatRow, Held
  <2> QED BY <1>5, <2>1, <2>2
<1> QED BY <1>4, <1>5

LEMMA SaveKeepsRows ==
    ASSUME RowsInv, NEW saved \in SUBSET Startup!Rewritten, Startup!Save(saved)
    PROVE  rows' \in [Symbols -> RowRecords] /\ \A s \in Symbols : WellFormedRow(rows'[s])
<1>1. rows' = [s \in Symbols |-> IF s \in saved THEN Startup!ResolvedRow(s) ELSE rows[s]]
  BY DEF Startup!Save
<1>2. \A s \in Symbols : WellFormedRow(IF s \in saved THEN Startup!ResolvedRow(s) ELSE rows[s])
  BY ResolvedRowIsWellFormed DEF RowsInv
<1> QED BY <1>1, <1>2 DEF WellFormedRow

LEMMA RowsHold ==
    ASSUME BookTypeOK, RowsInv, [Next]_vars
    PROVE  RowsInv'
<1>1. CASE UNCHANGED startup
  BY <1>1 DEF startup, RowsInv, WellFormedRow
<1>2. CASE Crash
  BY <1>2, SavedRowsAreWellFormed DEF Crash, RowsInv, WellFormedRow
<1>3. CASE Query
  BY <1>3 DEF Query, RowsInv, BookTypeOK
<1>4. CASE StartupReconciles
  <2>1. PICK failed \in SUBSET Startup!Rewritten :
          Startup!Save(Startup!Rewritten \ failed) /\ listing' = listing
    BY <1>4 DEF StartupReconciles, Startup!Reconcile
  <2> QED BY <2>1, SaveKeepsRows DEF RowsInv
<1>5. CASE Resume
  BY <1>5 DEF Resume, NotFollowed, RowsInv, WellFormedRow, RowRecords, States, Startup!FlatRow,
     Startup!NothingListed, Held
<1>6. CASE DiesStarting
  <2>1. PICK saved \in SUBSET Startup!Rewritten : Startup!Save(saved)
    BY <1>6 DEF DiesStarting, Startup!DieReconciling
  <2>2. listing' = Startup!NothingListed
    BY <1>6 DEF DiesStarting, Startup!DieReconciling
  <2> QED BY <2>1, <2>2, SaveKeepsRows DEF RowsInv, Startup!NothingListed
<1>7. CASE UNCHANGED vars
  BY <1>1, <1>7 DEF vars
<1> QED BY <1>1, <1>2, <1>3, <1>4, <1>5, <1>6, <1>7
        DEF Next, AccountTrades, CallerTracks, ClosesExecute, CalmDown, Fetches, FetchFails, Compares, Running

LEMMA PhaseHolds ==
    ASSUME PhaseInv, [Next]_vars
    PROVE  PhaseInv'
<1>1. CASE /\ UNCHANGED <<startup, phase>>
           /\ moves' = moves \/ (moves < MaxMoves /\ moves' = moves + 1)
           /\ calm' = calm \/ calm' = TRUE
  <2>1. moves' \in 0 .. MaxMoves
    BY <1>1, BoundAssumption DEF PhaseInv
  <2>2. calm' \in BOOLEAN
    BY <1>1 DEF PhaseInv
  <2> QED BY <1>1, <2>1, <2>2 DEF startup, PhaseInv
<1>2. CASE Crash
  BY <1>2, BoundAssumption DEF Crash, PhaseInv
<1>3. CASE Query \/ Resume \/ DiesStarting
  BY <1>3 DEF Query, Resume, DiesStarting, Startup!DieReconciling, PhaseInv
<1>4. CASE StartupReconciles
  BY <1>4 DEF StartupReconciles, Startup!Reconcile, PhaseInv
<1>5. CASE UNCHANGED vars
  BY <1>1, <1>5 DEF vars, environment
<1> QED BY <1>1, <1>2, <1>3, <1>4, <1>5
        DEF Next, AccountTrades, CallerTracks, Move, ClosesExecute, CalmDown, Fetches, FetchFails, Compares,
            Running, environment

\* A row the comparison finds nothing against agrees with the account, or the
\* position is one listed with size zero.
LEMMA UnfoundRows ==
    ASSUME RowsInv, NEW s \in Symbols, s \notin Startup!Found
    PROVE  IF Startup!Listed(s) /\ listing[s] /= 0
           THEN Startup!AgreesWith(rows[s], listing[s])
           ELSE rows[s] = Startup!FlatRow \/ Startup!BlindToClosed(s)
<1>1. Startup!Discrepancy(s) = "NONE"
  BY DEF Startup!Found
<1>2. WellFormedRow(rows[s]) /\ (Startup!Listed(s) => listing[s] \in Held)
  BY DEF RowsInv, Startup!Listed
<1>3. CASE Startup!Listed(s) /\ listing[s] /= 0
  <2>1. PICK row, n : row = rows[s] /\ n = listing[s]
    OBVIOUS
  <2>2. n \in Int /\ n /= 0 /\ row.state /= "FLAT"
    BY <1>1, <1>2, <1>3, <2>1, SizesAreNaturals DEF Startup!Discrepancy, Startup!IsLocal
  <2>3. Startup!ComparePositions(row, n) = "NONE"
    BY <1>1, <1>3, <2>1, <2>2 DEF Startup!Discrepancy, Startup!IsLocal
  <2>4. /\ ~Startup!DirectionsDiffer(row, n) /\ ~Startup!SizesDiffer(row, n)
        /\ row.state \notin Startup!Transitional
    BY <2>2, <2>3 DEF Startup!ComparePositions
  <2>5. row.state = "OPEN" /\ row.direction \in {"LONG", "SHORT"}
    BY <1>2, <2>1, <2>2, <2>4 DEF WellFormedRow, RowRecords, States, Startup!Transitional
  <2>6. row.direction = Startup!ExchangeSide(n)
    BY <2>2, <2>4, <2>5 DEF Startup!DirectionsDiffer, Startup!ExchangeSide
  <2>7. Startup!AgreesWith(row, n)
    BY <2>4, <2>5, <2>6 DEF Startup!AgreesWith
  <2> QED BY <1>3, <2>1, <2>7
<1>4. CASE ~(Startup!Listed(s) /\ listing[s] /= 0)
  BY <1>1, <1>2, <1>4
     DEF Startup!Discrepancy, Startup!IsLocal, Startup!BlindToClosed, WellFormedRow
<1> QED BY <1>3, <1>4

\* A rewritten row is found no fault with.
LEMMA ResolvedIsResolved ==
    ASSUME RowsInv, NEW s \in Startup!Rewritten, rows'[s] = Startup!ResolvedRow(s), listing' = listing
    PROVE  Startup!Discrepancy(s)' = "NONE"
<1>1. CASE Startup!Listed(s) /\ listing[s] /= 0
  <2>1. PICK n : n = listing[s]
    OBVIOUS
  <2>2. n \in Int /\ n /= 0
    BY <1>1, <2>1, SizesAreNaturals DEF RowsInv, Startup!Listed
  <2>3. PICK row : row = [state |-> "OPEN", direction |-> Startup!ExchangeSide(n),
                          quantity |-> Startup!AbsInt(n)]
    OBVIOUS
  <2>4. rows'[s] = row
    BY <1>1, <2>1, <2>3, ResolvedRowIsWellFormed
  <2>5. row.state = "OPEN" /\ row.direction = Startup!ExchangeSide(n) /\ row.quantity = Startup!AbsInt(n)
    BY <2>3
  <2>6. ~Startup!SizesDiffer(row, n)
    <3>1. Startup!AbsInt(n) \in Nat /\ Startup!AbsInt(n) - Startup!AbsInt(n) = 0
      BY <2>2 DEF Startup!AbsInt
    <3>2. Startup!AbsInt(0) = 0 /\ Startup!Larger(Startup!AbsInt(n), Startup!AbsInt(n)) = Startup!AbsInt(n)
      BY <3>1 DEF Startup!AbsInt, Startup!Larger
    <3>3. \A a \in Nat : ~(100 * 0 > SizeTolerancePct * a)
      BY ToleranceAssumption
    <3> QED BY <2>5, <3>1, <3>2, <3>3 DEF Startup!SizesDiffer
  <2>7. Startup!ComparePositions(row, n) = "NONE"
    BY <2>5, <2>6 DEF Startup!ComparePositions, Startup!DirectionsDiffer, Startup!Transitional
  <2> QED BY <1>1, <2>1, <2>4, <2>5, <2>7 DEF Startup!Discrepancy, Startup!IsLocal, Startup!Listed
<1>2. CASE ~(Startup!Listed(s) /\ listing[s] /= 0)
  <2>1. rows'[s] = Startup!FlatRow
    BY <1>2, ResolvedRowIsWellFormed
  <2> QED BY <1>2, <2>1 DEF Startup!Discrepancy, Startup!IsLocal, Startup!Listed, Startup!FlatRow
<1> QED BY <1>1, <1>2

LEMMA NothingFound == RowsInv /\ Startup!Found = {} => SuccessMeansAgreement
BY UnfoundRows DEF SuccessMeansAgreement

\* With nothing left for review, every discrepancy was rewritten.
LEMMA SuccessResolvesAll ==
    ASSUME RowsInv, RowsInv', Startup!Reconcile, verdict' = "success"
    PROVE  SuccessMeansAgreement'
<1>1. PICK failed \in SUBSET Startup!Rewritten :
        /\ Startup!Save(Startup!Rewritten \ failed)
        /\ verdict' = IF Startup!ManualReview(failed) = {} THEN "success" ELSE "manual"
        /\ listing' = listing
  BY DEF Startup!Reconcile
<1>2. failed = {} /\ Startup!Found \subseteq Startup!Rewritten
  BY <1>1 DEF Startup!ManualReview
<1>3. \A s \in Symbols : rows'[s] = IF s \in Startup!Rewritten THEN Startup!ResolvedRow(s) ELSE rows[s]
  BY <1>1, <1>2 DEF Startup!Save
<1>4. ASSUME NEW s \in Symbols
      PROVE  Startup!Discrepancy(s)' = "NONE"
  <2>1. CASE s \in Startup!Rewritten
    BY <1>1, <1>3, <2>1, ResolvedIsResolved
  <2>2. CASE s \notin Startup!Rewritten
    <3>1. Startup!Discrepancy(s) = "NONE" /\ rows'[s] = rows[s]
      BY <1>2, <1>3, <2>2 DEF Startup!Found
    <3> QED BY <1>1, <3>1 DEF Startup!Discrepancy, Startup!IsLocal, Startup!Listed
  <2> QED BY <2>1, <2>2
<1>5. Startup!Found' = {}
  BY <1>4 DEF Startup!Found
<1>6. (RowsInv /\ Startup!Found = {} => SuccessMeansAgreement)'
  BY NothingFound, PTL
<1> QED BY <1>5, <1>6

LEMMA AgreementHolds ==
    ASSUME RowsInv, PhaseInv, SuccessMeansAgreement, RowsInv', PhaseInv', [Next]_vars
    PROVE  SuccessMeansAgreement'
<1>1. CASE UNCHANGED startup
  <2>1. rows' = rows /\ listing' = listing /\ verdict' = verdict
    BY <1>1 DEF startup
  <2> QED BY <2>1 DEF SuccessMeansAgreement, Startup!Found, Startup!Discrepancy, Startup!IsLocal,
             Startup!Listed, Startup!BlindToClosed
<1>2. CASE Crash
  <2>1. verdict' = "none"
    BY <1>2 DEF Crash, PhaseInv
  <2> QED BY <2>1 DEF SuccessMeansAgreement
<1>3. CASE Query \/ Resume \/ DiesStarting
  <2>1. verdict' = "none"
    BY <1>3 DEF Query, Resume, DiesStarting, Startup!DieReconciling, PhaseInv
  <2> QED BY <2>1 DEF SuccessMeansAgreement
<1>4. CASE StartupReconciles
  <2>1. CASE verdict' = "success"
    BY <1>4, <2>1, SuccessResolvesAll DEF StartupReconciles
  <2>2. CASE verdict' /= "success"
    BY <2>2 DEF SuccessMeansAgreement
  <2> QED BY <2>1, <2>2
<1>5. CASE UNCHANGED vars
  BY <1>1, <1>5 DEF vars
<1> QED BY <1>1, <1>2, <1>3, <1>4, <1>5
        DEF Next, AccountTrades, CallerTracks, ClosesExecute, CalmDown, Fetches, FetchFails, Compares, Running

-----------------------------------------------------------------------------
(* The invariant is inductive                                              *)

LEMMA Established == Init => IndInv
<1> SUFFICES ASSUME Init
             PROVE  IndInv
  OBVIOUS
<1>1. BookTypeOK /\ CountsAreHistory
  <2>1. 0 \in 0 .. Required - 1
    BY RequiredAssumption
  <2> QED BY <2>1
       DEF Init, EmptyBook, NoCounts, NoneDetected, NoDetection, Detections, Idle, Held,
           BookTypeOK, CountsAreHistory, IsTracked
<1>2. RowsInv
  <2>1. \A s \in Symbols : rows[s] \in SavedRows
    BY DEF Init
  <2>2. \A s \in Symbols : WellFormedRow(rows[s])
    BY <2>1, SavedRowsAreWellFormed
  <2>3. rows = [s \in Symbols |-> rows[s]]
    BY DEF Init
  <2>4. rows \in [Symbols -> RowRecords]
    BY <2>2, <2>3 DEF WellFormedRow
  <2>5. DOMAIN listing = {}
    BY DEF Init, Startup!NothingListed
  <2> QED BY <2>2, <2>4, <2>5 DEF RowsInv
<1>3. PhaseInv /\ SuccessMeansAgreement
  <2>1. moves \in 0 .. MaxMoves
    BY BoundAssumption DEF Init
  <2>2. verdict = "none" /\ phase = "down" /\ calm \in BOOLEAN
    BY DEF Init
  <2> QED BY <2>1, <2>2 DEF PhaseInv, SuccessMeansAgreement
<1> QED BY <1>1, <1>2, <1>3 DEF IndInv

LEMMA Inductive == IndInv /\ [Next]_vars => IndInv'
<1> SUFFICES ASSUME IndInv, [Next]_vars
             PROVE  IndInv'
  OBVIOUS
<1>1. BookTypeOK' /\ CountsAreHistory'
  BY BookHolds DEF IndInv, BookInv
<1>2. RowsInv' /\ PhaseInv'
  BY RowsHold, PhaseHolds DEF IndInv
<1>3. SuccessMeansAgreement'
  BY <1>2, AgreementHolds DEF IndInv
<1> QED BY <1>1, <1>2, <1>3 DEF IndInv

LEMMA AlwaysIndInv == Spec => []IndInv
BY Established, Inductive, PTL DEF Spec

-----------------------------------------------------------------------------
(* What follows                                                            *)

(***************************************************************************)
(* Every variable has its type through trades, closes, crashes and         *)
(* restarts; no count of detections ever stands at the requirement, so a   *)
(* confirmed detection is acted on in the comparison that confirms it.     *)
(***************************************************************************)
THEOREM TypeCorrect == Spec => []TypeOK
<1>1. IndInv => TypeOK
  BY DEF IndInv, RowsInv, WellFormedRow, RowRecords, States, PhaseInv, TypeOK
<1> QED BY <1>1, AlwaysIndInv, PTL

(***************************************************************************)
(* For any symbols, sizes and tolerance, and any rows a crash left: when   *)
(* the startup reconcile reports success, every listed position is in the  *)
(* table, open, on its side and within the tolerance, every other row is   *)
(* flat but for the listed zeros, and nothing is left to find.             *)
(***************************************************************************)
THEOREM SuccessIsAgreement == Spec => []SuccessMeansAgreement
<1>1. IndInv => SuccessMeansAgreement
  BY DEF IndInv
<1> QED BY <1>1, AlwaysIndInv, PTL

(***************************************************************************)
(* For any number of passes under way and any requirement: the reconciler  *)
(* forgets a position, or closes one, only on as many detections as it     *)
(* requires, none of which was acted on or spoken against, and one         *)
(* directly after the other unless the callers cleared or tracked the      *)
(* position, or a snapshot came without it, in between (F4).               *)
(***************************************************************************)
THEOREM OnlyRepeatedDetectionsCount == Spec => ActsOnRepeatedDetections
<1> DEFINE Reset(s) == /\ missed[s].streak + 1 >= Required \/ missed[s].broken
                       /\ missed[s].total + 1 >= Required
           Closed(p, s) == /\ untracked[s].streak + 1 >= Required \/ untracked[s].broken
                           /\ untracked[s].total + 1 >= Required
                           /\ ~IsTracked(s)
                           /\ closes'[s] = closes[s] \union {snapshot[p].sizes[s]}
<1>1. ASSUME BookTypeOK, CountsAreHistory, NEW p \in Passes, NEW s \in Symbols, Compares(p)
      PROVE  /\ IsTracked(s) /\ positions'[s] = NoPosition => Reset(s)
             /\ closes'[s] /= closes[s] => Closed(p, s)
  <2>1. /\ positions'[s] = PositionAfter(p, s)
        /\ closes'[s] = closes[s] \union EmergencyCloses(p, s)
    BY <1>1 DEF Compares, Running, Compare
  <2>2. /\ missed[s].total = consecutive_missing[s]
        /\ untracked[s].total = consecutive_unknown[s]
        /\ missed[s].streak = missed[s].total \/ missed[s].broken
        /\ untracked[s].streak = untracked[s].total \/ untracked[s].broken
    BY <1>1 DEF CountsAreHistory
  <2>3. IsTracked(s) /\ positions'[s] = NoPosition => Reset(s)
    BY <1>1, <2>1, <2>2, ComparedPosition DEF Confirmed
  <2>4. closes'[s] /= closes[s] => Unknown(p, s) /\ Confirmed(consecutive_unknown[s])
    BY <2>1 DEF EmergencyCloses
  <2> QED BY <2>1, <2>2, <2>3, <2>4 DEF EmergencyCloses, Unknown, Confirmed
<1>2. IndInv /\ [Next]_vars =>
        [ \A p \in Passes, s \in Symbols : Compares(p) =>
            /\ IsTracked(s) /\ positions'[s] = NoPosition =>
                 /\ missed[s].streak + 1 >= Required \/ missed[s].broken
                 /\ missed[s].total + 1 >= Required
            /\ closes'[s] /= closes[s] =>
                 /\ untracked[s].streak + 1 >= Required \/ untracked[s].broken
                 /\ untracked[s].total + 1 >= Required
                 /\ ~IsTracked(s)
                 /\ closes'[s] = closes[s] \union {snapshot[p].sizes[s]} ]_vars
  BY <1>1 DEF IndInv
<1> QED BY <1>2, AlwaysIndInv, PTL DEF Spec, ActsOnRepeatedDetections
=============================================================================
