---------------------------- MODULE EngineProofs ----------------------------
(***************************************************************************)
(* Proofs about Engine, for every value of its constants.                  *)
(***************************************************************************)
EXTENDS Engine, FiniteSetTheorems, SequenceTheorems, TLAPS

\* A non-empty set of naturals has a least element.
LEMMA LeastElement ==
    ASSUME NEW S, S \subseteq Nat, S # {}
    PROVE  \E i \in S : \A j \in S : i <= j
<1>1. IsWellFoundedOn(OpToRel(<, Nat), Nat)
  BY NatLessThanWellFounded
<1>2. PICK i \in S : \A j \in S : ~(<<j, i>> \in OpToRel(<, Nat))
  BY <1>1, WFMin, Zenon
<1>3. \A j \in S : <<j, i>> \in OpToRel(<, Nat) <=> j < i
  BY DEF OpToRel
<1>4. \A j \in S : i <= j
  <2> SUFFICES ASSUME NEW j \in S PROVE i <= j
    OBVIOUS
  <2>1. i \in Nat /\ j \in Nat
    OBVIOUS
  <2>2. ~(j < i)
    BY <1>2, <1>3
  <2> QED BY <2>1, <2>2
<1> QED BY <1>4

\* Pruning drops a prefix of the window, all of it expired (risk.rs:210-218).
LEMMA UnexpiredTail ==
    ASSUME NEW s \in Seq(Int), NEW ts \in Int
    PROVE  \E d \in 0 .. Len(s) :
              /\ Unexpired(s, ts) \in Seq(Int)
              /\ Len(Unexpired(s, ts)) = Len(s) - d
              /\ \A k \in 1 .. Len(s) - d : Unexpired(s, ts)[k] = s[d + k]
              /\ \A k \in 1 .. d : ts - s[k] >= Window
<1>1. DOMAIN s = 1 .. Len(s) /\ Len(s) \in Nat
  OBVIOUS
<1>2. CASE Fresh(s, ts) = {}
  <2>1. \A k \in 1 .. Len(s) : ts - s[k] >= Window
    BY <1>1, <1>2, RiskAssumption DEF Fresh
  <2>2. Unexpired(s, ts) = <<>>
    BY <1>2 DEF Unexpired
  <2>3. /\ Unexpired(s, ts) \in Seq(Int)
        /\ Len(Unexpired(s, ts)) = Len(s) - Len(s)
    BY <1>1, <2>2
  <2>4. Len(s) \in 0 .. Len(s) /\ 1 .. Len(s) - Len(s) = {}
    BY <1>1
  <2> QED BY <2>1, <2>3, <2>4
<1>3. CASE Fresh(s, ts) # {}
  <2>1. Fresh(s, ts) \subseteq 1 .. Len(s)
    BY <1>1 DEF Fresh
  <2> DEFINE first == CHOOSE i \in Fresh(s, ts) : \A j \in Fresh(s, ts) : i <= j
  <2>2. first \in Fresh(s, ts) /\ \A j \in Fresh(s, ts) : first <= j
    <3>1. Fresh(s, ts) \subseteq Nat
      BY <1>1, <2>1
    <3>2. \E i \in Fresh(s, ts) : \A j \in Fresh(s, ts) : i <= j
      BY <1>3, <3>1, LeastElement
    <3> QED BY <3>2
  <2>3. first \in 1 .. Len(s)
    BY <2>1, <2>2
  <2>4. Unexpired(s, ts) = SubSeq(s, first, Len(s))
    BY <1>3 DEF Unexpired
  <2>5. \A k \in 1 .. first - 1 : ts - s[k] >= Window
    <3> SUFFICES ASSUME NEW k \in 1 .. first - 1
                 PROVE  ts - s[k] >= Window
      OBVIOUS
    <3>1. k \in DOMAIN s /\ s[k] \in Int
      BY <1>1, <2>3
    <3>2. k \notin Fresh(s, ts)
      BY <2>2, <2>3, <1>1
    <3> QED BY <3>1, <3>2, RiskAssumption DEF Fresh
  <2> HIDE DEF first
  <2>6. /\ SubSeq(s, first, Len(s)) \in Seq(Int)
        /\ Len(SubSeq(s, first, Len(s))) = Len(s) - first + 1
        /\ \A k \in 1 .. Len(s) - first + 1 :
               SubSeq(s, first, Len(s))[k] = s[first + k - 1]
    <3>1. /\ first \in Int /\ Len(s) \in Int /\ first <= Len(s)
          /\ \A i \in first .. Len(s) : s[i] \in Int
      BY <2>3, <1>1
    <3> QED BY <3>1, SubSeqProperties
  <2> DEFINE d == first - 1
  <2>7. /\ d \in 0 .. Len(s)
        /\ Len(s) - first + 1 = Len(s) - d
    BY <1>1, <2>3
  <2>8. \A k \in 1 .. Len(s) - d : Unexpired(s, ts)[k] = s[d + k]
    <3> SUFFICES ASSUME NEW k \in 1 .. Len(s) - d
                 PROVE  Unexpired(s, ts)[k] = s[d + k]
      OBVIOUS
    <3>1. first + k - 1 = d + k
      BY <1>1, <2>3
    <3> QED BY <2>4, <2>6, <2>7, <3>1
  <2>9. Unexpired(s, ts) \in Seq(Int) /\ Len(Unexpired(s, ts)) = Len(s) - d
    BY <2>4, <2>6, <2>7
  <2> QED
    <3>1. \A k \in 1 .. d : ts - s[k] >= Window
      BY <2>5
    <3> HIDE DEF d
    <3> QED BY <2>7, <2>8, <2>9, <3>1
<1> QED BY <1>2, <1>3

-----------------------------------------------------------------------------
(* Types of the operators                                                  *)

\* Both risk checks and both recorders keep the shape of the RiskEngine.
LEMMA RiskTypes ==
    ASSUME NEW r \in RiskState, NEW ts \in Int
    PROVE  /\ Rollover(r, ts) \in RiskState
           /\ Checked(r, ts) \in RiskState
           /\ NoteOrder(r, ts) \in RiskState
           /\ \A n \in Nat : SetOpenPositions(r, n) \in RiskState
           /\ \A pnl \in Int : RecordRealizedPnl(r, pnl, ts) \in RiskState
<1>1. Day(ts) \in Int
  BY RiskAssumption DEF Day
<1>2. Rollover(r, ts) \in RiskState
  <2>1. CASE Day(ts) = r.day
    BY <2>1 DEF Rollover
  <2>2. CASE Day(ts) # r.day
    <3>1. Rollover(r, ts) =
             [ day |-> Day(ts), dayPnl |-> 0, tripped |-> FALSE,
               kill |-> r.kill, recent |-> r.recent, open |-> r.open ]
      BY <2>2 DEF Rollover, RiskState
    <3>2. 0 \in Int /\ FALSE \in BOOLEAN
      OBVIOUS
    <3> QED BY <1>1, <3>1, <3>2 DEF RiskState
  <2> QED BY <2>1, <2>2
<1>3. Checked(r, ts) \in RiskState
  <2>1. Rollover(r, ts).recent \in Seq(Int)
    BY <1>2 DEF RiskState
  <2>2. Unexpired(Rollover(r, ts).recent, ts) \in Seq(Int)
    BY <2>1, UnexpiredTail
  <2> QED BY <1>2, <2>2 DEF Checked, RiskState
<1>4. NoteOrder(r, ts) \in RiskState
  <2>1. Append(r.recent, ts) \in Seq(Int)
    BY DEF RiskState
  <2> QED BY <2>1 DEF NoteOrder, RiskState
<1>5. \A n \in Nat : SetOpenPositions(r, n) \in RiskState
  BY DEF SetOpenPositions, RiskState
<1>6. ASSUME NEW pnl \in Int
      PROVE  RecordRealizedPnl(r, pnl, ts) \in RiskState
  <2>1. /\ Rollover(r, ts).dayPnl + pnl \in Int
        /\ (Rollover(r, ts).tripped
              \/ LossReached(Rollover(r, ts).dayPnl + pnl)) \in BOOLEAN
    BY <1>2 DEF RiskState
  <2> QED BY <1>2, <2>1 DEF RecordRealizedPnl, RiskState
<1> QED BY <1>2, <1>3, <1>4, <1>5, <1>6

\* What the rules of a position return is a position.
LEMMA PositionTypes ==
    ASSUME NEW pos \in Position, NEW p \in Prices
    PROVE  /\ Observe(pos, p) \in Position
           /\ \A amount \in Int : Filled(pos, amount, p) \in Position
<1>1. p \in Int /\ p > 0 /\ Unit \in Int
  BY StrategyAssumption
<1>2. Unit \div p \in Int
  BY <1>1
<1>3. Observe(pos, p) \in Position
  BY <1>1 DEF Observe, Position, Mode
<1>6. ASSUME NEW amount \in Int
      PROVE  Filled(pos, amount, p) \in Position
  <2>1. amount * (Unit \div p) \in Int
    BY <1>2
  <2>2. Fee \in Int
    BY EngineAssumption
  <2>3. /\ pos.paid + amount \in Int
        /\ pos.qty + amount * (Unit \div p) \in Int
        /\ pos.cost + amount + Fee \in Int
        /\ (IF p > pos.highWater THEN p ELSE pos.highWater) \in Int
    BY <1>1, <2>1, <2>2 DEF Position
  <2> QED BY <1>1, <2>3 DEF Filled, Position
<1> QED BY <1>3, <1>6

\* So is a position before its first fill.
LEMMA NewPositionType ==
    ASSUME NEW p \in Prices, NEW opened \in Int
    PROVE  NewPosition(p, opened) \in Position
<1>1. p \in Int
  BY StrategyAssumption
<1> QED BY <1>1 DEF NewPosition, Position, Mode

\* A failed exit leaves a position.
LEMMA AttemptedType ==
    ASSUME NEW pos \in Position
    PROVE  Attempted(pos) \in Position
<1>1. /\ pos.attempts + 1 \in Nat
      /\ (pos.stuck \/ pos.attempts + 1 >= MaxExitAttempts) \in BOOLEAN
  BY DEF Position
<1> QED BY <1>1 DEF Attempted, Position

\* Sizing and slicing return whole dollars; a funnel has a first slice.
LEMMA SizingTypes ==
    /\ \A e \in Int, d \in Int : PositionBudget(e, d) \in Int
    /\ \A b \in Int : SliceCount(b) \in Nat \ {0}
    /\ \A b \in Int, i \in Nat : Slice(b, i) \in Int
<1>1. \A b \in Int : SliceCount(b) \in Nat \ {0}
  BY StrategyAssumption DEF SliceCount
<1>2. ASSUME NEW b \in Int, NEW i \in Nat
      PROVE  Slice(b, i) \in Int
  <2>1. SliceCount(b) \in Nat /\ SliceCount(b) > 0
    BY <1>1
  <2>2. b \div SliceCount(b) \in Int
    BY <2>1
  <2> QED BY <2>1, <2>2 DEF Slice
<1>3. ASSUME NEW e \in Int, NEW d \in Int
      PROVE  PositionBudget(e, d) \in Int
  <2>1. (e * RiskPct) \div 100 \in Int /\ MaxSinglePos \in Int
    BY StrategyAssumption
  <2> QED BY <2>1 DEF PositionBudget, Least
<1> QED BY <1>1, <1>2, <1>3

\* The sweep that ends every event, from any event and book.
LEMMA SweepingType ==
    ASSUME NEW e \in Event, NEW pos, DOMAIN pos \subseteq Mints
    PROVE  /\ Sweeping(e, pos) \in Event
           /\ Sweeping(e, pos).pc = "sweep"
           /\ Sweeping(e, pos).queue = Due(pos, e.ts)
           /\ Sweeping(e, pos).queue \subseteq DOMAIN pos
           /\ Sweeping(e, pos).ts = e.ts
           /\ Sweeping(e, pos).mint = e.mint
           /\ Sweeping(e, pos).wasKill = e.wasKill
           /\ Sweeping(e, pos).tried = e.tried
           /\ Sweeping(e, pos).unknown = e.unknown
<1>1. Due(pos, e.ts) \subseteq DOMAIN pos
  BY DEF Due
<1> QED BY <1>1 DEF Sweeping, Event

\* A new event.
LEMMA ArrivalType ==
    ASSUME NEW m \in Mints, NEW p \in Prices, NEW ts \in Int, risk \in RiskState
    PROVE  /\ Arrival(m, p, ts) \in Event
           /\ Arrival(m, p, ts).ts = ts
           /\ Arrival(m, p, ts).mint = m
           /\ Arrival(m, p, ts).queue = {}
           /\ Arrival(m, p, ts).wasKill = KillSwitch(risk)
           /\ Arrival(m, p, ts).tried = {}
           /\ Arrival(m, p, ts).unknown = {}
<1>1. KillSwitch(risk) \in BOOLEAN
  BY DEF KillSwitch, RiskState
<1>2. Idle \in Event
  BY DEF Idle, Event
<1>3. Arrival(m, p, ts) \in Event
  BY <1>1, <1>2 DEF Arrival, Event
<1> QED BY <1>3 DEF Arrival, Idle

\* After a sell of m the event sweeps on; m no longer waits in the queue.
LEMMA AfterSellType ==
    ASSUME NEW e \in Event, NEW m \in Mints, NEW pos,
           DOMAIN pos \subseteq Mints, e.queue \ {m} \subseteq DOMAIN pos,
           e.pc \in {"exit", "sweep"}
    PROVE  /\ AfterSell(m, e, pos) \in Event
           /\ AfterSell(m, e, pos).pc = "sweep"
           /\ AfterSell(m, e, pos).queue \subseteq DOMAIN pos
           /\ AfterSell(m, e, pos).ts = e.ts
           /\ AfterSell(m, e, pos).wasKill = e.wasKill
           /\ AfterSell(m, e, pos).tried = e.tried
           /\ e.pc = "exit" => AfterSell(m, e, pos).queue = Due(pos, e.ts)
           /\ e.pc = "sweep" => AfterSell(m, e, pos).queue = e.queue \ {m}
<1>1. CASE e.pc = "exit"
  BY <1>1, SweepingType DEF AfterSell
<1>2. CASE e.pc = "sweep"
  <2>1. AfterSell(m, e, pos) = [e EXCEPT !.queue = e.queue \ {m}]
    BY <1>2 DEF AfterSell
  <2>2. e.queue \ {m} \in SUBSET Mints
    BY DEF Event
  <2> QED BY <1>2, <2>1, <2>2 DEF Event
<1> QED BY <1>1, <1>2

-----------------------------------------------------------------------------
(* Type correctness                                                        *)

\* The times at which an event may arrive are naturals, none in the past.
LEMMA EventTimesType ==
    ASSUME clock \in Nat, NEW ts \in EventTimes
    PROVE  ts \in Nat /\ ts >= clock
<1>1. MaxStep \in Nat /\ MaxClock \in Nat
  BY EngineAssumption
<1> QED BY <1>1 DEF EventTimes, Least

\* Every step keeps the types.
LEMMA TypeStep == TypeOK /\ [Next]_vars => TypeOK'
<1> SUFFICES ASSUME TypeOK, [Next]_vars PROVE TypeOK'
  OBVIOUS
<1>0. /\ Held \subseteq Mints /\ positions \in [Held -> Position]
      /\ risk \in RiskState /\ ev \in Event /\ clock \in Nat
      /\ equity \in Int /\ deployed \in Int
  BY DEF TypeOK
<1>1. ASSUME NEW m \in Mints, NEW price \in Prices, NEW ts \in EventTimes,
             NEW pass \in GateVerdicts(ts), LaunchSkipped(m, price, pass, ts)
      PROVE  TypeOK'
  <2>1. ts \in Nat
    BY <1>0, EventTimesType
  <2>2. Arrival(m, price, ts) \in Event
    BY <1>0, <2>1, ArrivalType
  <2> QED BY <1>0, <1>1, <2>1, <2>2, SweepingType
          DEF LaunchSkipped, Arrives, TypeOK, book, Held
<1>2. ASSUME NEW m \in Mints, NEW price \in Prices, NEW ts \in EventTimes,
             NEW pass \in GateVerdicts(ts), LaunchBlocked(m, price, pass, ts)
      PROVE  TypeOK'
  <2>1. ts \in Nat
    BY <1>0, EventTimesType
  <2>2. Arrival(m, price, ts) \in Event /\ Checked(risk, ts) \in RiskState
    BY <1>0, <2>1, ArrivalType, RiskTypes
  <2> QED BY <1>0, <1>2, <2>1, <2>2, SweepingType
          DEF LaunchBlocked, Arrives, TypeOK, book, Held
<1>3. ASSUME NEW m \in Mints, NEW price \in Prices, NEW ts \in EventTimes,
             NEW pass \in GateVerdicts(ts), LaunchAccepted(m, price, pass, ts)
      PROVE  TypeOK'
  <2>1. ts \in Nat
    BY <1>0, EventTimesType
  <2>2. Arrival(m, price, ts) \in Event /\ Checked(risk, ts) \in RiskState
    BY <1>0, <2>1, ArrivalType, RiskTypes
  <2>3. PositionBudget(equity, deployed) \in Int
    BY <1>0, SizingTypes
  <2>4. ev' \in Event /\ ev'.mint = m /\ ev'.queue = {} /\ ev'.pc = "funnel"
    <3> DEFINE a == Arrival(m, price, ts)
               b == PositionBudget(equity, deployed)
    <3>1. a \in Event /\ a.mint = m /\ a.queue = {}
      BY <1>0, <2>1, <2>2, ArrivalType
    <3>2. ev' = [a EXCEPT !.pc = "funnel", !.slice = 1, !.budget = b]
      BY <1>3 DEF LaunchAccepted
    <3> HIDE DEF a, b
    <3>3. b \in Int
      BY <2>3 DEF b
    <3> QED BY <3>1, <3>2, <3>3 DEF Event
  <2> QED BY <1>0, <1>3, <2>1, <2>2, <2>4
          DEF LaunchAccepted, Arrives, TypeOK, book, Held
<1>4. ASSUME NEW m \in Mints, NEW price \in Prices, NEW ts \in EventTimes,
             TickIgnored(m, price, ts)
      PROVE  TypeOK'
  <2>1. ts \in Nat
    BY <1>0, EventTimesType
  <2>2. Arrival(m, price, ts) \in Event
    BY <1>0, <2>1, ArrivalType
  <2> QED BY <1>0, <1>4, <2>1, <2>2, SweepingType
          DEF TickIgnored, Arrives, TypeOK, book, Held
<1>5. ASSUME NEW m \in Mints, NEW price \in Prices, NEW ts \in EventTimes,
             TickHeld(m, price, ts)
      PROVE  TypeOK'
  <2>1. ts \in Nat /\ m \in Held
    BY <1>0, <1>5, EventTimesType DEF TickHeld
  <2>2. Arrival(m, price, ts) \in Event
    BY <1>0, <2>1, ArrivalType
  <2>3. Held' = Held /\ positions' \in [Held -> Position]
    BY <1>0, <1>5, <2>1, PositionTypes DEF TickHeld, Held
  <2>4. ev' \in Event /\ ev'.queue \subseteq Held /\ ev'.mint = m
          /\ ev'.pc # "funnel"
    <3>1. CASE ExitOnPrice(positions[m], price, ts)
      BY <1>5, <2>1, <2>2, <3>1, <1>0, ArrivalType DEF TickHeld, Event
    <3>2. CASE ~ExitOnPrice(positions[m], price, ts)
      <4>1. ev' = Sweeping(Arrival(m, price, ts), positions')
        BY <1>5, <3>2 DEF TickHeld
      <4>2. DOMAIN positions' = Held /\ Held \subseteq Mints
        BY <1>0, <2>3 DEF Held
      <4> QED BY <1>0, <2>1, <2>2, <4>1, <4>2, ArrivalType, SweepingType
    <3> QED BY <3>1, <3>2
  <2> QED BY <1>0, <1>5, <2>1, <2>3, <2>4
          DEF TickHeld, Arrives, TypeOK
<1>6. ASSUME SliceThrottled PROVE TypeOK'
  <2>1. ev.ts \in Int
    BY <1>0 DEF Event
  <2>2. Checked(risk, ev.ts) \in RiskState
    BY <1>0, <2>1, RiskTypes
  <2> QED BY <1>0, <1>6, <2>2, SweepingType
          DEF SliceThrottled, TypeOK, book, Held
<1>7. ASSUME NEW outcome \in Failures, SliceFailed(outcome) PROVE TypeOK'
  <2>1. ev.ts \in Int /\ ev.mint \in Mints
    BY <1>0, <1>7 DEF Event, TypeOK, SliceFailed, SliceSent
  <2>2. Granted \in RiskState
    BY <1>0, <2>1, RiskTypes DEF Granted
  <2>3. orderSeq' \in Nat /\ sent' \in Seq(Sent)
    BY <1>7, <2>1 DEF SliceFailed, SliceSent, Submit, TypeOK, Sent
  <2>4. [ev EXCEPT !.unknown = @ \cup {ev.mint}] \in Event
    BY <1>0, <2>1 DEF Event
  <2>5. ev' \in Event /\ ev'.queue \subseteq Held /\ ev'.pc = "sweep"
    BY <1>0, <1>7, <2>4, SweepingType DEF SliceFailed, Held
  <2> QED BY <1>0, <1>7, <2>2, <2>3, <2>5
          DEF SliceFailed, TypeOK, book, Held
<1>8. ASSUME NEW p \in Prices, NEW delay \in FillDelays, SliceFilled(p, delay)
      PROVE  TypeOK'
  <2> DEFINE m == ev.mint
             amount == Slice(ev.budget, ev.slice)
             before == IF m \in Held THEN positions[m]
                                     ELSE NewPosition(p, ev.ts + delay)
  <2>1. /\ ev.ts \in Int /\ m \in Mints /\ ev.budget \in Int
        /\ ev.slice \in Nat /\ delay \in Nat /\ Fee \in Int
    BY <1>0, <1>8, EngineAssumption
    DEF Event, TypeOK, SliceFilled, SliceSent
  <2>2. orderSeq' \in Nat /\ sent' \in Seq(Sent)
    BY <1>8, <2>1 DEF SliceFilled, SliceSent, Submit, TypeOK, Sent
  <2>3. amount \in Int
    BY <2>1, SizingTypes
  <2>4. before \in Position
    <3>1. ev.ts + delay \in Int
      BY <2>1
    <3>2. NewPosition(p, ev.ts + delay) \in Position
      BY <3>1, NewPositionType
    <3>3. CASE m \in Held
      BY <1>0, <3>3
    <3>4. CASE m \notin Held
      BY <3>2, <3>4
    <3> QED BY <3>3, <3>4
  <2>5. Filled(before, amount, p) \in Position
    BY <2>3, <2>4, PositionTypes
  <2> HIDE DEF before
  <2>6. positions' = [x \in Held \cup {m} |->
                         IF x = m THEN Filled(before, amount, p)
                                  ELSE positions[x]]
    BY <1>8 DEF SliceFilled, before
  <2>7. /\ Held' = Held \cup {m} /\ Held' \subseteq Mints
        /\ positions' \in [Held' -> Position]
    BY <1>0, <2>1, <2>5, <2>6 DEF Held
  <2>8. IsFiniteSet(Held') /\ Cardinality(Held') \in Nat
    BY <2>7, EngineAssumption, FS_Subset, FS_CardinalityType
  <2>9. risk' \in RiskState
    <3>1. Granted \in RiskState
      BY <1>0, <2>1, RiskTypes DEF Granted
    <3> QED BY <1>8, <2>1, <2>8, <3>1, RiskTypes DEF SliceFilled, Held
  <2>10. /\ ev' \in Event /\ ev'.queue \subseteq Held'
         /\ ev'.mint = m /\ ev'.pc # "exit"
    <3>1. CASE ev.slice < SliceCount(ev.budget)
      <4>1. ev' = [ev EXCEPT !.slice = ev.slice + 1] /\ ev.pc = "funnel"
        BY <1>8, <3>1 DEF SliceFilled, SliceSent
      <4>2. ev.slice + 1 \in Nat /\ ev.queue \subseteq Held
        BY <2>1 DEF TypeOK
      <4>3. ev' \in Event /\ ev'.queue = ev.queue /\ ev'.mint = ev.mint
              /\ ev'.pc = "funnel"
        BY <1>0, <4>1, <4>2 DEF Event
      <4> QED BY <2>7, <4>2, <4>3
    <3>2. CASE ~(ev.slice < SliceCount(ev.budget))
      BY <1>0, <1>8, <3>2, <2>7, SweepingType DEF SliceFilled, Held
    <3> QED BY <3>1, <3>2
  <2>11. deployed' \in Int /\ clock' \in Nat
    BY <1>0, <1>8, <2>1, <2>3 DEF SliceFilled
  <2> HIDE DEF m
  <2>12. equity' \in Int /\ closed' \in Seq(Trade) /\ log' \in Log
    BY <1>8 DEF SliceFilled, TypeOK
  <2> QED BY <2>1, <2>2, <2>7, <2>9, <2>10, <2>11, <2>12 DEF TypeOK
<1>9. ASSUME NEW m \in Mints, NEW outcome \in Failures, SellFailed(m, outcome)
      PROVE  TypeOK'
  <2>1. m \in Held /\ ev.ts \in Int /\ ev.pc \in {"exit", "sweep"}
    BY <1>0, <1>9 DEF SellFailed, Selling, TypeOK, Event
  <2>2. risk' \in RiskState
    BY <1>0, <1>9, <2>1, RiskTypes DEF SellFailed
  <2>3. orderSeq' \in Nat /\ sent' \in Seq(Sent)
    BY <1>9, <2>1 DEF SellFailed, Submit, TypeOK, Sent
  <2>4. Attempted(positions[m]) \in Position
    BY <1>0, <2>1, AttemptedType
  <2>5. Held' = Held /\ positions' \in [Held -> Position]
    BY <1>0, <1>9, <2>1, <2>4 DEF SellFailed, Held
  <2>6. ev' \in Event /\ ev'.queue \subseteq Held' /\ ev'.pc = "sweep"
    <3> DEFINE u == IF outcome = "Transport" THEN ev.unknown \cup {m}
                                             ELSE ev.unknown
               e == [ev EXCEPT !.tried = ev.tried \cup {m}, !.unknown = u]
    <3>1. u \in SUBSET Mints /\ ev.tried \cup {m} \in SUBSET Mints
      BY <1>0 DEF Event
    <3>2. ev' = AfterSell(m, e, positions')
      BY <1>9 DEF SellFailed
    <3> HIDE DEF u
    <3>3. e \in Event /\ e.pc = ev.pc /\ e.queue = ev.queue
      BY <1>0, <3>1 DEF Event
    <3> HIDE DEF e
    <3>4. ev.pc \in {"exit", "sweep"} /\ ev.queue \subseteq Held
      BY <1>9 DEF SellFailed, Selling, TypeOK
    <3> QED BY <1>0, <2>5, <3>2, <3>3, <3>4, AfterSellType DEF Held
  <2>7. /\ equity' \in Int /\ deployed' \in Int /\ closed' \in Seq(Trade)
        /\ clock' \in Nat /\ log' \in Log
    BY <1>9 DEF SellFailed, TypeOK
  <2> QED BY <1>0, <2>2, <2>3, <2>5, <2>6, <2>7 DEF TypeOK
<1>10. ASSUME NEW m \in Mints, NEW p \in Prices, NEW delay \in FillDelays,
              SellFilled(m, p, delay)
       PROVE  TypeOK'
  <2> DEFINE proceeds == (p * positions[m].qty) \div Unit - Fee
             pnl == proceeds - positions[m].cost
             after == RecordRealizedPnl(NoteOrder(risk, ev.ts), pnl, ev.ts)
  <2>1. /\ m \in Held /\ ev.ts \in Int /\ delay \in Nat
        /\ ev.pc \in {"exit", "sweep"}
    BY <1>0, <1>10, EngineAssumption
    DEF SellFilled, Selling, TypeOK, Event
  <2>2. /\ positions[m].qty \in Int /\ positions[m].cost \in Int
        /\ p \in Int /\ Fee \in Int /\ Unit \in Nat /\ Unit > 0
    BY <1>0, <2>1, EngineAssumption, StrategyAssumption DEF Position
  <2>3. proceeds \in Int /\ pnl \in Int
    <3>1. p * positions[m].qty \in Int
      BY <2>2
    <3>2. (p * positions[m].qty) \div Unit \in Int
      BY <2>2, <3>1
    <3> QED BY <2>2, <3>2
  <2>4. /\ Held' = Held \ {m} /\ Held' \subseteq Mints
        /\ positions' \in [Held' -> Position]
    <3>1. positions' = [x \in Held \ {m} |-> positions[x]]
      <4>1. positions' = Restrict(positions, Held \ {m})
        BY <1>10 DEF SellFilled
      <4> QED BY <4>1 DEF Restrict
    <3> QED BY <1>0, <3>1 DEF Held
  <2>5. Cardinality(Held') \in Nat
    BY <2>4, EngineAssumption, FS_Subset, FS_CardinalityType
  <2>6. risk' \in RiskState
    <3>1. NoteOrder(risk, ev.ts) \in RiskState
      BY <1>0, <2>1, RiskTypes
    <3>2. after \in RiskState
      BY <2>1, <2>3, <3>1, RiskTypes
    <3>3. risk' = SetOpenPositions(after, Cardinality(Held'))
      BY <1>10 DEF SellFilled, Held
    <3> HIDE DEF after
    <3> QED BY <2>1, <2>5, <3>2, <3>3, RiskTypes
  <2>7. orderSeq' \in Nat /\ sent' \in Seq(Sent)
    BY <1>10, <2>1 DEF SellFilled, Submit, TypeOK, Sent
  <2>8. closed' \in Seq(Trade)
    <3>1. Day(ev.ts) \in Int
      BY <2>1, RiskAssumption DEF Day
    <3>2. closed' = Append(closed, [mint |-> m, cost |-> positions[m].cost,
                                    proceeds |-> proceeds, pnl |-> pnl,
                                    day |-> Day(ev.ts)])
      BY <1>10 DEF SellFilled
    <3> HIDE DEF proceeds, pnl
    <3> QED BY <2>2, <2>3, <3>1, <3>2 DEF TypeOK, Trade
  <2>9. equity' \in Int /\ deployed' \in Int /\ clock' \in Nat
    <3>1. equity' = equity + pnl /\ deployed' = deployed - positions[m].cost
            /\ clock' = clock + delay
      BY <1>10 DEF SellFilled
    <3> HIDE DEF pnl
    <3> QED BY <1>0, <2>1, <2>2, <2>3, <3>1
  <2>10. log' \in Log
    <3>1. log \in Log /\ log.trips + 1 \in Nat /\ log.breakers + 1 \in Nat
      BY DEF TypeOK, Log
    <3>2. \E a \in Nat, b \in Nat : log' = [log EXCEPT !.trips = a, !.breakers = b]
      BY <1>10, <3>1 DEF SellFilled, Log
    <3> QED BY <3>1, <3>2 DEF Log
  <2>11. ev' \in Event /\ ev'.queue \subseteq Held' /\ ev'.pc = "sweep"
    <3> DEFINE e == [ev EXCEPT !.tried = ev.tried \cup {m}]
    <3>1. ev' = AfterSell(m, e, positions')
      BY <1>10 DEF SellFilled
    <3>2. e \in Event /\ e.pc = ev.pc /\ e.queue = ev.queue
      BY <1>0 DEF Event
    <3> HIDE DEF e
    <3>3. ev.pc \in {"exit", "sweep"} /\ ev.queue \ {m} \subseteq Held'
      BY <1>10, <2>4 DEF SellFilled, Selling, TypeOK
    <3> QED BY <2>4, <3>1, <3>2, <3>3, AfterSellType DEF Held
  <2> QED BY <2>4, <2>6, <2>7, <2>8, <2>9, <2>10, <2>11 DEF TypeOK
<1>11. ASSUME EndEvent PROVE TypeOK'
  <2>1. Idle \in Event /\ Idle.queue = {} /\ Idle.pc = "idle"
    BY DEF Idle, Event
  <2>2. log' \in Log
    <3>1. log \in Log /\ log.pages \in Nat /\ log.pages + 1 \in Nat
      BY DEF TypeOK, Log
    <3>2. (IF BreakerEdge THEN log.pages + 1 ELSE log.pages) \in Nat
      BY <3>1
    <3> QED BY <1>11, <3>1, <3>2 DEF EndEvent, Log
  <2> QED BY <1>11, <2>1, <2>2 DEF EndEvent, TypeOK, book, Held
<1>12. CASE UNCHANGED vars
  BY <1>12 DEF vars, TypeOK, Held
<1> QED BY <1>1, <1>2, <1>3, <1>4, <1>5, <1>6, <1>7, <1>8, <1>9, <1>10,
           <1>11, <1>12 DEF Next, Arrive, Order, Quiet

\* The engine starts with the right types.
LEMMA InitType == Init => TypeOK
<1> SUFFICES ASSUME Init PROVE TypeOK
  OBVIOUS
<1>1. risk \in RiskState
  <2>1. Day(0) \in Int
    BY RiskAssumption DEF Day
  <2>2. <<>> \in Seq(Int) /\ 0 \in Int /\ 0 \in Nat /\ FALSE \in BOOLEAN
    OBVIOUS
  <2> QED BY <2>1, <2>2, RiskAssumption DEF Init, NewRisk, RiskState
<1>2. ev \in Event /\ ev.queue = {} /\ ev.pc = "idle"
  BY DEF Init, Idle, Event
<1>3. Held = {} /\ positions \in [Held -> Position]
  BY DEF Init, Held
<1>4. closed \in Seq(Trade) /\ sent \in Seq(Sent) /\ log \in Log
  BY DEF Init, Log
<1> QED BY <1>1, <1>2, <1>3, <1>4, RiskAssumption DEF Init, TypeOK

\* Every variable keeps its type, and the event being handled only names
\* positions that the book holds.
THEOREM TypeCorrect == Spec => []TypeOK
BY InitType, TypeStep, PTL DEF Spec
=============================================================================
