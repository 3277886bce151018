------------------------- MODULE EngineSafetyProofs -------------------------
(***************************************************************************)
(* The safety properties of Engine and of its restarts in Recovery, for    *)
(* every value of the constants.                                           *)
(* Every proof splits on what a step does to the event in progress         *)
(* (StepCases); the effects of the record operators are stated once.       *)
(***************************************************************************)
EXTENDS EngineProofs, Recovery

-----------------------------------------------------------------------------
(* Effects on the RiskEngine record                                        *)

\* Both checks: the day is today's, an engaged breaker may be released, and
\* nothing else but the window changes (risk.rs:153-156, 187-189).
LEMMA CheckedEffect ==
    ASSUME NEW r \in RiskState, NEW ts \in Int
    PROVE  /\ Checked(r, ts).day = Day(ts)
           /\ Checked(r, ts).open = r.open
           /\ Checked(r, ts).recent = Unexpired(r.recent, ts)
           /\ KillSwitch(Checked(r, ts)) => KillSwitch(r)
           /\ Day(ts) = r.day =>
                /\ Checked(r, ts).dayPnl = r.dayPnl
                /\ KillSwitch(Checked(r, ts)) = KillSwitch(r)
<1> DEFINE rolled == Rollover(r, ts)
<1>1. rolled \in RiskState
  BY RiskTypes
<1>2. /\ rolled.day = Day(ts) /\ rolled.open = r.open
      /\ rolled.recent = r.recent /\ rolled.kill = r.kill
      /\ rolled.tripped => r.tripped
      /\ Day(ts) = r.day => rolled = r
  BY DEF Rollover, RiskState
<1>3. Checked(r, ts) = [rolled EXCEPT !.recent = Unexpired(r.recent, ts)]
  BY <1>2 DEF Checked
<1> HIDE DEF rolled
<1>4. /\ Checked(r, ts).day = rolled.day /\ Checked(r, ts).open = rolled.open
      /\ Checked(r, ts).recent = Unexpired(r.recent, ts)
      /\ Checked(r, ts).kill = rolled.kill
      /\ Checked(r, ts).tripped = rolled.tripped
      /\ Checked(r, ts).dayPnl = rolled.dayPnl
  BY <1>1, <1>3 DEF RiskState
<1> QED BY <1>1, <1>2, <1>4 DEF KillSwitch, RiskState

\* A granted slice: checked, and in the window.
LEMMA GrantedEffect ==
    ASSUME TypeOK
    PROVE  /\ Granted.day = Day(ev.ts)
           /\ Granted.open = risk.open
           /\ Granted.recent = Append(Unexpired(risk.recent, ev.ts), ev.ts)
           /\ KillSwitch(Granted) => KillSwitch(risk)
           /\ Day(ev.ts) = risk.day => /\ Granted.dayPnl = risk.dayPnl
                                       /\ KillSwitch(Granted) = KillSwitch(risk)
<1>1. risk \in RiskState /\ ev.ts \in Int
  BY DEF TypeOK, Event
<1>2. Checked(risk, ev.ts) \in RiskState
  BY <1>1, RiskTypes
<1>3. /\ Granted.day = Checked(risk, ev.ts).day
      /\ Granted.open = Checked(risk, ev.ts).open
      /\ Granted.recent = Append(Checked(risk, ev.ts).recent, ev.ts)
      /\ Granted.kill = Checked(risk, ev.ts).kill
      /\ Granted.tripped = Checked(risk, ev.ts).tripped
      /\ Granted.dayPnl = Checked(risk, ev.ts).dayPnl
  BY <1>2 DEF Granted, NoteOrder, RiskState
<1> QED BY <1>1, <1>3, CheckedEffect DEF KillSwitch

\* A sell that is noted, booked and counted: a breaker that it engages is
\* one that tripped on this very trade (risk.rs:108-119).
LEMMA BookedEffect ==
    ASSUME NEW r \in RiskState, NEW ts \in Int, NEW pnl \in Int, NEW n \in Nat
    PROVE  LET noted == NoteOrder(r, ts)
               after == RecordRealizedPnl(noted, pnl, ts)
               told  == SetOpenPositions(after, n)
           IN /\ told.open = n
              /\ told.recent = Append(r.recent, ts)
              /\ KillSwitch(told) = KillSwitch(after)
              /\ ~KillSwitch(r) /\ KillSwitch(after) =>
                    after.tripped /\ ~Rollover(noted, ts).tripped
<1> DEFINE noted == NoteOrder(r, ts)
           rolled == Rollover(noted, ts)
           after == RecordRealizedPnl(noted, pnl, ts)
           told  == SetOpenPositions(after, n)
<1>1. noted \in RiskState /\ noted.recent = Append(r.recent, ts)
        /\ noted.kill = r.kill /\ noted.tripped = r.tripped
  BY RiskTypes DEF NoteOrder, RiskState
<1> HIDE DEF noted
<1>2. rolled \in RiskState /\ after \in RiskState
  BY <1>1, RiskTypes
<1>3. /\ rolled.recent = noted.recent /\ rolled.kill = noted.kill
      /\ rolled.tripped => noted.tripped
  BY <1>1 DEF Rollover, RiskState
<1>4. after.recent = rolled.recent /\ after.kill = rolled.kill
  BY <1>2 DEF RecordRealizedPnl, RiskState
<1> HIDE DEF after, rolled
<1>5. /\ told.open = n /\ told.recent = after.recent
      /\ told.kill = after.kill /\ told.tripped = after.tripped
  BY <1>2 DEF SetOpenPositions, RiskState
<1> HIDE DEF told
<1> QED BY <1>1, <1>2, <1>3, <1>4, <1>5 DEF KillSwitch, noted, rolled, after, told, RiskState

-----------------------------------------------------------------------------
(* What a step does, as the proofs see it                                  *)

\* An event arrives at ts.
Arriving(ts) ==
    /\ ev.pc = "idle" /\ ts \in Nat /\ ts >= clock /\ clock' = ts
    /\ ev'.ts = ts /\ ev'.tried = {} /\ ev'.wasKill = KillSwitch(risk)
    /\ Held' = Held
    /\ UNCHANGED <<equity, deployed, closed, orderSeq, sent, log>>

\* It goes straight to the sweep.
StepSkips(ts) ==
    /\ Arriving(ts)
    /\ ev'.pc = "sweep" /\ ev'.queue = Due(positions, ts)
    /\ positions' = positions
    /\ risk' \in {risk, Checked(risk, ts)}

\* It starts a funnel.
StepFunnels(m, ts) ==
    /\ Arriving(ts)
    /\ m \in Mints \ Held
    /\ ev'.pc = "funnel" /\ ev'.mint = m /\ ev'.slice = 1 /\ ev'.queue = {}
    /\ ev'.budget = PositionBudget(equity, deployed) /\ ev'.budget > 0
    /\ positions' = positions
    /\ risk' = Checked(risk, ts) /\ EntryAllowed(risk')

\* It is a tick of a held token, which is sold next or swept with the others.
StepTicks(m, price, ts) ==
    /\ Arriving(ts)
    /\ m \in Held
    /\ ev'.mint = m
    /\ \/ ev'.pc = "exit" /\ ev'.queue = {}
       \/ ev'.pc = "sweep" /\ ev'.queue = Due(positions', ts)
    /\ positions' = [positions EXCEPT ![m] = Observe(@, price)]
    /\ risk' = risk

\* The event goes on.
Going ==
    /\ ev.pc # "idle"
    /\ ev'.ts = ev.ts /\ ev'.wasKill = ev.wasKill

\* The funnel ends short, the last slice sent or not.
StepCuts ==
    /\ Going /\ ev.pc = "funnel"
    /\ ev'.pc = "sweep" /\ ev'.queue = Due(positions, ev.ts)
    /\ ev'.tried = ev.tried
    /\ UNCHANGED <<book, clock, log>>
    /\ \/ risk' = Checked(risk, ev.ts) /\ UNCHANGED <<orderSeq, sent>>
       \/ SliceSent /\ risk' = Granted

\* A slice fills.
StepFills(p, delay) ==
    /\ Going /\ SliceFilled(p, delay)
    /\ Held' = Held \cup {ev.mint}
    /\ ev'.tried = ev.tried
    /\ \/ /\ ev'.pc = "funnel" /\ ev.slice < SliceCount(ev.budget)
          /\ ev'.slice = ev.slice + 1 /\ ev'.budget = ev.budget
          /\ ev'.mint = ev.mint /\ ev'.queue = ev.queue
       \/ /\ ev'.pc = "sweep" /\ ev.slice >= SliceCount(ev.budget)
          /\ ev'.queue = Due(positions', ev.ts)

\* A sell of m was tried; the event sweeps on.
Sold(m) ==
    /\ Going /\ Selling(m) /\ m \in Held
    /\ Submit(m)
    /\ ev'.pc = "sweep" /\ ev'.tried = ev.tried \cup {m}
    /\ \/ ev.pc = "exit" /\ ev.mint = m /\ ev'.queue = Due(positions', ev.ts)
       \/ ev.pc = "sweep" /\ ev'.queue = ev.queue \ {m}

\* It failed.
StepFails(m) ==
    /\ Sold(m)
    /\ Held' = Held
    /\ positions' = [positions EXCEPT ![m] = Attempted(@)]
    /\ risk' = NoteOrder(risk, ev.ts)
    /\ UNCHANGED <<equity, deployed, closed, clock, log>>

\* It filled.
StepSells(m, p, delay) ==
    /\ Sold(m) /\ SellFilled(m, p, delay)
    /\ Held' = Held \ {m}
    /\ positions' = [x \in Held \ {m} |-> positions[x]]

\* An arrival sets the event's time, its history and the breaker it saw.
LEMMA ArrivalEffect ==
    ASSUME TypeOK, NEW m \in Mints, NEW p \in Prices, NEW ts \in Nat
    PROVE  LET a == Arrival(m, p, ts)
               s(pos) == Sweeping(a, pos)
           IN /\ a \in Event
              /\ a.ts = ts /\ a.tried = {} /\ a.wasKill = KillSwitch(risk)
              /\ a.mint = m /\ a.queue = {}
              /\ \A pos : DOMAIN pos \subseteq Mints =>
                    /\ s(pos).ts = ts /\ s(pos).tried = {}
                    /\ s(pos).wasKill = KillSwitch(risk) /\ s(pos).mint = m
                    /\ s(pos).pc = "sweep" /\ s(pos).queue = Due(pos, ts)
<1>1. risk \in RiskState /\ ts \in Int
  BY DEF TypeOK
<1>2. /\ Arrival(m, p, ts) \in Event
      /\ Arrival(m, p, ts).ts = ts /\ Arrival(m, p, ts).tried = {}
      /\ Arrival(m, p, ts).wasKill = KillSwitch(risk)
      /\ Arrival(m, p, ts).mint = m /\ Arrival(m, p, ts).queue = {}
  BY <1>1, ArrivalType
<1> QED BY <1>2, SweepingType

\* Every step of the engine is one of these.
LEMMA StepCases ==
    ASSUME TypeOK, Next
    PROVE  \/ \E ts \in EventTimes : StepSkips(ts)
           \/ \E m \in Mints, ts \in EventTimes : StepFunnels(m, ts)
           \/ \E m \in Mints, p \in Prices, ts \in EventTimes :
                  StepTicks(m, p, ts)
           \/ StepCuts
           \/ \E p \in Prices, delay \in FillDelays : StepFills(p, delay)
           \/ \E m \in Mints : StepFails(m)
           \/ \E m \in Mints, p \in Prices, delay \in FillDelays :
                  StepSells(m, p, delay)
           \/ EndEvent
           \/ UNCHANGED vars
<1>0. /\ Held \subseteq Mints /\ positions \in [Held -> Position]
      /\ risk \in RiskState /\ ev \in Event /\ clock \in Nat
  BY DEF TypeOK
<1>1. ASSUME NEW m \in Mints, NEW price \in Prices, NEW ts \in EventTimes,
             NEW pass \in GateVerdicts(ts),
             \/ LaunchSkipped(m, price, pass, ts)
             \/ LaunchBlocked(m, price, pass, ts)
      PROVE  StepSkips(ts)
  <2>1. ts \in Nat /\ ts >= clock
    BY <1>0, EventTimesType
  <2>2. ev' = Sweeping(Arrival(m, price, ts), positions)
    BY <1>1 DEF LaunchSkipped, LaunchBlocked
  <2>3. /\ ev'.ts = ts /\ ev'.tried = {} /\ ev'.wasKill = KillSwitch(risk)
        /\ ev'.pc = "sweep" /\ ev'.queue = Due(positions, ts)
    BY <1>0, <2>1, <2>2, ArrivalEffect DEF Held
  <2> QED BY <1>1, <2>1, <2>3
          DEF StepSkips, Arriving, LaunchSkipped, LaunchBlocked, Arrives,
              book, Held
<1>2. ASSUME NEW m \in Mints, NEW price \in Prices, NEW ts \in EventTimes,
             TickIgnored(m, price, ts)
      PROVE  StepSkips(ts)
  <2>1. ts \in Nat /\ ts >= clock
    BY <1>0, EventTimesType
  <2>2. ev' = Sweeping(Arrival(m, price, ts), positions)
    BY <1>2 DEF TickIgnored
  <2>3. /\ ev'.ts = ts /\ ev'.tried = {} /\ ev'.wasKill = KillSwitch(risk)
        /\ ev'.pc = "sweep" /\ ev'.queue = Due(positions, ts)
    BY <1>0, <2>1, <2>2, ArrivalEffect DEF Held
  <2> QED BY <1>2, <2>1, <2>3
          DEF StepSkips, Arriving, TickIgnored, Arrives, book, Held
<1>3. ASSUME NEW m \in Mints, NEW price \in Prices, NEW ts \in EventTimes,
             NEW pass \in GateVerdicts(ts), LaunchAccepted(m, price, pass, ts)
      PROVE  StepFunnels(m, ts)
  <2> DEFINE a == Arrival(m, price, ts)
             b == PositionBudget(equity, deployed)
  <2>1. ts \in Nat /\ ts >= clock
    BY <1>0, EventTimesType
  <2>2. /\ a \in Event /\ a.ts = ts /\ a.tried = {}
        /\ a.wasKill = KillSwitch(risk) /\ a.mint = m /\ a.queue = {}
    BY <2>1, ArrivalEffect
  <2>3. ev' = [a EXCEPT !.pc = "funnel", !.slice = 1, !.budget = b]
    BY <1>3 DEF LaunchAccepted
  <2> HIDE DEF a, b
  <2>4. /\ ev'.ts = ts /\ ev'.tried = {} /\ ev'.wasKill = KillSwitch(risk)
        /\ ev'.pc = "funnel" /\ ev'.mint = m /\ ev'.slice = 1
        /\ ev'.queue = {} /\ ev'.budget = b
    BY <2>2, <2>3 DEF Event
  <2>5. ev'.budget = PositionBudget(equity, deployed)
    BY <2>4 DEF b
  <2> QED BY <1>3, <2>1, <2>4, <2>5
          DEF StepFunnels, Arriving, LaunchAccepted, Arrives, book, Held
<1>4. ASSUME NEW m \in Mints, NEW price \in Prices, NEW ts \in EventTimes,
             TickHeld(m, price, ts)
      PROVE  StepTicks(m, price, ts)
  <2> DEFINE a == Arrival(m, price, ts)
  <2>1. ts \in Nat /\ ts >= clock
    BY <1>0, EventTimesType
  <2>2. positions' = [positions EXCEPT ![m] = Observe(@, price)]
    BY <1>4 DEF TickHeld
  <2>3. Held' = Held
    BY <2>2 DEF Held
  <2>4. /\ ev'.ts = ts /\ ev'.tried = {} /\ ev'.wasKill = KillSwitch(risk)
        /\ ev'.mint = m
        /\ \/ ev'.pc = "exit" /\ ev'.queue = {}
           \/ ev'.pc = "sweep" /\ ev'.queue = Due(positions', ts)
    <3>1. CASE ExitOnPrice(positions[m], price, ts)
      <4>1. ev' = [a EXCEPT !.pc = "exit"]
        BY <1>4, <3>1 DEF TickHeld
      <4>2. /\ a \in Event /\ a.ts = ts /\ a.tried = {}
            /\ a.wasKill = KillSwitch(risk) /\ a.mint = m /\ a.queue = {}
        BY <2>1, ArrivalEffect
      <4> HIDE DEF a
      <4> QED BY <4>1, <4>2 DEF Event
    <3>2. CASE ~ExitOnPrice(positions[m], price, ts)
      <4>1. ev' = Sweeping(a, positions')
        BY <1>4, <3>2 DEF TickHeld
      <4>2. DOMAIN positions' \subseteq Mints
        BY <1>0, <2>3 DEF Held
      <4> QED BY <2>1, <4>1, <4>2, ArrivalEffect
    <3> QED BY <3>1, <3>2
  <2> QED BY <1>4, <2>1, <2>2, <2>3, <2>4
          DEF StepTicks, Arriving, TickHeld, Arrives
<1>5. ASSUME SliceThrottled PROVE StepCuts
  <2>1. /\ ev'.ts = ev.ts /\ ev'.wasKill = ev.wasKill /\ ev'.tried = ev.tried
        /\ ev'.pc = "sweep" /\ ev'.queue = Due(positions, ev.ts)
    BY <1>0, <1>5, SweepingType DEF SliceThrottled, Held
  <2> QED BY <1>5, <2>1 DEF StepCuts, Going, SliceThrottled
<1>6. ASSUME NEW outcome \in Failures, SliceFailed(outcome) PROVE StepCuts
  <2> DEFINE e == IF outcome = "Transport"
                    THEN [ev EXCEPT !.unknown = @ \cup {ev.mint}] ELSE ev
  <2>1. ev.mint \in Mints /\ ev.pc = "funnel"
    BY <1>6 DEF TypeOK, SliceFailed, SliceSent
  <2>2. e \in Event /\ e.ts = ev.ts /\ e.wasKill = ev.wasKill
          /\ e.tried = ev.tried
    BY <1>0, <2>1 DEF Event
  <2>3. ev' = Sweeping(e, positions)
    BY <1>6 DEF SliceFailed
  <2> HIDE DEF e
  <2>4. /\ ev'.ts = ev.ts /\ ev'.wasKill = ev.wasKill /\ ev'.tried = ev.tried
        /\ ev'.pc = "sweep" /\ ev'.queue = Due(positions, ev.ts)
    BY <1>0, <2>2, <2>3, SweepingType DEF Held
  <2> QED BY <1>6, <2>1, <2>4 DEF StepCuts, Going, SliceFailed
<1>7. ASSUME NEW p \in Prices, NEW delay \in FillDelays, SliceFilled(p, delay)
      PROVE  StepFills(p, delay)
  <2>1. ev.pc = "funnel" /\ ev.mint \in Mints
    BY <1>7 DEF SliceFilled, SliceSent, TypeOK
  <2>2. Held' = Held \cup {ev.mint}
    BY <1>7 DEF SliceFilled, Held
  <2>3. CASE ev.slice < SliceCount(ev.budget)
    <3>1. ev' = [ev EXCEPT !.slice = ev.slice + 1]
      BY <1>7, <2>3 DEF SliceFilled
    <3>2. /\ ev'.ts = ev.ts /\ ev'.wasKill = ev.wasKill
          /\ ev'.tried = ev.tried /\ ev'.pc = "funnel"
          /\ ev'.slice = ev.slice + 1 /\ ev'.budget = ev.budget
          /\ ev'.mint = ev.mint /\ ev'.queue = ev.queue
      BY <1>0, <2>1, <3>1 DEF Event
    <3> QED BY <1>7, <2>1, <2>2, <2>3, <3>2 DEF StepFills, Going
  <2>4. CASE ~(ev.slice < SliceCount(ev.budget))
    <3>1. ev' = Sweeping(ev, positions')
      BY <1>7, <2>4 DEF SliceFilled
    <3>2. DOMAIN positions' \subseteq Mints
      BY <1>0, <2>1, <2>2 DEF Held
    <3>3. /\ ev'.ts = ev.ts /\ ev'.wasKill = ev.wasKill
          /\ ev'.tried = ev.tried /\ ev'.pc = "sweep"
          /\ ev'.queue = Due(positions', ev.ts)
      BY <1>0, <3>1, <3>2, SweepingType
    <3>4. ev.slice >= SliceCount(ev.budget)
      <4>1. ev.slice \in Nat /\ ev.budget \in Int
        BY <1>0 DEF Event
      <4>2. SliceCount(ev.budget) \in Nat
        BY <4>1, SizingTypes
      <4> QED BY <2>4, <4>1, <4>2
    <3> QED BY <1>7, <2>1, <2>2, <3>3, <3>4 DEF StepFills, Going
  <2> QED BY <2>3, <2>4
<1>8. ASSUME NEW m \in Mints, Selling(m), NEW e \in Event, e.pc = ev.pc,
             e.queue = ev.queue, e.ts = ev.ts, e.wasKill = ev.wasKill,
             e.tried = ev.tried \cup {m}, ev' = AfterSell(m, e, positions'),
             Held' \in {Held, Held \ {m}}, Submit(m)
      PROVE  Sold(m)
  <2>1. /\ ev.pc \in {"exit", "sweep"} /\ m \in Held
        /\ ev.pc = "exit" => ev.mint = m
    BY <1>8 DEF Selling, TypeOK
  <2>2. DOMAIN positions' \subseteq Mints /\ e.queue \ {m} \subseteq DOMAIN positions'
    BY <1>0, <1>8 DEF Held, TypeOK
  <2>3. /\ ev'.pc = "sweep" /\ ev'.ts = e.ts /\ ev'.wasKill = e.wasKill
        /\ ev'.tried = e.tried
        /\ e.pc = "exit" => ev'.queue = Due(positions', e.ts)
        /\ e.pc = "sweep" => ev'.queue = e.queue \ {m}
    BY <1>8, <2>1, <2>2, AfterSellType
  <2> QED BY <1>8, <2>1, <2>3 DEF Sold, Going
<1>9. ASSUME NEW m \in Mints, NEW outcome \in Failures, SellFailed(m, outcome)
      PROVE  StepFails(m)
  <2> DEFINE u == IF outcome = "Transport" THEN ev.unknown \cup {m}
                                           ELSE ev.unknown
             e == [ev EXCEPT !.tried = ev.tried \cup {m}, !.unknown = u]
  <2>1. u \in SUBSET Mints /\ ev.tried \cup {m} \in SUBSET Mints
    BY <1>0 DEF Event
  <2>2. ev' = AfterSell(m, e, positions')
    BY <1>9 DEF SellFailed
  <2> HIDE DEF u
  <2>3. /\ e \in Event /\ e.pc = ev.pc /\ e.queue = ev.queue /\ e.ts = ev.ts
        /\ e.wasKill = ev.wasKill /\ e.tried = ev.tried \cup {m}
    BY <1>0, <2>1 DEF Event
  <2> HIDE DEF e
  <2>4. positions' = [positions EXCEPT ![m] = Attempted(@)]
    BY <1>9 DEF SellFailed
  <2>5. Held' = Held
    BY <2>4 DEF Held
  <2>6. Selling(m) /\ Submit(m)
    BY <1>9 DEF SellFailed
  <2>7. Sold(m)
    BY <1>8, <2>2, <2>3, <2>5, <2>6
  <2> QED BY <1>9, <2>4, <2>5, <2>7 DEF StepFails, SellFailed
<1>10. ASSUME NEW m \in Mints, NEW p \in Prices, NEW delay \in FillDelays,
              SellFilled(m, p, delay)
       PROVE  StepSells(m, p, delay)
  <2> DEFINE e == [ev EXCEPT !.tried = ev.tried \cup {m}]
  <2>1. ev.tried \cup {m} \in SUBSET Mints
    BY <1>0 DEF Event
  <2>2. ev' = AfterSell(m, e, positions')
    BY <1>10 DEF SellFilled
  <2>3. /\ e \in Event /\ e.pc = ev.pc /\ e.queue = ev.queue /\ e.ts = ev.ts
        /\ e.wasKill = ev.wasKill /\ e.tried = ev.tried \cup {m}
    BY <1>0, <2>1 DEF Event
  <2> HIDE DEF e
  <2>4. positions' = [x \in Held \ {m} |-> positions[x]]
    <3>1. positions' = Restrict(positions, Held \ {m})
      BY <1>10 DEF SellFilled
    <3> QED BY <3>1 DEF Restrict
  <2>5. Held' = Held \ {m}
    BY <2>4 DEF Held
  <2>6. Selling(m) /\ Submit(m)
    BY <1>10 DEF SellFilled
  <2>7. Sold(m)
    BY <1>8, <2>2, <2>3, <2>5, <2>6
  <2> QED BY <1>10, <2>4, <2>5, <2>7 DEF StepSells
<1> QED BY <1>1, <1>2, <1>3, <1>4, <1>5, <1>6, <1>7, <1>9, <1>10
        DEF Next, Arrive, Order, Quiet

\* A filled sell leaves the window with one more order, tells the risk engine
\* the size of the book, and engages a breaker only by a trip of its own.
LEMMA SellEffect ==
    ASSUME TypeOK, NEW m \in Mints, NEW p \in Prices,
           NEW delay \in FillDelays, SellFilled(m, p, delay)
    PROVE  /\ risk'.open = Cardinality(Held')
           /\ risk'.recent = Append(risk.recent, ev.ts)
           /\ log'.pages = log.pages
           /\ ~KillSwitch(risk) /\ KillSwitch(risk') =>
                 log'.trips = log.trips + 1 /\ log'.breakers = log.breakers + 1
           /\ ~(~KillSwitch(risk) /\ KillSwitch(risk')) =>
                 log'.trips >= log.trips /\ log'.breakers = log.breakers
<1> DEFINE pnl   == (p * positions[m].qty) \div Unit - Fee - positions[m].cost
           noted == NoteOrder(risk, ev.ts)
           after == RecordRealizedPnl(noted, pnl, ev.ts)
           trips == after.tripped /\ ~Rollover(noted, ev.ts).tripped
           n     == Cardinality(Held')
<1>1. /\ risk \in RiskState /\ ev.ts \in Int /\ m \in Held
      /\ positions \in [Held -> Position] /\ Held \subseteq Mints
      /\ log \in Log
  BY DEF TypeOK, Event, SellFilled, Selling
<1>2. pnl \in Int
  <2>1. positions[m].qty \in Int /\ positions[m].cost \in Int
    BY <1>1 DEF Position
  <2>2. p * positions[m].qty \in Int
    BY <2>1, StrategyAssumption
  <2>3. (p * positions[m].qty) \div Unit \in Int
    BY <2>2, StrategyAssumption
  <2> QED BY <2>1, <2>3, EngineAssumption
<1>3. n \in Nat
  <2>1. Held' \subseteq Mints
    <3>1. positions' = Restrict(positions, Held \ {m})
      BY DEF SellFilled
    <3> QED BY <1>1, <3>1 DEF Restrict, Held
  <2> QED BY <2>1, EngineAssumption, FS_Subset, FS_CardinalityType
<1>4. /\ risk' = SetOpenPositions(after, n)
      /\ log' = [log EXCEPT
            !.trips = IF trips THEN log.trips + 1 ELSE log.trips,
            !.breakers = IF ~KillSwitch(risk) /\ KillSwitch(after)
                           THEN log.breakers + 1 ELSE log.breakers]
  BY DEF SellFilled, Held
<1> HIDE DEF pnl, n
<1>5. /\ risk'.open = n /\ risk'.recent = Append(risk.recent, ev.ts)
      /\ KillSwitch(risk') = KillSwitch(after)
      /\ ~KillSwitch(risk) /\ KillSwitch(after) => trips
  BY <1>1, <1>2, <1>3, <1>4, BookedEffect
<1> HIDE DEF after, trips
<1>6. /\ log'.pages = log.pages
      /\ log'.trips = IF trips THEN log.trips + 1 ELSE log.trips
      /\ log'.breakers = IF ~KillSwitch(risk) /\ KillSwitch(after)
                           THEN log.breakers + 1 ELSE log.breakers
      /\ log.trips \in Nat
  BY <1>1, <1>4 DEF Log
<1> QED BY <1>5, <1>6 DEF n

-----------------------------------------------------------------------------
(* The cap and the breakers                                                *)

CapInv == TypeOK /\ CapRespected /\ FunnelGuarded

\* The position cap and the funnel's clearance are kept together: the entry
\* check makes room, and nothing else happens until the funnel is over.
LEMMA CapStep == CapInv /\ [Next]_vars => CapInv'
<1> SUFFICES ASSUME CapInv, Next PROVE (CapRespected /\ FunnelGuarded)'
  <2>1. CASE UNCHANGED vars
    BY <2>1 DEF vars, CapInv, TypeOK, CapRespected, FunnelGuarded, Held
  <2>2. CASE Next
    BY <2>2, TypeStep DEF CapInv
  <2> QED BY <2>1, <2>2
<1> USE DEF CapInv
<1>0. /\ Held \subseteq Mints /\ risk \in RiskState /\ ev.ts \in Int
      /\ IsFiniteSet(Held) /\ Cardinality(Held) \in Nat
      /\ MaxOpenPositions \in Nat /\ risk.open \in Nat
  <2>1. Held \subseteq Mints /\ risk \in RiskState /\ ev.ts \in Int
    BY DEF TypeOK, Event
  <2>2. IsFiniteSet(Held) /\ Cardinality(Held) \in Nat
    BY <2>1, EngineAssumption, FS_Subset, FS_CardinalityType
  <2> QED BY <2>1, <2>2, RiskAssumption DEF RiskState
<1>1. ASSUME NEW ts \in EventTimes, StepSkips(ts)
      PROVE  (CapRespected /\ FunnelGuarded)'
  <2>1. risk'.open = risk.open
    BY <1>0, <1>1, CheckedEffect DEF StepSkips, Arriving
  <2> QED BY <1>1, <2>1 DEF StepSkips, Arriving, CapRespected, FunnelGuarded
<1>2. ASSUME NEW m \in Mints, NEW ts \in EventTimes, StepFunnels(m, ts)
      PROVE  (CapRespected /\ FunnelGuarded)'
  <2>1. risk'.open = risk.open /\ risk'.day = Day(ts)
    BY <1>0, <1>2, CheckedEffect DEF StepFunnels, Arriving
  <2>2. /\ ~KillSwitch(risk') /\ ~LossReached(risk'.dayPnl)
        /\ risk'.open < MaxOpenPositions
    BY <1>2 DEF StepFunnels, EntryAllowed, KillSwitch
  <2> QED BY <1>2, <2>1, <2>2
          DEF StepFunnels, Arriving, CapRespected, FunnelGuarded
<1>3. ASSUME NEW m \in Mints, NEW p \in Prices, NEW ts \in EventTimes,
             StepTicks(m, p, ts)
      PROVE  (CapRespected /\ FunnelGuarded)'
  BY <1>3 DEF StepTicks, Arriving, CapRespected, FunnelGuarded
<1>4. ASSUME StepCuts PROVE (CapRespected /\ FunnelGuarded)'
  <2>1. risk'.open = risk.open /\ Held' = Held
    BY <1>0, <1>4, CheckedEffect, GrantedEffect DEF StepCuts, book, Held
  <2> QED BY <1>4, <2>1 DEF StepCuts, CapRespected, FunnelGuarded
<1>5. ASSUME NEW p \in Prices, NEW delay \in FillDelays, StepFills(p, delay)
      PROVE  (CapRespected /\ FunnelGuarded)'
  <2>1. /\ ev.pc = "funnel" /\ Held' = Held \cup {ev.mint}
        /\ risk' = SetOpenPositions(Granted, Cardinality(Held'))
    BY <1>5 DEF StepFills, SliceFilled, SliceSent, Held
  <2>2. Cardinality(Held') \in Nat /\ Cardinality(Held') <= MaxOpenPositions
    <3>1. Cardinality(Held \cup {ev.mint}) =
            IF ev.mint \in Held THEN Cardinality(Held) ELSE Cardinality(Held) + 1
      BY <1>0, FS_AddElement
    <3>2. /\ risk.open = Cardinality(Held)
          /\ Cardinality(Held) <= MaxOpenPositions
          /\ ev.mint \in Held \/ risk.open < MaxOpenPositions
      BY <2>1 DEF CapRespected, FunnelGuarded
    <3> QED BY <1>0, <2>1, <3>1, <3>2
  <2>3. Granted \in RiskState
    BY <1>0, RiskTypes DEF Granted
  <2>4. /\ risk'.open = Cardinality(Held') /\ risk'.day = Granted.day
        /\ risk'.dayPnl = Granted.dayPnl
        /\ KillSwitch(risk') = KillSwitch(Granted)
    BY <2>1, <2>2, <2>3 DEF SetOpenPositions, RiskState, KillSwitch
  <2>5. /\ Day(ev.ts) = risk'.day /\ ~KillSwitch(risk')
        /\ ~LossReached(risk'.dayPnl)
    BY <2>1, <2>4, GrantedEffect DEF FunnelGuarded
  <2>6. ev'.ts = ev.ts /\ (ev'.pc = "funnel" => ev'.mint \in Held')
    BY <1>5, <2>1 DEF StepFills, Going
  <2> QED BY <2>2, <2>4, <2>5, <2>6 DEF CapRespected, FunnelGuarded
<1>6. ASSUME NEW m \in Mints, StepFails(m)
      PROVE  (CapRespected /\ FunnelGuarded)'
  <2>1. risk'.open = risk.open
    BY <1>0, <1>6 DEF StepFails, NoteOrder, RiskState
  <2> QED BY <1>6, <2>1 DEF StepFails, Sold, CapRespected, FunnelGuarded
<1>7. ASSUME NEW m \in Mints, NEW p \in Prices, NEW delay \in FillDelays,
             StepSells(m, p, delay)
      PROVE  (CapRespected /\ FunnelGuarded)'
  <2>1. /\ m \in Held /\ Held' = Held \ {m} /\ ev'.pc = "sweep"
        /\ risk'.open = Cardinality(Held')
    <3>1. /\ m \in Held /\ Held' = Held \ {m} /\ ev'.pc = "sweep"
          /\ \E after : risk' = [after EXCEPT !.open = Cardinality(Held')]
      BY <1>7 DEF StepSells, Sold, SellFilled, SetOpenPositions, Held
    <3>2. risk' \in RiskState
      BY TypeStep DEF TypeOK
    <3> QED BY <3>1, <3>2 DEF RiskState
  <2>2. Cardinality(Held') <= Cardinality(Held)
    BY <1>0, <2>1, FS_Subset
  <2>3. Cardinality(Held') \in Nat
    BY <1>0, <2>1, FS_Subset, FS_CardinalityType
  <2> QED BY <1>0, <2>1, <2>2, <2>3 DEF CapRespected, FunnelGuarded
<1>8. CASE EndEvent
  BY <1>8 DEF EndEvent, Idle, book, Held, CapRespected, FunnelGuarded
<1>9. CASE UNCHANGED vars
  BY <1>9 DEF vars, Held, CapRespected, FunnelGuarded
<1> QED BY <1>1, <1>2, <1>3, <1>4, <1>5, <1>6, <1>7, <1>8, <1>9, StepCases

\* A fresh engine holds nothing.
LEMMA CapInit == Init => CapInv
<1> SUFFICES ASSUME Init PROVE CapRespected /\ FunnelGuarded
  BY InitType DEF CapInv
<1>1. Held = {} /\ risk.open = 0 /\ ev.pc = "idle"
  BY DEF Init, Held, NewRisk, Idle
<1> QED BY <1>1, FS_EmptySet, RiskAssumption DEF CapRespected, FunnelGuarded

\* The engine never holds more positions than the cap, and the risk engine's
\* own count of them (risk.rs:54, told by set_open_positions) is never wrong.
THEOREM CapAlways == Spec => []CapRespected
<1>1. CapInv => CapRespected
  BY DEF CapInv
<1> QED BY <1>1, CapInit, CapStep, PTL DEF Spec

-----------------------------------------------------------------------------
(* Sizing                                                                  *)

\* A positive budget is split into slices of at least a dollar that add up
\* to it: the last one takes what the others leave (strategy.rs:76-93).
LEMMA SliceSizes ==
    ASSUME NEW b \in Int, b > 0
    PROVE  LET n    == SliceCount(b)
               base == b \div n
           IN /\ n \in 1 .. FunnelSlices /\ base \in Int
              /\ base >= 1 /\ base * n <= b
              /\ \A i \in 1 .. n : /\ Slice(b, i) \in Int /\ Slice(b, i) >= 1
                                   /\ i < n => Slice(b, i) = base
              /\ Slice(b, n) = b - base * (n - 1)
<1> DEFINE n == SliceCount(b)
           base == b \div n
<1>1. FunnelSlices \in Nat /\ FunnelSlices > 0
  BY StrategyAssumption
<1>2. n \in 1 .. FunnelSlices /\ n \in Nat /\ n > 0
  BY <1>1 DEF SliceCount
<1>3. base >= 1
  <2>1. CASE b \div FunnelSlices = 0
    <3>1. n = 1
      BY <2>1 DEF SliceCount
    <3> QED BY <3>1
  <2>2. CASE b \div FunnelSlices # 0
    <3>1. n = FunnelSlices
      BY <2>2 DEF SliceCount
    <3>2. b \div FunnelSlices >= 0 /\ b \div FunnelSlices \in Int
      BY <1>1
    <3> QED BY <2>2, <3>1, <3>2
  <2> QED BY <2>1, <2>2
<1>4. base \in Int /\ base * n <= b
  BY <1>2
<1>5. \A i : Slice(b, i) = IF i < n THEN base ELSE b - base * (n - 1)
  BY DEF Slice
<1> HIDE DEF n, base
<1>6. base * (n - 1) = base * n - base /\ base * n \in Int
  BY <1>2, <1>4
<1>7. ASSUME NEW i \in 1 .. n
      PROVE  /\ Slice(b, i) \in Int /\ Slice(b, i) >= 1
             /\ i < n => Slice(b, i) = base
  BY <1>2, <1>3, <1>4, <1>5, <1>6
<1>8. Slice(b, n) = b - base * (n - 1)
  BY <1>2, <1>5
<1> QED BY <1>2, <1>3, <1>4, <1>7, <1>8 DEF n, base

\* Every open position has tokens and a cost (engine.rs:614-621).
PositiveBook == \A m \in Held : positions[m].qty > 0 /\ positions[m].cost > 0

SizingInv == TypeOK /\ FunnelFunded /\ PositiveBook

\* A fill adds tokens and cost to a position.
LEMMA FilledPositive ==
    ASSUME NEW pos \in Position, NEW p \in Prices, NEW amount \in Int,
           amount >= 1, pos.qty >= 0, pos.cost >= 0
    PROVE  Filled(pos, amount, p).qty > 0 /\ Filled(pos, amount, p).cost > 0
<1>1. p \in Nat /\ p > 0 /\ Unit \in Nat /\ Unit > 0 /\ Unit % p = 0
        /\ Fee \in Nat
  BY StrategyAssumption, EngineAssumption
<1>2. Unit \div p \in Int /\ Unit \div p >= 1
  <2>1. Unit < p => Unit % p = Unit
    BY <1>1
  <2>2. Unit >= p
    BY <1>1, <2>1
  <2> QED BY <1>1, <2>2
<1>3. amount * (Unit \div p) >= 1 /\ amount * (Unit \div p) \in Int
  BY <1>2
<1>4. /\ Filled(pos, amount, p).qty = pos.qty + amount * (Unit \div p)
      /\ Filled(pos, amount, p).cost = pos.cost + amount + Fee
  BY DEF Filled, Position
<1> QED BY <1>1, <1>3, <1>4 DEF Position

\* What a filled slice does to the capital.
LEMMA SliceCapital ==
    ASSUME TypeOK, FunnelFunded,
           NEW p \in Prices, NEW delay \in FillDelays, StepFills(p, delay)
    PROVE  LET n    == SliceCount(ev.budget)
               base == ev.budget \div n
           IN /\ equity' = equity
              /\ deployed' > deployed
              /\ ev.slice < n =>
                    equity - deployed' >= ev.budget - ev.slice * (Fee + base)
              /\ equity - deployed' >= -(FunnelSlices * Fee)
<1> DEFINE n == SliceCount(ev.budget)
           base == ev.budget \div n
           k == ev.slice
           amount == Slice(ev.budget, k)
<1>1. /\ ev.pc = "funnel" /\ equity' = equity
      /\ deployed' = deployed + amount + Fee
  BY DEF StepFills, SliceFilled, SliceSent
<1>2. /\ equity \in Int /\ deployed \in Int /\ ev.budget \in Int
      /\ Fee \in Nat /\ FunnelSlices \in Nat
  BY EngineAssumption, StrategyAssumption DEF TypeOK, Event
<1>3. /\ ev.budget > 0 /\ k \in 1 .. n
      /\ equity - deployed >= ev.budget - (k - 1) * (Fee + base)
  BY <1>1 DEF FunnelFunded
<1>4. /\ n \in 1 .. FunnelSlices /\ base \in Int /\ base >= 1
      /\ base * n <= ev.budget /\ amount \in Int /\ amount >= 1
      /\ k < n => amount = base
      /\ k = n => amount = ev.budget - base * (n - 1)
  BY <1>2, <1>3, SliceSizes
<1> HIDE DEF n, base, k, amount
<1>5. deployed' > deployed
  BY <1>1, <1>2, <1>4
<1>6. (k - 1) * (Fee + base) + (Fee + base) = k * (Fee + base)
  BY <1>2, <1>3, <1>4
<1>7. ASSUME k < n
      PROVE  equity - deployed' >= ev.budget - k * (Fee + base)
  <2>1. (k - 1) * (Fee + base) \in Int /\ k * (Fee + base) \in Int
    BY <1>2, <1>3, <1>4
  <2> QED BY <1>1, <1>2, <1>3, <1>4, <1>6, <1>7, <2>1
<1>8. equity - deployed' >= -(FunnelSlices * Fee)
  <2>1. n * Fee <= FunnelSlices * Fee /\ n * Fee \in Int
          /\ FunnelSlices * Fee \in Int
    BY <1>2, <1>4
  <2>2. CASE k < n
    <3>1. k * Fee <= n * Fee /\ k * base <= n * base
            /\ k * Fee \in Int /\ k * base \in Int
      BY <1>2, <1>3, <1>4, <2>2
    <3>2. k * (Fee + base) = k * Fee + k * base /\ n * base = base * n
      BY <1>2, <1>3, <1>4
    <3> QED BY <1>1, <1>2, <1>3, <1>4, <1>7, <2>1, <2>2, <3>1, <3>2
  <2>3. CASE k = n
    <3>1. (n - 1) * (Fee + base) = n * Fee - Fee + base * (n - 1)
      BY <1>2, <1>4
    <3>2. base * (n - 1) \in Int
      BY <1>4
    <3> QED BY <1>1, <1>2, <1>3, <1>4, <2>1, <2>3, <3>1, <3>2
  <2> QED BY <1>3, <1>4, <2>2, <2>3
<1> QED BY <1>1, <1>5, <1>7, <1>8 DEF n, base, k

\* The book stays positive, and what a funnel still has to spend stays free.
LEMMA SizingStep == SizingInv /\ [Next]_vars => SizingInv'
<1> SUFFICES ASSUME SizingInv, Next PROVE (FunnelFunded /\ PositiveBook)'
  <2>1. CASE UNCHANGED vars
    BY <2>1 DEF vars, SizingInv, TypeOK, FunnelFunded, PositiveBook, Held
  <2>2. CASE Next
    BY <2>2, TypeStep DEF SizingInv
  <2> QED BY <2>1, <2>2
<1> USE DEF SizingInv
<1>0. /\ positions \in [Held -> Position] /\ ev \in Event
      /\ equity \in Int /\ deployed \in Int /\ Fee \in Nat
  BY EngineAssumption DEF TypeOK
<1>1. ASSUME NEW ts \in EventTimes, StepSkips(ts)
      PROVE  (FunnelFunded /\ PositiveBook)'
  BY <1>1 DEF StepSkips, FunnelFunded, PositiveBook, Held
<1>2. ASSUME NEW m \in Mints, NEW ts \in EventTimes, StepFunnels(m, ts)
      PROVE  (FunnelFunded /\ PositiveBook)'
  <2> DEFINE b == PositionBudget(equity, deployed)
             base == b \div SliceCount(b)
  <2>1. /\ ev'.budget = b /\ ev'.slice = 1 /\ b > 0
        /\ equity' = equity /\ deployed' = deployed
    BY <1>2 DEF StepFunnels, Arriving
  <2>2. b \in Int
    BY <1>0, SizingTypes
  <2>3. b <= equity - deployed
    <3>1. (equity * RiskPct) \div 100 \in Int /\ MaxSinglePos \in Int
      BY <1>0, StrategyAssumption
    <3> QED BY <1>0, <2>1, <3>1 DEF PositionBudget, Least
  <2> HIDE DEF b
  <2>4. SliceCount(b) \in Nat \ {0} /\ base \in Int
    <3>1. SliceCount(b) \in Nat \ {0}
      BY <2>2, SizingTypes
    <3> QED BY <2>2, <3>1
  <2>5. (1 - 1) * (Fee + base) = 0
    BY <1>0, <2>4
  <2>6. FunnelFunded'
    BY <1>0, <2>1, <2>2, <2>3, <2>4, <2>5 DEF FunnelFunded
  <2>7. PositiveBook'
    BY <1>2 DEF StepFunnels, PositiveBook, Held
  <2> QED BY <2>6, <2>7
<1>3. ASSUME NEW m \in Mints, NEW p \in Prices, NEW ts \in EventTimes,
             StepTicks(m, p, ts)
      PROVE  (FunnelFunded /\ PositiveBook)'
  <2>1. /\ Observe(positions[m], p).qty = positions[m].qty
        /\ Observe(positions[m], p).cost = positions[m].cost
    BY <1>0, <1>3 DEF StepTicks, Observe, Position
  <2>2. PositiveBook'
    BY <1>0, <1>3, <2>1 DEF StepTicks, PositiveBook, Held
  <2> QED BY <1>3, <2>2 DEF StepTicks, FunnelFunded
<1>4. ASSUME StepCuts PROVE (FunnelFunded /\ PositiveBook)'
  BY <1>4 DEF StepCuts, book, FunnelFunded, PositiveBook, Held
<1>5. ASSUME NEW p \in Prices, NEW delay \in FillDelays, StepFills(p, delay)
      PROVE  (FunnelFunded /\ PositiveBook)'
  <2> DEFINE m == ev.mint
             amount == Slice(ev.budget, ev.slice)
             before == IF m \in Held THEN positions[m]
                                     ELSE NewPosition(p, ev.ts + delay)
  <2>1. /\ ev.pc = "funnel" /\ ev.budget \in Int /\ ev.budget > 0
        /\ ev.slice \in 1 .. SliceCount(ev.budget)
    BY <1>0, <1>5 DEF StepFills, SliceFilled, SliceSent, FunnelFunded, Event
  <2>2. PositiveBook'
    <3>1. amount \in Int /\ amount >= 1
      BY <2>1, SliceSizes
    <3>2. before \in Position /\ before.qty >= 0 /\ before.cost >= 0
      <4>1. ev.ts + delay \in Int
        BY <1>0, EngineAssumption DEF Event
      <4>2. NewPosition(p, ev.ts + delay) \in Position
        BY <4>1, NewPositionType
      <4>3. CASE m \in Held
        BY <1>0, <4>3 DEF PositiveBook, Position
      <4>4. CASE m \notin Held
        BY <4>2, <4>4 DEF NewPosition
      <4> QED BY <4>3, <4>4
    <3>3. positions' = [x \in Held \cup {m} |->
                           IF x = m THEN Filled(before, amount, p)
                                    ELSE positions[x]]
      BY <1>5 DEF StepFills, SliceFilled
    <3> HIDE DEF before, amount
    <3>4. Filled(before, amount, p).qty > 0 /\ Filled(before, amount, p).cost > 0
      BY <3>1, <3>2, FilledPositive
    <3> QED BY <3>3, <3>4 DEF PositiveBook, Held
  <2>3. FunnelFunded'
    <3> SUFFICES ASSUME ev'.pc = "funnel"
                 PROVE  FunnelFunded'
      BY DEF FunnelFunded
    <3> DEFINE n == SliceCount(ev.budget)
               base == ev.budget \div n
    <3>1. /\ ev.slice < n /\ ev'.slice = ev.slice + 1 /\ ev'.budget = ev.budget
      BY <1>5 DEF StepFills
    <3>2. /\ equity' = equity
          /\ equity - deployed' >= ev.budget - ev.slice * (Fee + base)
      BY <1>5, <3>1, SliceCapital
    <3>3. n \in Nat
      BY <2>1, SizingTypes
    <3>4. ev'.slice \in 1 .. n /\ ev'.slice - 1 = ev.slice
      BY <2>1, <3>1, <3>3
    <3> QED BY <2>1, <3>1, <3>2, <3>4 DEF FunnelFunded
  <2> QED BY <2>2, <2>3
<1>6. ASSUME NEW m \in Mints, StepFails(m)
      PROVE  (FunnelFunded /\ PositiveBook)'
  <2>1. /\ Attempted(positions[m]).qty = positions[m].qty
        /\ Attempted(positions[m]).cost = positions[m].cost
    BY <1>0, <1>6 DEF StepFails, Sold, Attempted, Position
  <2>2. PositiveBook'
    BY <1>0, <1>6, <2>1 DEF StepFails, Sold, PositiveBook, Held
  <2> QED BY <1>6, <2>2 DEF StepFails, Sold, FunnelFunded
<1>7. ASSUME NEW m \in Mints, NEW p \in Prices, NEW delay \in FillDelays,
             StepSells(m, p, delay)
      PROVE  (FunnelFunded /\ PositiveBook)'
  BY <1>7 DEF StepSells, Sold, FunnelFunded, PositiveBook, Held
<1>8. CASE EndEvent
  BY <1>8 DEF EndEvent, Idle, book, FunnelFunded, PositiveBook, Held
<1>9. CASE UNCHANGED vars
  BY <1>9 DEF vars, FunnelFunded, PositiveBook, Held
<1> QED BY <1>1, <1>2, <1>3, <1>4, <1>5, <1>6, <1>7, <1>8, <1>9, StepCases

\* At the start there is nothing to hold against the book.
LEMMA SizingInit == Init => SizingInv
BY InitType DEF Init, Idle, SizingInv, FunnelFunded, PositiveBook, Held

\* Every sell so far returned something; then capital is overdrawn by the
\* fees of one funnel at most.
Returned == \A i \in DOMAIN closed : closed[i].proceeds >= 0

CapitalInv == SizingInv /\ NeverOverdeployed

\* A fill spends its slice and its fee, a sell returns its proceeds.
LEMMA CapitalStep == CapitalInv /\ [Next]_vars => CapitalInv'
<1> SUFFICES ASSUME CapitalInv, Next PROVE NeverOverdeployed'
  <2>1. CASE UNCHANGED vars
    BY <2>1, SizingStep DEF vars, CapitalInv, NeverOverdeployed
  <2>2. CASE Next
    BY <2>2, SizingStep DEF CapitalInv
  <2> QED BY <2>1, <2>2
<1> USE DEF CapitalInv, SizingInv
<1>0. /\ equity \in Int /\ deployed \in Int /\ FunnelSlices * Fee \in Int
      /\ positions \in [Held -> Position] /\ closed \in Seq(Trade)
  BY EngineAssumption, StrategyAssumption DEF TypeOK
<1>1. CASE UNCHANGED <<equity, deployed, closed>>
  BY <1>1 DEF NeverOverdeployed
<1>2. ASSUME NEW p \in Prices, NEW delay \in FillDelays, StepFills(p, delay)
      PROVE  NeverOverdeployed'
  <2>1. equity' = equity /\ equity - deployed' >= -(FunnelSlices * Fee)
    BY <1>2, SliceCapital
  <2>2. deployed' \in Int
    BY TypeStep DEF TypeOK
  <2> QED BY <1>0, <2>1, <2>2 DEF NeverOverdeployed
<1>3. ASSUME NEW m \in Mints, NEW p \in Prices, NEW delay \in FillDelays,
             StepSells(m, p, delay)
      PROVE  NeverOverdeployed'
  <2> DEFINE cost == positions[m].cost
             proceeds == (p * positions[m].qty) \div Unit - Fee
  <2>1. /\ equity' = equity + (proceeds - cost)
        /\ deployed' = deployed - cost
        /\ \E day : closed' = Append(closed,
              [mint |-> m, cost |-> cost, proceeds |-> proceeds,
               pnl |-> proceeds - cost, day |-> day])
    BY <1>3 DEF StepSells, SellFilled
  <2>2. cost \in Int /\ proceeds \in Int
    <3>1. m \in Held
      BY <1>3 DEF StepSells, Sold
    <3>2. positions[m].qty \in Int /\ cost \in Int
      BY <1>0, <3>1 DEF Position
    <3>3. p * positions[m].qty \in Int
      BY <3>2, StrategyAssumption
    <3>4. (p * positions[m].qty) \div Unit \in Int
      BY <3>3, StrategyAssumption
    <3> QED BY <3>2, <3>4, EngineAssumption
  <2> HIDE DEF cost, proceeds
  <2>3. Returned' => Returned /\ proceeds >= 0
    <3>1. PICK t : closed' = Append(closed, t) /\ t.proceeds = proceeds
      BY <2>1
    <3>2. /\ DOMAIN closed' = 1 .. Len(closed) + 1
          /\ DOMAIN closed = 1 .. Len(closed) /\ Len(closed) \in Nat
          /\ \A i \in DOMAIN closed : closed'[i] = closed[i]
          /\ closed'[Len(closed) + 1] = t
      BY <1>0, <3>1
    <3>3. Len(closed) + 1 \in DOMAIN closed' /\ DOMAIN closed \subseteq DOMAIN closed'
      BY <3>2
    <3> QED BY <3>1, <3>2, <3>3 DEF Returned
  <2>4. Returned => deployed <= equity + FunnelSlices * Fee
    BY DEF Returned, NeverOverdeployed
  <2>5. Returned' => deployed' <= equity' + FunnelSlices * Fee
    BY <1>0, <2>1, <2>2, <2>3, <2>4
  <2> QED BY <2>5 DEF Returned, NeverOverdeployed
<1> QED BY <1>1, <1>2, <1>3, StepCases
        DEF StepSkips, StepFunnels, StepTicks, Arriving, StepCuts, StepFails,
            EndEvent, book, vars

\* Deployed capital exceeds the equity by the fees of one funnel at most, as
\* long as no sell returned less than nothing (strategy.rs:62-74: the budget
\* is cut to the free capital, fees come on top).
THEOREM NeverOverdeployedAlways == Spec => []NeverOverdeployed
<1>1. Init => CapitalInv
  <2> SUFFICES ASSUME Init PROVE NeverOverdeployed
    BY SizingInit DEF CapitalInv
  <2>1. FunnelSlices * Fee \in Nat /\ StartEquity \in Nat
    BY EngineAssumption, StrategyAssumption, RiskAssumption
  <2> QED BY <2>1 DEF Init, NeverOverdeployed
<1>2. CapitalInv => NeverOverdeployed
  BY DEF CapitalInv
<1> QED BY <1>1, <1>2, CapitalStep, PTL DEF Spec

-----------------------------------------------------------------------------
(* The stop reference                                                      *)

HighPosition(pos) ==
    /\ pos.highWater >= pos.lastPrice
    /\ pos.highWater * pos.qty >= pos.paid * Unit

HighInv == SizingInv /\ HighWaterIsHigh

\* A mark h2 above the old mark h and above the price p of x more tokens
\* outweighs the old holding and the new one together.
LEMMA Outweighs ==
    ASSUME NEW h \in Int, NEW h2 \in Int, NEW p \in Int,
           NEW q \in Nat, NEW x \in Nat, h2 >= h, h2 >= p
    PROVE  h2 * (q + x) >= h * q + p * x
<1>1. (h2 - h) * q >= 0 /\ (h2 - p) * x >= 0
  BY SMTT(30)
<1>2. (h2 - h) * q = h2 * q - h * q /\ (h2 - p) * x = h2 * x - p * x
  BY SMTT(30)
<1>3. h2 * (q + x) = h2 * q + h2 * x
  BY SMTT(30)
<1>4. /\ h2 * q \in Int /\ h * q \in Int /\ h2 * x \in Int /\ p * x \in Int
  OBVIOUS
<1> QED BY <1>1, <1>2, <1>3, <1>4

\* A fill raises the mark to its price before it is averaged into the entry.
LEMMA FilledHigh ==
    ASSUME NEW pos \in Position, HighPosition(pos), pos.qty >= 0,
           NEW p \in Prices, NEW amount \in Int, amount >= 1
    PROVE  HighPosition(Filled(pos, amount, p))
<1> DEFINE t  == Unit \div p
           x  == amount * t
           h2 == IF p > pos.highWater THEN p ELSE pos.highWater
<1>1. p \in Nat /\ p > 0 /\ Unit \in Nat /\ Unit > 0 /\ Unit % p = 0
  BY StrategyAssumption
<1>2. t \in Nat /\ p * t = Unit
  BY <1>1
<1> HIDE DEF t
<1>3. x \in Nat /\ p * x = amount * Unit
  <2>1. x \in Nat
    BY <1>2, SMTT(30)
  <2>2. p * (amount * t) = amount * (p * t)
    BY <1>1, <1>2, SMTT(30)
  <2> QED BY <1>2, <2>1, <2>2
<1>4. /\ pos.highWater \in Int /\ pos.qty \in Nat /\ pos.paid \in Int
      /\ h2 \in Int /\ h2 >= pos.highWater /\ h2 >= p
  BY <1>1 DEF Position
<1>5. LET new == Filled(pos, amount, p)
      IN /\ new.highWater = h2 /\ new.lastPrice = p
         /\ new.qty = pos.qty + x /\ new.paid = pos.paid + amount
  BY DEF Filled, Position, t
<1> HIDE DEF x, h2
<1>6. h2 * (pos.qty + x) >= pos.highWater * pos.qty + p * x
  <2>1. p \in Int /\ x \in Nat
    BY <1>1, <1>3
  <2> QED BY <2>1, <1>4, Outweighs, Zenon
<1>7. (pos.paid + amount) * Unit = pos.paid * Unit + amount * Unit
  <2>1. \A a, b, c \in Int : (a + b) * c = a * c + b * c
    BY SMTT(30)
  <2>2. pos.paid \in Int /\ Unit \in Int
    BY <1>1, <1>4
  <2> QED BY <2>1, <2>2, Zenon
<1>8. /\ pos.highWater * pos.qty \in Int /\ pos.paid * Unit \in Int
      /\ amount * Unit \in Int /\ h2 * (pos.qty + x) \in Int
      /\ pos.highWater * pos.qty >= pos.paid * Unit
  BY <1>1, <1>3, <1>4 DEF HighPosition
<1>9. h2 * (pos.qty + x) >= (pos.paid + amount) * Unit
  BY <1>3, <1>6, <1>7, <1>8
<1> QED BY <1>4, <1>5, <1>9 DEF HighPosition

\* A tick raises the mark or leaves it, and leaves the entry alone.
LEMMA ObservedHigh ==
    ASSUME NEW pos \in Position, HighPosition(pos), pos.qty >= 0,
           NEW p \in Prices
    PROVE  HighPosition(Observe(pos, p))
<1> DEFINE h2 == IF p > pos.highWater THEN p ELSE pos.highWater
<1>1. /\ p \in Int /\ Unit \in Int
      /\ pos.highWater \in Int /\ pos.qty \in Nat /\ pos.paid \in Int
      /\ h2 \in Int /\ h2 >= pos.highWater /\ h2 >= p
  BY StrategyAssumption DEF Position
<1>2. LET new == Observe(pos, p)
      IN /\ new.highWater = h2 /\ new.lastPrice = p
         /\ new.qty = pos.qty /\ new.paid = pos.paid
  BY DEF Observe, Position
<1> HIDE DEF h2
<1>3. h2 * (pos.qty + 0) >= pos.highWater * pos.qty + p * 0
  BY <1>1, Outweighs
<1>4. pos.qty + 0 = pos.qty /\ p * 0 = 0
  BY <1>1
<1>5. h2 * pos.qty >= pos.highWater * pos.qty
  BY <1>1, <1>3, <1>4
<1>6. /\ h2 * pos.qty \in Int /\ pos.highWater * pos.qty \in Int
      /\ pos.paid * Unit \in Int
      /\ pos.highWater * pos.qty >= pos.paid * Unit
  BY <1>1 DEF HighPosition
<1>7. h2 * pos.qty >= pos.paid * Unit
  BY <1>5, <1>6
<1> QED BY <1>1, <1>2, <1>7 DEF HighPosition

\* No step leaves the mark below the last price or the average entry.
LEMMA HighStep == HighInv /\ [Next]_vars => HighInv'
<1> SUFFICES ASSUME HighInv, Next PROVE HighWaterIsHigh'
  <2>1. CASE UNCHANGED vars
    BY <2>1, SizingStep DEF vars, HighInv, HighWaterIsHigh, Held
  <2>2. CASE Next
    BY <2>2, SizingStep DEF HighInv
  <2> QED BY <2>1, <2>2
<1> USE DEF HighInv, SizingInv
<1>0. /\ positions \in [Held -> Position] /\ ev \in Event
      /\ \A m \in Held : /\ positions[m] \in Position
                         /\ HighPosition(positions[m])
                         /\ positions[m].qty >= 0
  <2>1. positions \in [Held -> Position] /\ ev \in Event
    BY DEF TypeOK
  <2> QED BY <2>1 DEF HighWaterIsHigh, HighPosition, PositiveBook, Position
<1>1. SUFFICES ASSUME NEW m \in Held' PROVE HighPosition(positions'[m])
  BY DEF HighWaterIsHigh, HighPosition, Held
<1>2. ASSUME UNCHANGED positions PROVE HighPosition(positions'[m])
  BY <1>0, <1>2 DEF Held
<1>3. ASSUME NEW ts \in EventTimes, StepSkips(ts)
      PROVE  HighPosition(positions'[m])
  BY <1>2, <1>3 DEF StepSkips
<1>4. ASSUME NEW n \in Mints, NEW ts \in EventTimes, StepFunnels(n, ts)
      PROVE  HighPosition(positions'[m])
  BY <1>2, <1>4 DEF StepFunnels
<1>5. ASSUME NEW n \in Mints, NEW p \in Prices, NEW ts \in EventTimes,
             StepTicks(n, p, ts)
      PROVE  HighPosition(positions'[m])
  <2>1. /\ n \in Held /\ m \in Held
        /\ positions' = [positions EXCEPT ![n] = Observe(positions[n], p)]
    BY <1>5 DEF StepTicks, Arriving
  <2>2. HighPosition(Observe(positions[n], p))
    BY <1>0, <2>1, ObservedHigh
  <2>3. positions'[m] = IF m = n THEN Observe(positions[n], p) ELSE positions[m]
    BY <1>0, <2>1
  <2> QED BY <1>0, <2>1, <2>2, <2>3
<1>6. CASE StepCuts
  BY <1>2, <1>6 DEF StepCuts, book
<1>7. ASSUME NEW p \in Prices, NEW delay \in FillDelays, StepFills(p, delay)
      PROVE  HighPosition(positions'[m])
  <2> DEFINE n == ev.mint
             amount == Slice(ev.budget, ev.slice)
             before == IF n \in Held THEN positions[n]
                                     ELSE NewPosition(p, ev.ts + delay)
  <2>1. /\ ev.budget \in Int /\ ev.budget > 0
        /\ ev.slice \in 1 .. SliceCount(ev.budget)
    BY <1>0, <1>7 DEF StepFills, SliceFilled, SliceSent, FunnelFunded, Event
  <2>2. amount \in Int /\ amount >= 1
    BY <2>1, SliceSizes
  <2>3. before \in Position /\ HighPosition(before) /\ before.qty >= 0
    <3>1. ev.ts + delay \in Int /\ p \in Int /\ Unit \in Int
      BY <1>0, EngineAssumption, StrategyAssumption DEF Event
    <3>2. NewPosition(p, ev.ts + delay) \in Position
      BY <3>1, NewPositionType
    <3>3. HighPosition(NewPosition(p, ev.ts + delay))
      BY <3>1 DEF HighPosition, NewPosition
    <3>4. NewPosition(p, ev.ts + delay).qty >= 0
      BY DEF NewPosition
    <3> QED BY <1>0, <3>2, <3>3, <3>4
  <2>4. positions' = [x \in Held \cup {n} |->
                         IF x = n THEN Filled(before, amount, p)
                                  ELSE positions[x]]
    BY <1>7 DEF StepFills, SliceFilled
  <2> HIDE DEF before, amount, n
  <2>5. HighPosition(Filled(before, amount, p))
    BY <2>2, <2>3, FilledHigh
  <2>6. m \in Held \cup {n}
    BY <2>4 DEF Held
  <2> QED BY <1>0, <2>4, <2>5, <2>6
<1>8. ASSUME NEW n \in Mints, StepFails(n)
      PROVE  HighPosition(positions'[m])
  <2>1. /\ n \in Held /\ m \in Held
        /\ positions' = [positions EXCEPT ![n] = Attempted(positions[n])]
    BY <1>8 DEF StepFails, Sold
  <2>2. HighPosition(Attempted(positions[n]))
    BY <1>0, <2>1 DEF HighPosition, Attempted, Position
  <2>3. positions'[m] = IF m = n THEN Attempted(positions[n]) ELSE positions[m]
    BY <1>0, <2>1
  <2> QED BY <1>0, <2>1, <2>2, <2>3
<1>9. ASSUME NEW n \in Mints, NEW p \in Prices, NEW delay \in FillDelays,
             StepSells(n, p, delay)
      PROVE  HighPosition(positions'[m])
  BY <1>0, <1>9 DEF StepSells, Held
<1>10. CASE EndEvent
  BY <1>2, <1>10 DEF EndEvent, book
<1>11. CASE UNCHANGED vars
  BY <1>2, <1>11 DEF vars
<1> QED BY <1>3, <1>4, <1>5, <1>6, <1>7, <1>8, <1>9, <1>10, <1>11, StepCases

\* The stop and trail reference (types.rs, high_water) is never below the last
\* price seen nor below the entry price, which is averaged over slices.
THEOREM HighWaterIsHighAlways == Spec => []HighWaterIsHigh
<1>1. Init => HighInv
  BY SizingInit DEF Init, HighInv, HighWaterIsHigh, Held
<1>2. HighInv => HighWaterIsHigh
  BY DEF HighInv
<1> QED BY <1>1, <1>2, HighStep, PTL DEF Spec

\* No slice fills while a breaker is engaged or the day is at its loss limit:
\* the check before the funnel (engine.rs:184) still holds at its last slice.
THEOREM NoEntryUnderBreakerAlways == Spec => NoEntryUnderBreaker
<1> DEFINE Step == deployed' > deployed => /\ ~KillSwitch(risk)
                                           /\ ~LossReached(risk.dayPnl)
<1>1. SizingInv /\ CapInv /\ [Next]_vars => [Step]_vars
  <2> SUFFICES ASSUME SizingInv, CapInv, Next, deployed' > deployed
               PROVE  ~KillSwitch(risk) /\ ~LossReached(risk.dayPnl)
    OBVIOUS
  <2>1. deployed \in Int
    BY DEF SizingInv, TypeOK
  <2>2. deployed' # deployed
    BY <2>1
  <2>3. ASSUME NEW p \in Prices, NEW delay \in FillDelays, StepFills(p, delay)
        PROVE  ~KillSwitch(risk) /\ ~LossReached(risk.dayPnl)
    BY <2>3 DEF StepFills, SliceFilled, SliceSent, CapInv, FunnelGuarded
  <2>4. ASSUME NEW m \in Mints, NEW p \in Prices, NEW delay \in FillDelays,
               StepSells(m, p, delay)
        PROVE  FALSE
    <3>1. m \in Held /\ deployed' = deployed - positions[m].cost
      BY <2>4 DEF StepSells, Sold, SellFilled
    <3>2. positions[m].cost \in Int /\ positions[m].cost > 0
      BY <3>1 DEF SizingInv, PositiveBook, TypeOK, Position
    <3> QED BY <2>1, <3>1, <3>2
  <2> QED BY <2>2, <2>3, <2>4, StepCases
          DEF SizingInv, StepSkips, StepFunnels, StepTicks, Arriving, StepCuts,
              StepFails, EndEvent, book, vars
<1> HIDE DEF Step
<1>2. Spec => []SizingInv
  BY SizingInit, SizingStep, PTL DEF Spec
<1>3. Spec => [][Step]_vars
  BY <1>1, <1>2, CapInit, CapStep, PTL DEF Spec
<1> QED BY <1>3 DEF Step, NoEntryUnderBreaker

-----------------------------------------------------------------------------
(* The throttle                                                            *)

ThrottleInv == TypeOK /\ ev.ts <= clock /\ RecentIsTailOfSent /\ BuysThrottled

\* The window after pruning at ts is still the tail of what was sent, and
\* what it lost is older than the window.
LEMMA PrunedTail ==
    ASSUME TypeOK, RecentIsTailOfSent, NEW ts \in Int, ts >= Now
    PROVE  LET kept    == Unexpired(risk.recent, ts)
               dropped == Len(sent) - Len(kept)
           IN /\ kept \in Seq(Int) /\ dropped \in Nat
              /\ \A k \in 1 .. Len(kept) : kept[k] = sent[dropped + k].ts
              /\ \A k \in 1 .. dropped : ts - sent[k].ts >= Window
<1> DEFINE kept == Unexpired(risk.recent, ts)
           old  == Len(sent) - Len(risk.recent)
<1>1. /\ risk.recent \in Seq(Int) /\ sent \in Seq(Sent) /\ Now \in Int
      /\ Window \in Nat
  BY RiskAssumption DEF TypeOK, RiskState, Event, Now
<1>2. PICK d \in 0 .. Len(risk.recent) :
          /\ kept \in Seq(Int)
          /\ Len(kept) = Len(risk.recent) - d
          /\ \A k \in 1 .. Len(risk.recent) - d : kept[k] = risk.recent[d + k]
          /\ \A k \in 1 .. d : ts - risk.recent[k] >= Window
  BY <1>1, UnexpiredTail
<1>3. /\ old >= 0
      /\ \A k \in 1 .. Len(risk.recent) : risk.recent[k] = sent[old + k].ts
      /\ \A k \in 1 .. old : Now - sent[k].ts >= Window
  BY DEF RecentIsTailOfSent
<1>4. /\ Len(sent) \in Nat /\ Len(risk.recent) \in Nat /\ old \in Nat
      /\ \A k \in 1 .. Len(sent) : sent[k].ts \in Int
  <2>1. \A k \in 1 .. Len(sent) : sent[k] \in Sent
    BY <1>1
  <2> QED BY <1>1, <1>3, <2>1 DEF Sent
<1> DEFINE dropped == Len(sent) - Len(kept)
<1>5. dropped = old + d /\ dropped \in Nat /\ dropped <= Len(sent)
  BY <1>2, <1>4
<1> HIDE DEF kept, old, dropped
<1>6. ASSUME NEW k \in 1 .. Len(kept)
      PROVE  kept[k] = sent[dropped + k].ts
  <2>1. d + k \in 1 .. Len(risk.recent) /\ dropped + k = old + (d + k)
    BY <1>2, <1>4, <1>5
  <2>2. kept[k] = risk.recent[d + k]
    BY <1>2
  <2>3. risk.recent[d + k] = sent[old + (d + k)].ts
    BY <1>3, <2>1
  <2> QED BY <2>1, <2>2, <2>3
<1>7. ASSUME NEW k \in 1 .. dropped
      PROVE  ts - sent[k].ts >= Window
  <2>1. CASE k <= old
    <3>1. k \in 1 .. old /\ k \in 1 .. Len(sent)
      BY <1>4, <1>5, <2>1
    <3>2. Now - sent[k].ts >= Window /\ sent[k].ts \in Int
      BY <1>3, <1>4, <3>1
    <3> QED BY <1>1, <3>2
  <2>2. CASE k > old
    <3> DEFINE j == k - old
    <3>1. j \in 1 .. d /\ j \in 1 .. Len(risk.recent) /\ old + j = k
      BY <1>2, <1>4, <1>5, <2>2
    <3>2. risk.recent[j] = sent[k].ts /\ ts - risk.recent[j] >= Window
      <4> HIDE DEF j
      <4> QED BY <1>2, <1>3, <3>1
    <3> QED BY <3>2
  <2> QED BY <1>4, <1>5, <2>1, <2>2
<1> QED BY <1>2, <1>5, <1>6, <1>7 DEF kept, dropped

\* A buy goes out only into a window with room for it, so that the window
\* ending at it holds MaxTrades orders at most.
LEMMA BurstBounded ==
    ASSUME TypeOK, RecentIsTailOfSent, ev.pc = "funnel",
           ~Throttled(Checked(risk, ev.ts)), NEW m, Submit(m)
    PROVE  Cardinality(Burst(Len(sent))') <= MaxTrades
<1> DEFINE kept    == Unexpired(risk.recent, ev.ts)
           dropped == Len(sent) - Len(kept)
           last    == Len(sent) + 1
<1>1. /\ ev.ts \in Int /\ sent \in Seq(Sent) /\ MaxTrades \in Nat
      /\ risk \in RiskState /\ Window \in Nat /\ Now = ev.ts
  BY RiskAssumption DEF TypeOK, Event, Now
<1>2. /\ kept \in Seq(Int) /\ dropped \in Nat
      /\ \A k \in 1 .. dropped : ev.ts - sent[k].ts >= Window
  BY <1>1, PrunedTail
<1>3. Len(kept) < MaxTrades
  <2>1. Len(Checked(risk, ev.ts).recent) < MaxTrades
    <3>1. Checked(risk, ev.ts).recent \in Seq(Int)
      BY <1>1, RiskTypes DEF RiskState
    <3> QED BY <1>1, <3>1 DEF Throttled
  <2> QED BY <1>1, <2>1, CheckedEffect
<1>4. sent' = Append(sent, [ts |-> ev.ts, mint |-> m, by |-> ev.pc])
  BY DEF Submit
<1>5. /\ Len(sent) \in Nat /\ Len(sent') = last /\ sent'[last].ts = ev.ts
      /\ \A k \in 1 .. Len(sent) : sent'[k] = sent[k]
  BY <1>1, <1>4
<1>6. Burst(Len(sent))' \subseteq dropped + 1 .. last
  <2> SUFFICES ASSUME NEW j \in 1 .. last, sent'[last].ts - sent'[j].ts < Window
               PROVE  j \in dropped + 1 .. last
    BY <1>5 DEF Burst
  <2> SUFFICES ASSUME j <= dropped PROVE FALSE
    BY <1>2, <1>5
  <2>1. j \in 1 .. dropped /\ j \in 1 .. Len(sent)
    BY <1>2, <1>5
  <2>2. ev.ts - sent[j].ts >= Window /\ sent'[j] = sent[j]
    BY <1>2, <1>5, <2>1
  <2>3. sent[j].ts \in Int
    <3>1. sent[j] \in Sent
      BY <1>1, <2>1
    <3> QED BY <3>1 DEF Sent
  <2> QED BY <1>1, <1>5, <2>2, <2>3
<1>7. /\ IsFiniteSet(dropped + 1 .. last)
      /\ Cardinality(dropped + 1 .. last) <= MaxTrades
  <2>1. dropped + 1 \in Int /\ last \in Int /\ Len(kept) \in Nat
    BY <1>2, <1>5
  <2>2. /\ IsFiniteSet(dropped + 1 .. last)
        /\ Cardinality(dropped + 1 .. last) =
              IF dropped + 1 > last THEN 0 ELSE last - (dropped + 1) + 1
    BY <2>1, FS_Interval
  <2> QED BY <1>1, <1>3, <1>5, <2>1, <2>2
<1>8. /\ Cardinality(Burst(Len(sent))') <= Cardinality(dropped + 1 .. last)
      /\ IsFiniteSet(Burst(Len(sent))')
  BY <1>6, <1>7, FS_Subset
<1>9. Cardinality(Burst(Len(sent))') \in Nat /\ Cardinality(dropped + 1 .. last) \in Nat
  BY <1>7, <1>8, FS_CardinalityType
<1> QED BY <1>1, <1>7, <1>8, <1>9

\* What is submitted is an order of the event, the last one sent.
LEMMA SubmitEffect ==
    ASSUME TypeOK, NEW m \in Mints, ev.pc # "idle", Submit(m)
    PROVE  \E o \in Sent : /\ o = [ts |-> ev.ts, mint |-> m, by |-> ev.pc]
                           /\ o.ts = ev.ts /\ o.mint = m /\ o.by = ev.pc
                           /\ sent' = Append(sent, o)
<1> DEFINE o == [ts |-> ev.ts, mint |-> m, by |-> ev.pc]
<1>1. o \in Sent
  BY DEF TypeOK, Event, Sent
<1> QED BY <1>1 DEF Submit

\* The window stays the tail of what was sent when time goes on to ts, the
\* window may be pruned, and one order may be sent and noted.
LEMMA TailStep ==
    ASSUME TypeOK, RecentIsTailOfSent, NEW ts \in Int, ts >= Now, Now' = ts,
           NEW R \in {risk.recent, Unexpired(risk.recent, ts)},
           \/ sent' = sent /\ risk'.recent = R
           \/ /\ \E o \in Sent : o.ts = ts /\ sent' = Append(sent, o)
              /\ risk'.recent = Append(R, ts)
    PROVE  RecentIsTailOfSent'
<1> DEFINE dropped == Len(sent) - Len(R)
<1>1. /\ risk.recent \in Seq(Int) /\ sent \in Seq(Sent) /\ Now \in Int
      /\ Window \in Nat /\ Len(sent) \in Nat
  BY RiskAssumption DEF TypeOK, RiskState, Event, Now
<1>2. \A k \in 1 .. Len(sent) : sent[k].ts \in Int
  <2>1. \A k \in 1 .. Len(sent) : sent[k] \in Sent
    BY <1>1
  <2> QED BY <2>1 DEF Sent
<1>3. /\ R \in Seq(Int) /\ Len(R) \in Nat /\ dropped \in Nat
      /\ \A k \in 1 .. Len(R) : R[k] = sent[dropped + k].ts
      /\ \A k \in 1 .. dropped : ts - sent[k].ts >= Window
  <2>1. CASE R = risk.recent
    <3>0. /\ dropped >= 0
          /\ \A k \in 1 .. Len(R) : R[k] = sent[dropped + k].ts
          /\ \A k \in 1 .. dropped : Now - sent[k].ts >= Window
      BY <2>1, Zenon DEF RecentIsTailOfSent
    <3>1. dropped \in Nat /\ dropped <= Len(sent)
      <4>1. Len(R) \in Nat
        BY <1>1, <2>1
      <4> QED BY <1>1, <3>0, <4>1
    <3>2. \A k \in 1 .. dropped : k \in 1 .. Len(sent)
      BY <1>1, <3>1
    <3> HIDE DEF dropped
    <3>3. \A k \in 1 .. dropped : ts - sent[k].ts >= Window
      BY <1>1, <1>2, <3>0, <3>2
    <3> QED BY <1>1, <2>1, <3>0, <3>1, <3>3
  <2>2. CASE R = Unexpired(risk.recent, ts)
    BY <2>2, PrunedTail
  <2> QED BY <2>1, <2>2
<1>4. CASE sent' = sent /\ risk'.recent = R
  BY <1>3, <1>4 DEF RecentIsTailOfSent
<1>5. ASSUME NEW o \in Sent, o.ts = ts, sent' = Append(sent, o),
             risk'.recent = Append(R, ts)
      PROVE  RecentIsTailOfSent'
  <2>1. /\ Len(sent') = Len(sent) + 1 /\ sent'[Len(sent) + 1].ts = ts
        /\ \A k \in 1 .. Len(sent) : sent'[k] = sent[k]
    BY <1>1, <1>5
  <2>2. /\ Len(risk'.recent) = Len(R) + 1 /\ risk'.recent[Len(R) + 1] = ts
        /\ \A k \in 1 .. Len(R) : risk'.recent[k] = R[k]
    BY <1>3, <1>5
  <2>3. Len(sent') - Len(risk'.recent) = dropped
    BY <1>1, <1>3, <2>1, <2>2
  <2>4. dropped + Len(R) = Len(sent)
    BY <1>1, <1>3
  <2> HIDE DEF dropped
  <2>5. ASSUME NEW k \in 1 .. Len(risk'.recent)
        PROVE  risk'.recent[k] = sent'[dropped + k].ts
    <3>1. CASE k \in 1 .. Len(R)
      <4>1. dropped + k \in 1 .. Len(sent)
        BY <1>1, <1>3, <2>4, <3>1
      <4> QED BY <1>3, <2>1, <2>2, <3>1, <4>1
    <3>2. CASE k = Len(R) + 1
      <4>1. dropped + k = Len(sent) + 1
        BY <1>1, <1>3, <2>4, <3>2
      <4> QED BY <2>1, <2>2, <3>2, <4>1
    <3> QED BY <1>3, <2>2, <3>1, <3>2
  <2>6. ASSUME NEW k \in 1 .. dropped
        PROVE  ts - sent'[k].ts >= Window
    <3>1. k \in 1 .. Len(sent)
      BY <1>1, <1>3, <2>4
    <3> QED BY <1>3, <2>1, <3>1
  <2> DEFINE gap == Len(sent') - Len(risk'.recent)
  <2>7. gap = dropped
    BY <2>3
  <2> HIDE DEF gap
  <2>8. \A k \in 1 .. Len(risk'.recent) : risk'.recent[k] = sent'[gap + k].ts
    BY <2>5, <2>7
  <2>9. \A k \in 1 .. gap : Now' - sent'[k].ts >= Window
    BY <2>6, <2>7
  <2>10. gap >= 0
    BY <1>3, <2>7
  <2> QED BY <2>8, <2>9, <2>10 DEF RecentIsTailOfSent, gap
<1> QED BY <1>4, <1>5

\* An order that keeps the rule adds to a history that keeps it.
LEMMA BurstStep ==
    ASSUME TypeOK, BuysThrottled, NEW m, Submit(m),
           ev.pc = "funnel" => Cardinality(Burst(Len(sent))') <= MaxTrades
    PROVE  BuysThrottled'
<1>1. /\ sent \in Seq(Sent) /\ Len(sent) \in Nat
      /\ sent' = Append(sent, [ts |-> ev.ts, mint |-> m, by |-> ev.pc])
  BY DEF TypeOK, Submit
<1>2. /\ DOMAIN sent = 1 .. Len(sent) /\ DOMAIN sent' = 1 .. Len(sent) + 1
      /\ Len(sent') = Len(sent) + 1
      /\ sent'[Len(sent) + 1].by = ev.pc
      /\ \A k \in 1 .. Len(sent) : sent'[k] = sent[k]
  BY <1>1
<1> SUFFICES ASSUME NEW i \in DOMAIN sent', sent'[i].by = "funnel"
             PROVE  Cardinality({j \in 1 .. i :
                        sent'[i].ts - sent'[j].ts < Window}) <= MaxTrades
  BY DEF BuysThrottled, Burst
<1>3. CASE i \in 1 .. Len(sent)
  <2>1. \A j \in 1 .. i : sent'[j] = sent[j]
    BY <1>1, <1>2, <1>3
  <2>2. sent'[i] = sent[i]
    BY <1>2, <1>3
  <2>3. {j \in 1 .. i : sent'[i].ts - sent'[j].ts < Window} = Burst(i)
    BY <2>1, <2>2 DEF Burst
  <2> QED BY <1>2, <1>3, <2>2, <2>3 DEF BuysThrottled
<1>4. CASE i = Len(sent) + 1
  <2>1. ev.pc = "funnel"
    BY <1>2, <1>4
  <2> QED BY <1>2, <1>4, <2>1 DEF Burst
<1>5. i \in 1 .. Len(sent) \/ i = Len(sent) + 1
  BY <1>1, <1>2
<1> QED BY <1>3, <1>4, <1>5

\* The window, the history and the rule about it are kept by every step.
LEMMA ThrottleStep == ThrottleInv /\ [Next]_vars => ThrottleInv'
<1> SUFFICES ASSUME ThrottleInv, Next
             PROVE  (ev.ts <= clock /\ RecentIsTailOfSent /\ BuysThrottled)'
  <2>1. CASE UNCHANGED vars
    BY <2>1 DEF vars, ThrottleInv, TypeOK, RecentIsTailOfSent, BuysThrottled,
                Burst, Now, Held
  <2>2. CASE Next
    BY <2>2, TypeStep DEF ThrottleInv
  <2> QED BY <2>1, <2>2
<1> USE DEF ThrottleInv
<1>0. /\ risk \in RiskState /\ ev \in Event /\ ev.ts \in Int /\ clock \in Nat
      /\ sent \in Seq(Sent)
  BY DEF TypeOK, Event
<1>1. sent' = sent => BuysThrottled'
  BY DEF BuysThrottled, Burst
<1>2. ASSUME NEW ts \in Int, ts >= clock, ev.pc = "idle", ev'.pc # "idle",
             ev'.ts = ts, clock' = ts, sent' = sent,
             risk' \in {risk, Checked(risk, ts)}
      PROVE  (ev.ts <= clock /\ RecentIsTailOfSent /\ BuysThrottled)'
  <2>1. Now = clock /\ Now' = ts
    BY <1>2 DEF Now
  <2>2. risk'.recent \in {risk.recent, Unexpired(risk.recent, ts)}
    BY <1>0, <1>2, CheckedEffect
  <2>3. RecentIsTailOfSent'
    BY <1>2, <2>1, <2>2, TailStep
  <2> QED BY <1>1, <1>2, <2>3
<1>3. ASSUME Going, clock' >= clock, clock' \in Nat, ev'.pc # "idle",
             NEW R \in {risk.recent, Unexpired(risk.recent, ev.ts)},
             \/ sent' = sent /\ risk'.recent = R
             \/ /\ \E o \in Sent : o.ts = ev.ts /\ sent' = Append(sent, o)
                /\ risk'.recent = Append(R, ev.ts)
      PROVE  (ev.ts <= clock /\ RecentIsTailOfSent)'
  <2>1. Now = ev.ts /\ Now' = ev.ts /\ ev'.ts = ev.ts
    BY <1>3 DEF Now, Going
  <2>2. RecentIsTailOfSent'
    <3>1. ev.ts \in Int /\ ev.ts >= Now
      BY <1>0, <2>1
    <3>2. CASE sent' = sent /\ risk'.recent = R
      BY <1>3, <2>1, <3>1, <3>2, TailStep
    <3>3. ASSUME NEW o \in Sent, o.ts = ev.ts, sent' = Append(sent, o),
                 risk'.recent = Append(R, ev.ts)
          PROVE  RecentIsTailOfSent'
      BY <1>3, <2>1, <3>1, <3>3, TailStep
    <3> QED BY <1>3, <3>2, <3>3
  <2> QED BY <1>0, <1>3, <2>1, <2>2
<1>4. ASSUME NEW ts \in EventTimes, StepSkips(ts)
      PROVE  (ev.ts <= clock /\ RecentIsTailOfSent /\ BuysThrottled)'
  BY <1>2, <1>4 DEF StepSkips, Arriving
<1>5. ASSUME NEW m \in Mints, NEW ts \in EventTimes, StepFunnels(m, ts)
      PROVE  (ev.ts <= clock /\ RecentIsTailOfSent /\ BuysThrottled)'
  BY <1>2, <1>5 DEF StepFunnels, Arriving
<1>6. ASSUME NEW m \in Mints, NEW p \in Prices, NEW ts \in EventTimes,
             StepTicks(m, p, ts)
      PROVE  (ev.ts <= clock /\ RecentIsTailOfSent /\ BuysThrottled)'
  BY <1>2, <1>6 DEF StepTicks, Arriving
<1>7. CASE StepCuts
  <2>1. Going /\ ev'.pc # "idle" /\ clock' = clock /\ ev.pc = "funnel"
    BY <1>7 DEF StepCuts
  <2>2. CASE risk' = Checked(risk, ev.ts) /\ sent' = sent
    <3>1. risk'.recent = Unexpired(risk.recent, ev.ts)
      BY <1>0, <2>2, CheckedEffect
    <3> QED BY <1>0, <1>1, <1>3, <2>1, <2>2, <3>1
  <2>3. CASE SliceSent /\ risk' = Granted
    <3>1. risk'.recent = Append(Unexpired(risk.recent, ev.ts), ev.ts)
      BY <2>3, GrantedEffect
    <3>2. /\ Submit(ev.mint) /\ ~Throttled(Checked(risk, ev.ts))
          /\ \E o \in Sent : o.ts = ev.ts /\ sent' = Append(sent, o)
      <4>1. ev.mint \in Mints
        BY <2>1 DEF TypeOK
      <4> QED BY <2>1, <2>3, <4>1, SubmitEffect DEF SliceSent
    <3>3. BuysThrottled'
      BY <2>1, <3>2, BurstBounded, BurstStep
    <3> QED BY <1>0, <1>3, <2>1, <3>1, <3>2, <3>3
  <2> QED BY <1>7, <2>2, <2>3 DEF StepCuts
<1>8. ASSUME NEW p \in Prices, NEW delay \in FillDelays, StepFills(p, delay)
      PROVE  (ev.ts <= clock /\ RecentIsTailOfSent /\ BuysThrottled)'
  <2>1. /\ Going /\ ev'.pc # "idle" /\ clock' = clock + delay
        /\ ev.pc = "funnel" /\ Submit(ev.mint)
        /\ ~Throttled(Checked(risk, ev.ts))
        /\ \E o \in Sent : o.ts = ev.ts /\ sent' = Append(sent, o)
    <3>1. /\ Going /\ ev'.pc # "idle" /\ clock' = clock + delay
          /\ ev.pc = "funnel" /\ Submit(ev.mint)
          /\ ~Throttled(Checked(risk, ev.ts))
      BY <1>8 DEF StepFills, SliceFilled, SliceSent
    <3>2. ev.mint \in Mints
      BY <3>1 DEF TypeOK
    <3> QED BY <3>1, <3>2, SubmitEffect
  <2>2. clock' >= clock /\ clock' \in Nat
    BY <1>0, <2>1, EngineAssumption
  <2>3. risk'.recent = Append(Unexpired(risk.recent, ev.ts), ev.ts)
    <3>1. Granted \in RiskState
      BY <1>0, RiskTypes DEF Granted
    <3>2. \E n : risk' = [Granted EXCEPT !.open = n]
      BY <1>8 DEF StepFills, SliceFilled, SetOpenPositions
    <3> QED BY <3>1, <3>2, GrantedEffect DEF RiskState
  <2>4. BuysThrottled'
    BY <2>1, BurstBounded, BurstStep
  <2> QED BY <1>0, <1>3, <2>1, <2>2, <2>3, <2>4
<1>9. ASSUME NEW m \in Mints, Sold(m), clock' >= clock, clock' \in Nat,
             risk'.recent = Append(risk.recent, ev.ts)
      PROVE  (ev.ts <= clock /\ RecentIsTailOfSent /\ BuysThrottled)'
  <2>1. /\ Going /\ ev'.pc # "idle" /\ Submit(m) /\ ev.pc \in {"exit", "sweep"}
        /\ \E o \in Sent : o.ts = ev.ts /\ sent' = Append(sent, o)
    <3>1. /\ Going /\ ev'.pc # "idle" /\ Submit(m)
          /\ ev.pc \in {"exit", "sweep"}
      BY <1>9 DEF Sold, Selling
    <3> QED BY <3>1, SubmitEffect
  <2>2. BuysThrottled'
    BY <2>1, BurstStep
  <2> QED BY <1>0, <1>3, <1>9, <2>1, <2>2
<1>10. ASSUME NEW m \in Mints, StepFails(m)
       PROVE  (ev.ts <= clock /\ RecentIsTailOfSent /\ BuysThrottled)'
  <2>1. risk'.recent = Append(risk.recent, ev.ts)
    BY <1>0, <1>10 DEF StepFails, NoteOrder, RiskState
  <2> QED BY <1>0, <1>9, <1>10, <2>1 DEF StepFails
<1>11. ASSUME NEW m \in Mints, NEW p \in Prices, NEW delay \in FillDelays,
              StepSells(m, p, delay)
       PROVE  (ev.ts <= clock /\ RecentIsTailOfSent /\ BuysThrottled)'
  <2>1. Sold(m) /\ clock' = clock + delay
    BY <1>11 DEF StepSells, SellFilled
  <2>2. clock' >= clock /\ clock' \in Nat
    BY <1>0, <2>1, EngineAssumption
  <2>3. risk'.recent = Append(risk.recent, ev.ts)
    BY <1>11, SellEffect DEF StepSells
  <2> QED BY <1>9, <2>1, <2>2, <2>3
<1>12. CASE EndEvent
  <2>1. /\ sent' = sent /\ risk' = risk /\ clock' = clock /\ ev' = Idle
        /\ ev.pc = "sweep"
    BY <1>12 DEF EndEvent
  <2>2. Now = ev.ts /\ Now' = clock /\ ev'.ts = 0
    BY <2>1 DEF Now, Idle
  <2>3. RecentIsTailOfSent'
    <3>1. clock \in Int /\ clock >= Now /\ risk'.recent = risk.recent
      BY <1>0, <2>1, <2>2
    <3> QED BY <2>1, <2>2, <3>1, TailStep
  <2> QED BY <1>0, <1>1, <2>1, <2>2, <2>3
<1>13. CASE UNCHANGED vars
  BY <1>13 DEF vars, RecentIsTailOfSent, BuysThrottled, Burst, Now
<1> QED BY <1>4, <1>5, <1>6, <1>7, <1>8, <1>10, <1>11, <1>12, <1>13, StepCases

\* Nothing has been sent at the start.
LEMMA ThrottleInit == Init => ThrottleInv
<1> SUFFICES ASSUME Init
             PROVE  ev.ts <= clock /\ RecentIsTailOfSent /\ BuysThrottled
  BY InitType DEF ThrottleInv
<1>1. /\ sent = <<>> /\ risk.recent = <<>> /\ ev.ts = 0 /\ clock = 0
  BY DEF Init, NewRisk, Idle
<1>2. Len(sent) = 0 /\ Len(risk.recent) = 0 /\ DOMAIN sent = {}
  BY <1>1
<1> QED BY <1>1, <1>2 DEF RecentIsTailOfSent, BuysThrottled

\* Whatever sells happen in between, a buy is only ever sent into a window
\* that holds at most MaxTrades orders with it (risk.rs:185-217).
THEOREM BuysThrottledAlways == Spec => []BuysThrottled
<1>1. ThrottleInv => BuysThrottled
  BY DEF ThrottleInv
<1> QED BY <1>1, ThrottleInit, ThrottleStep, PTL DEF Spec

-----------------------------------------------------------------------------
(* The sweep and stuck positions                                           *)

SweepInv == TypeOK /\ NoStopForgotten /\ StuckIffExhausted /\ QueueNotStuck

\* What the sweep collects: every position past its stop that is not stuck.
LEMMA DueEffect ==
    ASSUME NEW pos, NEW ts
    PROVE  /\ \A m \in Due(pos, ts) : m \in DOMAIN pos /\ ~pos[m].stuck
           /\ \A m \in DOMAIN pos :
                 OnTime(pos[m], ts) => pos[m].stuck \/ m \in Due(pos, ts)
BY DEF Due

\* Ticks and fills leave the exit count alone; a failed exit raises it.
LEMMA StuckEffect ==
    ASSUME NEW pos \in Position, pos.stuck <=> pos.attempts >= MaxExitAttempts
    PROVE  /\ \A p \in Prices :
                 /\ Observe(pos, p).stuck = pos.stuck
                 /\ Observe(pos, p).attempts = pos.attempts
           /\ \A p \in Prices, amount \in Int :
                 /\ Filled(pos, amount, p).stuck = pos.stuck
                 /\ Filled(pos, amount, p).attempts = pos.attempts
           /\ Attempted(pos).stuck <=> Attempted(pos).attempts >= MaxExitAttempts
<1>1. \A p \in Prices : /\ Observe(pos, p).stuck = pos.stuck
                        /\ Observe(pos, p).attempts = pos.attempts
  BY DEF Observe, Position
<1>2. \A p \in Prices, amount \in Int :
          /\ Filled(pos, amount, p).stuck = pos.stuck
          /\ Filled(pos, amount, p).attempts = pos.attempts
  BY DEF Filled, Position
<1>3. Attempted(pos).stuck <=> Attempted(pos).attempts >= MaxExitAttempts
  <2>1. /\ Attempted(pos).attempts = pos.attempts + 1
        /\ Attempted(pos).stuck =
              (pos.stuck \/ pos.attempts + 1 >= MaxExitAttempts)
    BY DEF Attempted, Position
  <2>2. pos.attempts \in Nat /\ MaxExitAttempts \in Nat
    BY EngineAssumption DEF Position
  <2>3. (pos.stuck \/ pos.attempts + 1 >= MaxExitAttempts)
          <=> pos.attempts + 1 >= MaxExitAttempts
    BY <2>2
  <2> QED BY <2>1, <2>3, Zenon
<1> QED BY <1>1, <1>2, <1>3

\* The sweep leaves nothing out and takes nothing stuck, at every step.
LEMMA SweepStep == SweepInv /\ [Next]_vars => SweepInv'
<1> SUFFICES ASSUME SweepInv, Next
             PROVE  (NoStopForgotten /\ StuckIffExhausted /\ QueueNotStuck)'
  <2>1. CASE UNCHANGED vars
    BY <2>1 DEF vars, SweepInv, TypeOK, NoStopForgotten, StuckIffExhausted,
                QueueNotStuck, Held
  <2>2. CASE Next
    BY <2>2, TypeStep DEF SweepInv
  <2> QED BY <2>1, <2>2
<1> USE DEF SweepInv
<1>0. /\ positions \in [Held -> Position] /\ ev \in Event /\ ev.ts \in Int
      /\ ev.queue \subseteq Held /\ DOMAIN positions = Held
  BY DEF TypeOK, Event, Held
<1>1. ASSUME ev'.pc = "sweep", ev'.queue = Due(positions', ev'.ts)
      PROVE  (NoStopForgotten /\ QueueNotStuck)'
  BY <1>1, DueEffect DEF NoStopForgotten, QueueNotStuck, Held
<1>2. ASSUME NEW ts \in EventTimes, StepSkips(ts)
      PROVE  (NoStopForgotten /\ StuckIffExhausted /\ QueueNotStuck)'
  BY <1>1, <1>2 DEF StepSkips, Arriving, StuckIffExhausted, Held
<1>3. ASSUME NEW m \in Mints, NEW ts \in EventTimes, StepFunnels(m, ts)
      PROVE  (NoStopForgotten /\ StuckIffExhausted /\ QueueNotStuck)'
  BY <1>3 DEF StepFunnels, Arriving, NoStopForgotten, StuckIffExhausted,
              QueueNotStuck, Held
<1>4. ASSUME NEW m \in Mints, NEW p \in Prices, NEW ts \in EventTimes,
             StepTicks(m, p, ts)
      PROVE  (NoStopForgotten /\ StuckIffExhausted /\ QueueNotStuck)'
  <2>1. m \in Held /\ positions' = [positions EXCEPT ![m] = Observe(@, p)]
          /\ ev'.ts = ts
    BY <1>4 DEF StepTicks, Arriving
  <2>2. /\ Observe(positions[m], p).stuck = positions[m].stuck
        /\ Observe(positions[m], p).attempts = positions[m].attempts
    BY <1>0, <2>1, StuckEffect DEF StuckIffExhausted
  <2>3. StuckIffExhausted'
    BY <1>0, <2>1, <2>2 DEF StuckIffExhausted, Held
  <2>4. CASE ev'.pc = "exit" /\ ev'.queue = {}
    BY <2>3, <2>4 DEF NoStopForgotten, QueueNotStuck
  <2>5. CASE ev'.pc = "sweep" /\ ev'.queue = Due(positions', ts)
    BY <1>1, <2>1, <2>3, <2>5
  <2> QED BY <1>4, <2>4, <2>5 DEF StepTicks
<1>5. ASSUME StepCuts
      PROVE  (NoStopForgotten /\ StuckIffExhausted /\ QueueNotStuck)'
  BY <1>1, <1>5 DEF StepCuts, Going, book, StuckIffExhausted, Held
<1>6. ASSUME NEW p \in Prices, NEW delay \in FillDelays, StepFills(p, delay)
      PROVE  (NoStopForgotten /\ StuckIffExhausted /\ QueueNotStuck)'
  <2> DEFINE m == ev.mint
             amount == Slice(ev.budget, ev.slice)
             before == IF m \in Held THEN positions[m]
                                     ELSE NewPosition(p, ev.ts + delay)
  <2>1. /\ positions' = [x \in Held \cup {m} |->
                            IF x = m THEN Filled(before, amount, p)
                                     ELSE positions[x]]
        /\ ev'.ts = ev.ts
    BY <1>6 DEF StepFills, SliceFilled, Going
  <2>2. amount \in Int
    BY <1>0, SizingTypes DEF Event
  <2>3. before \in Position /\ (before.stuck <=> before.attempts >= MaxExitAttempts)
    <3>1. CASE m \in Held
      BY <1>0, <3>1 DEF StuckIffExhausted
    <3>2. CASE m \notin Held
      <4>1. ev.ts + delay \in Int
        BY <1>0, EngineAssumption
      <4>2. NewPosition(p, ev.ts + delay) \in Position
        BY <4>1, NewPositionType
      <4> QED BY <3>2, <4>2, EngineAssumption DEF NewPosition
    <3> QED BY <3>1, <3>2
  <2>4. m \in Held => before = positions[m]
    OBVIOUS
  <2> HIDE DEF before, amount
  <2>5. /\ Filled(before, amount, p).stuck = before.stuck
        /\ Filled(before, amount, p).attempts = before.attempts
    BY <2>2, <2>3, StuckEffect
  <2>6. StuckIffExhausted'
    BY <2>1, <2>3, <2>5 DEF StuckIffExhausted, Held
  <2>7. CASE ev'.pc = "funnel" /\ ev'.queue = ev.queue
    <3>1. \A x \in Held : positions'[x].stuck = positions[x].stuck
      BY <2>1, <2>4, <2>5
    <3> QED BY <1>0, <2>6, <2>7, <3>1 DEF NoStopForgotten, QueueNotStuck
  <2>8. CASE ev'.pc = "sweep" /\ ev'.queue = Due(positions', ev.ts)
    BY <1>1, <2>1, <2>6, <2>8
  <2> QED BY <1>6, <2>7, <2>8 DEF StepFills
<1>7. ASSUME NEW m \in Mints, Sold(m), Held' \subseteq Held,
             \A x \in Held' \ {m} : positions'[x] = positions[x]
      PROVE  (NoStopForgotten /\ QueueNotStuck)'
  <2>1. /\ ev'.pc = "sweep" /\ ev'.ts = ev.ts /\ ev'.tried = ev.tried \cup {m}
    BY <1>7 DEF Sold, Going
  <2>2. CASE ev'.queue = Due(positions', ev.ts)
    BY <1>1, <2>1, <2>2
  <2>3. CASE ev.pc = "sweep" /\ ev'.queue = ev.queue \ {m}
    <3>1. NoStopForgotten'
      BY <1>7, <2>1, <2>3 DEF NoStopForgotten
    <3>2. ev'.queue \subseteq Held'
      BY TypeStep DEF TypeOK
    <3>3. QueueNotStuck'
      BY <1>7, <2>3, <3>2 DEF QueueNotStuck
    <3> QED BY <3>1, <3>3
  <2> QED BY <1>7, <2>2, <2>3 DEF Sold
<1>8. ASSUME NEW m \in Mints, StepFails(m)
      PROVE  (NoStopForgotten /\ StuckIffExhausted /\ QueueNotStuck)'
  <2>1. /\ Sold(m) /\ m \in Held /\ Held' = Held
        /\ positions' = [positions EXCEPT ![m] = Attempted(@)]
    BY <1>8 DEF StepFails, Sold
  <2>2. StuckIffExhausted'
    BY <1>0, <2>1, StuckEffect DEF StuckIffExhausted, Held
  <2> QED BY <1>0, <1>7, <2>1, <2>2
<1>9. ASSUME NEW m \in Mints, NEW p \in Prices, NEW delay \in FillDelays,
             StepSells(m, p, delay)
      PROVE  (NoStopForgotten /\ StuckIffExhausted /\ QueueNotStuck)'
  <2>1. /\ Sold(m) /\ Held' = Held \ {m}
        /\ positions' = [x \in Held \ {m} |-> positions[x]]
    BY <1>9 DEF StepSells
  <2>2. StuckIffExhausted'
    BY <2>1 DEF StuckIffExhausted
  <2> QED BY <1>7, <2>1, <2>2
<1>10. CASE EndEvent
  BY <1>10 DEF EndEvent, Idle, book, NoStopForgotten, StuckIffExhausted,
               QueueNotStuck, Held
<1>11. CASE UNCHANGED vars
  BY <1>11 DEF vars, NoStopForgotten, StuckIffExhausted, QueueNotStuck, Held
<1> QED BY <1>2, <1>3, <1>4, <1>5, <1>6, <1>8, <1>9, <1>10, <1>11, StepCases

\* A fresh engine has nothing to sweep.
LEMMA SweepInit == Init => SweepInv
BY InitType DEF Init, Idle, SweepInv, NoStopForgotten, StuckIffExhausted,
                QueueNotStuck, Held

\* No event ends with a position past its time stop that is neither stuck nor
\* sold or tried in that event (engine.rs:321-361).
THEOREM NoStopForgottenAlways == Spec => []NoStopForgotten
<1>1. SweepInv => NoStopForgotten
  BY DEF SweepInv
<1> QED BY <1>1, SweepInit, SweepStep, PTL DEF Spec

\* Ticks and slices leave what the exits counted alone, and only the sell of
\* a position by a tick, or by the sweep that collected it, changes it.
LEMMA AttemptsStep ==
    ASSUME SweepInv, Next, NEW m \in Held
    PROVE  \/ /\ m \in Held'
              /\ positions'[m].attempts = positions[m].attempts
              /\ positions'[m].stuck = positions[m].stuck
           \/ StepFails(m)
           \/ \E p \in Prices, delay \in FillDelays : StepSells(m, p, delay)
<1> DEFINE Same == /\ m \in Held'
                   /\ positions'[m].attempts = positions[m].attempts
                   /\ positions'[m].stuck = positions[m].stuck
<1>0. /\ TypeOK /\ positions \in [Held -> Position] /\ ev \in Event
      /\ StuckIffExhausted /\ DOMAIN positions = Held /\ m \in Mints
  BY DEF SweepInv, TypeOK, Held
<1>1. positions' = positions => Same
  BY DEF Held
<1>2. ASSUME NEW x \in Mints, NEW p \in Prices, NEW ts \in EventTimes,
             StepTicks(x, p, ts)
      PROVE  Same
  <2>1. positions' = [positions EXCEPT ![x] = Observe(@, p)] /\ Held' = Held
    BY <1>2 DEF StepTicks, Arriving
  <2>2. /\ Observe(positions[m], p).attempts = positions[m].attempts
        /\ Observe(positions[m], p).stuck = positions[m].stuck
    BY <1>0, StuckEffect DEF StuckIffExhausted
  <2> QED BY <1>0, <2>1, <2>2
<1>3. ASSUME NEW p \in Prices, NEW delay \in FillDelays, StepFills(p, delay)
      PROVE  Same
  <2> DEFINE amount == Slice(ev.budget, ev.slice)
             before == IF ev.mint \in Held THEN positions[ev.mint]
                                           ELSE NewPosition(p, ev.ts + delay)
  <2>1. /\ positions' = [x \in Held \cup {ev.mint} |->
                            IF x = ev.mint THEN Filled(before, amount, p)
                                           ELSE positions[x]]
        /\ Held' = Held \cup {ev.mint}
    BY <1>3 DEF StepFills, SliceFilled
  <2>2. m = ev.mint => before = positions[m]
    OBVIOUS
  <2>3. amount \in Int
    BY <1>0, SizingTypes DEF Event
  <2> HIDE DEF before, amount
  <2>4. /\ Filled(positions[m], amount, p).attempts = positions[m].attempts
        /\ Filled(positions[m], amount, p).stuck = positions[m].stuck
    BY <1>0, <2>3, StuckEffect DEF StuckIffExhausted
  <2> QED BY <2>1, <2>2, <2>4
<1>4. ASSUME NEW x \in Mints, StepFails(x), x # m PROVE Same
  BY <1>0, <1>4 DEF StepFails
<1>5. ASSUME NEW x \in Mints, NEW p \in Prices, NEW delay \in FillDelays,
             StepSells(x, p, delay), x # m
      PROVE  Same
  BY <1>0, <1>5 DEF StepSells
<1> HIDE DEF Same
<1>6. CASE positions' = positions
  BY <1>1, <1>6 DEF Same
<1>7. \/ positions' = positions
      \/ \E x \in Mints, p \in Prices, ts \in EventTimes : StepTicks(x, p, ts)
      \/ \E p \in Prices, delay \in FillDelays : StepFills(p, delay)
      \/ \E x \in Mints : StepFails(x)
      \/ \E x \in Mints, p \in Prices, delay \in FillDelays :
             StepSells(x, p, delay)
  BY <1>0, StepCases
     DEF StepSkips, StepFunnels, StepCuts, EndEvent, book, vars
<1> QED BY <1>2, <1>3, <1>4, <1>5, <1>6, <1>7 DEF Same

\* Only a tick of its own token sells a stuck position again, counting one
\* more attempt or closing it: no sweep does, not even the one of the event
\* whose tick has made it stuck (engine.rs:337-345).
THEOREM StuckWaitsForTickAlways == Spec => StuckWaitsForTick
<1> DEFINE Step ==
      \A m \in Held :
          positions[m].stuck =>
              \/ m \in Held' /\ positions'[m].attempts = positions[m].attempts
              \/ ev.pc = "exit" /\ ev.mint = m
<1>1. SweepInv /\ [Next]_vars => [Step]_vars
  <2> SUFFICES ASSUME SweepInv, Next, NEW m \in Held, positions[m].stuck
               PROVE  \/ /\ m \in Held'
                         /\ positions'[m].attempts = positions[m].attempts
                      \/ ev.pc = "exit" /\ ev.mint = m
    OBVIOUS
  <2>1. Sold(m) => ev.pc = "exit" /\ ev.mint = m
    BY DEF Sold, Selling, SweepInv, QueueNotStuck
  <2> QED BY <2>1, AttemptsStep DEF StepFails, StepSells
<1> HIDE DEF Step
<1>2. Spec => [][Step]_vars
  BY <1>1, SweepInit, SweepStep, PTL DEF Spec
<1> QED BY <1>2 DEF Step, StuckWaitsForTick

-----------------------------------------------------------------------------
(* Exits counted against the orders really sent                            *)

ExitInv == SweepInv /\ ExitsCounted /\ SweepGivesUp

\* The exits of a mint are orders that were sent, finitely many of them.
LEMMA ExitsFinite ==
    ASSUME TypeOK, NEW m
    PROVE  /\ ExitsSent(m) \subseteq 1 .. Len(sent)
           /\ Len(sent) \in Nat
           /\ IsFiniteSet(ExitsSent(m)) /\ Cardinality(ExitsSent(m)) \in Nat
<1>1. ExitsSent(m) \subseteq 1 .. Len(sent) /\ Len(sent) \in Nat
  BY DEF TypeOK, ExitsSent
<1>2. IsFiniteSet(1 .. Len(sent))
  BY <1>1, FS_Interval
<1> QED BY <1>1, <1>2, FS_Subset, FS_CardinalityType

\* What one order more does to the exits of a mint: a sell of it is the next
\* one, a buy of it starts afresh, an order of another mint changes nothing.
LEMMA ExitsGrow ==
    ASSUME TypeOK, NEW m \in Mints, ev.pc # "idle", Submit(m), NEW x
    PROVE  /\ x # m => ExitsSent(x)' = ExitsSent(x)
           /\ ev.pc = "funnel" => ExitsSent(m)' = {}
           /\ ev.pc # "funnel" =>
                 ExitsSent(m)' = ExitsSent(m) \cup {Len(sent) + 1}
           /\ \A i \in 1 .. Len(sent) : sent'[i] = sent[i]
           /\ sent'[Len(sent) + 1].by = ev.pc
<1> DEFINE n == Len(sent)
<1>1. PICK o \in Sent : o.mint = m /\ o.by = ev.pc /\ sent' = Append(sent, o)
  BY SubmitEffect
<1>2. /\ n \in Nat /\ DOMAIN sent = 1 .. n /\ DOMAIN sent' = 1 .. n + 1
      /\ Len(sent') = n + 1 /\ sent'[n + 1] = o
      /\ \A i \in 1 .. n : sent'[i] = sent[i]
  <2>1. sent \in Seq(Sent)
    BY DEF TypeOK
  <2> QED BY <1>1, <2>1
<1> HIDE DEF n
<1>3. \A y : ExitsSent(y) =
         {i \in 1 .. n : /\ sent[i].mint = y
                         /\ \A j \in i .. n :
                               sent[j].mint = y => sent[j].by # "funnel"}
  BY <1>2 DEF ExitsSent, n
<1>4. \A y : ExitsSent(y)' =
         {i \in 1 .. n + 1 : /\ sent'[i].mint = y
                             /\ \A j \in i .. n + 1 :
                                   sent'[j].mint = y => sent'[j].by # "funnel"}
  BY <1>2 DEF ExitsSent
<1>5. ASSUME NEW i \in 1 .. n
      PROVE  /\ i .. n + 1 = (i .. n) \cup {n + 1}
             /\ \A j \in i .. n : sent'[j] = sent[j]
  BY <1>2
<1>6. x # m => ExitsSent(x)' = ExitsSent(x)
  <2> SUFFICES ASSUME x # m PROVE ExitsSent(x)' = ExitsSent(x)
    OBVIOUS
  <2>1. sent'[n + 1].mint # x
    BY <1>1, <1>2
  <2>2. ASSUME NEW i \in 1 .. n PROVE i \in ExitsSent(x)' <=> i \in ExitsSent(x)
    <3>1. i \in 1 .. n + 1 /\ sent'[i] = sent[i]
      BY <1>2
    <3>2. (\A j \in i .. n + 1 : sent'[j].mint = x => sent'[j].by # "funnel")
             <=> \A j \in i .. n : sent[j].mint = x => sent[j].by # "funnel"
      BY <1>5, <2>1
    <3> QED BY <1>3, <1>4, <3>1, <3>2
  <2>3. n + 1 \notin ExitsSent(x)'
    BY <1>4, <2>1
  <2>4. ExitsSent(x)' \subseteq (1 .. n) \cup {n + 1} /\ ExitsSent(x) \subseteq 1 .. n
    BY <1>2, <1>3, <1>4
  <2> QED BY <2>2, <2>3, <2>4
<1>7. ev.pc = "funnel" => ExitsSent(m)' = {}
  <2> SUFFICES ASSUME ev.pc = "funnel", NEW i \in ExitsSent(m)' PROVE FALSE
    OBVIOUS
  <2>1. i \in 1 .. n + 1 /\ n + 1 \in i .. n + 1
    BY <1>2, <1>4
  <2>2. sent'[n + 1].mint = m => sent'[n + 1].by # "funnel"
    BY <1>4, <2>1
  <2> QED BY <1>1, <1>2, <2>2
<1>8. ev.pc # "funnel" => ExitsSent(m)' = ExitsSent(m) \cup {n + 1}
  <2> SUFFICES ASSUME ev.pc # "funnel"
               PROVE  ExitsSent(m)' = ExitsSent(m) \cup {n + 1}
    OBVIOUS
  <2>1. sent'[n + 1].mint = m /\ sent'[n + 1].by # "funnel"
    BY <1>1, <1>2
  <2>2. ASSUME NEW i \in 1 .. n PROVE i \in ExitsSent(m)' <=> i \in ExitsSent(m)
    <3>1. i \in 1 .. n + 1 /\ sent'[i] = sent[i]
      BY <1>2
    <3>2. (\A j \in i .. n + 1 : sent'[j].mint = m => sent'[j].by # "funnel")
             <=> \A j \in i .. n : sent[j].mint = m => sent[j].by # "funnel"
      BY <1>5, <2>1
    <3> QED BY <1>3, <1>4, <3>1, <3>2
  <2>3. n + 1 \in ExitsSent(m)'
    <3>1. n + 1 \in 1 .. n + 1 /\ (n + 1) .. (n + 1) = {n + 1}
      BY <1>2
    <3> QED BY <1>4, <2>1, <3>1
  <2>4. ExitsSent(m)' \subseteq (1 .. n) \cup {n + 1} /\ ExitsSent(m) \subseteq 1 .. n
    BY <1>2, <1>3, <1>4
  <2> QED BY <2>2, <2>3, <2>4
<1> QED BY <1>1, <1>2, <1>6, <1>7, <1>8 DEF n

\* Every step keeps the count of exits, and with it the limit on them.
LEMMA ExitStep == ExitInv /\ [Next]_vars => ExitInv'
<1> SUFFICES ASSUME ExitInv, [Next]_vars
             PROVE  SweepInv' /\ ExitsCounted' /\ SweepGivesUp'
  BY DEF ExitInv
<1>1. SweepInv'
  BY SweepStep DEF ExitInv
<1>2. CASE UNCHANGED vars
  <2>1. \A x : ExitsSent(x)' = ExitsSent(x)
    BY <1>2 DEF vars, ExitsSent
  <2>2. Held' = Held /\ positions' = positions /\ ev' = ev /\ sent' = sent
    BY <1>2 DEF vars, Held
  <2>3. ExitsCounted'
    BY <2>1, <2>2 DEF ExitInv, ExitsCounted
  <2>4. SweepGivesUp'
    BY <2>1, <2>2 DEF ExitInv, SweepGivesUp
  <2> QED BY <1>1, <2>3, <2>4
<1>3. CASE Next
  <2> DEFINE Swept(x) == {i \in ExitsSent(x) : sent[i].by = "sweep"}
             Good(x) == /\ positions[x].attempts = Cardinality(ExitsSent(x))
                        /\ ev.pc = "funnel" /\ ev.mint = x
                              => positions[x].attempts = 0
                        /\ Cardinality(Swept(x)) <= MaxExitAttempts
  <2>0. /\ TypeOK /\ SweepInv /\ \A x \in Held : Good(x)
        /\ \A x \in Held : positions[x].attempts \in Nat
        /\ MaxExitAttempts \in Nat /\ StuckIffExhausted'
    BY <1>1, EngineAssumption
       DEF ExitInv, ExitsCounted, SweepGivesUp, SweepInv, TypeOK, Position
  <2>1. SUFFICES ASSUME NEW x \in Held' PROVE Good(x)'
    BY <1>1, <2>0 DEF ExitsCounted, SweepGivesUp, StuckIffExhausted
  <2>2. ASSUME sent' = sent, x \in Held,
               positions'[x].attempts = positions[x].attempts,
               ev'.pc = "funnel" => ev'.mint # x
        PROVE  Good(x)'
    <3>1. ExitsSent(x)' = ExitsSent(x)
      BY <2>2 DEF ExitsSent
    <3>2. Swept(x)' = Swept(x)
      BY <2>2, <3>1
    <3> HIDE DEF Swept
    <3> QED BY <2>0, <2>2, <3>1, <3>2
  <2>3. CASE \E ts \in EventTimes : StepSkips(ts)
    BY <2>2, <2>3 DEF StepSkips, Arriving, Held
  <2>4. CASE \E m \in Mints, ts \in EventTimes : StepFunnels(m, ts)
    BY <2>2, <2>4 DEF StepFunnels, Arriving, Held
  <2>5. ASSUME NEW m \in Mints, NEW p \in Prices, NEW ts \in EventTimes,
               StepTicks(m, p, ts)
        PROVE  Good(x)'
    <3>1. sent' = sent /\ Held' = Held /\ ev.pc = "idle" /\ ev'.pc # "funnel"
      BY <2>5 DEF StepTicks, Arriving
    <3>2. positions'[x].attempts = positions[x].attempts
      BY <1>3, <2>0, <3>1, AttemptsStep
         DEF StepFails, StepSells, Sold, Selling
    <3> QED BY <2>2, <3>1, <3>2
  <2>6. ASSUME NEW m \in Mints, ev.pc # "idle", Submit(m), x # m, x \in Held,
               positions'[x] = positions[x],
               ev'.pc = "funnel" => ev'.mint # x
        PROVE  Good(x)'
    <3>1. /\ ExitsSent(x)' = ExitsSent(x)
          /\ \A i \in 1 .. Len(sent) : sent'[i] = sent[i]
      BY <2>0, <2>6, ExitsGrow
    <3>2. ExitsSent(x) \subseteq 1 .. Len(sent)
      BY <2>0, ExitsFinite
    <3>3. Swept(x)' = Swept(x)
      BY <3>1, <3>2
    <3> HIDE DEF Swept
    <3> QED BY <2>0, <2>6, <3>1, <3>3
  <2>7. CASE StepCuts
    <3>1. /\ positions' = positions /\ Held' = Held /\ ev'.pc = "sweep"
          /\ ev.pc = "funnel" /\ ev.mint \in Mints
      BY <2>0, <2>7 DEF StepCuts, book, Held, TypeOK
    <3>2. CASE sent' = sent
      BY <2>2, <3>1, <3>2
    <3>3. CASE Submit(ev.mint) /\ x # ev.mint
      BY <2>6, <3>1, <3>3
    <3>4. CASE Submit(ev.mint) /\ x = ev.mint
      <4>1. ExitsSent(x)' = {}
        BY <2>0, <3>1, <3>4, ExitsGrow
      <4>2. Swept(x)' = {}
        BY <4>1
      <4> HIDE DEF Swept
      <4>3. positions'[x].attempts = 0
        BY <2>0, <3>1, <3>4
      <4> QED BY <2>0, <3>1, <4>1, <4>2, <4>3, FS_EmptySet
    <3> QED BY <2>7, <3>2, <3>3, <3>4 DEF StepCuts, SliceSent
  <2>8. ASSUME NEW p \in Prices, NEW delay \in FillDelays, StepFills(p, delay)
        PROVE  Good(x)'
    <3> DEFINE amount == Slice(ev.budget, ev.slice)
               before == IF ev.mint \in Held THEN positions[ev.mint]
                                             ELSE NewPosition(p, ev.ts + delay)
    <3>1. /\ positions' = [y \in Held \cup {ev.mint} |->
                              IF y = ev.mint THEN Filled(before, amount, p)
                                             ELSE positions[y]]
          /\ Held' = Held \cup {ev.mint} /\ Submit(ev.mint)
          /\ ev.pc = "funnel" /\ ev.mint \in Mints
          /\ ev'.pc = "funnel" => ev'.mint = ev.mint
      BY <2>0, <2>8 DEF StepFills, SliceFilled, SliceSent, TypeOK
    <3>2. CASE x # ev.mint
      BY <2>6, <3>1, <3>2
    <3>3. CASE x = ev.mint
      <4>1. ExitsSent(x)' = {}
        BY <2>0, <3>1, <3>3, ExitsGrow
      <4>2. Swept(x)' = {}
        BY <4>1
      <4>3. before \in Position /\ before.attempts = 0 /\ before.stuck = FALSE
        <5>1. ev.ts + delay \in Int /\ NewPosition(p, ev.ts + delay) \in Position
          <6>1. ev.ts + delay \in Int
            BY <2>0, EngineAssumption DEF TypeOK, Event
          <6> QED BY <6>1, NewPositionType
        <5>2. CASE ev.mint \notin Held
          BY <5>1, <5>2 DEF NewPosition
        <5>3. CASE ev.mint \in Held
          <6>1. positions[ev.mint].attempts = 0 /\ before = positions[ev.mint]
            BY <2>0, <3>1, <5>3
          <6>2. ~(positions[ev.mint].attempts >= MaxExitAttempts)
            BY <6>1, EngineAssumption
          <6>3. positions[ev.mint] \in Position
            BY <2>0, <5>3 DEF TypeOK
          <6> QED BY <2>0, <5>3, <6>1, <6>2, <6>3
                  DEF SweepInv, StuckIffExhausted, Position
        <5> QED BY <5>2, <5>3
      <4>4. amount \in Int
        BY <2>0, SizingTypes DEF TypeOK, Event
      <4> HIDE DEF before, amount, Swept
      <4>5. Filled(before, amount, p).attempts = 0
        BY <4>3, <4>4, EngineAssumption, StuckEffect
      <4>6. positions'[x].attempts = 0
        BY <3>1, <3>3, <4>5
      <4> QED BY <2>0, <4>1, <4>2, <4>6, FS_EmptySet
    <3> QED BY <3>2, <3>3
  <2>9. ASSUME NEW m \in Mints, Sold(m)
        PROVE  /\ ev.pc \in {"exit", "sweep"} /\ Submit(m) /\ m \in Held
               /\ ev'.pc = "sweep"
               /\ ev.pc = "sweep" => ~positions[m].stuck
    BY <2>0, <2>9 DEF Sold, Selling, SweepInv, QueueNotStuck
  <2>10. ASSUME NEW m \in Mints, StepFails(m)
         PROVE  Good(x)'
    <3>1. /\ positions' = [positions EXCEPT ![m] = Attempted(@)]
          /\ Held' = Held /\ Sold(m)
      BY <2>10 DEF StepFails
    <3>2. CASE x # m
      <4>1. positions'[x] = positions[x]
        BY <3>1, <3>2 DEF Held
      <4> QED BY <2>6, <2>9, <3>1, <3>2, <4>1
    <3>3. CASE x = m
      <4> DEFINE last == Len(sent) + 1
      <4>1. /\ ExitsSent(m)' = ExitsSent(m) \cup {last}
            /\ \A i \in 1 .. Len(sent) : sent'[i] = sent[i]
            /\ sent'[last].by = ev.pc
        BY <2>0, <2>9, <3>1, ExitsGrow
      <4>2. /\ ExitsSent(m) \subseteq 1 .. Len(sent) /\ Len(sent) \in Nat
            /\ IsFiniteSet(ExitsSent(m)) /\ Cardinality(ExitsSent(m)) \in Nat
        BY <2>0, ExitsFinite
      <4>3. last \notin ExitsSent(m)
        BY <4>2
      <4>4. Cardinality(ExitsSent(m)') = Cardinality(ExitsSent(m)) + 1
        BY <4>1, <4>2, <4>3, FS_AddElement
      <4>5. positions'[m].attempts = positions[m].attempts + 1
        BY <2>0, <2>9, <3>1 DEF Held, TypeOK, Attempted, Position
      <4>6. Cardinality(Swept(m)') <= MaxExitAttempts
        <5>1. /\ Swept(m) \subseteq ExitsSent(m)
              /\ IsFiniteSet(Swept(m)) /\ Cardinality(Swept(m)) \in Nat
              /\ Cardinality(Swept(m)) <= Cardinality(ExitsSent(m))
          <6>1. Swept(m) \subseteq ExitsSent(m)
            OBVIOUS
          <6> HIDE DEF Swept
          <6> QED BY <4>2, <6>1, FS_Subset, FS_CardinalityType
        <5>2. CASE ev.pc = "exit"
          <6>1. Swept(m)' = Swept(m)
            BY <4>1, <4>2, <5>2
          <6> HIDE DEF Swept
          <6> QED BY <2>0, <2>9, <3>1, <6>1
        <5>3. CASE ev.pc = "sweep"
          <6>1. Swept(m)' = Swept(m) \cup {last} /\ last \notin Swept(m)
            BY <4>1, <4>2, <4>3, <5>3
          <6>2. Cardinality(Swept(m)') = Cardinality(Swept(m)) + 1
            <7> HIDE DEF Swept
            <7> QED BY <5>1, <6>1, FS_AddElement
          <6>3. Cardinality(ExitsSent(m)) < MaxExitAttempts
            <7>1. m \in Held /\ ~positions[m].stuck
              BY <2>9, <3>1, <5>3
            <7>2. ~(positions[m].attempts >= MaxExitAttempts)
              BY <2>0, <7>1 DEF SweepInv, StuckIffExhausted
            <7>3. positions[m].attempts = Cardinality(ExitsSent(m))
              BY <2>0, <7>1
            <7> QED BY <2>0, <4>2, <7>2, <7>3
          <6> HIDE DEF Swept
          <6> QED BY <2>0, <4>2, <5>1, <6>2, <6>3
        <5> QED BY <2>9, <3>1, <5>2, <5>3
      <4> HIDE DEF Swept
      <4> QED BY <2>0, <2>9, <3>1, <3>3, <4>4, <4>5, <4>6
    <3> QED BY <3>2, <3>3
  <2>11. ASSUME NEW m \in Mints, NEW p \in Prices, NEW delay \in FillDelays,
                StepSells(m, p, delay)
         PROVE  Good(x)'
    <3>1. /\ positions' = [y \in Held \ {m} |-> positions[y]]
          /\ Held' = Held \ {m} /\ Sold(m)
      BY <2>11 DEF StepSells
    <3> QED BY <2>6, <2>9, <3>1
  <2>12. CASE EndEvent
    BY <2>2, <2>12 DEF EndEvent, Idle, book, Held
  <2>13. CASE UNCHANGED vars
    <3>1. /\ sent' = sent /\ x \in Held /\ positions' = positions /\ ev' = ev
      BY <2>13 DEF vars, Held
    <3>2. ExitsSent(x)' = ExitsSent(x)
      BY <3>1 DEF ExitsSent
    <3>3. Swept(x)' = Swept(x)
      BY <3>1, <3>2
    <3> HIDE DEF Swept
    <3> QED BY <2>0, <3>1, <3>2, <3>3
  <2> HIDE DEF Good
  <2> QED BY <1>3, <2>0, <2>3, <2>4, <2>5, <2>7, <2>8, <2>10, <2>11, <2>12,
             <2>13, StepCases
<1> QED BY <1>2, <1>3

\* A fresh engine holds nothing.
LEMMA ExitInit == Init => ExitInv
BY SweepInit DEF Init, ExitInv, ExitsCounted, SweepGivesUp, Held

\* Over any run of events, a position still open is stuck exactly when
\* MaxExitAttempts sells of it have been sent in vain since it was bought, by
\* ticks and sweeps together, and the sweep sent no more than that many of them
\* (engine.rs:337-345, 432-445).
THEOREM SweepGivesUpAlways == Spec => []SweepGivesUp
<1>1. ExitInv => SweepGivesUp
  BY DEF ExitInv
<1> QED BY <1>1, ExitInit, ExitStep, PTL DEF Spec

-----------------------------------------------------------------------------
(* Alerting                                                                *)

PageInv == TypeOK /\ PagesAreAudited /\ EdgeIsAudited

\* Pages follow audit records, and records follow trips, at every step.
LEMMA PageStep == PageInv /\ [Next]_vars => PageInv'
<1> SUFFICES ASSUME PageInv, Next PROVE (PagesAreAudited /\ EdgeIsAudited)'
  <2>1. CASE UNCHANGED vars
    BY <2>1 DEF vars, PageInv, TypeOK, PagesAreAudited, EdgeIsAudited,
                BreakerEdge, Held
  <2>2. CASE Next
    BY <2>2, TypeStep DEF PageInv
  <2> QED BY <2>1, <2>2
<1> USE DEF PageInv
<1>0. /\ risk \in RiskState /\ ev.ts \in Int
      /\ log.pages \in Nat /\ log.breakers \in Nat /\ log.trips \in Nat
      /\ log \in Log
  BY DEF TypeOK, Event, Log
<1>1. ASSUME NEW ts, Arriving(ts), KillSwitch(risk') => KillSwitch(risk)
      PROVE  (PagesAreAudited /\ EdgeIsAudited)'
  BY <1>1 DEF Arriving, PagesAreAudited, EdgeIsAudited, BreakerEdge
<1>2. ASSUME Going, log' = log, KillSwitch(risk') => KillSwitch(risk)
      PROVE  (PagesAreAudited /\ EdgeIsAudited)'
  BY <1>2 DEF Going, PagesAreAudited, EdgeIsAudited, BreakerEdge
<1>3. ASSUME NEW ts \in EventTimes, StepSkips(ts)
      PROVE  (PagesAreAudited /\ EdgeIsAudited)'
  <2>1. ts \in Int
    BY <1>3 DEF StepSkips, Arriving
  <2>2. KillSwitch(risk') => KillSwitch(risk)
    BY <1>0, <1>3, <2>1, CheckedEffect DEF StepSkips
  <2> QED BY <1>1, <1>3, <2>2 DEF StepSkips
<1>4. ASSUME NEW m \in Mints, NEW ts \in EventTimes, StepFunnels(m, ts)
      PROVE  (PagesAreAudited /\ EdgeIsAudited)'
  <2>1. ts \in Int
    BY <1>4 DEF StepFunnels, Arriving
  <2>2. KillSwitch(risk') => KillSwitch(risk)
    BY <1>0, <1>4, <2>1, CheckedEffect DEF StepFunnels
  <2> QED BY <1>1, <1>4, <2>2 DEF StepFunnels
<1>5. ASSUME NEW m \in Mints, NEW p \in Prices, NEW ts \in EventTimes,
             StepTicks(m, p, ts)
      PROVE  (PagesAreAudited /\ EdgeIsAudited)'
  BY <1>1, <1>5 DEF StepTicks
<1>6. ASSUME StepCuts PROVE (PagesAreAudited /\ EdgeIsAudited)'
  <2>1. KillSwitch(risk') => KillSwitch(risk)
    BY <1>0, <1>6, CheckedEffect, GrantedEffect DEF StepCuts
  <2> QED BY <1>2, <1>6, <2>1 DEF StepCuts
<1>7. ASSUME NEW p \in Prices, NEW delay \in FillDelays, StepFills(p, delay)
      PROVE  (PagesAreAudited /\ EdgeIsAudited)'
  <2>1. KillSwitch(risk') => KillSwitch(risk)
    <3>1. Granted \in RiskState
      BY <1>0, RiskTypes DEF Granted
    <3>2. \E n : risk' = [Granted EXCEPT !.open = n]
      BY <1>7 DEF StepFills, SliceFilled, SetOpenPositions
    <3>3. KillSwitch(risk') = KillSwitch(Granted)
      BY <3>1, <3>2 DEF KillSwitch, RiskState
    <3> QED BY <3>3, GrantedEffect
  <2> QED BY <1>2, <1>7, <2>1 DEF StepFills, SliceFilled
<1>8. ASSUME NEW m \in Mints, StepFails(m)
      PROVE  (PagesAreAudited /\ EdgeIsAudited)'
  <2>1. KillSwitch(risk') = KillSwitch(risk)
    BY <1>0, <1>8 DEF StepFails, NoteOrder, KillSwitch, RiskState
  <2> QED BY <1>2, <1>8, <2>1 DEF StepFails, Sold
<1>9. ASSUME NEW m \in Mints, NEW p \in Prices, NEW delay \in FillDelays,
             StepSells(m, p, delay)
      PROVE  (PagesAreAudited /\ EdgeIsAudited)'
  <2>1. Going /\ SellFilled(m, p, delay)
    BY <1>9 DEF StepSells, Sold
  <2>2. log' \in Log
    BY TypeStep DEF TypeOK
  <2>3. log'.pages = log.pages /\ log'.trips \in Nat /\ log'.breakers \in Nat
    BY <2>1, <2>2, SellEffect DEF Log
  <2>4. CASE ~KillSwitch(risk) /\ KillSwitch(risk')
    <3>1. log'.trips = log.trips + 1 /\ log'.breakers = log.breakers + 1
      BY <2>1, <2>4, SellEffect
    <3> QED BY <1>0, <2>3, <3>1 DEF PagesAreAudited, EdgeIsAudited
  <2>5. CASE ~(~KillSwitch(risk) /\ KillSwitch(risk'))
    <3>1. log'.trips >= log.trips /\ log'.breakers = log.breakers
      BY <2>1, <2>5, SellEffect
    <3>2. BreakerEdge' => BreakerEdge
      BY <2>1, <2>5 DEF Going, BreakerEdge
    <3>3. PagesAreAudited'
      BY <1>0, <2>3, <3>1 DEF PagesAreAudited
    <3>4. EdgeIsAudited'
      BY <2>1, <2>3, <3>1, <3>2 DEF EdgeIsAudited, Going
    <3> QED BY <3>3, <3>4
  <2> QED BY <2>4, <2>5
<1>10. CASE EndEvent
  <2>1. ev'.pc = "idle" /\ ev.pc # "idle"
    BY <1>10 DEF EndEvent, Idle
  <2>2. /\ log'.pages = IF BreakerEdge THEN log.pages + 1 ELSE log.pages
        /\ log'.breakers = log.breakers /\ log'.trips = log.trips
    BY <1>0, <1>10 DEF EndEvent, Log
  <2>3. PagesAreAudited'
    BY <1>0, <2>1, <2>2 DEF PagesAreAudited, EdgeIsAudited
  <2> QED BY <2>1, <2>3 DEF EdgeIsAudited
<1>11. CASE UNCHANGED vars
  BY <1>11 DEF vars, PagesAreAudited, EdgeIsAudited, BreakerEdge
<1> QED BY <1>3, <1>4, <1>5, <1>6, <1>7, <1>8, <1>9, <1>10, <1>11, StepCases

\* Nothing has tripped at the start.
LEMMA PageInit == Init => PageInv
BY InitType DEF Init, Idle, PageInv, PagesAreAudited, EdgeIsAudited

\* No page without an audit record behind it and no record without a trip of
\* the breaker (engine.rs:155-165, 492-503).
THEOREM PagesAreAuditedAlways == Spec => []PagesAreAudited
<1>1. PageInv => PagesAreAudited
  BY DEF PageInv
<1> QED BY <1>1, PageInit, PageStep, PTL DEF Spec

-----------------------------------------------------------------------------
(* Across restarts                                                         *)

\* What the engine does to its kill switch, its trades and its order ids
\* between two boots: it leaves the first and only adds to the others.
LEMMA RecencyStep ==
    ASSUME TypeOK, Next
    PROVE  /\ risk'.kill = risk.kill
           /\ orderSeq' >= orderSeq
           /\ closed' = closed \/ \E t \in Trade : closed' = Append(closed, t)
<1>0. risk \in RiskState /\ ev \in Event /\ orderSeq \in Nat
  BY DEF TypeOK
<1>1. ASSUME NEW r \in RiskState, NEW ts \in Int
      PROVE  Checked(r, ts).kill = r.kill /\ NoteOrder(r, ts).kill = r.kill
  <2>1. Rollover(r, ts) \in RiskState /\ Rollover(r, ts).kill = r.kill
    BY RiskTypes DEF Rollover, RiskState
  <2> QED BY <2>1 DEF Checked, NoteOrder, RiskState
<1>2. ASSUME NEW r \in RiskState, NEW n, NEW ts \in Int, NEW pnl \in Int
      PROVE  /\ SetOpenPositions(r, n).kill = r.kill
             /\ RecordRealizedPnl(r, pnl, ts).kill = r.kill
  <2>1. Rollover(r, ts) \in RiskState /\ Rollover(r, ts).kill = r.kill
    BY RiskTypes DEF Rollover, RiskState
  <2>2. SetOpenPositions(r, n).kill = r.kill
    BY DEF SetOpenPositions, RiskState
  <2> QED BY <2>1, <2>2 DEF RecordRealizedPnl, RiskState
<1> DEFINE Kept == /\ risk'.kill = risk.kill
                   /\ orderSeq' >= orderSeq
                   /\ closed' = closed \/ \E t \in Trade : closed' = Append(closed, t)
<1>3. ASSUME NEW ts \in EventTimes, StepSkips(ts) PROVE Kept
  <2>1. ts \in Int
    BY <1>3 DEF StepSkips, Arriving
  <2> QED BY <1>0, <1>1, <1>3, <2>1 DEF StepSkips, Arriving
<1>4. ASSUME NEW m \in Mints, NEW ts \in EventTimes, StepFunnels(m, ts)
      PROVE  Kept
  <2>1. ts \in Int
    BY <1>4 DEF StepFunnels, Arriving
  <2> QED BY <1>0, <1>1, <1>4, <2>1 DEF StepFunnels, Arriving
<1>5. ASSUME NEW m \in Mints, NEW p \in Prices, NEW ts \in EventTimes,
             StepTicks(m, p, ts)
      PROVE  Kept
  BY <1>0, <1>5 DEF StepTicks, Arriving
<1>6. /\ ev.ts \in Int /\ Checked(risk, ev.ts) \in RiskState
      /\ Granted \in RiskState /\ Granted.kill = risk.kill
  <2>1. ev.ts \in Int
    BY <1>0 DEF Event
  <2>2. Checked(risk, ev.ts) \in RiskState /\ Granted \in RiskState
    BY <1>0, <2>1, RiskTypes DEF Granted
  <2>3. Granted.kill = risk.kill
    BY <1>0, <1>1, <2>1, <2>2 DEF Granted
  <2> QED BY <2>1, <2>2, <2>3
<1>7. CASE StepCuts
  BY <1>0, <1>1, <1>6, <1>7 DEF StepCuts, SliceSent, Submit, book
<1>8. ASSUME NEW p \in Prices, NEW delay \in FillDelays, StepFills(p, delay)
      PROVE  Kept
  BY <1>0, <1>2, <1>6, <1>8
     DEF StepFills, SliceFilled, SliceSent, Submit, SetOpenPositions, RiskState
<1>9. ASSUME NEW m \in Mints, StepFails(m) PROVE Kept
  BY <1>0, <1>1, <1>6, <1>9 DEF StepFails, Sold, Submit
<1>10. ASSUME NEW m \in Mints, NEW p \in Prices, NEW delay \in FillDelays,
              StepSells(m, p, delay)
       PROVE  Kept
  <2> DEFINE noted == NoteOrder(risk, ev.ts)
             pnl   == (p * positions[m].qty) \div Unit - Fee - positions[m].cost
             after == RecordRealizedPnl(noted, pnl, ev.ts)
  <2>1. /\ risk' = SetOpenPositions(after, Cardinality(DOMAIN positions'))
        /\ \E t : closed' = Append(closed, t)
        /\ orderSeq' = orderSeq + 1
    BY <1>10 DEF StepSells, SellFilled, Submit
  <2>2. pnl \in Int
    <3>1. positions[m] \in Position /\ p \in Int /\ Fee \in Int
      BY <1>10, StrategyAssumption, EngineAssumption
         DEF StepSells, Sold, TypeOK
    <3>2. p * positions[m].qty \in Int
      BY <3>1 DEF Position
    <3>3. (p * positions[m].qty) \div Unit \in Int
      BY <3>2, StrategyAssumption
    <3> QED BY <3>1, <3>3 DEF Position
  <2>3. noted \in RiskState /\ noted.kill = risk.kill
    BY <1>0, <1>1, <1>6, RiskTypes
  <2> HIDE DEF pnl, noted
  <2>4. after \in RiskState /\ after.kill = risk.kill
    BY <1>2, <1>6, <2>2, <2>3, RiskTypes
  <2> HIDE DEF after
  <2>5. risk'.kill = risk.kill
    BY <1>2, <1>6, <2>1, <2>2, <2>4
  <2>6. closed \in Seq(Trade) /\ closed' \in Seq(Trade)
    BY TypeStep DEF TypeOK
  <2>7. \E t \in Trade : closed' = Append(closed, t)
    <3>1. PICK t : closed' = Append(closed, t)
      BY <2>1
    <3>2. t = closed'[Len(closed')]
      BY <2>6, <3>1
    <3>3. Len(closed') \in 1 .. Len(closed')
      BY <2>6, <3>1
    <3>4. t \in Trade
      BY <2>6, <3>2, <3>3
    <3> QED BY <3>1, <3>4
  <2> QED BY <1>0, <2>1, <2>5, <2>7
<1>11. CASE EndEvent
  BY <1>0, <1>11 DEF EndEvent, book
<1>12. CASE UNCHANGED vars
  BY <1>0, <1>12 DEF vars
<1> QED BY <1>3, <1>4, <1>5, <1>7, <1>8, <1>9, <1>10, <1>11, <1>12, StepCases

\* A prefix stays one when the sequence grows.
LEMMA PrefixGrows ==
    ASSUME NEW S, NEW s \in Seq(S), NEW t \in Seq(S), NEW x \in S,
           IsPrefix(s, t)
    PROVE  IsPrefix(s, Append(t, x))
<1> DEFINE n == Len(s)
           g == Append(t, x)
<1>1. n \in Nat /\ n <= Len(t) /\ SubSeq(s, 1, n) = SubSeq(t, 1, n)
  BY DEF IsPrefix
<1>2. g \in Seq(S) /\ Len(g) = Len(t) + 1 /\ \A i \in 1 .. Len(t) : g[i] = t[i]
  OBVIOUS
<1> HIDE DEF g
<1>3. /\ SubSeq(t, 1, n) \in Seq(S) /\ Len(SubSeq(t, 1, n)) = n
      /\ SubSeq(g, 1, n) \in Seq(S) /\ Len(SubSeq(g, 1, n)) = n
  BY <1>1, <1>2
<1>4. ASSUME NEW i \in 1 .. n PROVE SubSeq(t, 1, n)[i] = SubSeq(g, 1, n)[i]
  BY <1>1, <1>2
<1>5. SubSeq(t, 1, n) = SubSeq(g, 1, n)
  BY <1>1, <1>3, <1>4, SeqEqual
<1>6. n <= Len(g)
  BY <1>1, <1>2
<1> QED BY <1>1, <1>5, <1>6 DEF IsPrefix, g

\* A snapshot that a boot can take over.
Resumable(snap) ==
    /\ snap.equity \in Int /\ snap.deployed \in Int
    /\ DOMAIN snap.positions \subseteq Mints
    /\ snap.positions \in [DOMAIN snap.positions -> Position]
    /\ Cardinality(DOMAIN snap.positions) <= MaxOpenPositions
    /\ snap.closed \in Seq(Trade)
    /\ snap.orderSeq \in Nat
    /\ snap.risk \in RiskState

\* There is one snapshot file, and the running engine has grown out of it.
RestartInv ==
    /\ CapInv
    /\ \A s1, s2 \in disk : s1 = s2
    /\ \A snap \in disk : Resumable(snap)
    /\ LosesOnlyRecency
    /\ KillNotForgotten

LEMMA RestartInit == RInit => RestartInv
BY CapInit DEF RInit, RestartInv, LosesOnlyRecency, KillNotForgotten

\* A boot leaves an engine of the right type with its limits in force: the
\* count of positions is given to the risk engine, no funnel is open.
LEMMA BootedInv ==
    ASSUME CapInv, NEW ts \in EventTimes, Reboot(ts),
           equity' \in Int, deployed' \in Int, closed' \in Seq(Trade),
           orderSeq' \in Nat, risk' \in RiskState,
           Held' \subseteq Mints, positions' \in [Held' -> Position],
           risk'.open = Cardinality(Held'),
           Cardinality(Held') <= MaxOpenPositions
    PROVE  CapInv'
<1>1. ts \in Nat /\ clock' = ts /\ ev' = Idle /\ sent' = sent /\ log' = log
  BY EventTimesType DEF CapInv, TypeOK, Reboot
<1>2. Idle \in Event
  BY DEF Idle, Event, NoMint
<1>3. TypeOK'
  BY <1>1, <1>2 DEF CapInv, TypeOK, Idle
<1>4. CapRespected' /\ FunnelGuarded'
  BY <1>1 DEF CapRespected, FunnelGuarded, Idle
<1> QED BY <1>3, <1>4 DEF CapInv

LEMMA RestartStep == RestartInv /\ [RNext]_rvars => RestartInv'
<1> SUFFICES ASSUME RestartInv, [RNext]_rvars PROVE RestartInv'
  OBVIOUS
<1> USE DEF RestartInv
<1>0. TypeOK
  BY DEF CapInv
<1>1. CASE Run
  <2>1. disk' = disk /\ CapInv'
    BY <1>1, CapStep DEF Run
  <2>2. /\ risk'.kill = risk.kill /\ orderSeq' >= orderSeq
        /\ closed' = closed \/ \E t \in Trade : closed' = Append(closed, t)
    BY <1>0, <1>1, RecencyStep DEF Run
  <2>3. ASSUME NEW snap \in disk
        PROVE  IsPrefix(snap.closed, closed') /\ snap.orderSeq <= orderSeq'
    <3>1. /\ snap.closed \in Seq(Trade) /\ closed \in Seq(Trade)
          /\ IsPrefix(snap.closed, closed)
          /\ snap.orderSeq \in Nat /\ orderSeq \in Nat /\ orderSeq' \in Nat
          /\ snap.orderSeq <= orderSeq
      BY <1>0, <2>1, <2>3 DEF TypeOK, CapInv, Resumable, LosesOnlyRecency
    <3>2. IsPrefix(snap.closed, closed')
      BY <2>2, <3>1, PrefixGrows
    <3> QED BY <2>2, <3>1, <3>2
  <2> QED BY <2>1, <2>2, <2>3 DEF LosesOnlyRecency, KillNotForgotten
<1>2. CASE Save
  <2>1. CapInv' /\ UNCHANGED vars /\ disk' = {Snapshot}
    BY <1>2, CapStep DEF Save
  <2>2. Resumable(Snapshot)
    <3>1. [risk EXCEPT !.open = 0] \in RiskState
      BY <1>0 DEF TypeOK, RiskState
    <3> QED BY <1>0, <3>1
            DEF TypeOK, CapInv, CapRespected, Resumable, Snapshot, Held
  <2>3. /\ IsPrefix(Snapshot.closed, closed) /\ Snapshot.orderSeq <= orderSeq
        /\ Snapshot.risk.kill = risk.kill
    BY <1>0 DEF TypeOK, Snapshot, IsPrefix, RiskState
  <2> QED BY <2>1, <2>2, <2>3 DEF vars, LosesOnlyRecency, KillNotForgotten
<1>3. ASSUME NEW kill \in BOOLEAN, NEW ts \in EventTimes, BootFlat(kill, ts)
      PROVE  RestartInv'
  <2>1. disk = {} /\ disk' = {}
    BY <1>3 DEF BootFlat, Reboot
  <2>2. /\ equity' \in Int /\ deployed' \in Int /\ closed' \in Seq(Trade)
        /\ orderSeq' \in Nat /\ Held' = {}
        /\ positions' \in [Held' -> Position]
    BY <1>3, RiskAssumption DEF BootFlat, Held
  <2>3. risk' \in RiskState /\ risk'.open = 0
    <3>1. ts \in Int
      BY <1>0, EventTimesType DEF TypeOK
    <3>2. NewRisk \in RiskState /\ Day(ts) \in Int
      <4>1. Day(ts) \in Int /\ Day(0) \in Int
        BY <3>1, RiskAssumption DEF Day
      <4> QED BY <4>1, RiskAssumption DEF NewRisk, RiskState
    <3> QED BY <1>3, <3>2 DEF BootFlat, RiskState, NewRisk
  <2>4. CapInv'
    BY <1>3, <2>2, <2>3, BootedInv, FS_EmptySet, RiskAssumption DEF BootFlat
  <2> QED BY <2>1, <2>4 DEF LosesOnlyRecency, KillNotForgotten
<1>4. ASSUME NEW snap \in disk, NEW kill \in BOOLEAN, NEW ts \in EventTimes,
             BootRestored(snap, kill, ts)
      PROVE  RestartInv'
  <2>1. /\ disk' = disk /\ \A s \in disk : s = snap
        /\ Resumable(snap)
    BY <1>4 DEF BootRestored, Reboot
  <2>2. /\ equity' = snap.equity /\ deployed' = snap.deployed
        /\ positions' = snap.positions /\ Held' = DOMAIN snap.positions
        /\ closed' = snap.closed /\ orderSeq' = snap.orderSeq
        /\ risk' = RestoredRisk(snap.risk, kill,
                                Cardinality(DOMAIN snap.positions))
    BY <1>4 DEF BootRestored, Held
  <2>3. /\ risk' \in RiskState /\ risk'.open = Cardinality(Held')
        /\ risk'.kill = (snap.risk.kill \/ kill)
    <3>1. IsFiniteSet(Held') /\ Cardinality(Held') \in Nat
      BY <2>1, <2>2, EngineAssumption, FS_Subset, FS_CardinalityType
         DEF Resumable
    <3>2. (snap.risk.kill \/ kill) \in BOOLEAN /\ snap.risk \in RiskState
      BY <2>1 DEF Resumable, RiskState
    <3> QED BY <2>2, <3>1, <3>2 DEF RestoredRisk, RiskState
  <2>4. CapInv'
    BY <1>4, <2>1, <2>2, <2>3, BootedInv DEF BootRestored, Resumable
  <2>5. IsPrefix(snap.closed, snap.closed)
    BY <2>1 DEF Resumable, IsPrefix
  <2>6. LosesOnlyRecency'
    BY <2>1, <2>2, <2>5 DEF LosesOnlyRecency, Resumable
  <2>7. KillNotForgotten'
    BY <2>1, <2>3 DEF KillNotForgotten
  <2> QED BY <2>1, <2>4, <2>6, <2>7
<1>5. CASE UNCHANGED rvars
  <2>1. UNCHANGED vars /\ disk' = disk
    BY <1>5 DEF rvars
  <2>2. CapInv'
    BY <2>1, CapStep
  <2> QED BY <2>1, <2>2 DEF vars, LosesOnlyRecency, KillNotForgotten
<1> QED BY <1>1, <1>2, <1>3, <1>4, <1>5 DEF RNext

\* Any number of crashes loses recency only (liveloop.rs:65-66).
THEOREM OnlyRecencyIsLost == RSpec => []LosesOnlyRecency
<1>1. RestartInv => LosesOnlyRecency
  BY DEF RestartInv
<1> QED BY <1>1, RestartInit, RestartStep, PTL DEF RSpec

\* An engaged kill switch survives any restarts (risk.rs:139-147).
THEOREM KillIsRemembered == RSpec => []KillNotForgotten
<1>1. RestartInv => KillNotForgotten
  BY DEF RestartInv
<1> QED BY <1>1, RestartInit, RestartStep, PTL DEF RSpec

\* The cap bounds the book also after restarts: a boot tells the risk engine
\* how many positions it has restored (engine.rs:110-111).
THEOREM CapSurvivesRestarts == RSpec => []CapRespected
<1>1. RestartInv => CapRespected
  BY DEF RestartInv, CapInv
<1> QED BY <1>1, RestartInit, RestartStep, PTL DEF RSpec
=============================================================================
