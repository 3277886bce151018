------------------------------- MODULE Engine -------------------------------
(***************************************************************************)
(* The trading engine of src/engine.rs: one task that handles one event at *)
(* a time and awaits only inside executor calls.  An event is cut at those *)
(* awaits, so that each order is one step with its own outcome:            *)
(*                                                                         *)
(*   launch:  gate, risk, sizing  ->  slices, one order each  ->  sweep    *)
(*   tick:    exit rules          ->  at most one sell        ->  sweep    *)
(*   sweep:   one sell per position past its time stop, in any order       *)
(*                                                                         *)
(* The executor answers any order with a fill, a rejection or an unknown   *)
(* state (Transport).  sent, log, ev.tried and ev.unknown are history that *)
(* the code does not keep; no guard reads them.                            *)
(***************************************************************************)
EXTENDS Risk, Strategy, FiniteSets, Functions

CONSTANTS
    Mints,            \* tokens
    Fee,              \* fee of one fill: paper fee_bps, live Jito tip
    FillDelays,       \* ticks an executor call may take ({0}: paper)
    MaxExitAttempts,  \* HFM_MAX_EXIT_ATTEMPTS
    MaxStep,          \* bound: ticks between two events
    MaxClock,         \* bound: the last time an event arrives
    MaxOrders         \* bound: no event arrives after this many orders

ASSUME EngineAssumption ==
    /\ IsFiniteSet(Mints)
    /\ {Fee, MaxStep, MaxClock, MaxOrders} \subseteq Nat
    /\ FillDelays \subseteq Nat
    /\ MaxExitAttempts \in Nat \ {0}

VARIABLES
    equity,     \* start equity plus realized P&L
    deployed,   \* deployed_usd
    positions,  \* open positions, a function on the mints held
    closed,     \* closed trades, oldest first
    orderSeq,   \* order_seq
    risk,       \* the RiskEngine
    clock,      \* wall clock: no event is older than it
    ev,         \* the event being handled
    sent,       \* history: every order submitted, with the caller's phase
    log         \* history: trips, Breaker audit records, DailyLossTrip alerts

book == <<equity, deployed, positions, closed>>
vars == <<equity, deployed, positions, closed, orderSeq, risk, clock, ev,
          sent, log>>

NoMint == "none"

Event == [ pc     : {"idle", "funnel", "exit", "sweep"},
           ts     : Int,
           mint   : Mints \cup {NoMint},
           price  : Prices \cup {0},
           budget : Int,
           slice  : Nat,
           queue  : SUBSET Mints,
           wasKill: BOOLEAN,
           tried  : SUBSET Mints,
           unknown: SUBSET Mints ]

Idle == [ pc |-> "idle", ts |-> 0, mint |-> NoMint, price |-> 0, budget |-> 0,
          slice |-> 0, queue |-> {}, wasKill |-> FALSE, tried |-> {},
          unknown |-> {} ]

Trade == [mint: Mints, cost: Int, proceeds: Int, pnl: Int, day: Int]
Sent  == [ts: Int, mint: Mints, by: {"funnel", "exit", "sweep"}]
Log   == [trips: Nat, breakers: Nat, pages: Nat]

Held == DOMAIN positions

Init ==
    /\ equity = StartEquity
    /\ deployed = 0
    /\ positions = [m \in {} |-> {}]
    /\ closed = <<>>
    /\ orderSeq = 0
    /\ risk = NewRisk
    /\ clock = 0
    /\ ev = Idle
    /\ sent = <<>>
    /\ log = [trips |-> 0, breakers |-> 0, pages |-> 0]

-----------------------------------------------------------------------------
(* Events                                                                  *)

EventTimes == clock .. Least(clock + MaxStep, MaxClock)

\* The event an idle engine takes up at ts: on_event reads kill_switch first.
Arrival(m, price, ts) ==
    [Idle EXCEPT !.ts = ts, !.mint = m, !.price = price,
                 !.wasKill = KillSwitch(risk)]

Arrives(ts) ==
    /\ ev.pc = "idle"
    /\ orderSeq < MaxOrders
    /\ clock' = ts

\* Mutant: only flips are swept.
DueFlipsOnly(pos, ts) ==
    {m \in DOMAIN pos : /\ ~pos[m].stuck /\ pos[m].mode = "Flip"
                        /\ OnTime(pos[m], ts)}

\* Mutant: stuck positions are swept as well.
DueEvenStuck(pos, ts) == {m \in DOMAIN pos : OnTime(pos[m], ts)}

\* sweep_time_stops collects its exits before it sells any of them.
Due(pos, ts) == {m \in DOMAIN pos : ~pos[m].stuck /\ OnTime(pos[m], ts)}
Sweeping(e, pos) == [e EXCEPT !.pc = "sweep", !.queue = Due(pos, e.ts)]

\* A launch of a token already held, or one the entry gate rejects.
LaunchSkipped(m, price, pass, ts) ==
    /\ Arrives(ts)
    /\ m \in Held \/ ~pass
    /\ ev' = Sweeping(Arrival(m, price, ts), positions)
    /\ UNCHANGED <<book, orderSeq, risk, sent, log>>

\* A launch blocked by a breaker, the cap, the throttle or lack of capital.
LaunchBlocked(m, price, pass, ts) ==
    /\ Arrives(ts)
    /\ m \notin Held /\ pass
    /\ risk' = Checked(risk, ts)
    /\ \/ ~EntryAllowed(risk')
       \/ PositionBudget(equity, deployed) <= 0
    /\ ev' = Sweeping(Arrival(m, price, ts), positions)
    /\ UNCHANGED <<book, orderSeq, sent, log>>

\* A launch that gets a funnel of slices.
LaunchAccepted(m, price, pass, ts) ==
    /\ Arrives(ts)
    /\ m \notin Held /\ pass
    /\ risk' = Checked(risk, ts)
    /\ EntryAllowed(risk')
    /\ PositionBudget(equity, deployed) > 0
    /\ ev' = [Arrival(m, price, ts) EXCEPT
                 !.pc = "funnel", !.slice = 1,
                 !.budget = PositionBudget(equity, deployed)]
    /\ UNCHANGED <<book, orderSeq, sent, log>>

\* A tick for a token that is not held.
TickIgnored(m, price, ts) ==
    /\ Arrives(ts)
    /\ m \notin Held
    /\ ev' = Sweeping(Arrival(m, price, ts), positions)
    /\ UNCHANGED <<book, orderSeq, risk, sent, log>>

\* A tick for a held token: it is recorded, then the exit rules decide.
TickHeld(m, price, ts) ==
    /\ Arrives(ts)
    /\ m \in Held
    /\ positions' = [positions EXCEPT ![m] = Observe(@, price)]
    /\ ev' = IF ExitOnPrice(positions[m], price, ts)
               THEN [Arrival(m, price, ts) EXCEPT !.pc = "exit"]
               ELSE Sweeping(Arrival(m, price, ts), positions')
    /\ UNCHANGED <<equity, deployed, closed, orderSeq, risk, sent, log>>

\* An order of m goes to the executor under the next order id.
Submit(m) ==
    /\ orderSeq' = orderSeq + 1
    /\ sent' = Append(sent, [ts |-> ev.ts, mint |-> m, by |-> ev.pc])

-----------------------------------------------------------------------------
(* Funnel slices                                                           *)

\* check_order refuses the slice: the funnel ends short.
SliceThrottled ==
    /\ ev.pc = "funnel"
    /\ risk' = Checked(risk, ev.ts)
    /\ Throttled(risk')
    /\ ev' = Sweeping(ev, positions)
    /\ UNCHANGED <<book, orderSeq, clock, sent, log>>

\* check_order grants the slice, which is submitted.
SliceSent ==
    /\ ev.pc = "funnel"
    /\ ~Throttled(Checked(risk, ev.ts))
    /\ Submit(ev.mint)

\* The risk state once the slice has been granted its place in the window.
Granted == NoteOrder(Checked(risk, ev.ts), ev.ts)

\* The executor refuses the slice or loses it: the funnel ends short.
SliceFailed(outcome) ==
    /\ SliceSent
    /\ risk' = Granted
    /\ ev' = Sweeping(IF outcome = "Transport"
                        THEN [ev EXCEPT !.unknown = @ \cup {ev.mint}]
                        ELSE ev, positions)
    /\ UNCHANGED <<book, clock, log>>

\* The position of mint m before its first fill, at fill price p.
NewPosition(p, opened) ==
    [ opened |-> opened, paid |-> 0, qty |-> 0, cost |-> 0, highWater |-> p,
      lastPrice |-> p, mode |-> "Flip", attempts |-> 0, stuck |-> FALSE ]

\* Mutant: a later slice overwrites the cost instead of adding to it.
CostOverwritten(pos, amount, p) ==
    [pos EXCEPT !.paid = @ + amount,
                !.qty = @ + amount * (Unit \div p),
                !.cost = amount + Fee,
                !.highWater = IF p > @ THEN p ELSE @,
                !.lastPrice = p]

\* Mutant: a later slice does not raise the high-water mark.
HighWaterNotRaised(pos, amount, p) ==
    [pos EXCEPT !.paid = @ + amount,
                !.qty = @ + amount * (Unit \div p),
                !.cost = @ + amount + Fee,
                !.lastPrice = p]

\* apply_buy_fill: accumulate a fill of amount dollars at price p.
Filled(pos, amount, p) ==
    [pos EXCEPT !.paid = @ + amount,
                !.qty = @ + amount * (Unit \div p),
                !.cost = @ + amount + Fee,
                !.highWater = IF p > @ THEN p ELSE @,
                !.lastPrice = p]

\* The executor fills the slice at p, delay ticks after the event.
SliceFilled(p, delay) ==
    LET m      == ev.mint
        amount == Slice(ev.budget, ev.slice)
        before == IF m \in Held THEN positions[m]
                                ELSE NewPosition(p, ev.ts + delay)
    IN /\ SliceSent
       /\ positions' = [x \in Held \cup {m} |->
                           IF x = m THEN Filled(before, amount, p)
                                    ELSE positions[x]]
       /\ risk' = SetOpenPositions(Granted, Cardinality(DOMAIN positions'))
       /\ deployed' = deployed + amount + Fee
       /\ clock' = clock + delay
       /\ ev' = IF ev.slice < SliceCount(ev.budget)
                  THEN [ev EXCEPT !.slice = @ + 1]
                  ELSE Sweeping(ev, positions')
       /\ UNCHANGED <<equity, closed, log>>

-----------------------------------------------------------------------------
(* Exits: close_position, called by a tick or by the sweep                 *)

\* The sell of m is the next one the event makes (HashMap order: any).
Selling(m) == \/ ev.pc = "exit" /\ m = ev.mint
              \/ ev.pc = "sweep" /\ m \in ev.queue

\* Mutant: the sweep does not cross off what it has sold.
QueueKept(m, e, pos) == IF e.pc = "exit" THEN Sweeping(e, pos) ELSE e

\* After a tick's sell the sweep collects; the sweep goes on with the rest.
AfterSell(m, e, pos) ==
    IF e.pc = "exit" THEN Sweeping(e, pos)
                     ELSE [e EXCEPT !.queue = @ \ {m}]

\* Mutant: one exit attempt too many before a position is stuck.
StuckTooLate(pos) ==
    [pos EXCEPT !.attempts = @ + 1,
                !.stuck = @ \/ pos.attempts + 1 > MaxExitAttempts]

\* One more failed exit; at the limit the position is stuck.
Attempted(pos) ==
    [pos EXCEPT !.attempts = @ + 1,
                !.stuck = @ \/ pos.attempts + 1 >= MaxExitAttempts]

\* A rejected or lost sell keeps the position and counts an attempt.
SellFailed(m, outcome) ==
    /\ Selling(m)
    /\ risk' = NoteOrder(risk, ev.ts)
    /\ Submit(m)
    /\ positions' = [positions EXCEPT ![m] = Attempted(@)]
    /\ ev' = AfterSell(m, [ev EXCEPT !.tried = @ \cup {m},
                                     !.unknown = IF outcome = "Transport"
                                                   THEN @ \cup {m} ELSE @],
                       positions')
    /\ UNCHANGED <<equity, deployed, closed, clock, log>>

\* A sell of the whole position, filled at p.
SellFilled(m, p, delay) ==
    LET pos      == positions[m]
        proceeds == (p * pos.qty) \div Unit - Fee
        pnl      == proceeds - pos.cost
        noted    == NoteOrder(risk, ev.ts)
        after    == RecordRealizedPnl(noted, pnl, ev.ts)
        trips    == after.tripped /\ ~Rollover(noted, ev.ts).tripped
        audited  == ~KillSwitch(risk) /\ KillSwitch(after)
    IN /\ Selling(m)
       /\ Submit(m)
       /\ equity' = equity + pnl
       /\ deployed' = deployed - pos.cost
       /\ positions' = Restrict(positions, Held \ {m})
       /\ risk' = SetOpenPositions(after, Cardinality(DOMAIN positions'))
       /\ closed' = Append(closed, [mint |-> m, cost |-> pos.cost,
                                    proceeds |-> proceeds, pnl |-> pnl,
                                    day |-> Day(ev.ts)])
       /\ clock' = clock + delay
       /\ ev' = AfterSell(m, [ev EXCEPT !.tried = @ \cup {m}], positions')
       /\ log' = [log EXCEPT !.trips = IF trips THEN @ + 1 ELSE @,
                             !.breakers = IF audited THEN @ + 1 ELSE @]

\* Mutant: the page goes out on the level of the breaker, not on its edge.
BreakerLevel == KillSwitch(risk)

\* A breaker engaged during the event.
BreakerEdge == ~ev.wasKill /\ KillSwitch(risk)

\* The sweep is done: a breaker engaged during the event is paged.
EndEvent ==
    /\ ev.pc = "sweep"
    /\ ev.queue = {}
    /\ ev' = Idle
    /\ log' = [log EXCEPT !.pages = IF BreakerEdge THEN @ + 1 ELSE @]
    /\ UNCHANGED <<book, orderSeq, risk, clock, sent>>

-----------------------------------------------------------------------------
Failures == {"Rejected", "Transport"}

Arrive ==
    \E m \in Mints, price \in Prices, ts \in EventTimes :
        \/ \E pass \in GateVerdicts(ts) : LaunchSkipped(m, price, pass, ts)
        \/ \E pass \in GateVerdicts(ts) : LaunchBlocked(m, price, pass, ts)
        \/ \E pass \in GateVerdicts(ts) : LaunchAccepted(m, price, pass, ts)
        \/ TickIgnored(m, price, ts)
        \/ TickHeld(m, price, ts)

Order ==
    \/ SliceThrottled
    \/ \E outcome \in Failures : SliceFailed(outcome)
    \/ \E p \in Prices, delay \in FillDelays : SliceFilled(p, delay)
    \/ \E m \in Mints, outcome \in Failures : SellFailed(m, outcome)
    \/ \E m \in Mints, p \in Prices, delay \in FillDelays :
           SellFilled(m, p, delay)

\* No event is pending.
Quiet == ev.pc = "idle" /\ UNCHANGED vars

Next == Arrive \/ Order \/ EndEvent \/ Quiet

Spec == Init /\ [][Next]_vars
-----------------------------------------------------------------------------
(* Correctness                                                             *)

TypeOK ==
    /\ equity \in Int
    /\ deployed \in Int
    /\ Held \subseteq Mints
    /\ positions \in [Held -> Position]
    /\ closed \in Seq(Trade)
    /\ orderSeq \in Nat
    /\ risk \in RiskState
    /\ clock \in Nat
    /\ ev \in Event
    /\ ev.pc = "funnel" => ev.mint \in Mints
    /\ ev.pc = "exit" => ev.mint \in Held
    /\ ev.queue \subseteq Held
    /\ sent \in Seq(Sent)
    /\ log \in Log

\* check_invariants, as a test of any book.
CheckInvariants(e, d, pos, done) ==
    /\ e = StartEquity + SumFunction([i \in DOMAIN done |-> done[i].pnl])
    /\ d = SumFunction([m \in DOMAIN pos |-> pos[m].cost])
    /\ \A m \in DOMAIN pos : pos[m].qty > 0 /\ pos[m].cost > 0
    /\ \A i \in DOMAIN done : done[i].pnl = done[i].proceeds - done[i].cost

\* The money invariants of the book (engine.rs:599-631): equity is the start
\* equity plus the realized P&L of every closed trade, the deployed capital is
\* the cost of the open positions, and every open position has tokens and a
\* cost.  They hold between any two orders, not only between events.
MoneyConserved == CheckInvariants(equity, deployed, positions, closed)

\* The risk engine's open-position count (risk.rs:54), which it keeps
\* apart from the book and is told of by set_open_positions, is the size of
\* the book after every order, so the cap of check_entry bounds the book.
CapRespected ==
    /\ risk.open = Cardinality(Held)
    /\ Cardinality(Held) <= MaxOpenPositions

\* The orders up to the i-th that lie in the window ending at it.
Burst(i) == {j \in 1 .. i : sent[i].ts - sent[j].ts < Window}

\* The throttle (risk.rs:185-217) against the orders really sent, of which
\* risk.recent is a pruned copy: a buy goes out only when the window ending
\* at it holds at most MaxTrades orders, itself and the sells included.
BuysThrottled ==
    \A i \in DOMAIN sent :
        sent[i].by = "funnel" => Cardinality(Burst(i)) <= MaxTrades

\* The daily-loss ledger (risk.rs:94-120) is the P&L of the trades closed on
\* its own day, across rollovers, and a day at its limit has tripped.
DayLedgerMatchesTrades ==
    /\ risk.dayPnl = SumFunction([i \in {j \in DOMAIN closed :
                         closed[j].day = risk.day} |-> closed[i].pnl])
    /\ LossReached(risk.dayPnl) /\ DailyLossLimitPct > 0 => risk.tripped

\* The sweep (engine.rs:321-361): when an event ends, every open position
\* past its time stop is stuck or had a sell attempted during that event.
NoStopForgotten ==
    ev.pc = "sweep" =>
        \A m \in Held : OnTime(positions[m], ev.ts) =>
            positions[m].stuck \/ m \in ev.queue \/ m \in ev.tried

\* Sizing (strategy.rs:62-74) with its fees outside the budget: the capital
\* deployed never exceeds the equity by more than the fees of one funnel, as
\* long as no sell returns less than nothing.
NeverOverdeployed ==
    (\A i \in DOMAIN closed : closed[i].proceeds >= 0) =>
        deployed <= equity + FunnelSlices * Fee

\* The stop and trail reference (types.rs, high_water): never below the last
\* price seen nor below the entry price, whatever the slices filled at.
HighWaterIsHigh ==
    \A m \in Held : LET pos == positions[m] IN
        /\ pos.highWater >= pos.lastPrice
        /\ pos.highWater * pos.qty >= pos.paid * Unit

\* Alerting (engine.rs:155-165, 492-503): no DailyLossTrip page without a
\* Breaker audit record behind it, no such record without a trip.
PagesAreAudited == log.pages <= log.breakers /\ log.breakers <= log.trips

\* The sells of m since it was last bought, by ticks and sweeps of any event.
ExitsSent(m) ==
    {i \in DOMAIN sent :
        /\ sent[i].mint = m
        /\ \A j \in i .. Len(sent) : sent[j].mint = m => sent[j].by # "funnel"}

\* Spec 5.5 (engine.rs:337-345, 398-403, 437-441), on the orders themselves: a
\* position still open is stuck exactly when MaxExitAttempts sells of it went
\* out and failed, whether ticks or sweeps sent them and whatever was bought,
\* sold and swept in between; and the sweep alone, which no price wakes, never
\* sends more than that many sells of one position.
SweepGivesUp ==
    \A m \in Held :
        /\ positions[m].stuck <=> Cardinality(ExitsSent(m)) >= MaxExitAttempts
        /\ Cardinality({i \in ExitsSent(m) : sent[i].by = "sweep"})
              <= MaxExitAttempts

\* check_entry guards the whole funnel (engine.rs:184-187): no slice fills
\* while a breaker is engaged or the day is at its loss limit.
NoEntryUnderBreaker ==
    [][deployed' > deployed => /\ ~KillSwitch(risk)
                               /\ ~LossReached(risk.dayPnl)]_vars

\* Spec 5.5 (engine.rs:337-345): only a fresh tick of its own token sells a
\* stuck position again.  No sweep does, not even that of the event whose tick
\* has just made it stuck: its failed exits are neither counted up nor is it
\* closed by anything else.
StuckWaitsForTick ==
    [][\A m \in Held :
          positions[m].stuck =>
              \/ m \in Held' /\ positions'[m].attempts = positions[m].attempts
              \/ ev.pc = "exit" /\ ev.mint = m]_vars

-----------------------------------------------------------------------------
(* The inductive invariant behind the safety properties                    *)

\* Every order so far is at most this old.
Now == IF ev.pc = "idle" THEN clock ELSE ev.ts

\* risk.recent is the tail of what was sent; what it lost has expired.
RecentIsTailOfSent ==
    LET dropped == Len(sent) - Len(risk.recent)
    IN /\ dropped >= 0
       /\ \A k \in 1 .. Len(risk.recent) : risk.recent[k] = sent[dropped + k].ts
       /\ \A k \in 1 .. dropped : Now - sent[k].ts >= Window

\* Between two slices: the breakers are off and there is room in the book.
FunnelGuarded ==
    ev.pc = "funnel" =>
        /\ Day(ev.ts) = risk.day
        /\ ~KillSwitch(risk) /\ ~LossReached(risk.dayPnl)
        /\ ev.mint \in Held \/ risk.open < MaxOpenPositions

\* Between two slices: the rest of the budget is still free, but for the fees
\* of the slices filled so far.
FunnelFunded ==
    ev.pc = "funnel" =>
        /\ ev.budget > 0
        /\ ev.slice \in 1 .. SliceCount(ev.budget)
        /\ equity - deployed >= ev.budget - (ev.slice - 1) *
               (Fee + ev.budget \div SliceCount(ev.budget))

\* A position is stuck from the failed exit that reaches the limit.
StuckIffExhausted ==
    \A m \in Held :
        positions[m].stuck <=> positions[m].attempts >= MaxExitAttempts

\* attempts counts the sells really sent; none was while slices still fill.
ExitsCounted ==
    \A m \in Held :
        /\ positions[m].attempts = Cardinality(ExitsSent(m))
        /\ ev.pc = "funnel" /\ ev.mint = m => positions[m].attempts = 0

\* The sweep in progress will not sell a stuck position.
QueueNotStuck == \A m \in ev.queue : ~positions[m].stuck

\* A page still owed at the end of this event has its audit record.
EdgeIsAudited == ev.pc # "idle" /\ BreakerEdge => log.pages < log.breakers

\* Days only go by: no trade was closed after the day of the ledger, and the
\* ledger is not ahead of the event.
DaysInOrder ==
    /\ risk.day <= Day(Now)
    /\ \A i \in DOMAIN closed : closed[i].day <= risk.day

\* Everything above, with the clock, as one invariant.
Inductive ==
    /\ TypeOK
    /\ ev.ts <= clock
    /\ DaysInOrder
    /\ RecentIsTailOfSent
    /\ FunnelGuarded
    /\ FunnelFunded
    /\ StuckIffExhausted
    /\ ExitsCounted
    /\ QueueNotStuck
    /\ EdgeIsAudited

-----------------------------------------------------------------------------
(* Statements of the documentation that the code does not keep             *)

\* README.md:102-104: alerts page on breaker trips.  Refuted by a trip across
\* midnight; no run checks it.
EveryTripPaged == ev.pc = "idle" => log.pages = log.trips

\* exec.rs:26-28: after an unknown outcome "callers must reconcile against
\* on-chain state before re-issuing (spec 5.5), never blind-resubmit".
NeverBlindResubmit ==
    [][orderSeq' # orderSeq =>
          \A m \in ev.unknown : ~(m \in ev.queue /\ m \notin ev'.queue)]_vars
=============================================================================
