------------------------------ MODULE Strategy ------------------------------
(***************************************************************************)
(* The pure decision rules of src/strategy.rs: entry gate, sizing, funnel  *)
(* slices and the exit rules.  Percentages are compared without division:  *)
(* a position keeps "paid" (the sum of price * qty over its fills) and     *)
(* "qty" in 1/Unit tokens, so its entry price is paid * Unit / qty.        *)
(***************************************************************************)
EXTENDS Integers

CONSTANTS
    Prices,               \* reference and fill prices, in dollars
    Unit,                 \* quantities are in 1/Unit tokens
    EntryMaxAge,          \* HFM_ENTRY_MAX_AGE_SECS
    RiskPct,              \* HFM_RISK_PER_TRADE_PCT
    MaxSinglePos,         \* HFM_MAX_SINGLE_POS_USD
    FunnelSlices,         \* HFM_FUNNEL_SLICES
    TakeProfitPct,        \* HFM_TAKE_PROFIT_PCT
    StopLossPct,          \* HFM_STOP_LOSS_PCT
    ConvictionMinPct,     \* HFM_CONVICTION_MIN_PCT
    TrailPct,             \* HFM_TRAIL_PCT
    MaxHold,              \* HFM_MAX_HOLD_SECS
    ConvictionMaxHold     \* HFM_CONVICTION_MAX_HOLD_DAYS

ASSUME StrategyAssumption ==
    /\ Prices \subseteq Nat \ {0}
    /\ Unit \in Nat \ {0}
    /\ \A p \in Prices : Unit % p = 0
    /\ {EntryMaxAge, MaxHold, ConvictionMaxHold} \subseteq Nat
    /\ {RiskPct, MaxSinglePos, FunnelSlices} \subseteq Nat \ {0}
    /\ {TakeProfitPct, StopLossPct, TrailPct} \subseteq Nat \ {0}
    /\ ConvictionMinPct \in Int

\* What the gate reads of a launch.
Screens == [ onCurve: BOOLEAN, liquid: BOOLEAN, devHoldOk: BOOLEAN,
             honeypot: BOOLEAN, renounced: BOOLEAN ]

\* All checks must pass.  on_launch calls it with now = createdAt, so that the
\* age test never rejects.
EntryGate(screen, createdAt, now) ==
    /\ now - createdAt <= EntryMaxAge
    /\ screen.liquid \/ screen.onCurve
    /\ screen.devHoldOk
    /\ ~screen.honeypot
    /\ screen.onCurve \/ screen.renounced

\* What the gate can answer to a launch it sees at ts, over all screens.
GateVerdicts(ts) == {EntryGate(screen, ts, ts) : screen \in Screens}

Least(a, b) == IF a <= b THEN a ELSE b

\* Mutant: sizing forgets the capital that is already deployed.
IgnoresDeployed(equity, deployed) ==
    Least((equity * RiskPct) \div 100, MaxSinglePos)

\* min(risk cap, hard cap), then capped by the capital that is free.
PositionBudget(equity, deployed) ==
    LET wanted == Least((equity * RiskPct) \div 100, MaxSinglePos)
        free   == equity - deployed
    IN IF free < 0 THEN 0 ELSE Least(wanted, free)

\* Whole-dollar slices, one slice when there is not a dollar for each.
SliceCount(budget) == IF budget \div FunnelSlices = 0 THEN 1 ELSE FunnelSlices

\* The remainder rides on the last slice.
Slice(budget, i) ==
    LET n    == SliceCount(budget)
        base == budget \div n
    IN IF i < n THEN base ELSE budget - base * (n - 1)

Mode == {"Flip", "Conviction"}

Position == [ opened: Int, paid: Int, qty: Int, cost: Int,
              highWater: Int, lastPrice: Int, mode: Mode,
              attempts: Nat, stuck: BOOLEAN ]

\* unrealized_pnl_pct(price) >= pct
GainAtLeast(pos, price, pct) ==
    100 * (price * pos.qty - pos.paid * Unit) >= pct * pos.paid * Unit

\* price <= highWater * (1 - pct/100)
FellBy(pos, price, pct) == 100 * price <= pos.highWater * (100 - pct)

HoldLimit(mode) == IF mode = "Flip" THEN MaxHold ELSE ConvictionMaxHold

\* on_time: the time stop, which needs no price.
OnTime(pos, ts) == ts - pos.opened >= HoldLimit(pos.mode)

Promotes(pos, price) ==
    pos.mode = "Flip" /\ GainAtLeast(pos, price, ConvictionMinPct)

\* The position after a tick: last price, high-water mark, promotion.
Observe(pos, price) ==
    [pos EXCEPT !.lastPrice = price,
                !.highWater = IF price > @ THEN price ELSE @,
                !.mode = IF Promotes(pos, price) THEN "Conviction" ELSE @]

\* The exit decision of on_price; the tick that promotes never exits.
ExitOnPrice(pos, price, ts) ==
    LET seen == Observe(pos, price)
    IN /\ ~Promotes(pos, price)
       /\ \/ OnTime(seen, ts)
          \/ seen.mode = "Flip" /\ GainAtLeast(seen, price, TakeProfitPct)
          \/ seen.mode = "Flip" /\ FellBy(seen, price, StopLossPct)
          \/ seen.mode = "Conviction" /\ FellBy(seen, price, TrailPct)
=============================================================================
