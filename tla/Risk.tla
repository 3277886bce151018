-------------------------------- MODULE Risk --------------------------------
(***************************************************************************)
(* The circuit breakers and order throttle of src/risk.rs, as operators on *)
(* the RiskEngine record.  Times are in ticks: Window stands for the 60 s  *)
(* of the throttle, DayLength for a UTC calendar day.  Money is in whole   *)
(* dollars.                                                                *)
(***************************************************************************)
EXTENDS Integers, Sequences

CONSTANTS
    StartEquity,        \* cfg.equity_usd, the RiskEngine's own copy
    DailyLossLimitPct,  \* HFM_DAILY_LOSS_LIMIT_PCT
    MaxTrades,          \* HFM_MAX_TRADES_PER_MIN
    MaxOpenPositions,   \* HFM_MAX_OPEN_POSITIONS
    Window,             \* the throttle window
    DayLength,          \* one UTC day
    KillAtBoot          \* HFM_KILL_SWITCH

ASSUME RiskAssumption ==
    /\ StartEquity \in Nat \ {0}
    /\ DailyLossLimitPct \in Int
    /\ MaxTrades \in Nat \ {0}
    /\ MaxOpenPositions \in Nat \ {0}
    /\ Window \in Nat \ {0}
    /\ DayLength \in Nat \ {0}
    /\ KillAtBoot \in BOOLEAN

RiskState == [ day    : Int,
               dayPnl : Int,
               tripped: BOOLEAN,
               kill   : BOOLEAN,
               recent : Seq(Int),
               open   : Nat ]

\* The calendar day a time belongs to.
Day(ts) == ts \div DayLength

\* A fresh RiskEngine, created at time 0 of the wall clock.
NewRisk == [ day |-> Day(0), dayPnl |-> 0, tripped |-> FALSE,
             kill |-> KillAtBoot, recent |-> <<>>, open |-> 0 ]

\* Any breaker engaged: the manual kill switch or the daily-loss trip.
KillSwitch(r) == r.kill \/ r.tripped

\* A day P&L at or below the daily loss limit.
LossReached(pnl) == 100 * pnl <= -(StartEquity * DailyLossLimitPct)

\* A new day (any other day: earlier ones too) resets P&L and breaker.
Rollover(r, ts) ==
    IF Day(ts) = r.day
      THEN r
      ELSE [r EXCEPT !.day = Day(ts), !.dayPnl = 0, !.tripped = FALSE]

\* Mutant: an order leaves the window one tick early.
FreshTooShort(s, ts) == {i \in DOMAIN s : ts - s[i] < Window - 1}

\* Indices of the orders still inside the window at ts.
Fresh(s, ts) == {i \in DOMAIN s : ts - s[i] < Window}

\* Mutant: the pruning loop pops one order too many.
PopsOneMore(s, ts) ==
    SelectSeq(IF s = <<>> THEN s ELSE Tail(s), LAMBDA t : ts - t < Window)

\* Drop the expired prefix; stop at the first order inside the window.
Unexpired(s, ts) ==
    IF Fresh(s, ts) = {}
      THEN <<>>
      ELSE LET first == CHOOSE i \in Fresh(s, ts) :
                            \A j \in Fresh(s, ts) : i <= j
           IN SubSeq(s, first, Len(s))

\* Both checks begin by rolling the day over and pruning the window.
Checked(r, ts) ==
    LET rolled == Rollover(r, ts)
    IN [rolled EXCEPT !.recent = Unexpired(@, ts)]

Throttled(r) == Len(r.recent) >= MaxTrades

\* Mutant: the position cap is off by one.
CapOffByOne(r) ==
    /\ ~(r.tripped \/ LossReached(r.dayPnl))
    /\ ~r.kill
    /\ r.open <= MaxOpenPositions
    /\ ~Throttled(r)

\* Mutant: the entry check forgets the daily loss.
IgnoresDailyLoss(r) ==
    ~r.kill /\ r.open < MaxOpenPositions /\ ~Throttled(r)

\* check_entry on an already Checked state (the order of the tests only
\* selects the reason that is logged).
EntryAllowed(r) ==
    /\ ~(r.tripped \/ LossReached(r.dayPnl))
    /\ ~r.kill
    /\ r.open < MaxOpenPositions
    /\ ~Throttled(r)

\* check_order grants a slot; note_side takes one without asking.
NoteOrder(r, ts) == [r EXCEPT !.recent = Append(@, ts)]

SetOpenPositions(r, n) == [r EXCEPT !.open = n]

\* Mutant: realized P&L is booked without rolling the day over.
BookedOnOldDay(r, pnl, ts) ==
    [r EXCEPT !.dayPnl = @ + pnl, !.tripped = @ \/ LossReached(r.dayPnl + pnl)]

RecordRealizedPnl(r, pnl, ts) ==
    LET rolled == Rollover(r, ts)
        total  == rolled.dayPnl + pnl
    IN [rolled EXCEPT !.dayPnl = total,
                      !.tripped = @ \/ LossReached(total)]
=============================================================================
