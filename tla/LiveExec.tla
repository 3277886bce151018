------------------------------- MODULE LiveExec -------------------------------
(***************************************************************************)
(* The live executor of src/live.rs for one token, with the wallet and the *)
(* chain it trades on.  An order is a chain of awaits:                     *)
(*                                                                         *)
(*   buy:  quote, decimals, swap, sign, send, poll, balance                *)
(*   sell: decimals, quote, swap, sign, send, poll, balance                *)
(*                                                                         *)
(* each of which may fail, and the bundle is on its way from "send" on,    *)
(* whatever becomes of the order.  The engine is the caller: one order at  *)
(* a time, a funnel goes on after a fill only, a sell is of the whole book.*)
(*                                                                         *)
(* A slice's deadline check (live.rs:1535) is no step: the engine passes   *)
(* the event's own time as "now" and a later one as the deadline.  The     *)
(* governor and the choice of an RPC endpoint are failures of a stage.     *)
(***************************************************************************)
EXTENDS Integers, Sequences, FiniteSets

CONSTANTS
    MaxOrders,     \* bound: orders of a behaviour
    Outs,          \* token amounts a buy may be quoted
    Slip,          \* how far a fill may be from its quote, either way
    Dust,          \* HFM_RECONCILE_DUST_TOKENS
    EntryTip,      \* HFM_JITO_TIP_ENTRY_LAMPORTS
    ExitTip,       \* the tip of an exit, of either tier
    TipAccounts,   \* how many tip accounts are configured
    CacheTicks,    \* HFM_BLOCKHASH_TTL_SECS
    HashTicks,     \* how long the chain accepts a blockhash
    Timeout        \* HFM_BUNDLE_TIMEOUT_SECS

ASSUME LiveExecAssumption ==
    /\ MaxOrders \in Nat
    /\ Outs \subseteq Nat \ {0}
    /\ {Slip, Dust, EntryTip, ExitTip} \subseteq Nat
    /\ \A q \in Outs : Slip < q
    /\ {TipAccounts, CacheTicks, HashTicks, Timeout} \subseteq Nat \ {0}

VARIABLES
    pc,        \* what the order in progress awaits
    orders,    \* every order: what the engine knows, and what the chain does
    last,      \* the number of the latest order
    book,      \* tokens the engine holds by its fills
    funnel,    \* the latest order is a filled slice: another may follow
    wallet,    \* tokens on the chain, at the commitment of a status
    settled,   \* tokens on the chain, at the commitment of a balance
    ages,      \* age of each blockhash fetched, the last one being cached
    reqId,     \* req_id
    left,      \* ticks until the deadline of the poll
    simulate   \* HFM_SIMULATE_ONLY

engine == <<book, funnel>>
chain  == <<wallet, settled>>
vars   == <<pc, orders, last, book, funnel, wallet, settled, ages, reqId,
            left, simulate>>

Ids == 1 .. MaxOrders
NoOrder == [ side |-> "none", qty |-> 0, result |-> "none", hash |-> 0,
             dest |-> 0, bundle |-> "unsent" ]
Order == [ side   : {"none", "buy", "sell"},
           qty    : Nat,
           result : {"none", "open", "fill", "rejected", "unknown"},
           hash   : Nat,
           dest   : Nat,
           bundle : {"unsent", "flight", "landed", "dead"} ]

Init ==
    /\ pc = "idle"
    /\ orders = [o \in Ids |-> NoOrder]
    /\ last = 0
    /\ book = 0 /\ funnel = FALSE
    /\ wallet = 0 /\ settled = 0
    /\ ages = <<>>
    /\ reqId = 1
    /\ left = 0
    /\ simulate \in BOOLEAN

Failures == {"rejected", "unknown"}
This == orders[last]
Tip(side) == IF side = "buy" THEN EntryTip ELSE ExitTip

-----------------------------------------------------------------------------
(* The engine's calls and their results                                    *)

Start(side, qty, stage) ==
    /\ pc = "idle"
    /\ last < MaxOrders
    /\ pc' = stage
    /\ last' = last + 1
    /\ orders' = [orders EXCEPT ![last + 1] =
                     [NoOrder EXCEPT !.side = side, !.qty = qty,
                                     !.result = "open"]]
    /\ funnel' = FALSE
    /\ UNCHANGED <<book, chain, ages, reqId, left, simulate>>

\* A slice: the first of a funnel, or the next one after a fill.
Buy  == (book = 0 \/ funnel) /\ Start("buy", 0, "quote")
Sell == book > 0 /\ Start("sell", book, "decimals")

\* The call returns; only a fill reaches the book.
Returns(r) ==
    /\ pc' = "idle"
    /\ orders' = [orders EXCEPT ![last].result = r]
    /\ book' = IF r # "fill" THEN book
               ELSE IF This.side = "buy" THEN book + This.qty ELSE 0
    /\ funnel' = (r = "fill" /\ This.side = "buy")
    /\ UNCHANGED <<last, simulate>>

-----------------------------------------------------------------------------
(* Before the bundle is sent                                               *)

\* The stage after this one.
Following(side, stage) ==
    CASE stage = "quote"    -> IF side = "buy" THEN "decimals" ELSE "swap"
      [] stage = "decimals" -> IF side = "buy" THEN "swap" ELSE "quote"
      [] stage = "swap"     -> "sign"

Stages == {"quote", "decimals", "swap"}

\* A quote fixes what a buy is to bring; a sell is of what it was called with.
StageDone(stage) ==
    /\ pc = stage
    /\ pc' = Following(This.side, stage)
    /\ \/ /\ stage = "quote" /\ This.side = "buy"
          /\ \E q \in Outs : orders' = [orders EXCEPT ![last].qty = q]
       \/ ~(stage = "quote" /\ This.side = "buy") /\ UNCHANGED orders
    /\ UNCHANGED <<last, engine, chain, ages, reqId, left, simulate>>

\* Refused, unreadable, over the budget, throttled or lost: nothing was sent.
StageFails(stage, r) ==
    /\ pc = stage
    /\ Returns(r)
    /\ UNCHANGED <<chain, ages, reqId, left>>

\* The cached blockhash is younger than its limit.
Cached == ages # <<>> /\ ages[Len(ages)] < CacheTicks

\* Mutant: the cache is used before anything was fetched.
CacheUnchecked == Len(ages)

\* fresh_blockhash: the cached one, or a new one which is then cached.
Blockhash == IF Cached THEN Len(ages) ELSE Len(ages) + 1
Fetched   == IF Cached THEN ages ELSE Append(ages, 0)

\* A blockhash cannot be had, or the transactions cannot be signed.  The tip
\* accounts are valid: nothing fails after one was picked.
SignFails(r) ==
    /\ pc = "sign"
    /\ Returns(r)
    /\ \/ ages' = ages /\ (r = "unknown" => ~Cached)
       \/ ages' = Fetched /\ r = "rejected"
    /\ UNCHANGED <<chain, reqId, left>>

\* Simulate-only: all is signed, nothing is sent, the quote is the fill.
Simulated ==
    /\ pc = "sign" /\ simulate
    /\ Returns("fill")
    /\ ages' = Fetched
    /\ reqId' = reqId + (IF Tip(This.side) > 0 THEN 1 ELSE 0)
    /\ UNCHANGED <<chain, left>>

\* The bundle, with its tip transfer unless the tip is zero, goes out.
Sent ==
    /\ pc = "sign" /\ ~simulate
    /\ pc' = "send"
    /\ ages' = Fetched
    /\ orders' = [orders EXCEPT ![last].hash = Blockhash,
                                ![last].dest = reqId % TipAccounts,
                                ![last].bundle = "flight"]
    /\ reqId' = reqId + (IF Tip(This.side) > 0 THEN 2 ELSE 1)
    /\ UNCHANGED <<last, engine, chain, left, simulate>>

-----------------------------------------------------------------------------
(* Sending, polling, reconciling                                           *)

\* No bundle id comes back: the bundle may be on its way all the same.
SendFails ==
    /\ pc = "send"
    /\ Returns("unknown")
    /\ UNCHANGED <<chain, ages, reqId, left>>

SendAccepted ==
    /\ pc = "send"
    /\ pc' = "asked"
    /\ left' = Timeout
    /\ UNCHANGED <<orders, last, engine, chain, ages, reqId, simulate>>

\* Mutant: any status that is not a failure counts as landed.
LandedUnlessFailed ==
    /\ pc = "asked"
    /\ This.bundle # "dead"
    /\ pc' = "balance"
    /\ UNCHANGED <<orders, last, engine, chain, ages, reqId, left, simulate>>

\* The status is confirmed or finalized.
StatusLanded ==
    /\ pc = "asked"
    /\ This.bundle = "landed"
    /\ pc' = "balance"
    /\ UNCHANGED <<orders, last, engine, chain, ages, reqId, left, simulate>>

\* The status is an explicit error of the chain.
StatusFailed ==
    /\ pc = "asked"
    /\ This.bundle = "dead"
    /\ Returns("rejected")
    /\ UNCHANGED <<chain, ages, reqId, left>>

\* Mutant: a lost answer does not count against the deadline.
DeadlineForgotten ==
    /\ pc = "asked"
    /\ \/ left = 0 /\ Returns("unknown")
       \/ pc' = "waiting" /\ UNCHANGED <<orders, last, engine, simulate>>
    /\ UNCHANGED <<chain, ages, reqId, left>>

\* Nothing is known yet, or no answer: wait, or give up at the deadline.
StatusUnknown ==
    /\ pc = "asked"
    /\ IF left = 0
         THEN Returns("unknown")
         ELSE pc' = "waiting" /\ UNCHANGED <<orders, last, engine, simulate>>
    /\ UNCHANGED <<chain, ages, reqId, left>>

\* Ages that matter no more are not counted on.
Older(a) == IF a < CacheTicks \/ a < HashTicks THEN a + 1 ELSE a

TimePasses ==
    /\ ages' = [h \in DOMAIN ages |-> Older(ages[h])]
    /\ left' = IF left > 0 THEN left - 1 ELSE 0

\* The sleep between two polls.
AskAgain ==
    /\ pc = "waiting"
    /\ pc' = "asked"
    /\ TimePasses
    /\ UNCHANGED <<orders, last, engine, chain, reqId, simulate>>

\* The balance cannot be had (unknown) or cannot be read (rejected).
BalanceFails(r) ==
    /\ pc = "balance"
    /\ Returns(r)
    /\ UNCHANGED <<chain, ages, reqId, left>>

\* Mutant: a sell is not looked up.
OnlyBuysReconciled ==
    This.side = "buy" => settled + Dust >= This.qty

\* A landed buy must be covered, a landed sell must leave nothing.
Reconciled ==
    IF This.side = "buy" THEN settled + Dust >= This.qty ELSE settled <= Dust

BalanceRead ==
    /\ pc = "balance"
    /\ Returns(IF Reconciled THEN "fill" ELSE "unknown")
    /\ UNCHANGED <<chain, ages, reqId, left>>

-----------------------------------------------------------------------------
(* The chain: no code of the repository                                    *)

\* The same transfer on the same blockhash is the same transaction.
SameTip(o, p) ==
    /\ orders[o].hash = orders[p].hash
    /\ orders[o].dest = orders[p].dest
    /\ Tip(orders[o].side) = Tip(orders[p].side)
    /\ Tip(orders[o].side) > 0

\* A bundle lands whole: on a blockhash still valid, with transactions that
\* were never processed before, a sell with tokens to sell.
Lands(o) ==
    /\ orders[o].bundle = "flight"
    /\ ages[orders[o].hash] < HashTicks
    /\ \A p \in Ids : orders[p].bundle = "landed" => ~SameTip(o, p)
    /\ IF orders[o].side = "buy"
         THEN \E got \in orders[o].qty - Slip .. orders[o].qty + Slip :
                 wallet' = wallet + got
         ELSE wallet >= orders[o].qty /\ wallet' = wallet - orders[o].qty
    /\ orders' = [orders EXCEPT ![o].bundle = "landed"]
    /\ UNCHANGED <<pc, last, engine, settled, ages, reqId, left, simulate>>

\* A bundle is never accepted, fails on the chain, or is dropped.
Dies(o) ==
    /\ orders[o].bundle = "flight"
    /\ orders' = [orders EXCEPT ![o].bundle = "dead"]
    /\ UNCHANGED <<pc, last, engine, chain, ages, reqId, left, simulate>>

\* What has landed reaches the commitment that balances are read at.
Settles ==
    /\ settled # wallet
    /\ settled' = wallet
    /\ UNCHANGED <<pc, orders, last, engine, wallet, ages, reqId, left, simulate>>

Tick ==
    /\ TimePasses
    /\ UNCHANGED <<pc, orders, last, engine, chain, reqId, simulate>>

-----------------------------------------------------------------------------
Before ==
    \/ \E stage \in Stages : \/ StageDone(stage)
                             \/ \E r \in Failures : StageFails(stage, r)
    \/ \E r \in Failures : SignFails(r)
    \/ Simulated
    \/ Sent

After ==
    \/ SendFails \/ SendAccepted
    \/ StatusLanded \/ StatusFailed \/ StatusUnknown \/ AskAgain
    \/ BalanceRead \/ \E r \in Failures : BalanceFails(r)

Chain ==
    \/ \E o \in Ids : Lands(o) \/ Dies(o)
    \/ Settles
    \/ Tick

Next == Buy \/ Sell \/ Before \/ After \/ Chain

\* Calls of RpcClient end: each endpoint has 15 s (live.rs:436-447).  A sleep
\* ends.  Nothing makes Jupiter or Jito answer: their clients have no timeout.
Fairness ==
    /\ WF_vars(pc = "decimals" /\ Before)
    /\ WF_vars(pc = "sign" /\ Before)
    /\ WF_vars(AskAgain)
    /\ WF_vars(pc = "balance" /\ After)

Spec == Init /\ [][Next]_vars /\ Fairness
-----------------------------------------------------------------------------
(* Correctness                                                             *)

TypeOK ==
    /\ pc \in {"idle", "sign", "send", "asked", "waiting", "balance"} \cup Stages
    /\ orders \in [Ids -> Order]
    /\ last \in 0 .. MaxOrders
    /\ pc # "idle" => last > 0 /\ This.side # "none" /\ This.result = "open"
    /\ book \in Nat /\ wallet \in Nat /\ settled \in Nat
    /\ funnel \in BOOLEAN /\ simulate \in BOOLEAN
    /\ ages \in Seq(Nat)
    /\ \A o \in Ids : orders[o].bundle # "unsent" => orders[o].hash \in DOMAIN ages
    /\ reqId \in Nat \ {0}
    /\ left \in 0 .. Timeout

\* What the engine is told of order o, a simulated fill set apart.
ResultOf(o) ==
    IF simulate /\ orders[o].result = "fill" THEN "simulated"
                                             ELSE orders[o].result

\* The executor keeps the contract of the trait (exec.rs:20-33, live.rs:1038-
\* 1068): whatever is lost or late on the way, a fill is of a landed bundle,
\* an order ends once, and a bundle that is still to land is never reported
\* as filled or as rejected.
Contract == INSTANCE Orders
                WITH result <- [o \in Ids |-> ResultOf(o)],
                     landed <- [o \in Ids |-> orders[o].bundle = "landed"]
ImplementsOrders == Contract!Spec

Landed == {o \in Ids : orders[o].bundle = "landed"}

\* The slices of the book: the fills since the last sell that filled.
BookSlices ==
    {o \in Ids : /\ orders[o].side = "buy" /\ orders[o].result = "fill"
                 /\ \A p \in o .. last : ~(orders[p].side = "sell"
                                              /\ orders[p].result = "fill")}

\* No silent drift (live.rs:1299-1305): as long as no bundle landed whose
\* order was not reported filled, book and wallet differ by the slippage of
\* the book's own slices and by the dust of the last sell, and no more.
NoSilentDrift ==
    pc = "idle" /\ ~simulate /\ (\A o \in Landed : orders[o].result = "fill")
        => LET off == Slip * Cardinality(BookSlices)
           IN book - off <= wallet /\ wallet <= book + off + Dust

\* poll_bundle_landing has a deadline and every RPC call a timeout
\* (live.rs:1038-1068, 436-447): an order ends, unless a request to Jupiter
\* or Jito is never answered nor refused.
OrderEnds ==
    []<>(pc \notin {"quote", "swap", "send", "asked"})
        => (pc # "idle" ~> pc = "idle")

-----------------------------------------------------------------------------
(* Statements of comments that runs refute                                 *)

\* exec.rs:24-26: "Unlike a rejection the order state is UNKNOWN": a rejected
\* order has not been executed.
RejectedNeverLanded ==
    \A o \in Landed : orders[o].result # "rejected"

\* live.rs:1165-1168: a cached blockhash is reused "across DISTINCT
\* transactions", and live.rs:531-532 allows no reuse "across bundles": no two
\* bundles carry the same tip transfer.
TipsDistinct ==
    \A o, p \in Ids :
        o # p /\ orders[o].bundle # "unsent" /\ orders[p].bundle # "unsent"
            => ~SameTip(o, p)
=============================================================================
