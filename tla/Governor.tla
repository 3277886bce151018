------------------------------ MODULE Governor ------------------------------
(***************************************************************************)
(* The governor of outbound Jupiter calls: TokenBucket, JupiterClient::new *)
(* and the gates of quote and swap in src/live.rs.  A pass of an order     *)
(* takes one token for the quote and, when the quote is good, one for the  *)
(* swap assembly.  One executor owns the client: passes do not overlap.    *)
(*                                                                         *)
(* Period ticks of the clock earn one token.                               *)
(***************************************************************************)
EXTENDS Integers, Sequences

CONSTANTS
    Capacity,   \* 2 * HFM_JUPITER_QPS
    Period,     \* ticks per token
    MaxGovTime, \* bound: ticks of the clock
    MaxTakes    \* bound: admitted calls

ASSUME GovernorAssumption ==
    /\ Capacity \in Nat
    /\ Period \in Nat \ {0}
    /\ MaxGovTime \in Nat
    /\ MaxTakes \in Nat

VARIABLES
    govNow,     \* the monotonic clock
    available,  \* whole tokens in the bucket
    mark,       \* last_refill
    stage,      \* of the pass under way: "none", or "quoted" before its swap
    rested,     \* history: the last pass began after a rest of two periods
    refused,    \* history: the last pass was refused a call
    takes       \* history: the times of the admitted calls

govVars == <<govNow, available, mark, stage, rested, refused, takes>>

\* The bucket starts full.
GovernorInit ==
    /\ govNow = 0
    /\ available = Capacity
    /\ mark = 0
    /\ stage = "none"
    /\ rested = FALSE
    /\ refused = FALSE
    /\ takes = <<>>

-----------------------------------------------------------------------------
(* The bucket                                                              *)

Earned == (govNow - mark) \div Period

AtMost(n, limit) == IF n <= limit THEN n ELSE limit

\* Mutant: the earned tokens are added to a full bucket.
RefilledUncapped == available + Earned

\* refill: whole tokens, up to the capacity.
Refilled == AtMost(available + Earned, Capacity)

\* Mutant: every refill moves the mark, also one that earned nothing.
MarkAlways(later) == later

\* The mark moves only when a token was earned, to a second reading of the
\* clock; the fraction of a token before it is dropped.
Marked(later) == IF Earned > 0 THEN later ELSE mark

\* try_take(1), with the clock at later when refill reads it again.
TryTake(later) ==
    /\ later \in govNow .. govNow + 1
    /\ govNow' = IF Earned > 0 THEN later ELSE govNow
    /\ mark' = Marked(later)
    /\ IF Refilled >= 1
       THEN available' = Refilled - 1 /\ takes' = Append(takes, govNow')
       ELSE available' = Refilled /\ takes' = takes

Admitted == Refilled >= 1

-----------------------------------------------------------------------------
(* Passes                                                                  *)

\* No call was admitted for two periods.
Rest == takes = <<>> \/ govNow - takes[Len(takes)] >= 2 * Period

\* quote: refused without a token, otherwise asked, whatever comes back.
Quote(later) ==
    /\ stage = "none"
    /\ Len(takes) < MaxTakes
    /\ TryTake(later)
    /\ rested' = Rest
    /\ refused' = ~Admitted
    /\ stage' = IF Admitted THEN "quoted" ELSE "none"

\* The quote failed, or was turned down, before the swap.
QuoteUnusable ==
    /\ stage = "quoted"
    /\ stage' = "none"
    /\ UNCHANGED <<govNow, available, mark, rested, refused, takes>>

\* swap: the second call of the pass.
Swap(later) ==
    /\ stage = "quoted"
    /\ Len(takes) < MaxTakes
    /\ TryTake(later)
    /\ refused' = ~Admitted
    /\ stage' = "none"
    /\ UNCHANGED rested

GovTick ==
    /\ govNow < MaxGovTime
    /\ govNow' = govNow + 1
    /\ UNCHANGED <<available, mark, stage, rested, refused, takes>>

GovernorNext ==
    \/ \E later \in {govNow, govNow + 1} : Quote(later) \/ Swap(later)
    \/ QuoteUnusable
    \/ GovTick

GovernorSpec == GovernorInit /\ [][GovernorNext]_govVars
-----------------------------------------------------------------------------
(* Correctness                                                             *)

GovernorTypeOK ==
    /\ govNow \in Nat
    /\ available \in 0 .. Capacity
    /\ mark \in 0 .. govNow
    /\ stage \in {"none", "quoted"}
    /\ rested \in BOOLEAN
    /\ refused \in BOOLEAN
    /\ takes \in Seq(Nat)

\* The rate over any stretch of time (live.rs:43-45): the calls admitted from
\* one to another exceed the burst by less than one more than the tokens that
\* time earns.  Less than one, not none: the mark of a full bucket stays behind
\* until a whole token is earned, so the fraction it had is earned again.
RateBounded ==
    \A i, j \in DOMAIN takes : i <= j =>
        (j - i + 1) * Period < (Capacity + 1) * Period + (takes[j] - takes[i])

\* "Burst covers one full quote+swap pass" (live.rs:198-200): a pass that
\* begins after a rest of two periods is refused neither of its calls.
RestedPassWhole == Capacity >= 2 /\ rested => ~refused
=============================================================================
