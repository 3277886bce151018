------------------------------ MODULE Recovery ------------------------------
(***************************************************************************)
(* The engine with its snapshot file: src/persist.rs, Engine::state and    *)
(* Engine::restore, RiskEngine::snapshot_state and restore_state, and the  *)
(* resume at boot of src/main.rs.  A snapshot is written between events    *)
(* only; the process may die at any await, in the middle of a funnel or a  *)
(* sweep, and boots again from the last snapshot or, without one, flat.    *)
(*                                                                         *)
(* A failed save leaves the file as it was, which is no step here.  trades *)
(* is history: every trade ever closed, the forgotten ones included.       *)
(***************************************************************************)
EXTENDS Engine, SequencesExt

CONSTANT MaxRestarts    \* bound: how often the process dies

ASSUME RecoveryAssumption == MaxRestarts \in Nat

VARIABLES
    disk,       \* the snapshot file: {} or the set of one snapshot
    restarts,   \* how often the process has died
    trades      \* history: every trade ever closed

rvars == <<vars, disk, restarts, trades>>

RInit ==
    /\ Init
    /\ disk = {}
    /\ restarts = 0
    /\ trades = <<>>

\* Mutant: the closed trades are not part of the resumable state.
ClosedLeftOut ==
    [ equity |-> equity, deployed |-> deployed, positions |-> positions,
      closed |-> <<>>, orderSeq |-> orderSeq, risk |-> [risk EXCEPT !.open = 0] ]

\* The resumable state.  The open-position count is not part of it.
Snapshot == [ equity |-> equity, deployed |-> deployed,
              positions |-> positions, closed |-> closed,
              orderSeq |-> orderSeq, risk |-> [risk EXCEPT !.open = 0] ]

\* The engine runs; a trade it closes is added to the history.
Run ==
    /\ Next
    /\ trades' = IF Len(closed') > Len(closed)
                   THEN Append(trades, Last(closed')) ELSE trades
    /\ UNCHANGED <<disk, restarts>>

\* A checkpoint: on a timer, on disconnect, on shutdown; never inside an event.
Save ==
    /\ ev.pc = "idle"
    /\ disk' = {Snapshot}
    /\ UNCHANGED <<vars, restarts, trades>>

\* Mutant: the kill switch of this boot replaces the saved one.
KillReplaced(r, envKill, open) == [r EXCEPT !.kill = envKill, !.open = open]

\* Mutant: the risk engine is not told how many positions were restored.
OpenForgotten(r, envKill, open) == [r EXCEPT !.kill = @ \/ envKill]

\* Mutant: the day of the restart replaces the saved one.
DayLedgerReset(r, envKill, open) ==
    [r EXCEPT !.kill = @ \/ envKill, !.open = open, !.dayPnl = 0]

\* The kill switch is OR-ed with the one set for this boot, never cleared.
RestoredRisk(r, envKill, open) ==
    [r EXCEPT !.kill = @ \/ envKill, !.open = open]

\* The process dies, at whatever point, and boots at ts.
Reboot(ts) ==
    /\ restarts < MaxRestarts
    /\ restarts' = restarts + 1
    /\ clock' = ts
    /\ ev' = Idle
    /\ UNCHANGED <<disk, trades, sent, log>>

\* First boot, or a death before the first checkpoint.
BootFlat(envKill, ts) ==
    /\ disk = {}
    /\ Reboot(ts)
    /\ equity' = StartEquity
    /\ deployed' = 0
    /\ positions' = [m \in {} |-> {}]
    /\ closed' = <<>>
    /\ orderSeq' = 0
    /\ risk' = [NewRisk EXCEPT !.day = Day(ts), !.kill = envKill]

\* Mutant: the restored engine starts a new trade history.
ClosedForgotten(snap, envKill, ts) ==
    /\ Reboot(ts)
    /\ equity' = snap.equity
    /\ deployed' = snap.deployed
    /\ positions' = snap.positions
    /\ closed' = <<>>
    /\ orderSeq' = snap.orderSeq
    /\ risk' = RestoredRisk(snap.risk, envKill, Cardinality(DOMAIN snap.positions))

\* Boot from the snapshot, which must pass the money invariants.
BootRestored(snap, envKill, ts) ==
    /\ CheckInvariants(snap.equity, snap.deployed, snap.positions, snap.closed)
    /\ Reboot(ts)
    /\ equity' = snap.equity
    /\ deployed' = snap.deployed
    /\ positions' = snap.positions
    /\ closed' = snap.closed
    /\ orderSeq' = snap.orderSeq
    /\ risk' = RestoredRisk(snap.risk, envKill, Cardinality(DOMAIN snap.positions))

RNext ==
    \/ Run
    \/ Save
    \/ \E envKill \in BOOLEAN, ts \in EventTimes : BootFlat(envKill, ts)
    \/ \E snap \in disk, envKill \in BOOLEAN, ts \in EventTimes :
           BootRestored(snap, envKill, ts)

RSpec == RInit /\ [][RNext]_rvars
-----------------------------------------------------------------------------
(* Correctness                                                             *)

\* A boot never refuses the engine's own snapshot (engine.rs:91-114): whatever
\* was saved passes check_invariants, so live mode cannot lock itself out and
\* paper mode does not start flat over an open book.
SnapshotAccepted ==
    \A snap \in disk : CheckInvariants(snap.equity, snap.deployed,
                                       snap.positions, snap.closed)

\* Any number of crashes loses recency only (liveloop.rs:65-66): the engine
\* always runs on from the last snapshot, whose trades and order ids are the
\* beginning of its own.
LosesOnlyRecency ==
    \A snap \in disk : /\ IsPrefix(snap.closed, closed)
                       /\ snap.orderSeq <= orderSeq

\* restore_state (risk.rs:139-147): an engine with an engaged kill switch on
\* disk has it engaged, whatever later boots were configured with.
KillNotForgotten == \A snap \in disk : snap.risk.kill => risk.kill

-----------------------------------------------------------------------------
(* Statement of the documentation that the code does not keep              *)

\* The realized P&L of a day, over all restarts.
DayTotal(d) ==
    SumFunction([i \in {j \in DOMAIN trades : trades[j].day = d} |->
                    trades[i].pnl])

\* risk.rs:126-127: the breaker state is saved "so a restart resumes with
\* identical protection": no slice fills on a day whose trades have lost
\* the daily limit, across restarts.  Refuted by a crash between the trip and
\* the next snapshot, which is what checkpoints are like; no run checks it.
ProtectionSurvivesRestart ==
    [][deployed' > deployed /\ restarts' = restarts
           => ~LossReached(DayTotal(Day(ev.ts)))]_rvars
=============================================================================
