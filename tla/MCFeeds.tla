------------------------------- MODULE MCFeeds -------------------------------
(***************************************************************************)
(* The two feeds and the archive for one run of TLC: the gRPC feed with    *)
(* its slot clock, and the messages of the websocket feed.  They share no  *)
(* state, so it is enough to look at one at a time, the focus.             *)
(***************************************************************************)
EXTENDS SlotFeed, Archive

VARIABLE focus  \* the part that takes the steps

FeedsInit ==
    /\ focus \in {"slots", "archive"}
    /\ SlotInit
    /\ ArchInit /\ (focus # "archive" => ~recorder)

SlotSteps ==
    /\ focus = "slots" /\ SlotNext
    /\ UNCHANGED <<focus, archVars>>

ArchSteps ==
    /\ focus = "archive" /\ ArchNext
    /\ UNCHANGED <<focus, slotVars>>

FeedsNext == SlotSteps \/ ArchSteps

FeedsSpec == FeedsInit /\ [][FeedsNext]_<<focus, slotVars, archVars>>

\* Every variable of both parts has its type, and a slot whose entry is gone is
\* below a full clock.
FeedsTypeOK ==
    /\ SlotTypeOK
    /\ EvictedIsBelow
    /\ ArchTypeOK
=============================================================================
