-------------------------------- MODULE Orders --------------------------------
(***************************************************************************)
(* What the Executor trait of src/exec.rs promises of an order, and all    *)
(* that the engine relies on: an order ends once, as filled, rejected or   *)
(* unknown; a fill is of a bundle that has landed; nothing lands after the *)
(* engine was told that the order was filled or rejected.                  *)
(*                                                                         *)
(* An unknown order may land at any later time.  A rejected one may have   *)
(* landed before: exec.rs denies it, live.rs does not rule it out.         *)
(***************************************************************************)
CONSTANT Ids        \* order numbers

VARIABLES
    result,   \* what the engine was told of each order
    landed    \* whether the order's bundle is on the chain

ovars == <<result, landed>>

Results == {"none", "open", "fill", "simulated", "rejected", "unknown"}

Init ==
    /\ result = [o \in Ids |-> "none"]
    /\ landed = [o \in Ids |-> FALSE]

\* The engine awaits one order at a time.
Begin(o) ==
    /\ result[o] = "none"
    /\ \A p \in Ids : result[p] # "open"
    /\ result' = [result EXCEPT ![o] = "open"]
    /\ UNCHANGED landed

Land(o) ==
    /\ ~landed[o]
    /\ result[o] \in {"open", "unknown"}
    /\ landed' = [landed EXCEPT ![o] = TRUE]
    /\ UNCHANGED result

Finish(o, r) ==
    /\ result[o] = "open"
    /\ r = "fill" => landed[o]
    /\ result' = [result EXCEPT ![o] = r]
    /\ UNCHANGED landed

Next ==
    \E o \in Ids :
        \/ Begin(o)
        \/ Land(o)
        \/ \E r \in Results \ {"none", "open"} : Finish(o, r)

Spec == Init /\ [][Next]_ovars
=============================================================================
