------------------------------ MODULE MCProcess ------------------------------
(***************************************************************************)
(* What main builds around the engine, for one run of TLC: booting, the    *)
(* alert worker, the audit trail, the Jupiter governor and the RPC client. *)
(* These parts share no state, so the behaviours of all of them together   *)
(* are those of each one, interleaved: it is enough to look at one part at *)
(* a time, the focus, while the others do not move.                        *)
(***************************************************************************)
EXTENDS Alerts, AuditTrail, Governor, Rpc, Boot

VARIABLE focus  \* the part that takes the steps

Parts == {"alerts", "audit", "governor", "rpc", "boot"}

ProcessInit ==
    /\ focus \in Parts
    /\ AlertsInit /\ (focus # "alerts" => ~webhook)
    /\ AuditInit /\ (focus # "audit" => ~mirror)
    /\ GovernorInit
    /\ RpcInit
    /\ BootInit

AlertsSteps ==
    /\ focus = "alerts" /\ AlertsNext
    /\ UNCHANGED <<focus, auditVars, govVars, rpcVars, bootVars>>

AuditSteps ==
    /\ focus = "audit" /\ AuditNext
    /\ UNCHANGED <<focus, alertVars, govVars, rpcVars, bootVars>>

GovernorSteps ==
    /\ focus = "governor" /\ GovernorNext
    /\ UNCHANGED <<focus, alertVars, auditVars, rpcVars, bootVars>>

RpcSteps ==
    /\ focus = "rpc" /\ RpcNext
    /\ UNCHANGED <<focus, alertVars, auditVars, govVars, bootVars>>

BootSteps ==
    /\ focus = "boot" /\ BootNext
    /\ UNCHANGED <<focus, alertVars, auditVars, govVars, rpcVars>>

ProcessNext ==
    AlertsSteps \/ AuditSteps \/ GovernorSteps \/ RpcSteps \/ BootSteps

ProcessVars == <<focus, alertVars, auditVars, govVars, rpcVars, bootVars>>

\* The fairness of AlertsSpec and RpcSpec.
ProcessSpec ==
    /\ ProcessInit /\ [][ProcessNext]_ProcessVars
    /\ WF_alertVars(TakeAlert)
    /\ WF_rpcVars(focus = "rpc" /\ BeginCall)
    /\ WF_rpcVars(focus = "rpc" /\ (Answer \/ NoAnswer))

\* Every variable of every part has its type.
ProcessTypeOK ==
    /\ AlertsTypeOK
    /\ AuditTypeOK
    /\ GovernorTypeOK
    /\ RpcTypeOK
    /\ BootTypeOK
=============================================================================
