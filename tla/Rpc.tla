-------------------------------- MODULE Rpc ---------------------------------
(***************************************************************************)
(* The Solana RPC client with failover (RpcClient in src/live.rs) under    *)
(* the calls of src/bin/devnet_trade.rs: airdrop, confirm, balance,        *)
(* blockhash, send, confirm, balance.  A call asks the endpoints in turn,  *)
(* from the last one that answered, until one answers at all; an answer    *)
(* that refuses or cannot be read is an answer.                            *)
(*                                                                         *)
(* The tool configures one endpoint, the live executor a primary and its   *)
(* fallbacks; the tool's flow, the longest use of the client, stands for   *)
(* both, with any number of endpoints.  An endpoint may die for good at    *)
(* any time.  Times are counted in polls of confirm_signature; what the    *)
(* chain does with a transaction shows only in the answers.                *)
(***************************************************************************)
EXTENDS Naturals

CONSTANTS
    Endpoints,      \* number of configured endpoints
    MaxDrops,       \* airdrop attempts (6 in the program)
    ConfirmPolls    \* polls within CONFIRM_TIMEOUT_SECS

ASSUME RpcAssumption ==
    /\ Endpoints \in Nat \ {0}
    /\ MaxDrops \in Nat \ {0}
    /\ ConfirmPolls \in Nat

VARIABLES
    step,       \* the call of the flow that is due or under way
    calling,    \* a call is under way
    start,      \* endpoint at which it started
    tried,      \* endpoints it has tried without an answer
    active,     \* the last endpoint that answered
    drops,      \* airdrop attempts that failed
    waited,     \* polls of the present confirmation
    dead,       \* endpoints that never answer again
    failed,     \* history: endpoints that have failed in this call
    passed      \* history: dead endpoints that a call got past to an answer

rpcVars == <<step, calling, start, tried, active, drops, waited, dead, failed,
             passed>>
peers == <<dead>>

Hosts == 0 .. Endpoints - 1
Steps == {"airdrop", "confirmDrop", "before", "blockhash", "send",
          "confirmSend", "after", "ok", "failed"}
Ended == step \in {"ok", "failed"}

RpcInit ==
    /\ step = "airdrop"
    /\ calling = FALSE
    /\ start = 0
    /\ tried = 0
    /\ active = 0
    /\ drops = 0
    /\ waited = 0
    /\ dead = {}
    /\ failed = {}
    /\ passed = {}

-----------------------------------------------------------------------------
(* The flow: what the result of a call leads to                            *)

Results == {"good", "bad", "pending"}

\* Mutant: a poll that finds the transaction pending never looks at the time.
PendingForever(next) ==
    /\ step' = step
    /\ waited' = waited

\* Pending: wait, unless the time is up; a poll may take longer than one tick.
Pending(next) ==
    IF waited >= ConfirmPolls
    THEN step' = "failed" /\ waited' = waited
    ELSE step' = step /\ waited' \in waited + 1 .. ConfirmPolls + 1

\* confirm_signature: only an explicit confirmation lands; a failure on chain,
\* a refusal or no answer at all ends it.
Confirm(result, next) ==
    /\ \/ result = "pending" /\ Pending(next)
       \/ result = "good" /\ step' = next /\ waited' = 0
       \/ result = "bad" /\ step' = "failed" /\ waited' = waited
    /\ UNCHANGED drops

\* request_airdrop is tried again after any error.
Airdrop(result) ==
    /\ IF result = "good" THEN step' = "confirmDrop" /\ drops' = drops
       ELSE /\ drops' = drops + 1
            /\ step' = IF drops' = MaxDrops THEN "failed" ELSE step
    /\ UNCHANGED waited

\* Any other call ends the flow when it fails.  A balance far below the
\* airdrop is a bad one.
Plain(result, next) ==
    /\ step' = IF result = "good" THEN next ELSE "failed"
    /\ UNCHANGED <<drops, waited>>

Advance(result) ==
    \/ step = "airdrop" /\ Airdrop(result)
    \/ step = "confirmDrop" /\ Confirm(result, "before")
    \/ step = "before" /\ Plain(result, "blockhash")
    \/ step = "blockhash" /\ Plain(result, "send")
    \/ step = "send" /\ Plain(result, "confirmSend")
    \/ step = "confirmSend" /\ Confirm(result, "after")
    \/ step = "after" /\ Plain(result, "ok")

-----------------------------------------------------------------------------
(* A call                                                                  *)

\* rpc_call begins at the active endpoint.
BeginCall ==
    /\ ~Ended
    /\ ~calling
    /\ calling' = TRUE
    /\ start' = active
    /\ tried' = 0
    /\ failed' = {}
    /\ UNCHANGED <<step, active, drops, waited, passed, peers>>

Asked == (start + tried) % Endpoints

\* Mutant: a success does not move the preferred endpoint.
AnswerNotKept ==
    /\ calling
    /\ Asked \notin dead
    /\ calling' = FALSE
    /\ \E result \in Results : Advance(result)
    /\ passed' = passed \cup (failed \cap dead)
    /\ UNCHANGED <<start, tried, active, failed, peers>>

\* An endpoint answers: it is kept, and the answer is parsed.
Answer ==
    /\ calling
    /\ Asked \notin dead
    /\ active' = Asked
    /\ calling' = FALSE
    /\ \E result \in Results : Advance(result)
    /\ passed' = passed \cup (failed \cap dead)
    /\ UNCHANGED <<start, tried, failed, peers>>

\* A transport failure, a time out after 15 s included: the next endpoint has
\* its turn, and after the last one the call has failed.
NoAnswer ==
    /\ calling
    /\ failed' = failed \cup {Asked}
    /\ IF tried + 1 < Endpoints
       THEN /\ tried' = tried + 1
            /\ UNCHANGED <<step, calling, drops, waited>>
       ELSE /\ calling' = FALSE
            /\ Advance("bad")
            /\ UNCHANGED tried
    /\ UNCHANGED <<start, active, passed, peers>>

EndpointDies(e) ==
    /\ e \notin dead
    /\ dead' = dead \cup {e}
    /\ UNCHANGED <<step, calling, start, tried, active, drops, waited, failed,
                   passed>>

FlowOver == Ended /\ UNCHANGED rpcVars

RpcNext ==
    \/ BeginCall \/ Answer \/ NoAnswer
    \/ \E e \in Hosts : EndpointDies(e)
    \/ FlowOver

\* The task runs on, and every attempt has a timeout of its own.
RpcSpec ==
    /\ RpcInit /\ [][RpcNext]_rpcVars
    /\ WF_rpcVars(BeginCall)
    /\ WF_rpcVars(Answer \/ NoAnswer)
-----------------------------------------------------------------------------
(* Correctness                                                             *)

RpcTypeOK ==
    /\ step \in Steps
    /\ calling \in BOOLEAN
    /\ start \in Hosts /\ tried \in Hosts /\ active \in Hosts
    /\ drops \in 0 .. MaxDrops
    /\ waited \in 0 .. ConfirmPolls + 1
    /\ dead \subseteq Hosts
    /\ failed \subseteq Hosts
    /\ passed \subseteq Hosts

\* "So a dead primary is not hammered on every call" (live.rs:411-413): once a
\* call has got past a dead endpoint to one that answered, a later call asks the
\* dead one only after the endpoint that answered last, and every endpoint from
\* there round to the dead one, has failed in that same call.
DeadNotHammered ==
    calling /\ Asked \in passed =>
        \E n \in 1 .. Endpoints - 1 :
            /\ Asked = (active + n) % Endpoints
            /\ \A i \in 0 .. n - 1 : (active + i) % Endpoints \in failed

\* Retries, failover and polls all end: whatever the endpoints do, a flow that
\* has begun comes to a verdict (live.rs:597-598; devnet_trade.rs:48-67).
FlowEnds == calling ~> Ended
=============================================================================
