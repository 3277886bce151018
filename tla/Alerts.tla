------------------------------- MODULE Alerts -------------------------------
(***************************************************************************)
(* Operator alerting: Alerter::fire and the webhook worker of              *)
(* src/alerts.rs.  fire is called from wherever something goes wrong; it   *)
(* logs and queues, at most once per kind and window.  The worker POSTs    *)
(* one alert at a time, without a retry and without a timeout.             *)
(*                                                                         *)
(* An alert is named by its place in fires, the history of all calls.  The *)
(* rate limits and the queue live in the process and die with it.          *)
(***************************************************************************)
EXTENDS Integers, Sequences, SequencesExt

CONSTANTS
    AlertKinds,     \* kinds of alert
    MinInterval,    \* HFM_ALERT_MIN_SECS, in ticks
    MaxAlertTime,   \* bound: ticks of the clock
    MaxFires,       \* bound: calls of fire
    MaxAlertLives   \* bound: processes

ASSUME AlertsAssumption ==
    /\ MinInterval \in Nat
    /\ MaxAlertTime \in Nat
    /\ MaxFires \in Nat
    /\ MaxAlertLives \in Nat

VARIABLES
    alertNow,    \* the monotonic clock
    alertLife,   \* number of the running process
    webhook,     \* a URL is configured: there is a channel and a worker
    lastFired,   \* last_sent: time of the last new alert of a kind, or Never
    outbox,      \* the unbounded channel
    posting,     \* the alert the worker is POSTing: a sequence of at most one
    posted,      \* history: alerts whose POST succeeded
    lost,        \* history: alerts whose POST failed or whose process died
    fires        \* history: the calls of fire

alertVars == <<alertNow, alertLife, webhook, lastFired, outbox, posting,
               posted, lost, fires>>
worker == <<posting, posted, lost>>

Never == -1

AlertsInit ==
    /\ alertNow = 0
    /\ alertLife = 1
    /\ webhook \in BOOLEAN
    /\ lastFired = [k \in AlertKinds |-> Never]
    /\ outbox = <<>>
    /\ posting = <<>>
    /\ posted = {}
    /\ lost = {}
    /\ fires = <<>>

-----------------------------------------------------------------------------
(* Calls of fire                                                           *)

\* This kind already fired inside the rate window, which is open at its end.
InWindow(k) ==
    /\ lastFired[k] # Never
    /\ alertNow - lastFired[k] < MinInterval

\* One call of fire goes into the history.
Called(k, new) ==
    /\ Len(fires) < MaxFires
    /\ fires' = Append(fires, [kind |-> k, at |-> alertNow,
                               life |-> alertLife, new |-> new])

\* Mutant: a suppressed alert opens a new window.
SuppressedExtends(k) ==
    /\ InWindow(k)
    /\ Called(k, FALSE)
    /\ lastFired' = [lastFired EXCEPT ![k] = alertNow]
    /\ UNCHANGED <<alertNow, alertLife, webhook, outbox, worker>>

\* Rate-limited away: neither logged nor queued.
FireSuppressed(k) ==
    /\ InWindow(k)
    /\ Called(k, FALSE)
    /\ UNCHANGED <<alertNow, alertLife, webhook, lastFired, outbox, worker>>

\* A new alert is logged and, with a webhook, queued.
FireNew(k) ==
    /\ ~InWindow(k)
    /\ Called(k, TRUE)
    /\ lastFired' = [lastFired EXCEPT ![k] = alertNow]
    /\ outbox' = IF webhook THEN Append(outbox, Len(fires')) ELSE outbox
    /\ UNCHANGED <<alertNow, alertLife, webhook, worker>>

-----------------------------------------------------------------------------
(* The worker, the clock and the process                                   *)

\* Mutant: the worker waits until it has a second alert to go on with.
TakeTwo ==
    /\ posting = <<>>
    /\ Len(outbox) > 1
    /\ posting' = <<Head(outbox)>>
    /\ outbox' = Tail(outbox)
    /\ UNCHANGED <<alertNow, alertLife, webhook, lastFired, posted, lost, fires>>

TakeAlert ==
    /\ posting = <<>>
    /\ outbox # <<>>
    /\ posting' = <<Head(outbox)>>
    /\ outbox' = Tail(outbox)
    /\ UNCHANGED <<alertNow, alertLife, webhook, lastFired, posted, lost, fires>>

\* The POST ends.  A failed one is logged and dropped.
PostEnds ==
    /\ posting # <<>>
    /\ posting' = <<>>
    /\ \/ posted' = posted \cup {Head(posting)} /\ UNCHANGED lost
       \/ lost' = lost \cup {Head(posting)} /\ UNCHANGED posted
    /\ UNCHANGED <<alertNow, alertLife, webhook, lastFired, outbox, fires>>

AlertTick ==
    /\ alertNow < MaxAlertTime
    /\ alertNow' = alertNow + 1
    /\ UNCHANGED <<alertLife, webhook, lastFired, outbox, worker, fires>>

\* The process ends, by a crash or by main returning (which waits for no
\* worker), and another one starts.
AlertsRestart ==
    /\ alertLife < MaxAlertLives
    /\ alertLife' = alertLife + 1
    /\ webhook' \in BOOLEAN
    /\ lastFired' = [k \in AlertKinds |-> Never]
    /\ outbox' = <<>>
    /\ posting' = <<>>
    /\ lost' = lost \cup ToSet(outbox) \cup ToSet(posting)
    /\ UNCHANGED <<alertNow, posted, fires>>

AlertsNext ==
    \/ \E k \in AlertKinds : FireSuppressed(k) \/ FireNew(k)
    \/ TakeAlert \/ PostEnds \/ AlertTick \/ AlertsRestart

\* The runtime runs a ready worker.  Nothing is assumed of the webhook.
AlertsSpec ==
    AlertsInit /\ [][AlertsNext]_alertVars /\ WF_alertVars(TakeAlert)
-----------------------------------------------------------------------------
(* Correctness                                                             *)

Fire == [kind : AlertKinds, at : Nat, life : Nat, new : BOOLEAN]

AlertsTypeOK ==
    /\ alertNow \in Nat
    /\ alertLife \in Nat
    /\ webhook \in BOOLEAN
    /\ lastFired \in [AlertKinds -> Nat \cup {Never}]
    /\ outbox \in Seq(Nat)
    /\ posting \in Seq(Nat)
    /\ posted \subseteq Nat
    /\ lost \subseteq Nat
    /\ fires \in Seq(Fire)

\* Rate limiting (alerts.rs:11-12), both ways: two logged alerts of a kind and
\* a process are a whole window apart, however many calls come between them;
\* and an alert is left out only inside the window of one that was logged.
OncePerWindow ==
    \A i \in DOMAIN fires :
        IF fires[i].new
        THEN \A j \in 1 .. i - 1 :
                /\ fires[j].new
                /\ fires[j].kind = fires[i].kind
                /\ fires[j].life = fires[i].life
                => fires[i].at - fires[j].at >= MinInterval
        ELSE \E j \in 1 .. i - 1 :
                /\ fires[j].new
                /\ fires[j].kind = fires[i].kind
                /\ fires[j].life = fires[i].life
                /\ fires[i].at - fires[j].at < MinInterval

Queued(i) == i \in ToSet(outbox)

\* As long as every POST ends (the client has no timeout), an alert that was
\* queued is sent, dropped after a failed POST or lost with its process
\* (alerts.rs:148-151): none waits for ever behind others.
AlertsDelivered ==
    []<>(posting = <<>>) =>
        \A i \in 1 .. MaxFires : Queued(i) ~> i \in posted \cup lost
=============================================================================
