------------------------------ MODULE LiveLoop ------------------------------
(***************************************************************************)
(* The live loop of src/liveloop.rs: connect, claim the streams, handle    *)
(* messages one at a time, checkpoint the book, back off, stop.  After     *)
(* every engine event it reconciles the trade subscriptions against the    *)
(* open book (plan_trade_subs in src/wsfeed.rs).                           *)
(*                                                                         *)
(* The engine is seen through its book only: an event may open one         *)
(* position and close any.  server is what the peer really streams; it     *)
(* forgets everything on a disconnect.  Messages that reach no engine      *)
(* event change nothing here, and the length of a backoff is left out.     *)
(***************************************************************************)
EXTENDS Naturals, FiniteSets

CONSTANTS
    Mints,      \* tokens
    MaxSubs,    \* HFM_MAX_TRADE_SUBS
    MaxOpen,    \* HFM_MAX_OPEN_POSITIONS
    MaxEvents   \* bound: engine events of one process

ASSUME LiveLoopAssumption ==
    /\ IsFiniteSet(Mints)
    /\ MaxSubs \in Nat
    /\ MaxOpen \in Nat
    /\ MaxEvents \in Nat

VARIABLES
    phase,       \* where the loop is
    signal,      \* SIGINT or SIGTERM has arrived
    open,        \* mints of the engine's open positions
    subscribed,  \* the loop's idea of its trade subscriptions
    server,      \* the trade subscriptions the peer holds
    events,      \* engine events so far: the version of the book
    saved,       \* the version of the book in the snapshot file
    saveFailed,  \* history: the last save failed (and was paged)
    lostSend,    \* history: a control send of this connection failed
    lastSent     \* history: every send of the last event went through

vars == <<phase, signal, open, subscribed, server, events, saved, saveFailed,
          lostSend, lastSent>>
socket == <<server, lostSend, lastSent>>
snapshot == <<saved, saveFailed>>

Phases == {"top", "connecting", "streaming", "backoff", "stopped"}

\* The book may have been restored from the snapshot.
Init ==
    /\ phase = "top"
    /\ signal = FALSE
    /\ open \in {S \in SUBSET Mints : Cardinality(S) <= MaxOpen}
    /\ subscribed = {}
    /\ server = {}
    /\ events = 0
    /\ saved = 0
    /\ saveFailed = FALSE
    /\ lostSend = FALSE
    /\ lastSent = FALSE

-----------------------------------------------------------------------------
(* Checkpoints                                                             *)

\* save_book: a failure is paged and the loop goes on.
SaveBook ==
    \/ saved' = events /\ saveFailed' = FALSE
    \/ saved' = saved /\ saveFailed' = TRUE

Stop ==
    /\ phase' = "stopped"
    /\ SaveBook
    /\ UNCHANGED <<signal, open, subscribed, events, socket>>

-----------------------------------------------------------------------------
(* Subscriptions                                                           *)

Least(a, b) == IF a <= b THEN a ELSE b

\* Every subscribed mint that is no longer open is dropped.
ToUnsub == subscribed \ open'

\* Mutant: the cap is compared before the last slot is taken.
ToSubOneMore ==
    LET wanted == open' \ subscribed
        used   == Cardinality(subscribed \ ToUnsub)
        room   == IF used > MaxSubs THEN 0 ELSE MaxSubs + 1 - used
    IN {S \in SUBSET wanted :
           Cardinality(S) = Least(Cardinality(wanted), room)}

\* New mints fill the remaining slots; the rest is dropped (in the code the
\* first ones in the order of their names get in).
ToSub ==
    LET wanted == open' \ subscribed
        used   == Cardinality(subscribed \ ToUnsub)
        room   == IF used >= MaxSubs THEN 0 ELSE MaxSubs - used
    IN {S \in SUBSET wanted :
           Cardinality(S) = Least(Cardinality(wanted), room)}

\* The messages of a plan go out in this order, up to the first that fails;
\* an empty list needs no message.
Delivered(toUnsub, toSub) ==
    \/ server' = (server \ toUnsub) \cup toSub /\ lastSent' = TRUE
    \/ server' = server \ toUnsub /\ lastSent' = FALSE /\ toSub # {}
    \/ server' = server /\ lastSent' = FALSE /\ toUnsub # {}

\* after_event: reconcile, then commit the plan whether or not it was sent.
AfterEvent(toSub) ==
    /\ Delivered(ToUnsub, toSub)
    /\ subscribed' = (subscribed \ ToUnsub) \cup toSub
    /\ lostSend' = (lostSend \/ ~lastSent')

-----------------------------------------------------------------------------
(* The loop                                                                *)

\* Mutant: the loop does not look at the signal before it connects.
ConnectsAnyway ==
    /\ phase = "top"
    /\ phase' = "connecting"
    /\ UNCHANGED <<signal, open, subscribed, events, socket, snapshot>>

StartConnecting ==
    /\ phase = "top"
    /\ ~signal
    /\ phase' = "connecting"
    /\ UNCHANGED <<signal, open, subscribed, events, socket, snapshot>>

StopAtTop == phase = "top" /\ signal /\ Stop

\* No connection, or the subscription to creates cannot be sent.
ConnectFails ==
    /\ phase = "connecting"
    /\ phase' = "backoff"
    /\ UNCHANGED <<signal, open, subscribed, events, socket, snapshot>>

\* Mutant: the subscriptions are not claimed again.
NothingReclaimed ==
    /\ phase = "connecting"
    /\ phase' = "streaming"
    /\ server' = {} /\ lostSend' = FALSE
    /\ lastSent' = FALSE
    /\ UNCHANGED <<signal, open, subscribed, events, snapshot>>

\* Connected: subscriptions the server forgot are claimed again; when that
\* send fails the stream is used all the same.
Connect ==
    /\ phase = "connecting"
    /\ phase' = "streaming"
    /\ \/ server' = subscribed /\ lostSend' = FALSE
       \/ subscribed # {} /\ server' = {} /\ lostSend' = TRUE
    /\ lastSent' = FALSE
    /\ UNCHANGED <<signal, open, subscribed, events, snapshot>>

\* Mutant: the engine does not count its positions before it opens one.
EventUncapped ==
    /\ phase = "streaming"
    /\ events < MaxEvents
    /\ events' = events + 1
    /\ \E opened \in SUBSET Mints, shut \in SUBSET Mints :
           Cardinality(opened) <= 1 /\ open' = (open \cup opened) \ shut
    /\ \E toSub \in ToSub : AfterEvent(toSub)
    /\ UNCHANGED <<phase, signal, snapshot>>

\* The engine handles an event, with its whole funnel and sweep.
EngineEvent ==
    /\ phase = "streaming"
    /\ events < MaxEvents
    /\ events' = events + 1
    /\ \E opened \in SUBSET Mints, shut \in SUBSET Mints :
           /\ Cardinality(opened) <= 1
           /\ Cardinality(open \cup opened) <= MaxOpen
           /\ open' = (open \cup opened) \ shut
    /\ \E toSub \in ToSub : AfterEvent(toSub)
    /\ UNCHANGED <<phase, signal, snapshot>>

\* The periodic checkpoint, between two messages.
SaverTick ==
    /\ phase = "streaming"
    /\ SaveBook
    /\ UNCHANGED <<phase, signal, open, subscribed, events, socket>>

\* Mutant: no checkpoint when the feed drops.
DisconnectUnsaved ==
    /\ phase = "streaming"
    /\ phase' = "backoff"
    /\ UNCHANGED <<signal, open, subscribed, events, socket, snapshot>>

\* The peer closes the stream or it fails: checkpoint before the gap.
Disconnect ==
    /\ phase = "streaming"
    /\ phase' = "backoff"
    /\ SaveBook
    /\ UNCHANGED <<signal, open, subscribed, events, socket>>

StopInStream == phase = "streaming" /\ signal /\ Stop

BackoffOver ==
    /\ phase = "backoff"
    /\ phase' = "top"
    /\ UNCHANGED <<signal, open, subscribed, events, socket, snapshot>>

StopInBackoff == phase = "backoff" /\ signal /\ Stop

Shutdown ==
    /\ ~signal
    /\ phase # "stopped"
    /\ signal' = TRUE
    /\ UNCHANGED <<phase, open, subscribed, events, socket, snapshot>>

Stopped == phase = "stopped" /\ UNCHANGED vars

Next ==
    \/ StartConnecting \/ ConnectFails \/ Connect
    \/ EngineEvent \/ SaverTick \/ Disconnect \/ BackoffOver
    \/ StopAtTop \/ StopInStream \/ StopInBackoff
    \/ Shutdown \/ Stopped

\* The task runs on, a timer fires, and a select on a pending signal takes it
\* in the end.  Nothing is assumed of the peer: it need not answer a connection
\* attempt (the code sets no timeout on it), send anything or close a stream.
Fairness ==
    /\ WF_vars(StartConnecting)
    /\ WF_vars(BackoffOver)
    /\ WF_vars(StopAtTop)
    /\ WF_vars(StopInStream)

Spec == Init /\ [][Next]_vars /\ Fairness
-----------------------------------------------------------------------------
(* Correctness                                                             *)

TypeOK ==
    /\ phase \in Phases
    /\ signal \in BOOLEAN
    /\ open \subseteq Mints /\ Cardinality(open) <= MaxOpen
    /\ subscribed \subseteq Mints
    /\ server \subseteq Mints
    /\ events \in 0 .. MaxEvents
    /\ saved \in 0 .. events
    /\ saveFailed \in BOOLEAN
    /\ lostSend \in BOOLEAN
    /\ lastSent \in BOOLEAN

\* plan_trade_subs, over any series of events and reconnects: the slots are
\* never exceeded, no closed position keeps one, and an open position goes
\* without one only when all are taken (wsfeed.rs:408-421).
SlotsWellUsed ==
    /\ Cardinality(subscribed) <= MaxSubs
    /\ events > 0 => /\ subscribed \subseteq open
                     /\ \/ open \subseteq subscribed
                        \/ Cardinality(subscribed) = MaxSubs

\* As long as every control send of a connection got through, the peer
\* streams exactly what the loop believes it has subscribed to, across
\* reconnects (liveloop.rs:148-149, 171-185, 378-393).
ServerAgrees == phase = "streaming" /\ ~lostSend => server = subscribed

\* Whenever the loop is not streaming, the snapshot file holds the latest
\* book, unless the save was paged as failed (liveloop.rs:197-207).
BookSavedInGaps == phase # "streaming" => saved = events \/ saveFailed

\* A termination signal (liveloop.rs:132-145, looked at in three places) stops
\* the loop whatever the feed does, unless a connection attempt hangs for ever:
\* the signal is not looked at while one is under way.
StopsOnSignal ==
    []<>(phase # "connecting") => (signal ~> phase = "stopped")

-----------------------------------------------------------------------------
(* Statement of a comment that a run refutes                               *)

\* liveloop.rs:382-383: after a failed send "keep subscribed unchanged: retry
\* covers it", "reconciled next event": once an event's sends have all gone
\* through, the peer streams what is subscribed.
ReconciledNextEvent == phase = "streaming" /\ lastSent => server = subscribed
=============================================================================
