--------------------------- MODULE LiveLoopProofs ---------------------------
(***************************************************************************)
(* Proofs about LiveLoop, for any tokens, slots and positions.             *)
(***************************************************************************)
EXTENDS LiveLoop, FiniteSetTheorems, TLAPS

\* Every step keeps the types.
LEMMA TypeStep == TypeOK /\ [Next]_vars => TypeOK'
<1> SUFFICES ASSUME TypeOK, [Next]_vars PROVE TypeOK'
  OBVIOUS
<1> USE DEF TypeOK
<1>0. events \in Nat /\ saved \in Nat /\ saved <= events /\ MaxEvents \in Nat
  BY LiveLoopAssumption
<1>1. ASSUME SaveBook, events' = events
      PROVE  saved' \in 0 .. events' /\ saveFailed' \in BOOLEAN
  <2>1. CASE saved' = events /\ saveFailed' = FALSE
    <3>1. events \in 0 .. events
      BY <1>0
    <3> QED BY <1>1, <2>1, <3>1
  <2>2. CASE saved' = saved /\ saveFailed' = TRUE
    BY <1>0, <1>1, <2>2
  <2> QED BY <1>1, <2>1, <2>2 DEF SaveBook
<1>2. CASE StartConnecting \/ ConnectFails \/ BackoffOver
  BY <1>2 DEF StartConnecting, ConnectFails, BackoffOver,
              socket, snapshot, Phases
<1>3. CASE Connect
  BY <1>3 DEF Connect, snapshot, Phases
<1>4. CASE EngineEvent
  <2>1. /\ open' \subseteq Mints /\ Cardinality(open') <= MaxOpen
    <3>1. PICK opened \in SUBSET Mints, shut \in SUBSET Mints :
              /\ Cardinality(open \cup opened) <= MaxOpen
              /\ open' = (open \cup opened) \ shut
      BY <1>4 DEF EngineEvent
    <3>2. IsFiniteSet(open \cup opened)
      BY LiveLoopAssumption, FS_Subset
    <3>3. open' \in SUBSET (open \cup opened)
      BY <3>1
    <3>4. /\ Cardinality(open') <= Cardinality(open \cup opened)
          /\ IsFiniteSet(open')
      BY <3>2, <3>3, FS_Subset
    <3>5. Cardinality(open') \in Nat /\ Cardinality(open \cup opened) \in Nat
      BY <3>2, <3>4, FS_CardinalityType
    <3> QED BY <3>1, <3>3, <3>4, <3>5, LiveLoopAssumption
  <2>2. PICK toSub \in ToSub : AfterEvent(toSub)
    BY <1>4 DEF EngineEvent
  <2>3. toSub \subseteq Mints /\ ToUnsub \subseteq Mints
    BY <2>1 DEF ToSub, ToUnsub
  <2>4. subscribed' \subseteq Mints /\ server' \subseteq Mints
    BY <2>2, <2>3 DEF AfterEvent, Delivered
  <2>5. lastSent' \in BOOLEAN
    BY <2>2 DEF AfterEvent, Delivered
  <2>6. lostSend' \in BOOLEAN
    BY <2>2 DEF AfterEvent
  <2>7. events' \in 0 .. MaxEvents /\ saved' \in 0 .. events'
    BY <1>0, <1>4 DEF EngineEvent, snapshot
  <2> QED BY <1>4, <2>1, <2>4, <2>5, <2>6, <2>7 DEF EngineEvent, snapshot
<1>5. CASE SaverTick
  BY <1>1, <1>5 DEF SaverTick, socket
<1>6. CASE Disconnect
  BY <1>1, <1>6 DEF Disconnect, socket, Phases
<1>7. CASE StopAtTop \/ StopInStream \/ StopInBackoff
  BY <1>1, <1>7 DEF StopAtTop, StopInStream, StopInBackoff, Stop, socket, Phases
<1>8. CASE Shutdown
  BY <1>8 DEF Shutdown, socket, snapshot
<1>9. CASE UNCHANGED vars
  BY <1>9 DEF vars
<1> QED BY <1>2, <1>3, <1>4, <1>5, <1>6, <1>7, <1>8, <1>9 DEF Next, Stopped

\* The loop starts with the right types.
LEMMA InitType == Init => TypeOK
<1> SUFFICES ASSUME Init PROVE TypeOK
  OBVIOUS
<1>1. open \subseteq Mints /\ Cardinality(open) <= MaxOpen
  BY DEF Init
<1>2. events \in 0 .. MaxEvents /\ saved \in 0 .. events
  BY LiveLoopAssumption DEF Init
<1>3. phase \in Phases
  BY DEF Init, Phases
<1> QED BY <1>1, <1>2, <1>3 DEF Init, TypeOK

\* Every variable keeps its type and no snapshot is newer than the book.
THEOREM TypeCorrect == Spec => []TypeOK
BY InitType, TypeStep, PTL DEF Spec

-----------------------------------------------------------------------------
(* Checkpoints                                                             *)

\* Out of the stream the snapshot file holds the latest book, or the failure
\* to write it was paged: every way out of the stream saves first
\* (liveloop.rs:197-207), and no way back changes the book.
THEOREM SavedInGaps == Spec => []BookSavedInGaps
<1>1. Init => BookSavedInGaps
  BY DEF Init, BookSavedInGaps
<1>2. BookSavedInGaps /\ [Next]_vars => BookSavedInGaps'
  <2> SUFFICES ASSUME BookSavedInGaps, [Next]_vars PROVE BookSavedInGaps'
    OBVIOUS
  <2>1. ASSUME SaveBook, events' = events
        PROVE  BookSavedInGaps'
    BY <2>1 DEF SaveBook, BookSavedInGaps
  <2>2. CASE SaverTick \/ Disconnect \/ StopAtTop \/ StopInStream \/ StopInBackoff
    BY <2>1, <2>2 DEF SaverTick, Disconnect, StopAtTop, StopInStream,
                      StopInBackoff, Stop
  <2>3. CASE EngineEvent
    BY <2>3 DEF EngineEvent, BookSavedInGaps
  <2>4. CASE StartConnecting \/ ConnectFails \/ Connect \/ BackoffOver
    BY <2>4 DEF StartConnecting, ConnectFails, Connect, BackoffOver, snapshot,
                BookSavedInGaps
  <2>5. CASE Shutdown \/ UNCHANGED vars
    BY <2>5 DEF Shutdown, vars, snapshot, BookSavedInGaps
  <2> QED BY <2>2, <2>3, <2>4, <2>5 DEF Next, Stopped
<1> QED BY <1>1, <1>2, PTL DEF Spec

-----------------------------------------------------------------------------
(* Subscriptions                                                           *)

\* While every send of the connection has got through, the peer streams what
\* the loop has on its books, over any series of events and reconnects.
THEOREM ServerAlwaysAgrees == Spec => []ServerAgrees
<1>1. Init => ServerAgrees
  BY DEF Init, ServerAgrees
<1>2. TypeOK /\ ServerAgrees /\ [Next]_vars => ServerAgrees'
  <2> SUFFICES ASSUME TypeOK, ServerAgrees, [Next]_vars PROVE ServerAgrees'
    OBVIOUS
  <2>1. CASE EngineEvent
    <3>1. PICK toSub \in ToSub : AfterEvent(toSub)
      BY <2>1 DEF EngineEvent
    <3>2. phase = "streaming"
      BY <2>1 DEF EngineEvent
    <3>3. ASSUME ~lostSend'
          PROVE  server' = subscribed'
      <4>1. ~lostSend /\ lastSent'
        BY <3>1, <3>3 DEF AfterEvent, TypeOK
      <4>2. server' = (server \ ToUnsub) \cup toSub
        BY <3>1, <4>1 DEF AfterEvent, Delivered
      <4> QED BY <3>1, <3>2, <4>1, <4>2 DEF AfterEvent, ServerAgrees
    <3> QED BY <3>3 DEF ServerAgrees
  <2>2. CASE Connect
    BY <2>2 DEF Connect, ServerAgrees
  <2>3. CASE SaverTick \/ Shutdown \/ UNCHANGED vars
    BY <2>3 DEF SaverTick, Shutdown, socket, vars, ServerAgrees
  <2>4. CASE StartConnecting \/ ConnectFails \/ Disconnect \/ BackoffOver
               \/ StopAtTop \/ StopInStream \/ StopInBackoff
    BY <2>4 DEF StartConnecting, ConnectFails, Disconnect, BackoffOver,
                StopAtTop, StopInStream, StopInBackoff, Stop, ServerAgrees
  <2> QED BY <2>1, <2>2, <2>3, <2>4 DEF Next, Stopped
<1> QED BY <1>1, <1>2, TypeCorrect, PTL DEF Spec

\* One plan of plan_trade_subs (wsfeed.rs:422-445) from any subscriptions that
\* keep to the cap.
LEMMA PlanUsesSlots ==
    ASSUME NEW sub \in SUBSET Mints, NEW opn \in SUBSET Mints,
           Cardinality(sub) <= MaxSubs,
           NEW new \in SUBSET (opn \ sub),
           LET used == Cardinality(sub \ (sub \ opn))
               room == IF used >= MaxSubs THEN 0 ELSE MaxSubs - used
           IN Cardinality(new) = Least(Cardinality(opn \ sub), room)
    PROVE  LET next == (sub \ (sub \ opn)) \cup new
           IN /\ next \subseteq opn
              /\ Cardinality(next) <= MaxSubs
              /\ opn \subseteq next \/ Cardinality(next) = MaxSubs
<1> DEFINE keep == sub \ (sub \ opn)
           next == keep \cup new
           wanted == opn \ sub
<1>1. /\ IsFiniteSet(sub) /\ IsFiniteSet(keep) /\ IsFiniteSet(new)
      /\ IsFiniteSet(wanted) /\ MaxSubs \in Nat
  BY LiveLoopAssumption, FS_Subset
<1>2. /\ Cardinality(sub) \in Nat /\ Cardinality(keep) \in Nat
      /\ Cardinality(new) \in Nat /\ Cardinality(wanted) \in Nat
  BY <1>1, FS_CardinalityType
<1>3. Cardinality(keep) <= Cardinality(sub)
  BY <1>1, FS_Subset
<1>4. Cardinality(next) = Cardinality(keep) + Cardinality(new)
  <2>1. keep \cap new = {}
    OBVIOUS
  <2>2. Cardinality(keep \cap new) = 0
    BY <2>1, FS_EmptySet
  <2>3. Cardinality(next) = Cardinality(keep) + Cardinality(new)
                              - Cardinality(keep \cap new)
    BY <1>1, FS_Union
  <2> QED BY <1>2, <2>2, <2>3
<1>5. LET room == IF Cardinality(keep) >= MaxSubs THEN 0
                                        ELSE MaxSubs - Cardinality(keep)
      IN Cardinality(new) = Least(Cardinality(wanted), room)
  OBVIOUS
<1>6. Cardinality(next) <= MaxSubs
  BY <1>1, <1>2, <1>3, <1>4, <1>5 DEF Least
<1>7. opn \subseteq next \/ Cardinality(next) = MaxSubs
  <2>1. CASE Cardinality(new) = Cardinality(wanted)
    <3>1. new = wanted
      BY <1>1, <2>1, FS_Subset
    <3> QED BY <3>1
  <2>2. CASE Cardinality(new) # Cardinality(wanted)
    BY <1>1, <1>2, <1>3, <1>4, <1>5, <2>2 DEF Least
  <2> QED BY <2>1, <2>2
<1>8. next \subseteq opn
  OBVIOUS
<1> QED BY <1>6, <1>7, <1>8

\* The slots are never exceeded, and after any event none is wasted: none is
\* held for a closed position, none is idle while an open one has none.
THEOREM SlotsAlwaysWellUsed == Spec => []SlotsWellUsed
<1>1. Init => SlotsWellUsed
  BY FS_EmptySet, LiveLoopAssumption DEF Init, SlotsWellUsed
<1>2. TypeOK /\ SlotsWellUsed /\ [Next]_vars => SlotsWellUsed'
  <2> SUFFICES ASSUME TypeOK, SlotsWellUsed, [Next]_vars PROVE SlotsWellUsed'
    OBVIOUS
  <2>1. CASE EngineEvent
    <3>1. PICK toSub \in ToSub : AfterEvent(toSub)
      BY <2>1 DEF EngineEvent
    <3>2. subscribed \subseteq Mints /\ open' \subseteq Mints
      BY TypeStep DEF TypeOK
    <3>3. Cardinality(subscribed) <= MaxSubs
      BY DEF SlotsWellUsed
    <3>4. /\ toSub \in SUBSET (open' \ subscribed)
          /\ LET used == Cardinality(subscribed \ (subscribed \ open'))
                 room == IF used >= MaxSubs THEN 0 ELSE MaxSubs - used
             IN Cardinality(toSub) = Least(Cardinality(open' \ subscribed), room)
      BY DEF ToSub, ToUnsub
    <3>5. subscribed' = (subscribed \ (subscribed \ open')) \cup toSub
      BY <3>1 DEF AfterEvent, ToUnsub
    <3>6. /\ subscribed' \subseteq open'
          /\ Cardinality(subscribed') <= MaxSubs
          /\ open' \subseteq subscribed' \/ Cardinality(subscribed') = MaxSubs
      <4> DEFINE opn == open'
                 next == subscribed'
      <4>1. /\ subscribed \in SUBSET Mints /\ opn \in SUBSET Mints
            /\ Cardinality(subscribed) <= MaxSubs
            /\ toSub \in SUBSET (opn \ subscribed)
            /\ LET used == Cardinality(subscribed \ (subscribed \ opn))
                   room == IF used >= MaxSubs THEN 0 ELSE MaxSubs - used
               IN Cardinality(toSub) = Least(Cardinality(opn \ subscribed), room)
            /\ next = (subscribed \ (subscribed \ opn)) \cup toSub
        BY <3>2, <3>3, <3>4, <3>5
      <4> HIDE DEF opn, next
      <4>2. /\ next \subseteq opn
            /\ Cardinality(next) <= MaxSubs
            /\ opn \subseteq next \/ Cardinality(next) = MaxSubs
        BY <4>1, PlanUsesSlots
      <4> QED BY <4>2 DEF opn, next
    <3> QED BY <3>6 DEF SlotsWellUsed
  <2>2. CASE UNCHANGED <<subscribed, open, events>>
    BY <2>2 DEF SlotsWellUsed
  <2> QED BY <2>1, <2>2
          DEF Next, Stopped, StartConnecting, ConnectFails, Connect, SaverTick,
              Disconnect, BackoffOver, StopAtTop, StopInStream, StopInBackoff,
              Stop, Shutdown, vars
<1> QED BY <1>1, <1>2, TypeCorrect, PTL DEF Spec
=============================================================================
