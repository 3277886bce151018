---------------------------- MODULE FeedsProofs -----------------------------
(***************************************************************************)
(* Proofs about the feeds.  SlotFeed, for any slots, times, tokens and size*)
(* of the clock: a stamp is exact or none.  Archive, for any messages and  *)
(* faults: a fault costs two verbatim lines at most.  MCFeeds: the two side*)
(* by side keep their types.                                               *)
(***************************************************************************)
EXTENDS MCFeeds, FiniteSetTheorems, WellFoundedInduction, TLAPS

\* A set of naturals that is not empty has a least element.
LEMMA LeastNat ==
    ASSUME NEW T \in SUBSET Nat, T # {}
    PROVE  \E x \in T : \A y \in T : x <= y
<1> DEFINE R == {ss \in Nat \X Nat : ss[1] < ss[2]}
<1>1. IsWellFoundedOn(R, Nat)
  BY Zenon, NatLessThanWellFounded DEF OpToRel
<1>2. PICK x \in T : \A y \in T : ~(<<y, x>> \in R)
  <2> HIDE DEF R
  <2> QED BY <1>1, WFMin
<1>3. ASSUME NEW y \in T PROVE x <= y
  <2>1. x \in Nat /\ y \in Nat /\ <<y, x>> \in Nat \X Nat
    OBVIOUS
  <2>2. ~(y < x)
    BY <1>2, <2>1
  <2> QED BY <2>1, <2>2
<1> QED BY <1>3

-----------------------------------------------------------------------------
(* The sort of a transaction                                               *)

LEMMA TakenFinite ==
    ASSUME NEW n \in Nat, NEW ixs \in [1 .. n -> Wire]
    PROVE  Taken(ixs) \subseteq 1 .. n /\ IsFiniteSet(Taken(ixs))
<1>1. Taken(ixs) \in SUBSET (1 .. n)
  BY DEF Taken
<1>2. IsFiniteSet(1 .. n)
  BY FS_Interval
<1> QED BY <1>1, <1>2, FS_Subset

\* The places of two taken instructions differ.
LEMMA PlacesDiffer ==
    ASSUME NEW n \in Nat, NEW ixs \in [1 .. n -> Wire],
           NEW i \in Taken(ixs), NEW j \in Taken(ixs), i # j
    PROVE  Cardinality(UpTo(ixs, i)) # Cardinality(UpTo(ixs, j))
<1> DEFINE Upto(x) == UpTo(ixs, x)
<1>1. Taken(ixs) \subseteq 1 .. n /\ IsFiniteSet(Taken(ixs))
  BY TakenFinite
<1>2. \A x \in Taken(ixs) : ixs[x].mint \in Int /\ x \in Int
  BY <1>1, SlotFeedAssumption DEF Wire, Tokens
<1>3. \A x \in Taken(ixs) : x \in Upto(x) /\ Upto(x) \subseteq Taken(ixs)
  BY <1>2 DEF UpTo
<1>4. ASSUME NEW x \in Taken(ixs), NEW y \in Taken(ixs), x # y,
             \/ ixs[x].mint < ixs[y].mint
             \/ ixs[x].mint = ixs[y].mint /\ x <= y
      PROVE  Cardinality(Upto(x)) # Cardinality(Upto(y))
  <2>1. Upto(x) \subseteq Upto(y)
    BY <1>2, <1>4 DEF UpTo
  <2>2. y \notin Upto(x)
    BY <1>2, <1>4 DEF UpTo
  <2>3. IsFiniteSet(Upto(y))
    BY <1>1, <1>3, FS_Subset
  <2> QED BY <1>3, <2>1, <2>2, <2>3, FS_Subset
<1>5. \/ ixs[i].mint < ixs[j].mint
      \/ ixs[j].mint < ixs[i].mint
      \/ ixs[i].mint = ixs[j].mint /\ i <= j
      \/ ixs[i].mint = ixs[j].mint /\ j <= i
  BY <1>2
<1> QED BY <1>4, <1>5

\* Every place is taken, so that the sort neither loses nor invents an event.
LEMMA HandleSorts ==
    ASSUME NEW n \in Nat, NEW ixs \in [1 .. n -> Wire]
    PROVE  /\ Handle(ixs) \in Seq(Wire)
           /\ \A k \in DOMAIN Handle(ixs) : Handle(ixs)[k].decoded
<1> DEFINE N == Cardinality(Taken(ixs))
           rank == [i \in Taken(ixs) |-> Cardinality(UpTo(ixs, i))]
<1>1. /\ Taken(ixs) \subseteq 1 .. n
      /\ IsFiniteSet(Taken(ixs)) /\ N \in Nat
  BY TakenFinite, FS_CardinalityType
<1>2. ASSUME NEW i \in Taken(ixs) PROVE rank[i] \in 1 .. N
  <2>1. i \in UpTo(ixs, i) /\ UpTo(ixs, i) \subseteq Taken(ixs)
    BY <1>1, SlotFeedAssumption DEF UpTo, Wire, Tokens
  <2>2. IsFiniteSet(UpTo(ixs, i)) /\ rank[i] <= N
    BY <1>1, <2>1, FS_Subset
  <2>3. rank[i] \in Nat /\ rank[i] # 0
    BY <2>1, <2>2, FS_CardinalityType, FS_EmptySet
  <2> QED BY <1>1, <2>2, <2>3
<1>3. rank \in Injection(Taken(ixs), 1 .. N)
  <2>1. rank \in [Taken(ixs) -> 1 .. N]
    BY <1>2
  <2>2. ASSUME NEW i \in Taken(ixs), NEW j \in Taken(ixs), i # j
        PROVE  rank[i] # rank[j]
    BY <2>2, PlacesDiffer
  <2>3. IsInjective(rank)
    BY <2>1, <2>2 DEF IsInjective
  <2> QED BY <2>1, <2>3 DEF Injection
<1>4. IsFiniteSet(1 .. N) /\ Cardinality(1 .. N) = N
  BY <1>1, FS_Interval
<1>5. rank \in Surjection(Taken(ixs), 1 .. N)
  BY <1>3, <1>4, FS_Injection
<1>6. \A k \in 1 .. N : \E i \in Taken(ixs) : Cardinality(UpTo(ixs, i)) = k
  BY <1>5 DEF Surjection
<1>7. \A k \in 1 .. N :
          (CHOOSE i \in Taken(ixs) : Cardinality(UpTo(ixs, i)) = k) \in Taken(ixs)
  BY <1>6
<1>8. \A k \in 1 .. N : Handle(ixs)[k] \in Wire /\ Handle(ixs)[k].decoded
  BY <1>1, <1>7 DEF Handle, Taken
<1>9. Handle(ixs) \in [1 .. N -> Wire]
  BY <1>8 DEF Handle
<1> QED BY <1>1, <1>8, <1>9

-----------------------------------------------------------------------------
(* The clock                                                               *)

ClockOK(c) ==
    /\ c \subseteq Entry
    /\ OneTimePerSlot(c)
    /\ IsFiniteSet(c)

\* A clock one beyond its cap loses the entry of its lowest slot, and no other.
LEMMA EvictsLowest ==
    ASSUME NEW c, ClockOK(c), Cardinality(c) = ClockCap + 1
    PROVE  \E low \in c : /\ Evict(c) = c \ {low}
                          /\ Cardinality(Evict(c)) = ClockCap
                          /\ \A e \in Evict(c) : low.slot < e.slot
<1>1. ClockCap \in Nat /\ ClockCap > 0 /\ Slots \subseteq Nat
  BY SlotFeedAssumption
<1>2. \A e \in c : e.slot \in Nat
  BY <1>1 DEF ClockOK, Entry
<1>3. c # {}
  BY <1>1, FS_EmptySet
<1>4. PICK x \in {e.slot : e \in c} : \A y \in {e.slot : e \in c} : x <= y
  <2>1. {e.slot : e \in c} \in SUBSET Nat /\ {e.slot : e \in c} # {}
    BY <1>2, <1>3
  <2> QED BY <2>1, LeastNat
<1>5. PICK low \in c : low.slot = x
  BY <1>4
<1>10. \A e \in c : low.slot <= e.slot
  BY <1>4, <1>5
<1>6. \A e \in c : e # low => low.slot < e.slot
  BY <1>2, <1>10 DEF ClockOK, OneTimePerSlot
<1>7. Evict(c) = {e \in c : \E other \in c : other.slot < e.slot}
  BY <1>1 DEF Evict
<1>8. Evict(c) = c \ {low}
  <2>1. ~\E other \in c : other.slot < low.slot
    BY <1>2, <1>10
  <2> QED BY <1>6, <1>7, <2>1
<1>9. Cardinality(c \ {low}) = ClockCap
  BY <1>1, FS_RemoveElement DEF ClockOK
<1> QED BY <1>6, <1>8, <1>9

Bound == ClockOK(clock) /\ Cardinality(clock) <= ClockCap

\* The clock with its new entry, before the eviction.
With(s, t) == {e \in clock : e.slot # s} \cup {[slot |-> s, at |-> t]}

LEMMA WithOK ==
    ASSUME Bound, NEW s \in Slots, NEW t \in BlockTimes
    PROVE  /\ ClockOK(With(s, t))
           /\ Cardinality(With(s, t)) <= Cardinality(clock) + 1
           /\ (\A e \in clock : e.slot # s)
                 => Cardinality(With(s, t)) = Cardinality(clock) + 1
           /\ (\E e \in clock : e.slot = s)
                 => Cardinality(With(s, t)) = Cardinality(clock)
<1> DEFINE rest == {e \in clock : e.slot # s}
           new == [slot |-> s, at |-> t]
<1>1. new \in Entry /\ new \notin rest /\ new.slot = s
  BY DEF Entry
<1>2. /\ IsFiniteSet(clock) /\ IsFiniteSet(rest)
      /\ Cardinality(rest) \in Nat /\ Cardinality(clock) \in Nat
      /\ Cardinality(rest) <= Cardinality(clock)
  BY FS_Subset, FS_CardinalityType DEF Bound, ClockOK
<1>3. /\ IsFiniteSet(rest \cup {new})
      /\ Cardinality(rest \cup {new}) = Cardinality(rest) + 1
  BY <1>1, <1>2, FS_AddElement
<1>4. ClockOK(With(s, t))
  BY <1>1, <1>3 DEF With, Bound, ClockOK, OneTimePerSlot
<1>5. ASSUME \A e \in clock : e.slot # s
      PROVE  Cardinality(With(s, t)) = Cardinality(clock) + 1
  <2>1. rest = clock
    BY <1>5
  <2> QED BY <1>3, <2>1 DEF With
<1>6. ASSUME NEW e \in clock, e.slot = s
      PROVE  Cardinality(With(s, t)) = Cardinality(clock)
  <2>1. rest = clock \ {e}
    BY <1>6 DEF Bound, ClockOK, OneTimePerSlot
  <2>2. Cardinality(rest) = Cardinality(clock) - 1
    BY <1>2, <1>6, <2>1, FS_RemoveElement
  <2> QED BY <1>2, <1>3, <2>2 DEF With
<1> QED BY <1>2, <1>3, <1>4, <1>5, <1>6 DEF With

\* The clock stays within its cap.
LEMMA InsertBound ==
    ASSUME Bound, NEW s \in Slots, NEW t \in BlockTimes
    PROVE  /\ ClockOK(Insert(s, t))
           /\ Cardinality(Insert(s, t)) <= ClockCap
           /\ Insert(s, t) \subseteq With(s, t)
<1>1. Insert(s, t) = Evict(With(s, t))
  BY DEF Insert, With
<1>2. ClockCap \in Nat /\ Cardinality(clock) \in Nat
      /\ Cardinality(With(s, t)) \in Nat
  BY WithOK, SlotFeedAssumption, FS_CardinalityType DEF Bound, ClockOK
<1>3. CASE Cardinality(With(s, t)) <= ClockCap
  BY <1>1, <1>3, WithOK DEF Evict
<1>4. CASE Cardinality(With(s, t)) > ClockCap
  <2>1. Cardinality(With(s, t)) = ClockCap + 1
    BY <1>2, <1>4, WithOK DEF Bound
  <2>2. PICK low \in With(s, t) :
            /\ Evict(With(s, t)) = With(s, t) \ {low}
            /\ Cardinality(Evict(With(s, t))) = ClockCap
    BY <2>1, WithOK, EvictsLowest
  <2>3. ClockOK(With(s, t) \ {low})
    BY <2>2, WithOK, FS_RemoveElement DEF ClockOK, OneTimePerSlot
  <2> QED BY <1>1, <1>2, <2>2, <2>3
<1> QED BY <1>2, <1>3, <1>4

\* An entry of a slot that was ever announced is in the clock or evicted below
\* all of a full clock, also after the next announcement.
LEMMA InsertEvicts ==
    ASSUME Bound, EvictedIsBelow, NEW s \in Slots, NEW t \in BlockTimes,
           NEW r \in Slots, NEW at,
           IF r = s THEN at = t ELSE at = announced[r] /\ at # Unknown
    PROVE  \/ [slot |-> r, at |-> at] \in Insert(s, t)
           \/ /\ Cardinality(Insert(s, t)) = ClockCap
              /\ \A e \in Insert(s, t) : r < e.slot
<1> DEFINE E == [slot |-> r, at |-> at]
           new == [slot |-> s, at |-> t]
<1>1. Insert(s, t) = Evict(With(s, t))
  BY DEF Insert, With
<1>2. /\ ClockCap \in Nat /\ Cardinality(clock) \in Nat
      /\ Cardinality(With(s, t)) \in Nat
      /\ \A e \in clock \cup With(s, t) : e.slot \in Nat
      /\ r \in Nat /\ s \in Nat
  BY WithOK, SlotFeedAssumption, FS_CardinalityType DEF Bound, ClockOK, Entry
<1>3. CASE E \in With(s, t)
  <2>1. CASE Cardinality(With(s, t)) <= ClockCap
    BY <1>1, <1>3, <2>1 DEF Evict
  <2>2. CASE Cardinality(With(s, t)) > ClockCap
    <3>1. Cardinality(With(s, t)) = ClockCap + 1
      BY <1>2, <2>2, WithOK DEF Bound
    <3>2. PICK low \in With(s, t) :
              /\ Evict(With(s, t)) = With(s, t) \ {low}
              /\ Cardinality(Evict(With(s, t))) = ClockCap
              /\ \A e \in Evict(With(s, t)) : low.slot < e.slot
      BY <3>1, WithOK, EvictsLowest
    <3>3. CASE low = E
      BY <1>1, <3>2, <3>3
    <3>4. CASE low # E
      BY <1>1, <1>3, <3>2, <3>4
    <3> QED BY <3>3, <3>4
  <2> QED BY <1>2, <2>1, <2>2
<1>4. CASE E \notin With(s, t)
  <2>1. r # s
    BY <1>4 DEF With
  <2>2. Cardinality(clock) = ClockCap /\ \A e \in clock : r < e.slot
    BY <1>4, <2>1 DEF EvictedIsBelow, With
  <2>3. CASE \E e \in clock : e.slot = s
    <3>1. Cardinality(With(s, t)) = ClockCap
      BY <2>2, <2>3, WithOK
    <3>2. Insert(s, t) = With(s, t)
      BY <1>1, <1>2, <3>1 DEF Evict
    <3> QED BY <2>2, <2>3, <3>1, <3>2 DEF With
  <2>4. CASE \A e \in clock : e.slot # s
    <3>1. Cardinality(With(s, t)) = ClockCap + 1
      BY <2>2, <2>4, WithOK
    <3>2. PICK low \in With(s, t) :
              /\ Evict(With(s, t)) = With(s, t) \ {low}
              /\ Cardinality(Evict(With(s, t))) = ClockCap
              /\ \A e \in Evict(With(s, t)) : low.slot < e.slot
      BY <3>1, WithOK, EvictsLowest
    <3>3. With(s, t) = clock \cup {new}
      BY <2>4 DEF With
    <3>4. ASSUME NEW e \in Insert(s, t) PROVE r < e.slot
      <4>1. CASE e \in clock
        BY <2>2, <4>1
      <4>2. CASE e = new
        <5>1. low \in clock /\ r < low.slot /\ low.slot < e.slot
          BY <1>1, <2>2, <3>2, <3>3, <3>4, <4>2
        <5> QED BY <1>2, <4>2, <5>1
      <4> QED BY <1>1, <3>2, <3>3, <3>4, <4>1, <4>2
    <3> QED BY <1>1, <3>2, <3>4
  <2> QED BY <2>3, <2>4
<1> QED BY <1>3, <1>4

-----------------------------------------------------------------------------
(* Stamps                                                                  *)

Exact(e) ==
    /\ e.from <= e.slot
    /\ e.own # Unknown => e.at = e.own

\* The events of a transaction are stamped exactly or dropped.
LEMMA StampedExactly ==
    ASSUME Bound, EvictedIsBelow,
           announced \in [Slots -> BlockTimes \cup {Unknown}],
           NEW s \in Slots, NEW wired \in Seq(Wire)
    PROVE  /\ Stamped(s, wired) \in Seq(Event)
           /\ \A i \in DOMAIN Stamped(s, wired) : Exact(Stamped(s, wired)[i])
<1>1. CASE Floor(s) = {}
  BY <1>1 DEF Stamped
<1>2. CASE Floor(s) # {}
  <2> DEFINE entry == CHOOSE e \in Floor(s) : TRUE
  <2>1. entry \in Floor(s)
    BY <1>2
  <2>2. /\ entry \in Entry /\ entry \in clock /\ entry.slot <= s
        /\ entry.slot \in Nat /\ s \in Nat /\ Slots \subseteq Nat
        /\ \A o \in clock : o.slot <= s => o.slot <= entry.slot
    BY <2>1, SlotFeedAssumption DEF Floor, Bound, ClockOK, Entry
  <2>3. announced[s] # Unknown => entry.at = announced[s]
    <3> SUFFICES ASSUME announced[s] # Unknown PROVE entry.at = announced[s]
      OBVIOUS
    <3>1. [slot |-> s, at |-> announced[s]] \in clock
      BY <2>2 DEF EvictedIsBelow
    <3>2. entry.slot = s
      <4>1. s <= entry.slot
        BY <2>2, <3>1
      <4> QED BY <2>2, <4>1
    <3> QED BY <2>2, <3>1, <3>2 DEF Bound, ClockOK, OneTimePerSlot
  <2> HIDE DEF entry
  <2>4. /\ Len(wired) \in Nat /\ DOMAIN wired = 1 .. Len(wired)
        /\ \A i \in 1 .. Len(wired) : wired[i] \in Wire
    OBVIOUS
  <2>5. ASSUME NEW i \in 1 .. Len(wired)
        PROVE  /\ Stamp(s, wired[i], entry) \in Event
               /\ Exact(Stamp(s, wired[i], entry))
    <3>1. wired[i].mint \in Tokens
      BY <2>4 DEF Wire
    <3>2. announced[s] \in BlockTimes \cup {Unknown}
      OBVIOUS
    <3> QED BY <2>2, <2>3, <3>1, <3>2 DEF Stamp, Event, Exact, Entry
  <2>6. Stamped(s, wired) =
            [i \in 1 .. Len(wired) |-> Stamp(s, wired[i], entry)]
    BY <1>2, <2>4 DEF Stamped, entry
  <2>7. Stamped(s, wired) \in [1 .. Len(wired) -> Event]
    BY <2>5, <2>6
  <2> QED BY <2>4, <2>5, <2>6, <2>7
<1> QED BY <1>1, <1>2

-----------------------------------------------------------------------------
(* The invariant                                                           *)

SlotInv ==
    /\ SlotTypeOK
    /\ IsFiniteSet(clock)
    /\ EvictedIsBelow
    /\ StampExactOrDropped

LEMMA SlotInvInit == SlotInit => SlotInv
<1> SUFFICES ASSUME SlotInit PROVE SlotInv
  OBVIOUS
<1>1. IsFiniteSet({}) /\ Cardinality({}) = 0 /\ ClockCap \in Nat
  BY FS_EmptySet, SlotFeedAssumption
<1>2. buffer \in Seq(Event) /\ DOMAIN buffer = {}
  BY DEF SlotInit
<1>3. /\ announced \in [Slots -> BlockTimes \cup {Unknown}]
      /\ \A s \in Slots : announced[s] = Unknown
  BY DEF SlotInit
<1>4. clock \subseteq Entry /\ OneTimePerSlot(clock)
  BY DEF SlotInit, OneTimePerSlot
<1>5. streaming \in BOOLEAN
  BY DEF SlotInit
<1>9. backoff \in 1 .. 60
  BY DEF SlotInit
<1>6. clock = {}
  BY DEF SlotInit
<1>7. SlotTypeOK
  BY <1>1, <1>2, <1>3, <1>4, <1>5, <1>6, <1>9 DEF SlotTypeOK
<1>8. EvictedIsBelow /\ StampExactOrDropped
  BY <1>2, <1>3 DEF EvictedIsBelow, StampExactOrDropped
<1> QED BY <1>1, <1>6, <1>7, <1>8 DEF SlotInv

LEMMA SlotInvStep == SlotInv /\ [SlotNext]_slotVars => SlotInv'
<1> SUFFICES ASSUME SlotInv, [SlotNext]_slotVars PROVE SlotInv'
  OBVIOUS
<1>0. Bound
  BY DEF SlotInv, SlotTypeOK, Bound, ClockOK
<1>1. CASE Connected \/ WaitAgain
  <2>1. backoff' \in 1 .. 60 /\ streaming' \in BOOLEAN
    <3>1. backoff \in 1 .. 60
      BY DEF SlotInv, SlotTypeOK
    <3>2. CASE Connected
      BY <3>2 DEF Connected
    <3>3. CASE WaitAgain
      <4>1. streaming' \in BOOLEAN
        BY <3>3 DEF WaitAgain
      <4>2. backoff' \in 1 .. 60
        BY <3>1, <3>3 DEF WaitAgain
      <4> QED BY <4>1, <4>2
    <3> QED BY <1>1, <3>2, <3>3
  <2>2. UNCHANGED <<clock, buffer, announced>>
    BY <1>1 DEF Connected, WaitAgain
  <2> QED BY <2>1, <2>2 DEF SlotInv, SlotTypeOK, EvictedIsBelow,
                            StampExactOrDropped
<1>2. ASSUME NEW s \in Slots, NEW t \in BlockTimes, BlockMeta(s, t)
      PROVE  SlotInv'
  <2>1. /\ clock' = Insert(s, t)
        /\ announced' = [announced EXCEPT ![s] = t]
        /\ UNCHANGED <<streaming, backoff, buffer>>
    BY <1>2 DEF BlockMeta
  <2>2. ClockOK(clock') /\ Cardinality(clock') <= ClockCap
    BY <1>0, <2>1, InsertBound
  <2>3. announced' \in [Slots -> BlockTimes \cup {Unknown}]
    BY <2>1 DEF SlotInv, SlotTypeOK
  <2>4. EvictedIsBelow'
    <3> SUFFICES ASSUME NEW r \in Slots, announced'[r] # Unknown
                 PROVE  \/ [slot |-> r, at |-> announced'[r]] \in clock'
                        \/ /\ Cardinality(clock') = ClockCap
                           /\ \A e \in clock' : r < e.slot
      BY DEF EvictedIsBelow
    <3>1. IF r = s THEN announced'[r] = t
          ELSE announced'[r] = announced[r] /\ announced'[r] # Unknown
      BY <2>1 DEF SlotInv, SlotTypeOK
    <3> QED BY <1>0, <2>1, <3>1, InsertEvicts DEF SlotInv
  <2> QED BY <2>1, <2>2, <2>3, <2>4
          DEF SlotInv, SlotTypeOK, StampExactOrDropped, ClockOK
<1>3. ASSUME NEW s \in Slots, NEW n \in 1 .. MaxIxs,
             NEW ixs \in [1 .. n -> Wire], Transaction(s, ixs)
      PROVE  SlotInv'
  <2> DEFINE new == Stamped(s, Handle(ixs))
  <2>1. /\ buffer' = buffer \o new
        /\ UNCHANGED <<streaming, backoff, clock, announced>>
    BY <1>3 DEF Transaction
  <2>2. n \in Nat
    OBVIOUS
  <2>3. Handle(ixs) \in Seq(Wire)
    BY <2>2, HandleSorts
  <2>4. new \in Seq(Event) /\ \A i \in DOMAIN new : Exact(new[i])
    BY <1>0, <2>3, StampedExactly DEF SlotInv, SlotTypeOK
  <2>5. buffer \in Seq(Event) /\ \A i \in DOMAIN buffer : Exact(buffer[i])
    BY DEF SlotInv, SlotTypeOK, StampExactOrDropped, Exact
  <2> HIDE DEF new
  <2>6. buffer' \in Seq(Event) /\ \A i \in DOMAIN buffer' : Exact(buffer'[i])
    BY <2>1, <2>4, <2>5
  <2> QED BY <2>1, <2>6 DEF SlotInv, SlotTypeOK, EvictedIsBelow,
                            StampExactOrDropped, Exact
<1>4. CASE PopRaw
  <2>1. /\ buffer # <<>> /\ buffer' = Tail(buffer)
        /\ UNCHANGED <<streaming, backoff, clock, announced>>
    BY <1>4 DEF PopRaw
  <2>2. buffer \in Seq(Event) /\ \A i \in DOMAIN buffer : Exact(buffer[i])
    BY DEF SlotInv, SlotTypeOK, StampExactOrDropped, Exact
  <2>3. buffer' \in Seq(Event) /\ \A i \in DOMAIN buffer' : Exact(buffer'[i])
    BY <2>1, <2>2
  <2> QED BY <2>1, <2>3 DEF SlotInv, SlotTypeOK, EvictedIsBelow,
                            StampExactOrDropped, Exact
<1>5. CASE UNCHANGED slotVars
  BY <1>5 DEF slotVars, SlotInv, SlotTypeOK, EvictedIsBelow, StampExactOrDropped
<1> QED BY <1>1, <1>2, <1>3, <1>4, <1>5 DEF SlotNext

\* Every variable of the feed keeps its type, and the clock its cap.
THEOREM SlotTypeCorrect == SlotSpec => []SlotTypeOK
<1>1. SlotInv => SlotTypeOK
  BY DEF SlotInv
<1> QED BY <1>1, SlotInvInit, SlotInvStep, PTL DEF SlotSpec

\* An event whose slot was ever announced carries exactly the last time of that
\* slot or is dropped, and none that of a later slot (ingest.rs:199-201,
\* 258-266): for any order of metas and transactions and any size of the clock.
THEOREM StampsExactOrDropped == SlotSpec => []StampExactOrDropped
<1>1. SlotInv => StampExactOrDropped
  BY DEF SlotInv
<1> QED BY <1>1, SlotInvInit, SlotInvStep, PTL DEF SlotSpec
-----------------------------------------------------------------------------
(* The raw archive                                                         *)

\* The hand holds the last message, whose time came from the wall clock.
HandIsLast ==
    /\ hand.n = messages
    /\ messages > 0 => hand.at \in WallTimes
    /\ stage # "idle" => messages > 0

\* The messages whose append to the raw file is over.
Passed == (1 .. messages) \ (IF stage = "raw" THEN {hand.n} ELSE {})

\* Those that left nothing there, and the pieces that lack their newline.
Absent == Passed \ {raws[i].n : i \in DOMAIN raws}
Torn == {i \in DOMAIN raws : ~raws[i].ended}

\* Each of them is a fault of its own.
FaultsCover ==
    /\ \A i \in DOMAIN raws : raws[i].ended => raws[i].whole
    /\ Cardinality(Absent) + Cardinality(Torn) <= faults

ArchInv == ArchTypeOK /\ HandIsLast /\ FaultsCover

LEMMA AddOne ==
    ASSUME NEW S, IsFiniteSet(S), NEW x
    PROVE  /\ IsFiniteSet(S \cup {x})
           /\ Cardinality(S \cup {x}) \in Nat
           /\ Cardinality(S \cup {x}) <= Cardinality(S) + 1
<1>1. Cardinality(S) \in Nat
  BY FS_CardinalityType
<1>2. /\ IsFiniteSet(S \cup {x})
      /\ \/ Cardinality(S \cup {x}) = Cardinality(S)
         \/ Cardinality(S \cup {x}) = Cardinality(S) + 1
  BY FS_AddElement, Zenon
<1> QED BY <1>1, <1>2

LEMMA UnionBound ==
    ASSUME NEW S, IsFiniteSet(S), NEW T, IsFiniteSet(T)
    PROVE  /\ IsFiniteSet(S \cup T)
           /\ Cardinality(S \cup T) <= Cardinality(S) + Cardinality(T)
<1>1. IsFiniteSet(S \cup T) /\ IsFiniteSet(S \cap T)
  BY FS_Union, FS_Intersection
<1>2. /\ Cardinality(S) \in Nat /\ Cardinality(T) \in Nat
      /\ Cardinality(S \cap T) \in Nat
  BY <1>1, FS_CardinalityType
<1>3. Cardinality(S \cup T) =
          Cardinality(S) + Cardinality(T) - Cardinality(S \cap T)
  BY FS_Union
<1> QED BY <1>1, <1>2, <1>3

\* An append adds one piece of the message in hand, or nothing.
LEMMA PutAdds ==
    ASSUME ArchTypeOK, HandIsLast, messages > 0,
           NEW pieces \in Seq(Pieces), NEW isEvent \in BOOLEAN,
           NEW o \in Outcomes, NEW new \in Put(pieces, isEvent, o)
    PROVE  \/ o = "none" /\ new = pieces
           \/ /\ o # "none"
              /\ \E p \in Pieces :
                    /\ new = Append(pieces, p)
                    /\ p.n = hand.n /\ p.at = hand.at
                    /\ p.ended <=> o = "full"
                    /\ p.ended => p.whole
                    /\ p.tagged => isEvent
                    /\ o = "full" /\ isEvent => p.tagged
<1>0. PICK tagged \in IF isEvent /\ o = "scrap" THEN BOOLEAN ELSE {isEvent} :
          new = pieces \o Piece(tagged, o)
  BY DEF Put
<1>1. new = pieces \o Piece(tagged, o) /\ tagged \in BOOLEAN
  BY <1>0
<1>5. (tagged = TRUE => isEvent = TRUE)
      /\ (o = "full" /\ isEvent = TRUE => tagged = TRUE)
  BY <1>0
<1>2. CASE o = "none"
  BY <1>1, <1>2 DEF Piece
<1>3. CASE o # "none"
  <2> DEFINE p == [n |-> hand.n, at |-> hand.at, tagged |-> tagged,
                   whole |-> o # "scrap", ended |-> o = "full"]
  <2>1. p \in Pieces
    BY DEF Pieces, HandIsLast, ArchTypeOK, Hands
  <2>2. new = Append(pieces, p)
    <3>1. new = pieces \o <<p>>
      BY <1>1, <1>3 DEF Piece
    <3> HIDE DEF p
    <3> QED BY <2>1, <3>1
  <2>3. /\ p.n = hand.n /\ p.at = hand.at
        /\ p.ended <=> o = "full"
        /\ p.ended => p.whole
        /\ p.tagged => isEvent
        /\ o = "full" /\ isEvent => p.tagged
    BY <1>5
  <2> HIDE DEF p
  <2> QED BY <1>3, <2>1, <2>2, <2>3
<1> QED BY <1>2, <1>3

LEMMA PutType ==
    ASSUME ArchTypeOK, HandIsLast, messages > 0,
           NEW pieces \in Seq(Pieces), NEW isEvent \in BOOLEAN,
           NEW o \in Outcomes, NEW new \in Put(pieces, isEvent, o)
    PROVE  new \in Seq(Pieces)
BY PutAdds

\* What is absent or torn is finite.
LEMMA AbsentTornFinite ==
    ASSUME ArchTypeOK
    PROVE  /\ IsFiniteSet(Absent) /\ Cardinality(Absent) \in Nat
           /\ IsFiniteSet(Torn) /\ Cardinality(Torn) \in Nat
<1>1. Absent \in SUBSET (1 .. messages) /\ messages \in Int /\ 1 \in Int
  BY DEF Absent, Passed, ArchTypeOK
<1>2. Torn \in SUBSET (1 .. Len(raws)) /\ Len(raws) \in Int
  BY DEF Torn, ArchTypeOK
<1>3. IsFiniteSet(Absent)
  BY <1>1, FS_Interval, FS_Subset
<1>4. IsFiniteSet(Torn)
  BY <1>1, <1>2, FS_Interval, FS_Subset
<1> QED BY <1>3, <1>4, FS_CardinalityType

\* The append of a message ends: full, or at the cost of a fault.
LEMMA RawStep ==
    ASSUME ArchInv, ArchTypeOK', NEW o \in Outcomes,
           stage = "raw", stage' # "raw",
           raws' \in Put(raws, FALSE, o),
           messages' = messages,
           faults' >= faults + (IF o = "full" THEN 0 ELSE 1)
    PROVE  FaultsCover'
<1>0. /\ raws \in Seq(Pieces) /\ messages > 0 /\ messages \in Nat
      /\ faults \in Nat /\ faults' \in Nat /\ hand.n = messages
      /\ ArchTypeOK /\ HandIsLast
  BY ArchiveAssumption DEF ArchInv, ArchTypeOK, HandIsLast
<1>1. /\ IsFiniteSet(Absent) /\ Cardinality(Absent) \in Nat
      /\ IsFiniteSet(Torn) /\ Cardinality(Torn) \in Nat
      /\ Cardinality(Absent) + Cardinality(Torn) <= faults
  BY <1>0, AbsentTornFinite DEF ArchInv, FaultsCover
<1>2. /\ IsFiniteSet(Absent') /\ Cardinality(Absent') \in Nat
      /\ IsFiniteSet(Torn') /\ Cardinality(Torn') \in Nat
  <2>1. Absent' \in SUBSET (1 .. messages) /\ messages \in Int /\ 1 \in Int
    BY <1>0 DEF Absent, Passed
  <2>2. Torn' \in SUBSET (1 .. Len(raws')) /\ Len(raws') \in Int
    BY DEF Torn, ArchTypeOK
  <2>3. IsFiniteSet(Absent')
    BY <2>1, FS_Interval, FS_Subset
  <2>4. IsFiniteSet(Torn')
    BY <2>1, <2>2, FS_Interval, FS_Subset
  <2> QED BY <2>3, <2>4, FS_CardinalityType
<1>3. CASE o = "none"
  <2>1. raws' = raws /\ Torn' = Torn
    BY <1>0, <1>3, PutAdds DEF Torn
  <2>2. Absent' \in SUBSET (Absent \cup {hand.n})
    BY <1>0, <2>1 DEF Absent, Passed
  <2>3. Cardinality(Absent') <= Cardinality(Absent) + 1
    <3>1. /\ IsFiniteSet(Absent \cup {hand.n})
          /\ Cardinality(Absent \cup {hand.n}) \in Nat
          /\ Cardinality(Absent \cup {hand.n}) <= Cardinality(Absent) + 1
      BY <1>1, AddOne
    <3>2. Cardinality(Absent') <= Cardinality(Absent \cup {hand.n})
      BY <2>2, <3>1, FS_Subset
    <3> QED BY <1>1, <1>2, <3>1, <3>2
  <2>4. Cardinality(Absent') + Cardinality(Torn') <= faults'
    BY <1>0, <1>1, <1>2, <1>3, <2>1, <2>3
  <2> QED BY <2>1, <2>4 DEF FaultsCover, ArchInv
<1>4. CASE o # "none"
  <2>1. PICK p \in Pieces : /\ raws' = Append(raws, p)
                            /\ p.n = hand.n
                            /\ p.ended <=> o = "full"
                            /\ p.ended => p.whole
    BY <1>0, <1>4, PutAdds
  <2>2. /\ Len(raws) \in Nat
        /\ DOMAIN raws = 1 .. Len(raws)
        /\ DOMAIN raws' = 1 .. Len(raws) + 1
        /\ \A i \in 1 .. Len(raws) : raws'[i] = raws[i]
        /\ raws'[Len(raws) + 1] = p
    BY <1>0, <2>1
  <2>3. Absent' \in SUBSET Absent
    <3> SUFFICES ASSUME NEW m \in Absent' PROVE m \in Absent
      OBVIOUS
    <3>1. m \in 1 .. messages /\ \A i \in DOMAIN raws' : raws'[i].n # m
      BY DEF Absent, Passed
    <3>2. m # hand.n /\ \A i \in DOMAIN raws : raws[i].n # m
      BY <2>1, <2>2, <3>1
    <3> QED BY <3>1, <3>2 DEF Absent, Passed
  <2>4. Cardinality(Absent') <= Cardinality(Absent)
    BY <1>1, <2>3, FS_Subset
  <2>5. Torn' = IF o = "full" THEN Torn ELSE Torn \cup {Len(raws) + 1}
    BY <2>1, <2>2 DEF Torn
  <2>6. Cardinality(Torn') <= Cardinality(Torn) + (IF o = "full" THEN 0 ELSE 1)
    <3>1. CASE o = "full"
      BY <1>1, <2>5, <3>1
    <3>2. CASE o # "full"
      <4> DEFINE at == Len(raws) + 1
      <4>1. Torn' = Torn \cup {at}
        BY <2>5, <3>2
      <4> HIDE DEF at
      <4>2. Cardinality(Torn \cup {at}) <= Cardinality(Torn) + 1
        BY <1>1, AddOne
      <4> QED BY <3>2, <4>1, <4>2
    <3> QED BY <3>1, <3>2
  <2>7. Cardinality(Absent') + Cardinality(Torn') <= faults'
    BY <1>0, <1>1, <1>2, <2>4, <2>6
  <2>8. \A i \in DOMAIN raws' : raws'[i].ended => raws'[i].whole
    BY <2>1, <2>2 DEF ArchInv, FaultsCover
  <2> QED BY <2>7, <2>8 DEF FaultsCover
<1> QED BY <1>3, <1>4

\* The raw file and what has passed stay.
LEMMA RawKept ==
    ASSUME ArchInv, raws' = raws, Passed' = Passed, faults' >= faults,
           ArchTypeOK'
    PROVE  FaultsCover'
<1>1. Absent' = Absent /\ Torn' = Torn
  BY DEF Absent, Torn
<1>2. /\ faults \in Nat /\ faults' \in Nat
      /\ Cardinality(Absent) \in Nat /\ Cardinality(Torn) \in Nat
      /\ Cardinality(Absent) + Cardinality(Torn) <= faults
  BY AbsentTornFinite, ArchiveAssumption DEF ArchInv, FaultsCover, ArchTypeOK
<1> QED BY <1>1, <1>2 DEF ArchInv, FaultsCover

LEMMA ArchInvInit == ArchInit => ArchInv
<1> SUFFICES ASSUME ArchInit PROVE ArchInv
  OBVIOUS
<1>1. ArchTypeOK
  <2>1. hand \in Hands /\ (hand.event => hand.typed)
    BY DEF ArchInit, Hands, Nothing
  <2>2. stage \in Stages /\ recorder \in BOOLEAN /\ setBack \in BOOLEAN
    BY DEF ArchInit, Stages
  <2>3. raws \in Seq(Pieces) /\ events \in Seq(Pieces) /\ fed \in Seq(Hands)
    BY DEF ArchInit
  <2>4. messages \in Nat /\ faults \in 0 .. MaxFaults
    BY ArchiveAssumption DEF ArchInit
  <2>5. crashes \subseteq 1 .. messages /\ unwritten \subseteq 1 .. messages
    BY DEF ArchInit
  <2> QED BY <2>1, <2>2, <2>3, <2>4, <2>5 DEF ArchTypeOK
<1>3. HandIsLast
  BY DEF ArchInit, HandIsLast, Nothing
<1>2. Absent = {} /\ Torn = {}
  BY DEF ArchInit, Absent, Passed, Torn
<1>4. FaultsCover
  BY <1>2, FS_EmptySet DEF FaultsCover, ArchInit
<1> QED BY <1>1, <1>3, <1>4 DEF ArchInv

LEMMA DecodableType ==
    \A d \in Decodable : /\ d.typed \in BOOLEAN /\ d.event \in BOOLEAN
                         /\ d.event => d.typed
<1> SUFFICES ASSUME NEW d \in Decodable
             PROVE  /\ d.typed \in BOOLEAN /\ d.event \in BOOLEAN
                    /\ d.event => d.typed
  OBVIOUS
<1>0. PICK line \in Lines, rate \in BOOLEAN : d = Decode(line, rate)
  <2> DEFINE Rates == IF recorder THEN BOOLEAN ELSE {TRUE}
  <2>1. Decodable = {Decode(line, rate) : line \in Lines, rate \in Rates}
    BY DEF Decodable
  <2>2. \A rate \in Rates : rate \in BOOLEAN
    OBVIOUS
  <2> HIDE DEF Rates
  <2>3. PICK line \in Lines, rate \in Rates : d = Decode(line, rate)
    BY <2>1
  <2> QED BY <2>2, <2>3, Zenon
<1>1. Extracted(line) \in BOOLEAN /\ Enriched(line, rate) \in BOOLEAN
  BY DEF Extracted, ExtractedTrade, ExtractedCreate, Enriched, EnrichedTrade,
         EnrichedCreate
<1>2. Enriched(line, rate) => Extracted(line)
  BY DEF Extracted, Enriched, EnrichedTrade, EnrichedCreate
<1> QED BY <1>0, <1>1, <1>2 DEF Decode

LEMMA ReceiveStep ==
    ASSUME ArchInv, NEW t \in WallTimes, Receive(t) PROVE ArchInv'
<1>0. /\ ArchTypeOK /\ HandIsLast /\ messages \in Nat /\ messages' = messages + 1
      /\ hand \in Hands /\ t \in Nat
  BY DEF ArchInv, ArchTypeOK, Receive, WallTimes
<1>1. PICK d \in Decodable :
          hand' = [n |-> messages', at |-> t, typed |-> d.typed, event |-> d.event]
  BY DEF Receive
<1>2. hand' \in Hands /\ (hand'.event => hand'.typed)
  BY <1>0, <1>1, DecodableType DEF Hands
<1>3. UNCHANGED <<recorder, raws, events, fed, faults, crashes, unwritten>>
      /\ stage' = "raw" /\ stage = "idle"
  BY DEF Receive
<1>4. setBack' \in BOOLEAN
  BY <1>0 DEF Receive, ArchTypeOK
<1>5. ArchTypeOK'
  BY <1>0, <1>2, <1>3, <1>4 DEF ArchTypeOK, Stages
<1>6. HandIsLast'
  BY <1>0, <1>1, <1>3 DEF HandIsLast
<1>7. Passed' = Passed
  BY <1>0, <1>1, <1>3 DEF Passed
<1>8. FaultsCover'
  <2>1. faults \in Nat /\ faults' >= faults
    BY <1>0, <1>3, ArchiveAssumption DEF ArchTypeOK
  <2> QED BY <1>3, <1>5, <1>7, <2>1, RawKept
<1> QED BY <1>5, <1>6, <1>8 DEF ArchInv

\* What an append to the raw file leaves of the invariant, whether the process
\* goes on or dies.
LEMMA RawAppended ==
    ASSUME ArchInv, NEW o \in Outcomes, stage = "raw",
           stage' \in Stages \ {"raw"},
           raws' \in Put(raws, FALSE, o),
           faults' \in 0 .. MaxFaults,
           faults' >= faults + (IF o = "full" THEN 0 ELSE 1),
           crashes' \subseteq 1 .. messages,
           UNCHANGED <<recorder, hand, events, fed, messages, unwritten, setBack>>
    PROVE  ArchInv'
<1>1. ArchTypeOK /\ HandIsLast /\ messages > 0 /\ raws \in Seq(Pieces)
  BY DEF ArchInv, ArchTypeOK, HandIsLast
<1>2. raws' \in Seq(Pieces)
  BY <1>1, PutType
<1>3. ArchTypeOK'
  BY <1>1, <1>2 DEF ArchTypeOK
<1>4. HandIsLast'
  BY <1>1 DEF HandIsLast
<1>5. FaultsCover'
  BY <1>3, RawStep
<1> QED BY <1>3, <1>4, <1>5 DEF ArchInv

\* The raw file stays, whatever becomes of the events and the engine.
LEMMA EventsAppended ==
    ASSUME ArchInv, stage # "raw",
           stage' \in Stages \ {"raw"},
           events' \in Seq(Pieces), fed' \in Seq(Hands),
           faults' \in 0 .. MaxFaults, faults' >= faults,
           crashes' \subseteq 1 .. messages,
           unwritten' \subseteq 1 .. messages,
           stage' = "idle" \/ messages > 0,
           UNCHANGED <<recorder, hand, raws, messages, setBack>>
    PROVE  ArchInv'
<1>1. ArchTypeOK'
  BY DEF ArchInv, ArchTypeOK
<1>2. HandIsLast'
  BY DEF ArchInv, HandIsLast
<1>3. Passed' = Passed
  BY DEF Passed
<1>4. FaultsCover'
  BY <1>1, <1>3, RawKept
<1> QED BY <1>1, <1>2, <1>4 DEF ArchInv

\* Facts about the message in hand while something is done with it.
LEMMA InHand ==
    ASSUME ArchInv, stage # "idle"
    PROVE  /\ ArchTypeOK /\ HandIsLast /\ messages > 0
           /\ hand.n \in 1 .. messages /\ hand \in Hands
           /\ raws \in Seq(Pieces) /\ events \in Seq(Pieces) /\ fed \in Seq(Hands)
           /\ Append(fed, hand) \in Seq(Hands)
           /\ faults \in Nat
           /\ crashes \subseteq 1 .. messages /\ unwritten \subseteq 1 .. messages
<1>1. ArchTypeOK /\ HandIsLast /\ messages > 0 /\ messages \in Nat
  BY DEF ArchInv, HandIsLast, ArchTypeOK
<1>2. hand.n \in 1 .. messages
  BY <1>1 DEF HandIsLast
<1>3. /\ hand \in Hands
      /\ raws \in Seq(Pieces) /\ events \in Seq(Pieces) /\ fed \in Seq(Hands)
      /\ crashes \subseteq 1 .. messages /\ unwritten \subseteq 1 .. messages
  BY <1>1 DEF ArchTypeOK
<1>4. faults \in Nat
  BY <1>1, ArchiveAssumption DEF ArchTypeOK
<1> QED BY <1>1, <1>2, <1>3, <1>4

LEMMA CountedType ==
    ASSUME ArchInv, NEW o \in Outcomes, Counted(o)
    PROVE  /\ faults' \in 0 .. MaxFaults
           /\ faults' >= faults + (IF o = "full" THEN 0 ELSE 1)
           /\ faults' >= faults
<1>1. faults \in Nat /\ MaxFaults \in Nat
  BY ArchiveAssumption DEF ArchInv, ArchTypeOK
<1> QED BY <1>1 DEF Counted

LEMMA CrashStep == ASSUME ArchInv, Crash PROVE ArchInv'
<1>0. /\ stage # "idle" /\ stage' = "idle" /\ faults' = faults + 1
      /\ faults < MaxFaults
      /\ crashes' = crashes \cup {hand.n}
      /\ UNCHANGED <<recorder, hand, fed, messages, unwritten, setBack>>
  BY DEF Crash
<1>1. /\ ArchTypeOK /\ HandIsLast /\ messages > 0 /\ hand.n \in 1 .. messages
      /\ events \in Seq(Pieces) /\ fed \in Seq(Hands) /\ faults \in Nat
      /\ crashes \subseteq 1 .. messages /\ unwritten \subseteq 1 .. messages
  BY <1>0, InHand
<1>2. /\ faults' \in 0 .. MaxFaults
      /\ \A o \in Outcomes : faults' >= faults + (IF o = "full" THEN 0 ELSE 1)
      /\ faults' >= faults
  BY <1>0, <1>1, ArchiveAssumption
<1>3. crashes' \subseteq 1 .. messages
  BY <1>0, <1>1
<1>4. stage' \in Stages \ {"raw"}
  BY <1>0 DEF Stages
<1>5. CASE stage = "raw"
  <2>1. PICK o \in Outcomes : raws' \in Put(raws, FALSE, o)
    BY <1>5 DEF Crash
  <2>2. events' = events
    BY <1>5 DEF Crash
  <2> QED BY <1>0, <1>2, <1>3, <1>4, <1>5, <2>1, <2>2, RawAppended
<1>6. CASE stage # "raw"
  <2>1. raws' = raws
    BY <1>6 DEF Crash
  <2>2. events' \in Seq(Pieces)
    <3>1. CASE stage \in {"typed", "event"}
      <4>1. PICK o \in Outcomes : events' \in Put(events, stage = "event", o)
        BY <3>1 DEF Crash
      <4>2. (stage = "event") \in BOOLEAN
        OBVIOUS
      <4> QED BY <1>1, <4>1, <4>2, PutType
    <3>2. CASE stage \notin {"typed", "event"}
      BY <1>1, <3>2 DEF Crash
    <3> QED BY <3>1, <3>2
  <2> QED BY <1>0, <1>1, <1>2, <1>3, <1>4, <1>6, <2>1, <2>2, EventsAppended
<1> QED BY <1>5, <1>6

LEMMA ArchInvStep == ArchInv /\ [ArchNext]_archVars => ArchInv'
<1> SUFFICES ASSUME ArchInv, [ArchNext]_archVars PROVE ArchInv'
  OBVIOUS
<1>1. ASSUME NEW t \in WallTimes, Receive(t) PROVE ArchInv'
  BY <1>1, ReceiveStep
<1>2. ASSUME NEW o \in Outcomes, ArchiveRaw(o) PROVE ArchInv'
  <2>1. /\ stage = "raw" /\ stage' \in Stages \ {"raw"} /\ Counted(o)
        /\ raws' \in Put(raws, FALSE, o) /\ crashes' = crashes
        /\ UNCHANGED <<recorder, hand, events, fed, messages, unwritten, setBack>>
    BY <1>2 DEF ArchiveRaw, Stages
  <2>2. crashes' \subseteq 1 .. messages
    BY <2>1, InHand
  <2> QED BY <2>1, <2>2, CountedType, RawAppended
<1>3. ASSUME NEW o \in Outcomes, ArchiveTyped(o) PROVE ArchInv'
  <2>1. /\ stage = "typed" /\ stage' \in Stages \ {"raw"} /\ Counted(o)
        /\ events' \in Put(events, FALSE, o) /\ crashes' = crashes
        /\ unwritten' = unwritten /\ fed' = fed
        /\ UNCHANGED <<recorder, hand, raws, messages, setBack>>
    BY <1>3 DEF ArchiveTyped, Stages
  <2>2. /\ ArchTypeOK /\ HandIsLast /\ messages > 0 /\ fed' \in Seq(Hands)
        /\ events \in Seq(Pieces)
        /\ crashes' \subseteq 1 .. messages /\ unwritten' \subseteq 1 .. messages
    BY <2>1, InHand
  <2>3. events' \in Seq(Pieces)
    BY <2>1, <2>2, PutType
  <2> QED BY <2>1, <2>2, <2>3, CountedType, EventsAppended
<1>4. ASSUME NEW o \in Outcomes, ArchiveEvent(o) PROVE ArchInv'
  <2>1. /\ stage = "event" /\ stage' \in Stages \ {"raw"} /\ Counted(o)
        /\ events' \in Put(events, TRUE, o) /\ crashes' = crashes
        /\ fed' \in {fed, Append(fed, hand)}
        /\ unwritten' \subseteq unwritten \cup {hand.n}
        /\ UNCHANGED <<recorder, hand, raws, messages, setBack>>
    BY <1>4 DEF ArchiveEvent, Stages
  <2>2. /\ ArchTypeOK /\ HandIsLast /\ messages > 0 /\ fed' \in Seq(Hands)
        /\ events \in Seq(Pieces)
        /\ crashes' \subseteq 1 .. messages /\ unwritten' \subseteq 1 .. messages
    BY <2>1, InHand
  <2>3. events' \in Seq(Pieces)
    BY <2>1, <2>2, PutType
  <2> QED BY <2>1, <2>2, <2>3, CountedType, EventsAppended
<1>5. CASE FeedEngine
  <2>1. /\ stage = "feed" /\ stage' = "idle" /\ fed' = Append(fed, hand)
        /\ UNCHANGED <<recorder, hand, raws, events, messages, faults, crashes,
                       unwritten, setBack>>
    BY <1>5 DEF FeedEngine
  <2>2. /\ fed' \in Seq(Hands) /\ events' \in Seq(Pieces) /\ faults \in Nat
        /\ crashes' \subseteq 1 .. messages /\ unwritten' \subseteq 1 .. messages
    BY <2>1, InHand
  <2>3. faults' \in 0 .. MaxFaults /\ faults' >= faults
    BY <2>1, <2>2 DEF ArchInv, ArchTypeOK
  <2>4. stage' \in Stages \ {"raw"} /\ stage # "raw"
    BY <2>1 DEF Stages
  <2> QED BY <2>1, <2>2, <2>3, <2>4, EventsAppended
<1>6. CASE Crash
  BY <1>6, CrashStep
<1>7. CASE UNCHANGED archVars
  <2>1. ArchTypeOK' /\ HandIsLast' /\ Passed' = Passed /\ raws' = raws
    BY <1>7 DEF archVars, ArchInv, ArchTypeOK, HandIsLast, Passed
  <2>2. faults \in Nat /\ faults' = faults
    BY <1>7, ArchiveAssumption DEF archVars, ArchInv, ArchTypeOK
  <2> QED BY <2>1, <2>2, RawKept DEF ArchInv
<1> QED BY <1>1, <1>2, <1>3, <1>4, <1>5, <1>6, <1>7 DEF ArchNext

\* A message without a line of its own left nothing, or its piece is torn, or
\* follows a torn one; a torn piece stands for two at most.
LEMMA FaultsPay == ArchInv => RawIsGroundTruth
<1> SUFFICES ASSUME ArchInv PROVE RawIsGroundTruth
  OBVIOUS
<1> DEFINE verbatim == {raws[i].n : i \in {j \in DOMAIN raws : OwnLine(raws, j)}}
           itself == {raws[i].n : i \in Torn}
           after == {raws[i].n : i \in {j \in DOMAIN raws : j - 1 \in Torn}}
<1>0. /\ ArchTypeOK /\ raws \in Seq(Pieces) /\ Len(raws) \in Nat
      /\ DOMAIN raws = 1 .. Len(raws)
      /\ faults \in Nat
      /\ IsFiniteSet(Absent) /\ Cardinality(Absent) \in Nat
      /\ IsFiniteSet(Torn) /\ Cardinality(Torn) \in Nat
      /\ Cardinality(Absent) + Cardinality(Torn) <= faults
  <2>1. ArchTypeOK /\ raws \in Seq(Pieces) /\ faults \in Nat
    BY ArchiveAssumption DEF ArchInv, ArchTypeOK
  <2> QED BY <2>1, AbsentTornFinite DEF ArchInv, FaultsCover
<1>1. Passed \ verbatim \subseteq Absent \cup itself \cup after
  <2> SUFFICES ASSUME NEW m \in Passed, m \notin verbatim, m \notin Absent
               PROVE  m \in itself \cup after
    OBVIOUS
  <2>1. PICK i \in DOMAIN raws : raws[i].n = m
    BY DEF Absent
  <2>2. ~OwnLine(raws, i)
    BY <2>1
  <2>3. CASE i \in Torn
    BY <2>1, <2>3
  <2>4. CASE i \notin Torn
    <3>1. raws[i].ended /\ raws[i].whole
      BY <2>4 DEF Torn, ArchInv, FaultsCover
    <3>2. i > 1 /\ ~raws[i - 1].ended
      BY <2>2, <3>1 DEF OwnLine
    <3>3. i - 1 \in Torn
      BY <1>0, <3>2 DEF Torn
    <3> QED BY <2>1, <3>3
  <2> QED BY <2>3, <2>4
<1>2. IsFiniteSet(itself) /\ Cardinality(itself) <= Cardinality(Torn)
  <2> DEFINE f == [i \in Torn |-> raws[i].n]
  <2>1. f \in Surjection(Torn, itself)
    BY DEF Surjection
  <2> HIDE DEF f, itself
  <2> QED BY <1>0, <2>1, FS_Surjection
<1>3. IsFiniteSet(after) /\ Cardinality(after) <= Cardinality(Torn)
  <2> DEFINE followed == {j \in Torn : j + 1 \in DOMAIN raws}
             f == [j \in followed |-> raws[j + 1].n]
  <2>1. IsFiniteSet(followed) /\ Cardinality(followed) <= Cardinality(Torn)
    BY <1>0, FS_Subset
  <2>2. f \in [followed -> after]
    BY <1>0 DEF Torn
  <2>3. ASSUME NEW m \in after PROVE \E j \in followed : f[j] = m
    <3>1. PICK i \in DOMAIN raws : i - 1 \in Torn /\ m = raws[i].n
      OBVIOUS
    <3>2. i - 1 \in followed /\ (i - 1) + 1 = i
      BY <1>0, <3>1
    <3> QED BY <3>1, <3>2
  <2>4. f \in Surjection(followed, after)
    <3> HIDE DEF f, followed, after
    <3> QED BY <2>2, <2>3 DEF Surjection
  <2>5. IsFiniteSet(after) /\ Cardinality(after) <= Cardinality(followed)
    <3> HIDE DEF f, followed, after
    <3> QED BY <2>1, <2>4, FS_Surjection
  <2>6. Cardinality(after) \in Nat /\ Cardinality(followed) \in Nat
    <3> HIDE DEF f, followed, after
    <3> QED BY <2>1, <2>5, FS_CardinalityType
  <2> QED BY <1>0, <2>1, <2>5, <2>6
<1> HIDE DEF verbatim, itself, after
<1>4. /\ IsFiniteSet(Absent \cup itself)
      /\ Cardinality(Absent \cup itself) <= Cardinality(Absent) + Cardinality(itself)
  BY <1>0, <1>2, UnionBound
<1>5. /\ IsFiniteSet((Absent \cup itself) \cup after)
      /\ Cardinality((Absent \cup itself) \cup after)
            <= Cardinality(Absent \cup itself) + Cardinality(after)
  BY <1>3, <1>4, UnionBound
<1>6. Cardinality(Passed \ verbatim) <= Cardinality((Absent \cup itself) \cup after)
  BY <1>1, <1>5, FS_Subset
<1>7. Cardinality(Passed \ verbatim) <= 2 * faults
  <2>1. /\ IsFiniteSet(Passed \ verbatim)
        /\ Cardinality(Passed \ verbatim) \in Nat
        /\ Cardinality((Absent \cup itself) \cup after) \in Nat
        /\ Cardinality(Absent \cup itself) \in Nat
        /\ Cardinality(itself) \in Nat /\ Cardinality(after) \in Nat
    BY <1>1, <1>2, <1>3, <1>4, <1>5, FS_Subset, FS_CardinalityType
  <2> QED BY <1>0, <1>2, <1>3, <1>4, <1>5, <1>6, <2>1
<1> QED BY <1>7 DEF RawIsGroundTruth, Passed, verbatim

\* Every variable of the archive keeps its type.
THEOREM ArchTypeCorrect == ArchSpec => []ArchTypeOK
<1>1. ArchInv => ArchTypeOK
  BY DEF ArchInv
<1> QED BY <1>1, ArchInvInit, ArchInvStep, PTL DEF ArchSpec

\* Every message has its verbatim line but for those a fault hit and at most
\* one more each (wsfeed.rs:536, record.rs:6-8): for any messages, lines, faults
\* and clocks.
THEOREM RawIsKept == ArchSpec => []RawIsGroundTruth
BY FaultsPay, ArchInvInit, ArchInvStep, PTL DEF ArchSpec

-----------------------------------------------------------------------------
(* The replay                                                              *)

Increasing(seq) == \A i, j \in DOMAIN seq : i < j => seq[i] < seq[j]

\* The first n values of f increase; they are values of g; both agree below k.
Rises(f, n) ==
    /\ n \in Nat /\ f \in [1 .. n -> Nat]
    /\ \A i, j \in 1 .. n : i < j => f[i] < f[j]
Within(f, n, g, m) == \A i \in 1 .. n : \E j \in 1 .. m : f[i] = g[j]
Agree(f, n, g, m, k) ==
    \A i \in Nat : i \in 1 .. n /\ i \in 1 .. m /\ i < k => f[i] = g[i]

\* Where both have a place, increasing sequences of the same numbers agree.
LEMMA SameBefore ==
    ASSUME NEW m, NEW n, NEW s, NEW t, NEW k \in Nat,
           Rises(s, m) /\ Rises(t, n) /\ Within(s, m, t, n) /\ Agree(s, m, t, n, k)
             /\ k \in 1 .. m /\ k \in 1 .. n
    PROVE  ~(s[k] < t[k])
<1> SUFFICES ASSUME s[k] < t[k] PROVE FALSE
  OBVIOUS
<1>0. /\ m \in Nat /\ n \in Nat
      /\ s \in [1 .. m -> Nat] /\ t \in [1 .. n -> Nat]
      /\ \A i, j \in 1 .. m : i < j => s[i] < s[j]
      /\ \A i, j \in 1 .. n : i < j => t[i] < t[j]
  BY DEF Rises
<1>1. PICK j \in 1 .. n : s[k] = t[j]
  BY DEF Within
<1>2. j \in Nat /\ t[j] \in Nat /\ t[k] \in Nat
  BY <1>0
<1>3. ~(k < j) /\ j # k
  <2>1. k < j => t[k] < t[j]
    BY <1>0
  <2> QED BY <1>1, <1>2, <2>1
<1>4. j < k /\ j \in 1 .. m
  BY <1>0, <1>2, <1>3
<1>5. s[j] = t[j] /\ s[j] < s[k] /\ s[k] \in Nat
  BY <1>0, <1>2, <1>4 DEF Agree
<1> QED BY <1>1, <1>2, <1>5

\* The longer of them has no number of its own.
LEMMA NoLonger ==
    ASSUME NEW m, NEW n, NEW s, NEW t,
           Rises(s, m) /\ Rises(t, n) /\ Within(t, n, s, m)
             /\ \A k \in Nat : Agree(s, m, t, n, k)
    PROVE  n <= m
<1>0. /\ m \in Nat /\ n \in Nat
      /\ s \in [1 .. m -> Nat] /\ t \in [1 .. n -> Nat]
      /\ \A i, j \in 1 .. n : i < j => t[i] < t[j]
  BY DEF Rises
<1> SUFFICES ASSUME m < n PROVE FALSE
  BY <1>0
<1>1. m + 1 \in 1 .. n
  BY <1>0
<1>2. PICK i \in 1 .. m : t[m + 1] = s[i]
  BY <1>1 DEF Within
<1>3. i \in Nat /\ i \in 1 .. n /\ i < m + 1 /\ m + 1 \in Nat
  BY <1>0, <1>2
<1>4. s[i] = t[i]
  BY <1>3 DEF Agree
<1>5. t[i] < t[m + 1] /\ t[i] \in Nat
  BY <1>0, <1>1, <1>3
<1> QED BY <1>2, <1>4, <1>5

\* Increasing sequences of the same numbers are one.
LEMMA SameNumbers ==
    ASSUME NEW s \in Seq(Nat), NEW t \in Seq(Nat), Increasing(s), Increasing(t),
           \A i \in DOMAIN s : \E j \in DOMAIN t : s[i] = t[j],
           \A j \in DOMAIN t : \E i \in DOMAIN s : t[j] = s[i]
    PROVE  s = t
<1> DEFINE m == Len(s)
           n == Len(t)
           differ == {i \in Nat : i \in 1 .. m /\ i \in 1 .. n /\ s[i] # t[i]}
<1>0. /\ m \in Nat /\ n \in Nat
      /\ DOMAIN s = 1 .. m /\ DOMAIN t = 1 .. n
      /\ s \in [1 .. m -> Nat] /\ t \in [1 .. n -> Nat]
  OBVIOUS
<1>1. Rises(s, m) /\ Rises(t, n) /\ Within(s, m, t, n) /\ Within(t, n, s, m)
  BY <1>0 DEF Increasing, Rises, Within
<1> HIDE DEF m, n
<1>2. differ = {}
  <2> SUFFICES ASSUME differ # {} PROVE FALSE
    OBVIOUS
  <2>1. differ \in SUBSET Nat
    OBVIOUS
  <2>2. PICK k \in differ : \A i \in differ : k <= i
    <3> HIDE DEF differ
    <3> QED BY <2>1, LeastNat
  <2>3. k \in Nat /\ k \in 1 .. m /\ k \in 1 .. n /\ s[k] # t[k]
    OBVIOUS
  <2>4. Agree(s, m, t, n, k) /\ Agree(t, n, s, m, k)
    <3> SUFFICES ASSUME NEW i \in Nat, i \in 1 .. m, i \in 1 .. n, i < k,
                        s[i] # t[i]
                 PROVE  FALSE
      BY DEF Agree
    <3>1. k <= i
      BY <2>2
    <3> QED BY <2>3, <3>1
  <2> HIDE DEF differ
  <2>5. ~(s[k] < t[k]) /\ ~(t[k] < s[k])
    BY <1>1, <2>3, <2>4, SameBefore
  <2>6. s[k] \in Nat /\ t[k] \in Nat
    BY <1>0, <2>3
  <2> QED BY <2>3, <2>5, <2>6
<1>3. \A k \in Nat : Agree(s, m, t, n, k) /\ Agree(t, n, s, m, k)
  BY <1>2 DEF Agree
<1>4. m = n
  <2>1. n <= m /\ m <= n
    BY <1>1, <1>3, NoLonger
  <2> QED BY <1>0, <2>1
<1>5. \A i \in 1 .. m : s[i] = t[i]
  <2> SUFFICES ASSUME NEW i \in 1 .. m, s[i] # t[i] PROVE FALSE
    OBVIOUS
  <2>1. i \in differ
    BY <1>0, <1>4
  <2> QED BY <1>2, <2>1
<1>6. s = [i \in 1 .. m |-> s[i]] /\ t = [i \in 1 .. m |-> t[i]]
  BY <1>0, <1>4
<1> QED BY <1>5, <1>6

\* The place of i among some numbers.
UpToHere(places, i) == {j \in places : j <= i}
Place(places, i) == Cardinality(UpToHere(places, i))

LEMMA PlaceType ==
    ASSUME NEW places \in SUBSET Nat, IsFiniteSet(places), NEW i \in places
    PROVE  /\ IsFiniteSet(UpToHere(places, i))
           /\ Place(places, i) \in Nat
           /\ Place(places, i) \in 1 .. Cardinality(places)
<1>1. UpToHere(places, i) \in SUBSET places /\ i \in UpToHere(places, i)
  BY DEF UpToHere
<1>2. /\ IsFiniteSet(UpToHere(places, i))
      /\ Cardinality(UpToHere(places, i)) <= Cardinality(places)
  BY <1>1, FS_Subset
<1>3. /\ Cardinality(places) \in Nat
      /\ Cardinality(UpToHere(places, i)) \in Nat
      /\ Cardinality(UpToHere(places, i)) # 0
  BY <1>1, <1>2, FS_CardinalityType, FS_EmptySet
<1> QED BY <1>2, <1>3 DEF Place

LEMMA PlacesInOrder ==
    ASSUME NEW places \in SUBSET Nat, IsFiniteSet(places),
           NEW i \in places, NEW j \in places, i < j
    PROVE  Place(places, i) < Place(places, j)
<1>1. UpToHere(places, i) \in SUBSET UpToHere(places, j)
  <2> SUFFICES ASSUME NEW x \in places, x <= i PROVE x <= j
    BY DEF UpToHere
  <2>1. x \in Nat /\ i \in Nat /\ j \in Nat
    OBVIOUS
  <2> QED BY <2>1
<1>2. j \in UpToHere(places, j) /\ j \notin UpToHere(places, i)
  <2>1. i \in Nat /\ j \in Nat
    OBVIOUS
  <2> QED BY <2>1 DEF UpToHere
<1>3. /\ Place(places, i) <= Place(places, j)
      /\ Place(places, i) # Place(places, j)
  BY <1>1, <1>2, PlaceType, FS_Subset DEF Place
<1>4. Place(places, i) \in Nat /\ Place(places, j) \in Nat
  BY PlaceType
<1> QED BY <1>3, <1>4

\* Every place is that of one number, and the places are in their order.
LEMMA PlacesAreAll ==
    ASSUME NEW places \in SUBSET Nat, IsFiniteSet(places)
    PROVE  /\ Cardinality(places) \in Nat
           /\ \A i \in places : Place(places, i) \in 1 .. Cardinality(places)
           /\ \A i, j \in places : i < j => Place(places, i) < Place(places, j)
           /\ \A k \in 1 .. Cardinality(places) :
                 \E i \in places : Place(places, i) = k
<1> DEFINE N == Cardinality(places)
           rank == [i \in places |-> Place(places, i)]
<1>1. N \in Nat
  BY FS_CardinalityType
<1>2. \A i \in places : Place(places, i) \in Nat /\ Place(places, i) \in 1 .. N
  BY PlaceType
<1>3. \A i, j \in places : i < j => Place(places, i) < Place(places, j)
  BY PlacesInOrder
<1> HIDE DEF N
<1>4. rank \in Injection(places, 1 .. N)
  <2>1. rank \in [places -> 1 .. N]
    BY <1>2
  <2>2. ASSUME NEW i \in places, NEW j \in places, i # j
        PROVE  rank[i] # rank[j]
    <3>1. i \in Nat /\ j \in Nat
      OBVIOUS
    <3>2. Place(places, i) < Place(places, j) \/ Place(places, j) < Place(places, i)
      BY <1>3, <2>2, <3>1
    <3> QED BY <1>2, <3>2
  <2>3. IsInjective(rank)
    BY <2>1, <2>2 DEF IsInjective
  <2> QED BY <2>1, <2>3 DEF Injection
<1>5. IsFiniteSet(1 .. N) /\ Cardinality(1 .. N) = N
  BY <1>1, FS_Interval
<1>6. rank \in Surjection(places, 1 .. N)
  BY <1>4, <1>5, FS_Injection DEF N
<1>7. \A k \in 1 .. N : \E i \in places : Place(places, i) = k
  BY <1>6 DEF Surjection
<1> QED BY <1>1, <1>2, <1>3, <1>7 DEF N

\* What is left of a sequence that increases at some places increases, and has
\* the numbers at these places.
LEMMA OnlyIncreases ==
    ASSUME NEW seq \in Seq(Nat), NEW places \in SUBSET DOMAIN seq,
           \A i, j \in places : i < j => seq[i] < seq[j]
    PROVE  /\ Only(seq, places) \in Seq(Nat)
           /\ Increasing(Only(seq, places))
           /\ \A k \in DOMAIN Only(seq, places) :
                 \E i \in places : Only(seq, places)[k] = seq[i]
           /\ \A i \in places :
                 \E k \in DOMAIN Only(seq, places) : seq[i] = Only(seq, places)[k]
<1> DEFINE N == Cardinality(places)
           at(k) == CHOOSE i \in places : Place(places, i) = k
<1>0. places \in SUBSET Nat /\ IsFiniteSet(places)
  <2>1. DOMAIN seq = 1 .. Len(seq) /\ Len(seq) \in Int /\ 1 \in Int
    OBVIOUS
  <2>2. IsFiniteSet(1 .. Len(seq))
    BY <2>1, FS_Interval
  <2> QED BY <2>1, <2>2, FS_Subset
<1>1. /\ N \in Nat
      /\ \A i \in places : Place(places, i) \in 1 .. N
      /\ \A i, j \in places : i < j => Place(places, i) < Place(places, j)
      /\ \A k \in 1 .. N : \E i \in places : Place(places, i) = k
  BY <1>0, PlacesAreAll
<1>2. \A k \in 1 .. N : at(k) \in places /\ Place(places, at(k)) = k
  BY <1>1
<1>3. Only(seq, places) = [k \in 1 .. N |-> seq[at(k)]]
  BY DEF Only, Place, UpToHere
<1>4. \A i \in places : seq[i] \in Nat
  OBVIOUS
<1>5. ASSUME NEW i \in places PROVE at(Place(places, i)) = i
  <2> DEFINE j == at(Place(places, i))
  <2>1. j \in places /\ Place(places, j) = Place(places, i)
    BY <1>1, <1>2
  <2>2. Place(places, i) \in Nat /\ i \in Nat /\ j \in Nat
    BY <1>0, <1>1, <2>1
  <2> HIDE DEF j
  <2>3. ~(i < j) /\ ~(j < i)
    BY <1>1, <2>1, <2>2
  <2>4. i = j
    BY <2>2, <2>3
  <2> QED BY <2>4 DEF j
<1> HIDE DEF at, N
<1>6. Only(seq, places) \in Seq(Nat) /\ DOMAIN Only(seq, places) = 1 .. N
  <2>1. Only(seq, places) \in [1 .. N -> Nat]
    BY <1>2, <1>3, <1>4
  <2> QED BY <1>1, <2>1
<1>7. Increasing(Only(seq, places))
  <2> SUFFICES ASSUME NEW k \in 1 .. N, NEW l \in 1 .. N, k < l
               PROVE  seq[at(k)] < seq[at(l)]
    BY <1>3, <1>6 DEF Increasing
  <2>1. /\ at(k) \in places /\ at(l) \in places
        /\ at(k) \in Nat /\ at(l) \in Nat
        /\ Place(places, at(k)) = k /\ Place(places, at(l)) = l
    BY <1>0, <1>2
  <2>2. at(k) < at(l)
    <3>1. ~(at(l) < at(k)) /\ at(l) # at(k)
      BY <1>1, <2>1
    <3> QED BY <2>1, <3>1
  <2> QED BY <2>1, <2>2
<1>8. \A k \in 1 .. N : \E i \in places : Only(seq, places)[k] = seq[i]
  BY <1>2, <1>3
<1>9. \A i \in places :
          \E k \in DOMAIN Only(seq, places) : seq[i] = Only(seq, places)[k]
  BY <1>1, <1>3, <1>5, <1>6
<1> QED BY <1>6, <1>7, <1>8, <1>9

\* Two sequences of numbers that increase, with the same sound ones, have the
\* same sound ones in the same order.
LEMMA SameSound ==
    ASSUME NEW s \in Seq(Nat), NEW t \in Seq(Nat), Increasing(s), Increasing(t),
           \A n \in Nat \ (crashes \cup unwritten) :
              (\E i \in DOMAIN s : s[i] = n) <=> (\E j \in DOMAIN t : t[j] = n)
    PROVE  Sound(s) = Sound(t)
<1> DEFINE I == {i \in DOMAIN s : s[i] \notin crashes \cup unwritten}
           J == {j \in DOMAIN t : t[j] \notin crashes \cup unwritten}
<1>1. /\ Only(s, I) \in Seq(Nat) /\ Increasing(Only(s, I))
      /\ \A k \in DOMAIN Only(s, I) : \E i \in I : Only(s, I)[k] = s[i]
      /\ \A i \in I : \E k \in DOMAIN Only(s, I) : s[i] = Only(s, I)[k]
  <2>1. I \in SUBSET DOMAIN s /\ \A i, j \in I : i < j => s[i] < s[j]
    BY DEF Increasing
  <2> HIDE DEF I
  <2> QED BY <2>1, OnlyIncreases
<1>2. /\ Only(t, J) \in Seq(Nat) /\ Increasing(Only(t, J))
      /\ \A k \in DOMAIN Only(t, J) : \E j \in J : Only(t, J)[k] = t[j]
      /\ \A j \in J : \E k \in DOMAIN Only(t, J) : t[j] = Only(t, J)[k]
  <2>1. J \in SUBSET DOMAIN t /\ \A i, j \in J : i < j => t[i] < t[j]
    BY DEF Increasing
  <2> HIDE DEF J
  <2> QED BY <2>1, OnlyIncreases
<1>3. /\ \A i \in I : \E j \in J : s[i] = t[j]
      /\ \A j \in J : \E i \in I : t[j] = s[i]
  <2>1. \A i \in DOMAIN s : s[i] \in Nat
    OBVIOUS
  <2>2. \A j \in DOMAIN t : t[j] \in Nat
    OBVIOUS
  <2>3. ASSUME NEW i \in I PROVE \E j \in J : s[i] = t[j]
    <3>1. s[i] \in Nat \ (crashes \cup unwritten)
      BY <2>1
    <3>2. PICK j \in DOMAIN t : t[j] = s[i]
      BY <3>1
    <3> QED BY <3>1, <3>2
  <2>4. ASSUME NEW j \in J PROVE \E i \in I : t[j] = s[i]
    <3>1. t[j] \in Nat \ (crashes \cup unwritten)
      BY <2>2
    <3>2. PICK i \in DOMAIN s : s[i] = t[j]
      BY <3>1
    <3> QED BY <3>1, <3>2
  <2> QED BY <2>3, <2>4
<1> HIDE DEF I, J
<1>4. ASSUME NEW k \in DOMAIN Only(s, I)
      PROVE  \E l \in DOMAIN Only(t, J) : Only(s, I)[k] = Only(t, J)[l]
  <2>1. PICK i \in I : Only(s, I)[k] = s[i]
    BY <1>1
  <2>2. PICK j \in J : s[i] = t[j]
    BY <1>3
  <2>3. PICK l \in DOMAIN Only(t, J) : t[j] = Only(t, J)[l]
    BY <1>2
  <2> QED BY <2>1, <2>2, <2>3
<1>5. ASSUME NEW l \in DOMAIN Only(t, J)
      PROVE  \E k \in DOMAIN Only(s, I) : Only(t, J)[l] = Only(s, I)[k]
  <2>1. PICK j \in J : Only(t, J)[l] = t[j]
    BY <1>2
  <2>2. PICK i \in I : t[j] = s[i]
    BY <1>3
  <2>3. PICK k \in DOMAIN Only(s, I) : s[i] = Only(s, I)[k]
    BY <1>1
  <2> QED BY <2>1, <2>2, <2>3
<1>6. Only(s, I) = Only(t, J)
  BY <1>1, <1>2, <1>4, <1>5, SameNumbers
<1> QED BY <1>6 DEF Sound, I, J

\* The engine is fed messages in their order; stage "feed" is before the feeding.
FedInOrder ==
    /\ \A i, j \in DOMAIN fed : i < j => fed[i].n < fed[j].n
    /\ \A i \in DOMAIN fed : /\ fed[i].n <= messages
                             /\ stage # "idle" => fed[i].n < hand.n

\* The events file has them in their order, and in that of their times as long
\* as the clock was not set back.
TaggedInOrder ==
    /\ \A i, j \in TaggedAt : i < j => events[i].n < events[j].n
    /\ \A i \in TaggedAt :
          /\ events[i].n <= messages
          /\ stage \in {"raw", "typed", "event"} => events[i].n < hand.n

TimesInOrder ==
    ~setBack => /\ \A i, j \in TaggedAt : i <= j => events[i].at <= events[j].at
                /\ \A i \in TaggedAt : events[i].at <= hand.at

\* A sound message is in both or in neither, but between the two.
Fed(n) == \E i \in DOMAIN fed : fed[i].n = n
Tagged(n) == \E i \in TaggedAt : events[i].n = n
BothOrNone(n) ==
    IF stage = "feed" /\ n = hand.n THEN Tagged(n) ELSE Fed(n) <=> Tagged(n)
SoundAreBoth == \A n \in Nat \ (crashes \cup unwritten) : BothOrNone(n)

ReplayInv ==
    ArchInv /\ FedInOrder /\ TaggedInOrder /\ TimesInOrder /\ SoundAreBoth

\* The steps on the message in hand: it may be added to what was fed, as the
\* last thing done with it, and its piece to the events, tagged in one stage.
Handling ==
    /\ stage # "idle"
    /\ UNCHANGED <<hand, messages, setBack>>
    /\ crashes \subseteq crashes' /\ unwritten \subseteq unwritten'
    /\ fed' = fed \/ (fed' = Append(fed, hand) /\ stage' = "idle")
    /\ \/ events' = events
       \/ \E p \in Pieces : /\ events' = Append(events, p)
                            /\ p.n = hand.n /\ p.at = hand.at
                            /\ p.tagged => stage = "event"
    /\ stage' \in {"raw", "typed", "event"} => stage \in {"raw", "typed"}

LEMMA FedStep ==
    ASSUME ReplayInv, Handling
    PROVE  /\ FedInOrder'
           /\ \A n \in Nat : Fed(n) => Fed(n)'
           /\ \A n \in Nat : Fed(n)' => Fed(n) \/ n = hand.n
           /\ fed' = Append(fed, hand) => Fed(hand.n)'
<1>0. /\ fed \in Seq(Hands) /\ hand \in Hands /\ hand.n = messages
      /\ hand' = hand /\ messages' = messages /\ stage # "idle"
      /\ Len(fed) \in Nat /\ DOMAIN fed = 1 .. Len(fed)
      /\ \A i \in 1 .. Len(fed) : fed[i].n \in Nat /\ fed[i].n < hand.n
      /\ hand.n \in Nat
  <2>1. /\ fed \in Seq(Hands) /\ hand \in Hands /\ hand.n = messages
        /\ \A h \in Hands : h.n \in Nat
    BY DEF ReplayInv, ArchInv, ArchTypeOK, HandIsLast, Hands
  <2>2. Len(fed) \in Nat /\ DOMAIN fed = 1 .. Len(fed)
        /\ \A i \in 1 .. Len(fed) : fed[i] \in Hands
    BY <2>1
  <2>3. hand' = hand /\ messages' = messages /\ stage # "idle"
    BY DEF Handling
  <2>4. \A i \in DOMAIN fed : fed[i].n < hand.n
    BY <2>3 DEF ReplayInv, FedInOrder
  <2> QED BY <2>1, <2>2, <2>3, <2>4
<1>1. CASE fed' = fed
  <2>1. FedInOrder
    BY DEF ReplayInv
  <2>2. FedInOrder'
    BY <1>0, <1>1, <2>1 DEF FedInOrder
  <2>3. \A n \in Nat : Fed(n)' <=> Fed(n)
    BY <1>1 DEF Fed
  <2>4. fed' # Append(fed, hand)
    <3> SUFFICES ASSUME fed = Append(fed, hand) PROVE FALSE
      BY <1>1
    <3>1. Len(Append(fed, hand)) = Len(fed) + 1
      BY <1>0
    <3>2. Len(fed) = Len(fed) + 1
      BY <3>1, Zenon
    <3> QED BY <1>0, <3>2
  <2> QED BY <2>2, <2>3, <2>4
<1>2. CASE fed' = Append(fed, hand) /\ stage' = "idle"
  <2>1. /\ DOMAIN fed' = 1 .. Len(fed) + 1
        /\ \A i \in 1 .. Len(fed) : fed'[i] = fed[i]
        /\ fed'[Len(fed) + 1] = hand
    BY <1>0, <1>2
  <2>2. \A i, j \in 1 .. Len(fed) : i < j => fed[i].n < fed[j].n
    BY <1>0 DEF ReplayInv, FedInOrder
  <2>3. \A i, j \in DOMAIN fed' : i < j => fed'[i].n < fed'[j].n
    BY <1>0, <2>1, <2>2
  <2>4. \A i \in DOMAIN fed' : fed'[i].n <= messages'
    BY <1>0, <2>1
  <2>5. FedInOrder'
    BY <1>2, <2>3, <2>4 DEF FedInOrder
  <2>6. /\ \A n \in Nat : Fed(n) => Fed(n)'
        /\ \A n \in Nat : Fed(n)' => Fed(n) \/ n = hand.n
        /\ Fed(hand.n)'
    BY <1>0, <2>1 DEF Fed
  <2> QED BY <2>5, <2>6
<1> QED BY <1>1, <1>2 DEF Handling

LEMMA TaggedStep ==
    ASSUME ReplayInv, Handling
    PROVE  /\ TaggedInOrder' /\ TimesInOrder'
           /\ \A n \in Nat : Tagged(n) => Tagged(n)'
           /\ \A n \in Nat : Tagged(n)' => Tagged(n) \/ n = hand.n
<1>0. /\ events \in Seq(Pieces) /\ hand.n = messages /\ hand.n \in Nat
      /\ hand.at \in Nat
      /\ UNCHANGED <<hand, messages, setBack>>
      /\ Len(events) \in Nat /\ DOMAIN events = 1 .. Len(events)
      /\ \A i \in 1 .. Len(events) : events[i].n \in Nat /\ events[i].at \in Nat
      /\ TaggedAt \subseteq 1 .. Len(events)
  <2>1. /\ events \in Seq(Pieces) /\ hand \in Hands /\ hand.n = messages
        /\ \A h \in Hands : h.n \in Nat /\ h.at \in Nat
        /\ \A p \in Pieces : p.n \in Nat /\ p.at \in Nat
    BY DEF ReplayInv, ArchInv, ArchTypeOK, HandIsLast, Hands, Pieces, WallTimes
  <2>2. Len(events) \in Nat /\ DOMAIN events = 1 .. Len(events)
        /\ \A i \in 1 .. Len(events) : events[i] \in Pieces
    BY <2>1
  <2>3. UNCHANGED <<hand, messages, setBack>>
    BY DEF Handling
  <2>4. TaggedAt \subseteq 1 .. Len(events)
    BY <2>2 DEF TaggedAt
  <2> QED BY <2>1, <2>2, <2>3, <2>4
<1>1. ASSUME TaggedAt' = TaggedAt, \A i \in TaggedAt : events'[i] = events[i]
      PROVE  /\ TaggedInOrder' /\ TimesInOrder'
             /\ \A n \in Nat : Tagged(n) => Tagged(n)'
             /\ \A n \in Nat : Tagged(n)' => Tagged(n) \/ n = hand.n
  <2>1. stage' \in {"raw", "typed", "event"} => stage \in {"raw", "typed"}
    BY DEF Handling
  <2>2. TaggedInOrder'
    BY <1>0, <1>1, <2>1 DEF ReplayInv, TaggedInOrder
  <2>3. TimesInOrder'
    BY <1>0, <1>1 DEF ReplayInv, TimesInOrder
  <2>4. \A n \in Nat : Tagged(n)' <=> Tagged(n)
    BY <1>1 DEF Tagged
  <2> QED BY <2>2, <2>3, <2>4
<1>2. CASE events' = events
  BY <1>1, <1>2 DEF TaggedAt
<1>3. ASSUME NEW p \in Pieces, events' = Append(events, p),
             p.n = hand.n, p.at = hand.at, p.tagged => stage = "event"
      PROVE  /\ TaggedInOrder' /\ TimesInOrder'
             /\ \A n \in Nat : Tagged(n) => Tagged(n)'
             /\ \A n \in Nat : Tagged(n)' => Tagged(n) \/ n = hand.n
  <2> DEFINE top == Len(events) + 1
  <2>1. /\ DOMAIN events' = 1 .. top
        /\ \A i \in 1 .. Len(events) : events'[i] = events[i]
        /\ events'[top] = p
        /\ top \in Nat /\ top \notin TaggedAt
        /\ \A i \in TaggedAt : i < top /\ i \in Nat
    BY <1>0, <1>3
  <2>2. CASE ~p.tagged
    <3>1. TaggedAt' = TaggedAt /\ \A i \in TaggedAt : events'[i] = events[i]
      BY <1>0, <2>1, <2>2 DEF TaggedAt
    <3> QED BY <1>1, <3>1
  <2>3. CASE p.tagged
    <3>1. TaggedAt' = TaggedAt \cup {top}
      BY <1>0, <2>1, <2>3 DEF TaggedAt
    <3> HIDE DEF top
    <3>2. /\ \A i \in TaggedAt : events'[i] = events[i]
          /\ stage = "event" /\ stage' \notin {"raw", "typed", "event"}
      BY <1>0, <1>3, <2>1, <2>3 DEF Handling
    <3>3. \A i \in TaggedAt : events[i].n < hand.n /\ events[i].n \in Nat
      BY <1>0, <3>2 DEF ReplayInv, TaggedInOrder
    <3>4. \A i, j \in TaggedAt : i < j => events[i].n < events[j].n
      BY DEF ReplayInv, TaggedInOrder
    <3>5. TaggedInOrder'
      <4>1. ASSUME NEW i \in TaggedAt', NEW j \in TaggedAt', i < j
            PROVE  events'[i].n < events'[j].n
        <5>1. i \in TaggedAt
          BY <2>1, <3>1, <4>1
        <5>2. CASE j \in TaggedAt
          BY <3>2, <3>4, <4>1, <5>1, <5>2
        <5>3. CASE j = top
          BY <1>3, <2>1, <3>2, <3>3, <5>1, <5>3
        <5> QED BY <3>1, <5>2, <5>3
      <4>2. ASSUME NEW i \in TaggedAt' PROVE events'[i].n <= messages'
        <5>1. CASE i \in TaggedAt
          BY <1>0, <3>2, <3>3, <5>1
        <5>2. CASE i = top
          BY <1>0, <1>3, <2>1, <5>2
        <5> QED BY <3>1, <5>1, <5>2
      <4> QED BY <3>2, <4>1, <4>2 DEF TaggedInOrder
    <3>6. TimesInOrder'
      <4> SUFFICES ASSUME ~setBack
                   PROVE  /\ \A i, j \in TaggedAt' :
                                i <= j => events'[i].at <= events'[j].at
                          /\ \A i \in TaggedAt' : events'[i].at <= hand.at
        BY <1>0 DEF TimesInOrder
      <4>1. /\ \A i, j \in TaggedAt : i <= j => events[i].at <= events[j].at
            /\ \A i \in TaggedAt : events[i].at <= hand.at
        BY DEF ReplayInv, TimesInOrder
      <4>2. \A i \in TaggedAt' : events'[i].at <= hand.at
        BY <1>0, <1>3, <2>1, <3>1, <3>2, <4>1
      <4>3. ASSUME NEW i \in TaggedAt', NEW j \in TaggedAt', i <= j
            PROVE  events'[i].at <= events'[j].at
        <5>1. CASE j = top
          BY <1>3, <2>1, <4>2, <5>1
        <5>2. CASE j \in TaggedAt
          <6>1. i \in TaggedAt
            BY <2>1, <3>1, <4>3, <5>2
          <6> QED BY <3>2, <4>1, <4>3, <5>2, <6>1
        <5> QED BY <3>1, <5>1, <5>2
      <4> QED BY <4>2, <4>3
    <3>7. \A n \in Nat : Tagged(n) => Tagged(n)'
      BY <3>1, <3>2 DEF Tagged
    <3>8. \A n \in Nat : Tagged(n)' => Tagged(n) \/ n = hand.n
      BY <1>3, <2>1, <3>1, <3>2 DEF Tagged
    <3> QED BY <3>5, <3>6, <3>7, <3>8
  <2> QED BY <2>2, <2>3
<1> QED BY <1>2, <1>3 DEF Handling

\* What is left to show of a step is what becomes of the message in hand.
LEMMA HandlingStep ==
    ASSUME ReplayInv, ArchInv', Handling,
           hand.n \in crashes' \cup unwritten' \/ BothOrNone(hand.n)'
    PROVE  ReplayInv'
<1>1. SoundAreBoth'
  <2> SUFFICES ASSUME NEW n \in Nat \ (crashes' \cup unwritten')
               PROVE  BothOrNone(n)'
    BY DEF SoundAreBoth
  <2>1. CASE n = hand.n
    <3>1. hand' = hand
      BY DEF Handling
    <3> QED BY <2>1, <3>1 DEF BothOrNone
  <2>2. CASE n # hand.n
    <3>1. hand' = hand /\ n \in Nat \ (crashes \cup unwritten)
      BY DEF Handling
    <3>2. Fed(n) <=> Tagged(n)
      BY <2>2, <3>1 DEF ReplayInv, SoundAreBoth, BothOrNone
    <3>3. (Fed(n)' <=> Fed(n)) /\ (Tagged(n)' <=> Tagged(n))
      BY <2>2, FedStep, TaggedStep
    <3> QED BY <2>2, <3>1, <3>2, <3>3 DEF BothOrNone
  <2> QED BY <2>1, <2>2
<1> QED BY <1>1, FedStep, TaggedStep DEF ReplayInv

LEMMA ReplayInvInit == ArchInit => ReplayInv
<1> SUFFICES ASSUME ArchInit PROVE ReplayInv
  OBVIOUS
<1>1. ArchInv
  BY ArchInvInit
<1>2. DOMAIN fed = {} /\ TaggedAt = {}
  BY DEF ArchInit, TaggedAt
<1>3. FedInOrder /\ TaggedInOrder /\ TimesInOrder
  BY <1>2 DEF FedInOrder, TaggedInOrder, TimesInOrder
<1>4. SoundAreBoth
  BY <1>2 DEF SoundAreBoth, BothOrNone, Fed, Tagged, ArchInit
<1> QED BY <1>1, <1>3, <1>4 DEF ReplayInv

LEMMA ReplayReceive ==
    ASSUME ReplayInv, NEW t \in WallTimes, Receive(t) PROVE ReplayInv'
<1>0. /\ messages \in Nat /\ hand.n = messages /\ hand.at \in Nat /\ t \in Nat
      /\ events \in Seq(Pieces) /\ fed \in Seq(Hands)
  BY DEF ReplayInv, ArchInv, ArchTypeOK, HandIsLast, Hands, WallTimes
<1>8. /\ \A i \in DOMAIN fed : fed[i].n \in Nat
      /\ \A i \in DOMAIN events : events[i].n \in Nat /\ events[i].at \in Nat
  <2>1. /\ \A i \in DOMAIN fed : fed[i] \in Hands
        /\ \A i \in DOMAIN events : events[i] \in Pieces
    BY <1>0
  <2>2. /\ \A h \in Hands : h.n \in Nat
        /\ \A p \in Pieces : p.n \in Nat /\ p.at \in Nat
    BY DEF Hands, Pieces, WallTimes
  <2> QED BY <2>1, <2>2
<1>1. ArchInv'
  BY ReceiveStep DEF ReplayInv
<1>2. /\ stage = "idle" /\ stage' = "raw"
      /\ messages' = messages + 1 /\ hand'.n = messages + 1 /\ hand'.at = t
      /\ setBack' = (setBack \/ t < hand.at)
      /\ UNCHANGED <<events, fed, crashes, unwritten>>
  BY DEF Receive
<1>3. TaggedAt' = TaggedAt /\ TaggedAt \subseteq DOMAIN events
  BY <1>2 DEF TaggedAt
<1>4. FedInOrder'
  <2>1. \A i \in DOMAIN fed : fed[i].n \in Nat /\ fed[i].n <= messages
    BY <1>8 DEF ReplayInv, FedInOrder
  <2>2. \A i, j \in DOMAIN fed : i < j => fed[i].n < fed[j].n
    BY DEF ReplayInv, FedInOrder
  <2> QED BY <1>0, <1>2, <2>1, <2>2 DEF FedInOrder
<1>5. TaggedInOrder'
  <2>1. \A i \in TaggedAt : events[i].n \in Nat /\ events[i].n <= messages
    BY <1>3, <1>8 DEF ReplayInv, TaggedInOrder
  <2>2. \A i, j \in TaggedAt : i < j => events[i].n < events[j].n
    BY DEF ReplayInv, TaggedInOrder
  <2> QED BY <1>0, <1>2, <1>3, <2>1, <2>2 DEF TaggedInOrder
<1>6. TimesInOrder'
  <2> SUFFICES ASSUME ~setBack, hand.at <= t
               PROVE  /\ \A i, j \in TaggedAt : i <= j => events[i].at <= events[j].at
                      /\ \A i \in TaggedAt : events[i].at <= t
    <3>1. ~setBack' => ~setBack /\ hand.at <= t
      <4>1. ~setBack' => ~setBack /\ ~(t < hand.at)
        BY <1>2, Zenon
      <4>2. ~(t < hand.at) => hand.at <= t
        BY <1>0
      <4> QED BY <4>1, <4>2
    <3> QED BY <1>2, <1>3, <3>1 DEF TimesInOrder
  <2>1. \A i \in TaggedAt : events[i].at \in Nat
    BY <1>3, <1>8
  <2> QED BY <1>0, <2>1 DEF ReplayInv, TimesInOrder
<1>7. SoundAreBoth'
  <2>1. \A n \in Nat \ (crashes \cup unwritten) : Fed(n) <=> Tagged(n)
    BY <1>2 DEF ReplayInv, SoundAreBoth, BothOrNone
  <2> QED BY <1>2, <1>3, <2>1 DEF SoundAreBoth, BothOrNone, Fed, Tagged
<1> QED BY <1>1, <1>4, <1>5, <1>6, <1>7 DEF ReplayInv

\* An append to the events file, seen by the invariant.
LEMMA EventsPut ==
    ASSUME ReplayInv, stage # "idle", hand' = hand, NEW isEvent \in BOOLEAN,
           NEW o \in Outcomes, events' \in Put(events, isEvent, o),
           isEvent => stage = "event"
    PROVE  /\ \/ events' = events
              \/ \E p \in Pieces : /\ events' = Append(events, p)
                                   /\ p.n = hand.n /\ p.at = hand.at
                                   /\ p.tagged => stage = "event"
           /\ o = "full" /\ isEvent => Tagged(hand.n)'
<1>0. /\ ArchTypeOK /\ HandIsLast /\ messages > 0 /\ events \in Seq(Pieces)
  BY InHand DEF ReplayInv
<1>1. CASE o = "none" /\ events' = events
  BY <1>1
<1>2. ASSUME o # "none",
             NEW p \in Pieces, events' = Append(events, p), p.n = hand.n,
             p.at = hand.at, p.tagged => isEvent, o = "full" /\ isEvent => p.tagged
      PROVE  /\ p.tagged => stage = "event"
             /\ o = "full" /\ isEvent => Tagged(hand.n)'
  <2>1. p.tagged => stage = "event"
    BY <1>2
  <2>2. ASSUME p.tagged PROVE Tagged(hand.n)'
    <3> DEFINE top == Len(events) + 1
    <3>1. top \in DOMAIN events' /\ events'[top] = p
      BY <1>0, <1>2
    <3>2. top \in TaggedAt'
      BY <2>2, <3>1 DEF TaggedAt
    <3> QED BY <1>2, <3>1, <3>2 DEF Tagged
  <2> QED BY <1>2, <2>1, <2>2
<1>3. \/ o = "none" /\ events' = events
      \/ /\ o # "none"
         /\ \E p \in Pieces : /\ events' = Append(events, p)
                              /\ p.n = hand.n /\ p.at = hand.at
                              /\ p.tagged => isEvent
                              /\ o = "full" /\ isEvent => p.tagged
  BY <1>0, PutAdds
<1> QED BY <1>1, <1>2, <1>3

LEMMA ReplayRaw ==
    ASSUME ReplayInv, NEW o \in Outcomes, ArchiveRaw(o) PROVE ReplayInv'
<1>0. /\ stage = "raw" /\ stage' \in {"typed", "idle"}
      /\ UNCHANGED <<hand, events, fed, messages, crashes, unwritten, setBack>>
  BY DEF ArchiveRaw
<1>1. ArchInv'
  BY ArchInvStep DEF ReplayInv, ArchNext
<1>2. Handling
  BY <1>0 DEF Handling
<1>3. BothOrNone(hand.n)' \/ hand.n \in crashes' \cup unwritten'
  <2>1. hand.n \in Nat
    BY <1>0, InHand DEF ReplayInv
  <2>2. BothOrNone(hand.n) \/ hand.n \in crashes \cup unwritten
    BY <2>1 DEF ReplayInv, SoundAreBoth
  <2> QED BY <1>0, <2>2 DEF BothOrNone, Fed, Tagged, TaggedAt
<1> QED BY <1>1, <1>2, <1>3, HandlingStep

LEMMA ReplayTyped ==
    ASSUME ReplayInv, NEW o \in Outcomes, ArchiveTyped(o) PROVE ReplayInv'
<1>0. /\ stage = "typed" /\ stage' \in {"event", "idle"}
      /\ events' \in Put(events, FALSE, o)
      /\ UNCHANGED <<hand, fed, messages, crashes, unwritten, setBack>>
  BY DEF ArchiveTyped
<1>1. ArchInv'
  BY ArchInvStep DEF ReplayInv, ArchNext
<1>2. Handling
  <2>1. \/ events' = events
        \/ \E p \in Pieces : /\ events' = Append(events, p)
                             /\ p.n = hand.n /\ p.at = hand.at
                             /\ p.tagged => stage = "event"
    BY <1>0, EventsPut
  <2> QED BY <1>0, <2>1 DEF Handling
<1>3. BothOrNone(hand.n)' \/ hand.n \in crashes' \cup unwritten'
  <2>1. hand.n \in Nat /\ ArchTypeOK /\ HandIsLast /\ messages > 0
    BY <1>0, InHand DEF ReplayInv
  <2>2. (Fed(hand.n) <=> Tagged(hand.n)) \/ hand.n \in crashes \cup unwritten
    BY <1>0, <2>1 DEF ReplayInv, SoundAreBoth, BothOrNone
  <2>3. Tagged(hand.n) => Tagged(hand.n)'
    BY <1>0, <1>2, <2>1, TaggedStep
  <2>4. ~Tagged(hand.n)'
    <3>1. \A i \in TaggedAt : events[i].n < hand.n
      BY <1>0 DEF ReplayInv, TaggedInOrder
    <3>2. ~Tagged(hand.n)
      BY <2>1, <3>1 DEF Tagged
    <3>3. events' = events \/ \E p \in Pieces : events' = Append(events, p) /\ ~p.tagged
      BY <1>0, EventsPut
    <3>4. events \in Seq(Pieces)
      BY <2>1 DEF ArchTypeOK
    <3>5. \A i \in TaggedAt' : i \in TaggedAt /\ events'[i] = events[i]
      BY <3>3, <3>4 DEF TaggedAt
    <3> QED BY <1>0, <3>2, <3>5 DEF Tagged
  <2>5. ~Fed(hand.n) \/ hand.n \in crashes \cup unwritten
    BY <2>2, <2>3, <2>4
  <2> QED BY <1>0, <2>4, <2>5 DEF BothOrNone, Fed
<1> QED BY <1>1, <1>2, <1>3, HandlingStep

LEMMA ReplayEvent ==
    ASSUME ReplayInv, NEW o \in Outcomes, ArchiveEvent(o) PROVE ReplayInv'
<1>0. /\ stage = "event" /\ events' \in Put(events, TRUE, o)
      /\ unwritten' = IF o = "full" THEN unwritten ELSE unwritten \cup {hand.n}
      /\ \/ fed' = Append(fed, hand) /\ stage' = "idle"
         \/ fed' = fed /\ stage' = "feed"
      /\ UNCHANGED <<hand, messages, crashes, setBack>>
  BY DEF ArchiveEvent
<1>1. ArchInv'
  BY ArchInvStep DEF ReplayInv, ArchNext
<1>2. Handling
  <2>1. \/ events' = events
        \/ \E p \in Pieces : /\ events' = Append(events, p)
                             /\ p.n = hand.n /\ p.at = hand.at
                             /\ p.tagged => stage = "event"
    BY <1>0, EventsPut
  <2>2. unwritten \subseteq unwritten'
    BY <1>0
  <2> QED BY <1>0, <2>1, <2>2 DEF Handling
<1>3. BothOrNone(hand.n)' \/ hand.n \in crashes' \cup unwritten'
  <2>1. CASE o # "full"
    BY <1>0, <2>1
  <2>2. CASE o = "full"
    <3>1. Tagged(hand.n)'
      BY <1>0, <2>2, EventsPut
    <3>2. fed' = Append(fed, hand) => Fed(hand.n)'
      BY <1>2, FedStep
    <3> QED BY <1>0, <3>1, <3>2 DEF BothOrNone
  <2> QED BY <2>1, <2>2
<1> QED BY <1>1, <1>2, <1>3, HandlingStep

LEMMA ReplayFeeds == ASSUME ReplayInv, FeedEngine PROVE ReplayInv'
<1>0. /\ stage = "feed" /\ stage' = "idle" /\ fed' = Append(fed, hand)
      /\ UNCHANGED <<hand, events, messages, crashes, unwritten, setBack>>
  BY DEF FeedEngine
<1>1. ArchInv'
  BY ArchInvStep DEF ReplayInv, ArchNext
<1>2. Handling
  BY <1>0 DEF Handling
<1>3. BothOrNone(hand.n)' \/ hand.n \in crashes' \cup unwritten'
  <2>1. hand.n \in Nat
    BY <1>0, InHand DEF ReplayInv
  <2>2. Tagged(hand.n) \/ hand.n \in crashes \cup unwritten
    BY <1>0, <2>1 DEF ReplayInv, SoundAreBoth, BothOrNone
  <2>3. Fed(hand.n)'
    BY <1>0, <1>2, FedStep
  <2>4. Tagged(hand.n)' <=> Tagged(hand.n)
    BY <1>0 DEF Tagged, TaggedAt
  <2> QED BY <1>0, <2>2, <2>3, <2>4 DEF BothOrNone
<1> QED BY <1>1, <1>2, <1>3, HandlingStep

LEMMA ReplayCrash == ASSUME ReplayInv, Crash PROVE ReplayInv'
<1>0. /\ stage # "idle" /\ stage' = "idle" /\ crashes' = crashes \cup {hand.n}
      /\ UNCHANGED <<hand, fed, messages, unwritten, setBack>>
  BY DEF Crash
<1>1. ArchInv'
  BY ArchInvStep DEF ReplayInv, ArchNext
<1>2. Handling
  <2>1. \/ events' = events
        \/ \E p \in Pieces : /\ events' = Append(events, p)
                             /\ p.n = hand.n /\ p.at = hand.at
                             /\ p.tagged => stage = "event"
    <3>1. CASE stage \in {"typed", "event"}
      <4>1. PICK o \in Outcomes : events' \in Put(events, stage = "event", o)
        BY <3>1 DEF Crash
      <4>2. (stage = "event") \in BOOLEAN
        OBVIOUS
      <4> QED BY <1>0, <4>1, <4>2, EventsPut
    <3>2. CASE stage \notin {"typed", "event"}
      BY <3>2 DEF Crash
    <3> QED BY <3>1, <3>2
  <2> QED BY <1>0, <2>1 DEF Handling
<1>3. hand.n \in crashes' \cup unwritten'
  BY <1>0
<1> QED BY <1>1, <1>2, <1>3, HandlingStep

LEMMA ReplayInvStep == ReplayInv /\ [ArchNext]_archVars => ReplayInv'
<1> SUFFICES ASSUME ReplayInv, [ArchNext]_archVars PROVE ReplayInv'
  OBVIOUS
<1>1. CASE ArchNext
  BY <1>1, ReplayReceive, ReplayRaw, ReplayTyped, ReplayEvent, ReplayFeeds,
     ReplayCrash DEF ArchNext
<1>2. CASE UNCHANGED archVars
  <2>1. ArchInv'
    BY ArchInvStep DEF ReplayInv
  <2>2. UNCHANGED <<stage, hand, events, fed, messages, crashes, unwritten, setBack>>
    BY <1>2 DEF archVars
  <2>3. FedInOrder' /\ TaggedInOrder' /\ TimesInOrder' /\ SoundAreBoth'
    BY <2>2 DEF ReplayInv, FedInOrder, TaggedInOrder, TimesInOrder,
                SoundAreBoth, BothOrNone, Fed, Tagged, TaggedAt
  <2> QED BY <2>1, <2>3 DEF ReplayInv
<1> QED BY <1>1, <1>2

\* With the times in order, the stable sort by time leaves the order of the
\* file.
LEMMA SortKeepsOrder ==
    ASSUME ArchTypeOK, TimesInOrder, ~setBack
    PROVE  Replay = Only([i \in DOMAIN events |-> events[i].n], TaggedAt)
<1> DEFINE numbers == [i \in DOMAIN events |-> events[i].n]
<1>0. /\ TaggedAt \subseteq DOMAIN events
      /\ \A i \in TaggedAt : i \in Nat /\ events[i].at \in Nat
  <2>1. /\ TaggedAt \subseteq DOMAIN events
        /\ \A i \in DOMAIN events : i \in Nat /\ events[i] \in Pieces
    BY DEF ArchTypeOK, TaggedAt
  <2>2. \A p \in Pieces : p.at \in Nat
    BY DEF Pieces, WallTimes
  <2> QED BY <2>1, <2>2
<1>1. ASSUME NEW i \in TaggedAt PROVE Earlier(i) = {j \in TaggedAt : j <= i}
  <2> SUFFICES ASSUME NEW j \in TaggedAt
               PROVE  \/ events[j].at < events[i].at
                      \/ events[j].at = events[i].at /\ j <= i
                      <=> j <= i
    BY DEF Earlier
  <2>1. /\ i <= j => events[i].at <= events[j].at
        /\ j <= i => events[j].at <= events[i].at
    BY DEF TimesInOrder
  <2>2. /\ i \in Nat /\ j \in Nat
        /\ events[i].at \in Nat /\ events[j].at \in Nat
    BY <1>0
  <2> QED BY <2>1, <2>2
<1>2. \A k : (CHOOSE i \in TaggedAt : Cardinality(Earlier(i)) = k) =
             (CHOOSE i \in TaggedAt : Cardinality({j \in TaggedAt : j <= i}) = k)
  BY <1>1
<1>3. \A k \in 1 .. Cardinality(TaggedAt) :
          (CHOOSE i \in TaggedAt : Cardinality({j \in TaggedAt : j <= i}) = k)
             \in DOMAIN events
  <2>1. TaggedAt \in SUBSET Nat /\ IsFiniteSet(TaggedAt)
    <3>1. DOMAIN events = 1 .. Len(events) /\ Len(events) \in Int /\ 1 \in Int
      BY DEF ArchTypeOK
    <3>2. IsFiniteSet(1 .. Len(events))
      BY <3>1, FS_Interval
    <3> QED BY <1>0, <3>1, <3>2, FS_Subset
  <2>2. \A k \in 1 .. Cardinality(TaggedAt) : \E i \in TaggedAt :
            Cardinality({j \in TaggedAt : j <= i}) = k
    BY <2>1, PlacesAreAll DEF Place, UpToHere
  <2> QED BY <1>0, <2>2
<1> DEFINE at(k) == CHOOSE i \in TaggedAt : Cardinality({j \in TaggedAt : j <= i}) = k
<1>4. Replay = [k \in 1 .. Cardinality(TaggedAt) |-> events[at(k)].n]
  <2> DEFINE first(k) == CHOOSE i \in TaggedAt : Cardinality(Earlier(i)) = k
  <2>1. Replay = [k \in 1 .. Cardinality(TaggedAt) |-> events[first(k)].n]
    BY Zenon DEF Replay
  <2>2. \A k : first(k) = at(k)
    BY <1>2
  <2> HIDE DEF at, first
  <2> QED BY <2>1, <2>2
<1>5. Only(numbers, TaggedAt) =
          [k \in 1 .. Cardinality(TaggedAt) |-> numbers[at(k)]]
  BY DEF Only
<1>6. \A k \in 1 .. Cardinality(TaggedAt) : at(k) \in DOMAIN events
  BY <1>3
<1> HIDE DEF at
<1>7. \A k \in 1 .. Cardinality(TaggedAt) : numbers[at(k)] = events[at(k)].n
  BY <1>6
<1> HIDE DEF numbers
<1>8. Replay = Only(numbers, TaggedAt)
  BY <1>4, <1>5, <1>7
<1> QED BY <1>8 DEF numbers

\* The replay and what was fed are increasing sequences of message numbers, and
\* have the same sound ones.
LEMMA ReplayFollows == ReplayInv => ReplayIsIdentical
<1> SUFFICES ASSUME ReplayInv, stage = "idle", ~setBack
             PROVE  Sound(Replay) = Sound([i \in DOMAIN fed |-> fed[i].n])
  BY DEF ReplayIsIdentical
<1> DEFINE given == [i \in DOMAIN fed |-> fed[i].n]
           numbers == [i \in DOMAIN events |-> events[i].n]
<1>0. ArchTypeOK /\ fed \in Seq(Hands) /\ events \in Seq(Pieces)
  BY DEF ReplayInv, ArchInv, ArchTypeOK
<1>1. given \in Seq(Nat) /\ DOMAIN given = DOMAIN fed
  <2>1. \A i \in DOMAIN fed : fed[i].n \in Nat
    <3>1. \A h \in Hands : h.n \in Nat
      BY DEF Hands
    <3> QED BY <1>0, <3>1
  <2>2. DOMAIN fed = 1 .. Len(fed) /\ Len(fed) \in Nat
    BY <1>0
  <2>3. given \in [1 .. Len(fed) -> Nat]
    BY <2>1, <2>2
  <2> QED BY <2>2, <2>3
<1>2. numbers \in Seq(Nat) /\ DOMAIN numbers = DOMAIN events
  <2>1. \A i \in DOMAIN events : events[i].n \in Nat
    <3>1. \A p \in Pieces : p.n \in Nat
      BY DEF Pieces
    <3> QED BY <1>0, <3>1
  <2>2. DOMAIN events = 1 .. Len(events) /\ Len(events) \in Nat
    BY <1>0
  <2>3. numbers \in [1 .. Len(events) -> Nat]
    BY <2>1, <2>2
  <2> QED BY <2>2, <2>3
<1>3. Increasing(given)
  BY <1>1 DEF ReplayInv, FedInOrder, Increasing
<1>4. /\ TaggedAt \in SUBSET DOMAIN numbers
      /\ \A i, j \in TaggedAt : i < j => numbers[i] < numbers[j]
      /\ \A i \in TaggedAt : numbers[i] = events[i].n
  BY <1>2 DEF ReplayInv, TaggedInOrder, TaggedAt
<1>5. Replay = Only(numbers, TaggedAt)
  BY <1>0, SortKeepsOrder DEF ReplayInv
<1> HIDE DEF numbers
<1>6. /\ Replay \in Seq(Nat) /\ Increasing(Replay)
      /\ \A k \in DOMAIN Replay : \E i \in TaggedAt : Replay[k] = numbers[i]
      /\ \A i \in TaggedAt : \E k \in DOMAIN Replay : numbers[i] = Replay[k]
  BY <1>2, <1>4, <1>5, OnlyIncreases
<1>7. ASSUME NEW n \in Nat \ (crashes \cup unwritten)
      PROVE  (\E k \in DOMAIN Replay : Replay[k] = n)
                <=> (\E j \in DOMAIN given : given[j] = n)
  <2>1. Fed(n) <=> Tagged(n)
    BY DEF ReplayInv, SoundAreBoth, BothOrNone
  <2>2. Fed(n) <=> \E j \in DOMAIN given : given[j] = n
    BY <1>1 DEF Fed
  <2>3. Tagged(n) <=> \E k \in DOMAIN Replay : Replay[k] = n
    BY <1>4, <1>6 DEF Tagged
  <2> QED BY <2>1, <2>2, <2>3
<1> HIDE DEF given
<1>8. Sound(Replay) = Sound(given)
  BY <1>1, <1>3, <1>6, <1>7, SameSound
<1> QED BY <1>8 DEF given

\* "Replays bit-identically" (liveloop.rs:397-405): for any messages, lines,
\* faults and crashes, an engine that replays the events file is given what the
\* engine of the run was, in its order.
THEOREM ReplayAlwaysIdentical == ArchSpec => []ReplayIsIdentical
BY ReplayFollows, ReplayInvInit, ReplayInvStep, PTL DEF ArchSpec

-----------------------------------------------------------------------------
(* Side by side                                                            *)

FeedsInv == SlotInv /\ ArchInv

LEMMA FeedsInvInit == FeedsInit => FeedsInv
BY SlotInvInit, ArchInvInit DEF FeedsInit, FeedsInv

LEMMA FeedsInvStep ==
    FeedsInv /\ [FeedsNext]_<<focus, slotVars, archVars>> => FeedsInv'
<1> SUFFICES ASSUME FeedsInv, [FeedsNext]_<<focus, slotVars, archVars>>
             PROVE  FeedsInv'
  OBVIOUS
<1>1. [SlotNext]_slotVars /\ [ArchNext]_archVars
  BY DEF FeedsNext, SlotSteps, ArchSteps
<1> QED BY <1>1, SlotInvStep, ArchInvStep DEF FeedsInv

\* The two feeds side by side keep the types of both, and what was announced
\* and is no longer in the clock is below all of a full one.
THEOREM FeedsTypeCorrect == FeedsSpec => []FeedsTypeOK
<1>1. FeedsInv => FeedsTypeOK
  BY DEF FeedsInv, SlotInv, ArchInv, FeedsTypeOK
<1> QED BY <1>1, FeedsInvInit, FeedsInvStep, PTL DEF FeedsSpec
=============================================================================
