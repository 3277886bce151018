------------------------------ MODULE SlotFeed ------------------------------
(***************************************************************************)
(* The gRPC feed: SlotClock, handle_instructions and LiveFeed of           *)
(* src/ingest.rs with the decoders of src/decode.rs.  Transactions and     *)
(* block metas come in any order; an event is stamped with the time of its *)
(* slot, or of the newest slot below it, or dropped.  A broken stream is   *)
(* opened again and the clock kept.  Nothing in src/ runs this feed yet.   *)
(*                                                                         *)
(* A slot may be announced twice with different times, by two nodes or for *)
(* two forks, since the commitment level may be "processed".               *)
(***************************************************************************)
EXTENDS Integers, Sequences, FiniteSets

CONSTANTS
    Slots,          \* slots, naturals
    BlockTimes,     \* block times
    FeedMints,      \* tokens 1 .. FeedMints, in the order of their names
    ClockCap,       \* CLOCK_CAP
    MaxIxs,         \* bound: instructions of a transaction
    MaxBuffer       \* bound: buffered events

ASSUME SlotFeedAssumption ==
    /\ Slots \subseteq Nat
    /\ BlockTimes \subseteq Nat
    /\ ClockCap \in Nat \ {0}
    /\ FeedMints \in Nat

VARIABLES
    streaming,  \* the stream is open
    backoff,    \* seconds before the next connection
    clock,      \* SlotClock: pairs of a slot and its time, one per slot
    buffer,     \* stamped events
    announced   \* history: the last time announced for a slot

slotVars == <<streaming, backoff, clock, buffer, announced>>

Unknown == -1
Tokens == 1 .. FeedMints

SlotInit ==
    /\ streaming = FALSE
    /\ backoff = 1
    /\ clock = {}
    /\ buffer = <<>>
    /\ announced = [s \in Slots |-> Unknown]

-----------------------------------------------------------------------------
(* The clock                                                               *)

\* Mutant: the newest slot is evicted.
EvictNewest(c) ==
    IF Cardinality(c) <= ClockCap THEN c
    ELSE {entry \in c : \E other \in c : entry.slot < other.slot}

\* Beyond the cap the lowest slot goes.
Evict(c) ==
    IF Cardinality(c) <= ClockCap THEN c
    ELSE {entry \in c : \E other \in c : other.slot < entry.slot}

Insert(s, t) ==
    Evict({entry \in clock : entry.slot # s} \cup {[slot |-> s, at |-> t]})

\* The entries of the newest slot at or below s: one or none.
Floor(s) ==
    {entry \in clock :
        /\ entry.slot <= s
        /\ \A other \in clock : other.slot <= s => other.slot <= entry.slot}

-----------------------------------------------------------------------------
(* Decoding a transaction                                                  *)

\* An instruction: its program is pump's and in the transaction's key list, its
\* discriminator, the number of its accounts, and whether its data holds the
\* arguments.
Instructions ==
    [ pump : BOOLEAN,
      disc : {"create", "create_v2", "buy", "sell", "buy_v2", "sell_v2",
              "migrate", "other"},
      accounts : {2, 3, 4, 10, 11},
      args : BOOLEAN ]

ParseCreate(ix) ==
    ix.disc \in {"create", "create_v2"} /\ ix.accounts >= 3 /\ ix.args

ParseTrade(ix) ==
    /\ ix.args
    /\ \/ ix.disc \in {"buy", "sell"} /\ ix.accounts >= 4
       \/ ix.disc \in {"buy_v2", "sell_v2"} /\ ix.accounts >= 11

ParseMigrate(ix) == ix.disc = "migrate" /\ ix.accounts >= 10

Decoded(ix) == ix.pump /\ (ParseCreate(ix) \/ ParseTrade(ix) \/ ParseMigrate(ix))

\* What is left of an instruction: whether a decoder takes it, and its token.
\* The kinds differ in counters only.
Wire == [decoded : {Decoded(ix) : ix \in Instructions}, mint : Tokens]

Taken(ixs) == {i \in DOMAIN ixs : ixs[i].decoded}

\* The place of a taken instruction in the order of tokens, then of positions.
UpTo(ixs, i) ==
    {j \in Taken(ixs) : \/ ixs[j].mint < ixs[i].mint
                        \/ ixs[j].mint = ixs[i].mint /\ j <= i}

\* The decoded instructions, outer before inner, sorted by token; the sort is
\* stable.  The others are passed over, those of the program counted.
Handle(ixs) ==
    [k \in 1 .. Cardinality(Taken(ixs)) |->
        ixs[CHOOSE i \in Taken(ixs) : Cardinality(UpTo(ixs, i)) = k]]

Stamp(s, ix, entry) ==
    [slot |-> s, mint |-> ix.mint, at |-> entry.at, own |-> announced[s],
     from |-> entry.slot]

\* Mutant: with no time at or below the slot, the next one above is taken.
StampedFromAbove(s, events) ==
    IF clock = {} THEN <<>>
    ELSE LET above == {e \in clock : \A o \in clock : e.slot <= o.slot}
             entry == CHOOSE e \in IF Floor(s) # {} THEN Floor(s) ELSE above : TRUE
         IN [i \in DOMAIN events |-> Stamp(s, events[i], entry)]

\* The stamped events, or none if the slot finds no time: dropped and counted.
Stamped(s, events) ==
    IF Floor(s) = {} THEN <<>>
    ELSE LET entry == CHOOSE e \in Floor(s) : TRUE
         IN [i \in DOMAIN events |-> Stamp(s, events[i], entry)]

-----------------------------------------------------------------------------
(* The stream                                                              *)

Connected ==
    /\ ~streaming
    /\ streaming' = TRUE
    /\ backoff' = 1
    /\ UNCHANGED <<clock, buffer, announced>>

\* A failed connection, or a stream that broke or ended, is tried again after
\* a wait that doubles up to a minute.
WaitAgain ==
    /\ streaming' = FALSE
    /\ backoff' = IF backoff * 2 < 60 THEN backoff * 2 ELSE 60
    /\ UNCHANGED <<clock, buffer, announced>>

\* A block meta without a time changes nothing.
BlockMeta(s, t) ==
    /\ streaming
    /\ clock' = Insert(s, t)
    /\ announced' = [announced EXCEPT ![s] = t]
    /\ UNCHANGED <<streaming, backoff, buffer>>

Transaction(s, ixs) ==
    /\ streaming
    /\ buffer' = buffer \o Stamped(s, Handle(ixs))
    /\ Len(buffer') <= MaxBuffer
    /\ UNCHANGED <<streaming, backoff, clock, announced>>

\* pop_raw, and next_event, which throws the event away and returns None.
PopRaw ==
    /\ buffer # <<>>
    /\ buffer' = Tail(buffer)
    /\ UNCHANGED <<streaming, backoff, clock, announced>>

SlotNext ==
    \/ Connected \/ WaitAgain \/ PopRaw
    \/ \E s \in Slots, t \in BlockTimes : BlockMeta(s, t)
    \/ \E s \in Slots, n \in 1 .. MaxIxs :
          \E ixs \in [1 .. n -> Wire] : Transaction(s, ixs)

SlotSpec == SlotInit /\ [][SlotNext]_slotVars
-----------------------------------------------------------------------------
(* Correctness                                                             *)

Entry == [slot : Slots, at : BlockTimes]
Event == [slot : Slots, mint : Tokens, at : BlockTimes,
          own : BlockTimes \cup {Unknown}, from : Slots]

OneTimePerSlot(c) == \A e, f \in c : e.slot = f.slot => e = f

SlotTypeOK ==
    /\ streaming \in BOOLEAN
    /\ backoff \in 1 .. 60
    /\ clock \subseteq Entry
    /\ OneTimePerSlot(clock)
    /\ Cardinality(clock) <= ClockCap
    /\ buffer \in Seq(Event)
    /\ announced \in [Slots -> BlockTimes \cup {Unknown}]

\* "Never a silently mis-timestamped trade" (ingest.rs:199-201), "never future
\* stamps" (ingest.rs:258-260): an event whose slot was ever announced carries
\* the last time of exactly that slot, or is dropped once the slot has been
\* evicted; no event carries the time of a later slot.
StampExactOrDropped ==
    \A i \in DOMAIN buffer :
        /\ buffer[i].from <= buffer[i].slot
        /\ buffer[i].own # Unknown => buffer[i].at = buffer[i].own

\* The invariant behind it: a slot whose entry is gone is below all entries of
\* a full clock, so that its events find none.
EvictedIsBelow ==
    \A s \in Slots : announced[s] # Unknown =>
        \/ [slot |-> s, at |-> announced[s]] \in clock
        \/ /\ Cardinality(clock) = ClockCap
           /\ \A e \in clock : s < e.slot
=============================================================================
