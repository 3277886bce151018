------------------------------- MODULE Archive -------------------------------
(***************************************************************************)
(* What becomes of a message of the websocket feed: archived verbatim,     *)
(* decoded, archived typed and enriched, and given to the engine, by the   *)
(* live loop (stream_loop of src/liveloop.rs) or, without an engine, by    *)
(* the recorder (run_ws_loop of src/wsfeed.rs); and the replay of the      *)
(* events file (ReplayFeed of src/ingest.rs).                              *)
(*                                                                         *)
(* A message is its number.  A file is the sequence of pieces written to   *)
(* it; an append goes on where the file stops, so that a piece may share   *)
(* its line with the remains of an earlier one.                            *)
(***************************************************************************)
EXTENDS Integers, Sequences, FiniteSets

CONSTANTS
    MaxWall,        \* bound: the wall clock reads 1 .. MaxWall, and may be set back
    MaxMessages,    \* bound: messages
    MaxFaults       \* bound: failed or partial writes and crashes

ASSUME ArchiveAssumption ==
    /\ MaxWall \in Nat
    /\ MaxMessages \in Nat
    /\ MaxFaults \in Nat

VARIABLES
    recorder,   \* the process is the recorder; otherwise the live loop
    stage,      \* what is done next with the message in hand
    hand,       \* the message: its time and what the decoders make of it
    raws,       \* the pieces of the raw file
    events,     \* the pieces of the events file
    fed,        \* the events the engine was given, or the recorder derived
    messages,   \* history: messages so far
    faults,     \* history: failed or partial writes and crashes
    crashes,    \* history: messages cut off by a crash
    unwritten,  \* history: events whose line was not written in full
    setBack     \* history: the wall clock was set back between two messages

archVars == <<recorder, stage, hand, raws, events, fed, messages, faults,
              crashes, unwritten, setBack>>

WallTimes == 1 .. MaxWall
Stages == {"idle", "raw", "typed", "event", "feed"}
Nothing == [n |-> 0, at |-> 0, typed |-> FALSE, event |-> FALSE]

ArchInit ==
    /\ recorder \in BOOLEAN
    /\ stage = "idle"
    /\ hand = Nothing
    /\ raws = <<>>
    /\ events = <<>>
    /\ fed = <<>>
    /\ messages = 0
    /\ faults = 0
    /\ crashes = {}
    /\ unwritten = {}
    /\ setBack = FALSE

-----------------------------------------------------------------------------
(* Decoding a text line                                                    *)

\* What a line has: it is JSON, names a token, says what it is, has positive
\* finite reserves, a creator's buy of at least nothing and, in a create, of
\* at most the supply.
Lines ==
    [ json : BOOLEAN, mint : BOOLEAN,
      txType : {"none", "create", "buy", "sell", "other"},
      reserves : BOOLEAN, buy : {"negative", "share", "excess"} ]

\* parse_ws_line.
Parse(line) ==
    CASE ~line.json -> "malformed"
      [] line.json /\ ~line.mint -> "chatter"
      [] line.json /\ line.mint /\ line.txType \in {"buy", "sell"} -> "trade"
      [] OTHER -> "create"

\* extract_trade, extract_create.
ExtractedTrade(line) == Parse(line) = "trade" /\ line.reserves

ExtractedCreate(line) ==
    /\ Parse(line) = "create"
    /\ line.txType \in {"none", "create"}
    /\ line.reserves
    /\ line.buy # "negative"

\* enrich_trade, enrich_create; the recorder may run without a rate.
EnrichedTrade(line, rate) == ExtractedTrade(line) /\ rate

EnrichedCreate(line, rate) == ExtractedCreate(line) /\ rate /\ line.buy = "share"

Extracted(line) == ExtractedTrade(line) \/ ExtractedCreate(line)
Enriched(line, rate) == EnrichedTrade(line, rate) \/ EnrichedCreate(line, rate)

\* The live loop counts a trade it cannot enrich as unparsed; both ways a
\* message that it does not enrich leaves nothing but its raw line.
Decode(line, rate) ==
    [ typed |-> IF recorder THEN Extracted(line) ELSE Enriched(line, rate),
      event |-> Enriched(line, rate) ]

\* The live loop has a rate (its boot demands one).
Decodable == {Decode(line, rate) : line \in Lines,
                                   rate \in IF recorder THEN BOOLEAN ELSE {TRUE}}

-----------------------------------------------------------------------------
(* A message                                                               *)

\* A text message.  Other frames are counted and leave nothing.
Receive(t) ==
    /\ stage = "idle"
    /\ messages < MaxMessages
    /\ messages' = messages + 1
    /\ stage' = "raw"
    /\ \E d \in Decodable :
          hand' = [n |-> messages', at |-> t, typed |-> d.typed, event |-> d.event]
    /\ setBack' = (setBack \/ t < hand.at)
    /\ UNCHANGED <<recorder, raws, events, fed, faults, crashes, unwritten>>

\* How an append of a line ends.  Anything but full is a warning in the log
\* and no more.
Outcomes == {"full", "bare", "scrap", "none"}

\* The piece an append leaves: without its newline, cut short, or nothing.  A
\* replay picks the lines that show a type; tagged says whether this one does.
Piece(tagged, o) ==
    IF o = "none" THEN <<>>
    ELSE <<[n |-> hand.n, at |-> hand.at, tagged |-> tagged,
            whole |-> o # "scrap", ended |-> o = "full"]>>

\* One append to a file: what it holds afterwards.
Put(pieces, isEvent, o) ==
    {pieces \o Piece(tagged, o) :
        tagged \in IF isEvent /\ o = "scrap" THEN BOOLEAN ELSE {isEvent}}

Counted(o) ==
    /\ faults' = faults + (IF o = "full" THEN 0 ELSE 1)
    /\ faults' <= MaxFaults

\* Mutant: a line that is not decoded is not archived either.
ArchiveRawDecoded(o) ==
    /\ stage = "raw"
    /\ Counted(o)
    /\ raws' \in IF hand.typed THEN Put(raws, FALSE, o) ELSE {raws}
    /\ stage' = IF hand.typed THEN "typed" ELSE "idle"
    /\ UNCHANGED <<recorder, hand, events, fed, messages, crashes, unwritten,
                   setBack>>

\* append_line: the line as it came, before anything else is done with it.
ArchiveRaw(o) ==
    /\ stage = "raw"
    /\ Counted(o)
    /\ raws' \in Put(raws, FALSE, o)
    /\ stage' = IF hand.typed THEN "typed" ELSE "idle"
    /\ UNCHANGED <<recorder, hand, events, fed, messages, crashes, unwritten,
                   setBack>>

\* record_raw.
ArchiveTyped(o) ==
    /\ stage = "typed"
    /\ Counted(o)
    /\ events' \in Put(events, FALSE, o)
    /\ stage' = IF hand.event THEN "event" ELSE "idle"
    /\ UNCHANGED <<recorder, hand, raws, fed, messages, crashes, unwritten,
                   setBack>>

\* record_event.
ArchiveEvent(o) ==
    /\ stage = "event"
    /\ Counted(o)
    /\ events' \in Put(events, TRUE, o)
    /\ unwritten' = IF o = "full" THEN unwritten ELSE unwritten \cup {hand.n}
    /\ fed' = IF recorder THEN Append(fed, hand) ELSE fed
    /\ stage' = IF recorder THEN "idle" ELSE "feed"
    /\ UNCHANGED <<recorder, hand, raws, messages, crashes, setBack>>

FeedEngine ==
    /\ stage = "feed"
    /\ fed' = Append(fed, hand)
    /\ stage' = "idle"
    /\ UNCHANGED <<recorder, hand, raws, events, messages, faults, crashes,
                   unwritten, setBack>>

\* The process dies with a message in hand, perhaps inside an append, and is
\* started again on the same files.
Crash ==
    /\ stage # "idle"
    /\ faults < MaxFaults
    /\ faults' = faults + 1
    /\ crashes' = crashes \cup {hand.n}
    /\ stage' = "idle"
    /\ raws' \in IF stage = "raw"
                  THEN UNION {Put(raws, FALSE, o) : o \in Outcomes} ELSE {raws}
    /\ events' \in
          IF stage \in {"typed", "event"}
          THEN UNION {Put(events, stage = "event", o) : o \in Outcomes}
          ELSE {events}
    /\ UNCHANGED <<recorder, hand, fed, messages, unwritten, setBack>>

ArchNext ==
    \/ \E t \in WallTimes : Receive(t)
    \/ \E o \in Outcomes : ArchiveRaw(o) \/ ArchiveTyped(o) \/ ArchiveEvent(o)
    \/ FeedEngine
    \/ Crash

ArchSpec == ArchInit /\ [][ArchNext]_archVars
-----------------------------------------------------------------------------
(* Replay                                                                  *)

\* A piece is a line of its own; the last one needs no newline.
OwnLine(pieces, i) ==
    /\ pieces[i].whole
    /\ i > 1 => pieces[i - 1].ended
    /\ pieces[i].ended \/ i = Len(pieces)

\* One line that does not parse makes the whole load fail.
Loads == \A i \in DOMAIN events : events[i].tagged => OwnLine(events, i)

TaggedAt == {i \in DOMAIN events : events[i].tagged}

\* Mutant: events of one time come in any order, the last first.
EarlierUnstable(i) ==
    {j \in TaggedAt : \/ events[j].at < events[i].at
                      \/ events[j].at = events[i].at /\ j >= i}

\* What the stable sort by time puts up to the event at i.
Earlier(i) ==
    {j \in TaggedAt : \/ events[j].at < events[i].at
                      \/ events[j].at = events[i].at /\ j <= i}

\* ReplayFeed::from_path on the lines that show a type: the message numbers.
Replay ==
    [k \in 1 .. Cardinality(TaggedAt) |->
        events[CHOOSE i \in TaggedAt : Cardinality(Earlier(i)) = k].n]

-----------------------------------------------------------------------------
(* Correctness                                                             *)

Pieces == [n : Nat, at : WallTimes, tagged : BOOLEAN, whole : BOOLEAN,
           ended : BOOLEAN]
Hands == [n : Nat, at : WallTimes \cup {0}, typed : BOOLEAN, event : BOOLEAN]

ArchTypeOK ==
    /\ recorder \in BOOLEAN
    /\ stage \in Stages
    /\ hand \in Hands
    /\ hand.event => hand.typed
    /\ raws \in Seq(Pieces)
    /\ events \in Seq(Pieces)
    /\ fed \in Seq(Hands)
    /\ messages \in Nat
    /\ faults \in 0 .. MaxFaults
    /\ crashes \subseteq 1 .. messages
    /\ unwritten \subseteq 1 .. messages
    /\ setBack \in BOOLEAN

\* The elements of a sequence at some of its places, in their order.
Only(seq, places) ==
    [k \in 1 .. Cardinality(places) |->
        seq[CHOOSE i \in places : Cardinality({j \in places : j <= i}) = k]]

\* Of message numbers, those of messages that no crash cut off and whose event
\* was written.
Sound(numbers) ==
    Only(numbers, {i \in DOMAIN numbers : numbers[i] \notin crashes \cup unwritten})

\* "Replays bit-identically" (liveloop.rs:406-413): what the replay of the
\* events file gives an engine is what the engine was fed, in its order; but
\* for events cut off by a crash and those whose write failed, as long as
\* no torn line refuses the load and the wall clock was never set back.
ReplayIsIdentical ==
    LET given == [i \in DOMAIN fed |-> fed[i].n]
    IN stage = "idle" /\ Loads /\ ~setBack => Sound(Replay) = Sound(given)

\* "Archive FIRST: verbatim ground truth, whatever follows" (wsfeed.rs:536;
\* record.rs:6-8, "never filtered"), so that "a restart loses nothing the raw
\* archive can't re-derive": at any time all messages have their verbatim line,
\* but for those a fault hit and at most one more each, whose line continues a
\* torn one.
RawIsGroundTruth ==
    LET verbatim == {raws[i].n : i \in {j \in DOMAIN raws : OwnLine(raws, j)}}
        passed == (1 .. messages) \ (IF stage = "raw" THEN {hand.n} ELSE {})
    IN Cardinality(passed \ verbatim) <= 2 * faults
=============================================================================
