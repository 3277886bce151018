-------------------------------- MODULE Boot --------------------------------
(***************************************************************************)
(* What src/main.rs starts: the checks of a boot in their order, the kind  *)
(* of run they lead to, the snapshot it resumes and the one its loop saves,*)
(* over any number of runs with different settings and the same files.     *)
(*                                                                         *)
(* A book says of every token whether the run holds a position in it, and  *)
(* whether that was really bought or simulated.  The paper executor        *)
(* simulates every fill, and so does the live executor with simulate_only. *)
(***************************************************************************)
EXTENDS FiniteSets

CONSTANTS
    Mints,      \* tokens
    PgBuilt     \* the binary was built with --features pg

ASSUME BootAssumption == PgBuilt \in BOOLEAN

Paths == {"live_state", "shadow_state"}
Kinds == {"down", "send", "simulate", "shadow", "replay", "idle"}
Origins == {"none", "real", "simulated"}
Book == [Mints -> Origins]
Flat == [m \in Mints |-> "none"]
Snapshots == [state : {"missing", "unreadable", "inconsistent", "good"},
              book : Book]

VARIABLES
    kind,       \* the kind of the running process, or down
    path,       \* its state path
    book,       \* the positions of its engine
    files,      \* the snapshot files
    disk,       \* what of them a power loss cannot take any more
    held,       \* tokens really held: there is one wallet, whatever the path
    unsaved,    \* history: tokens traded since the book was saved or loaded
    stale       \* history: tokens of which a file may say something untrue:
                \* really traded after it was saved and the run died, traded
                \* by a run on the other path, saved by a run that does not
                \* send, removed by the operator or taken by a power loss

bootVars == <<kind, path, book, files, disk, held, unsaved, stale>>

BootInit ==
    /\ kind = "down"
    /\ path = "live_state"
    /\ book = Flat
    /\ files = [p \in Paths |-> [state |-> "missing", book |-> Flat]]
    /\ disk = files
    /\ held = {}
    /\ unsaved = {}
    /\ stale = [p \in Paths |-> {}]

-----------------------------------------------------------------------------
(* The checks of a boot, on its settings and the services it finds         *)

Settings ==
    [ mode : {"paper", "live"},         \* HFM_MODE
      knobs : BOOLEAN,                  \* every other value is in its range
      solUsd : BOOLEAN,                 \* HFM_SOL_USD > 0
      hfmKey : {"blank", "bad", "good"},    \* HFM_SECRET_KEY
      key : {"blank", "bad", "good"},       \* SECRET_KEY
      dsn : BOOLEAN,                    \* HFM_PG_DSN is set
      database : BOOLEAN,               \* Postgres answers
      replay : BOOLEAN,                 \* a replay file, by argument or setting
      soak : BOOLEAN,                   \* HFM_SOAK_WS_URL is set
      simulate : BOOLEAN,               \* HFM_SIMULATE_ONLY
      rpc : BOOLEAN,                    \* an RPC endpoint gives a blockhash
      state : {"default"} \cup Paths ]  \* HFM_STATE_PATH

Live(s) == s.mode = "live"

\* Config::validate.
ConfigValid(s) == s.knobs /\ (Live(s) => s.solUsd)

\* load_keypair_opt: the first variable that is not blank, never the other.
LoadedKey(s) == IF s.hfmKey # "blank" THEN s.hfmKey ELSE s.key

\* The mirror is optional; one that is asked for must be built in, and a dead
\* one is fatal to a live boot only.
MirrorAccepted(s) == s.dsn => PgBuilt /\ (Live(s) => s.database)

\* armed_with_signer, after the refusal of a replay and the RPC self-check.
LiveArmed(s) == ~s.replay /\ LoadedKey(s) = "good" /\ s.rpc /\ s.solUsd

Shadow(s) == ~Live(s) /\ ~s.replay /\ s.soak

\* The loop needs its stream and a rate.
LoopReady(s) == Live(s) \/ Shadow(s) => s.soak /\ s.solUsd

Accepted(s) ==
    /\ ConfigValid(s)
    /\ LoadedKey(s) # "bad"
    /\ MirrorAccepted(s)
    /\ Live(s) => LiveArmed(s)
    /\ LoopReady(s)

KindOf(s) ==
    CASE Live(s) /\ ~s.simulate -> "send"
      [] Live(s) /\ s.simulate -> "simulate"
      [] Shadow(s) -> "shadow"
      [] s.replay -> "replay"
      [] OTHER -> "idle"

\* The default path depends on shadow only.
StatePath(s) ==
    IF s.state # "default" THEN s.state
    ELSE IF Shadow(s) THEN "shadow_state" ELSE "live_state"

\* The runs that some settings lead to.
Startable == {<<KindOf(s), StatePath(s)>> : s \in {t \in Settings : Accepted(t)}}

\* Mutant: live mode starts flat, as paper does, when the snapshot is no good.
SnapshotTolerated(k, snap) == TRUE

\* Live mode refuses a snapshot it cannot read or that fails the money
\* invariants; paper starts flat.
SnapshotUsable(k, snap) ==
    k \in {"send", "simulate"} => snap.state \in {"missing", "good"}

\* The tokens of which two books say something else.
Differ(b, c) == {m \in Mints : b[m] # c[m]}

Start(k, p) ==
    /\ kind = "down"
    /\ SnapshotUsable(k, files[p])
    /\ kind' = k
    /\ path' = p
    /\ book' = IF files[p].state = "good" THEN files[p].book ELSE Flat
    /\ unsaved' = Differ(book', files[p].book)
    /\ UNCHANGED <<files, disk, held, stale>>

-----------------------------------------------------------------------------
(* A run                                                                   *)

Trading == kind \notin {"down", "idle"}
Sending == kind = "send"

\* A real trade: no file but the one of this run will hear of it.
Untold(m) == [p \in Paths |-> IF p = path THEN stale[p] ELSE stale[p] \cup {m}]

\* A buy fills: really, or by quote or paper arithmetic.  One of a token that
\* was not held leaves the wallet as the book says.
BuyFills(m) ==
    /\ Trading
    /\ book[m] = "none"
    /\ book' = [book EXCEPT ![m] = IF Sending THEN "real" ELSE "simulated"]
    /\ unsaved' = unsaved \cup {m}
    /\ IF Sending
       THEN /\ held' = held \cup {m}
            /\ stale' = IF m \in held THEN Untold(m)
                        ELSE [Untold(m) EXCEPT ![path] = @ \ {m}]
       ELSE UNCHANGED <<held, stale>>
    /\ UNCHANGED <<kind, path, files, disk>>

\* An exit fills; nothing can really be sold that the wallet does not hold, and
\* of a token that was bought twice the exit sells what this book knows.
ExitFills(m) ==
    /\ Trading
    /\ book[m] # "none"
    /\ book' = [book EXCEPT ![m] = "none"]
    /\ unsaved' = unsaved \cup {m}
    /\ IF Sending
       THEN /\ m \in held
            /\ \/ held' = held \ {m}
               \/ m \in stale[path] /\ held' = held
            /\ stale' = Untold(m)
       ELSE UNCHANGED <<held, stale>>
    /\ UNCHANGED <<kind, path, files, disk>>

\* What a file or a dying run leaves untold.
StaleHere(tokens) == [stale EXCEPT ![path] = @ \cup tokens]

Saved ==
    /\ files' = [files EXCEPT ![path] = [state |-> "good", book |-> book]]
    /\ stale' = IF Sending THEN stale ELSE StaleHere(unsaved)

Saves == kind \in {"send", "simulate", "shadow"}

\* The loop's checkpoint.  A replay saves nothing.
Checkpoint ==
    /\ Saves
    /\ Saved
    /\ unsaved' = {}
    /\ UNCHANGED <<kind, path, book, disk, held>>

Lost == IF Sending THEN StaleHere(unsaved) ELSE stale

\* The process is gone, with its book and its settings.
Gone ==
    /\ kind' = "down"
    /\ book' = Flat
    /\ unsaved' = {}
    /\ path' = "live_state"
    /\ UNCHANGED held

\* The run ends: its loop saves last, which may fail.
Finish ==
    /\ kind # "down"
    /\ Gone
    /\ \/ Saves /\ Saved
       \/ stale' = Lost /\ UNCHANGED files
    /\ UNCHANGED disk

\* The kernel writes a snapshot out: save_state renames it and never syncs.
Flush(p) ==
    /\ disk[p] # files[p]
    /\ disk' = [disk EXCEPT ![p] = files[p]]
    /\ UNCHANGED <<kind, path, book, files, held, unsaved, stale>>

\* What a power loss can make of a file that has not reached the disk: the file,
\* the one before it, or an empty or torn one.
AfterPowerLoss(p) ==
    {files[p], disk[p]} \cup
        IF files[p] # disk[p] /\ files[p].state # "missing"
        THEN {[files[p] EXCEPT !.state = "unreadable"]} ELSE {}

\* The machine goes down.
PowerLoss ==
    /\ Gone
    /\ files' \in [Paths -> UNION {AfterPowerLoss(p) : p \in Paths}]
    /\ \A p \in Paths : files'[p] \in AfterPowerLoss(p)
    /\ disk' = files'
    /\ stale' = [p \in Paths |->
                    Lost[p] \cup Differ(files'[p].book, files[p].book)]

\* Between runs the operator removes a snapshot.
RemoveSnapshot(p) ==
    /\ kind = "down"
    /\ files[p].state # "missing"
    /\ files' = [files EXCEPT ![p] = [state |-> "missing", book |-> Flat]]
    /\ stale' = [stale EXCEPT ![p] = @ \cup Differ(files[p].book, Flat)]
    /\ UNCHANGED <<kind, path, book, disk, held, unsaved>>

\* A book is consistent with the equity it was started from, and with no other.
OtherEquity(snap) ==
    [snap EXCEPT !.state = CASE @ = "good" -> "inconsistent"
                             [] @ = "inconsistent" -> "good"
                             [] OTHER -> @]

\* Between runs the operator sets HFM_EQUITY_USD to the other of two amounts.
ChangeEquity ==
    /\ kind = "down"
    /\ files' = [p \in Paths |-> OtherEquity(files[p])]
    /\ disk' = [p \in Paths |-> OtherEquity(disk[p])]
    /\ UNCHANGED <<kind, path, book, held, unsaved, stale>>

BootNext ==
    \/ \E run \in Startable : Start(run[1], run[2])
    \/ \E m \in Mints : BuyFills(m) \/ ExitFills(m)
    \/ Checkpoint \/ Finish \/ PowerLoss
    \/ \E p \in Paths : Flush(p) \/ RemoveSnapshot(p)
    \/ ChangeEquity

BootSpec == BootInit /\ [][BootNext]_bootVars
-----------------------------------------------------------------------------
(* Correctness                                                             *)

BootTypeOK ==
    /\ kind \in Kinds
    /\ path \in Paths
    /\ book \in Book
    /\ files \in [Paths -> Snapshots]
    /\ disk \in [Paths -> Snapshots]
    /\ held \subseteq Mints
    /\ unsaved \subseteq Mints
    /\ stale \in [Paths -> SUBSET Mints]

InBook == {m \in Mints : book[m] # "none"}

\* What a book says of a token is true of the wallet.
IsTrue(b, m) == b[m] = IF m \in held THEN "real" ELSE "none"

\* "Starting FLAT while real positions may be open risks double-entering"
\* (main.rs:169-170): through restarts, torn and refused snapshots, a changed
\* equity and runs in other modes, a run that sends has every token it really
\* holds in its book, as a real position, and no other, but for the tokens of
\* which its file could not tell the truth: see stale, token by token.
BookIsReal == Sending => \A m \in Mints \ stale[path] : IsTrue(book, m)

-----------------------------------------------------------------------------
(* Statements of comments; a run refutes the first                         *)

\* live.rs:1372-1373: "a simulated fill must never be mistaken for a fill": no
\* run that sends has a simulated position in the book it trades on.
SimulatedNeverMistaken == Sending => \A m \in Mints : book[m] # "simulated"

\* main.rs:169-170 taken at its word: a run that sends never starts flat, nor
\* goes on, over tokens it really holds.  The boot looks at the file of its
\* path only: another HFM_STATE_PATH, a removed file or a power loss refute it.
NeverFlatOverHeld == Sending => held \subseteq InBook

\* "The file at path is either the previous complete snapshot or the new
\* complete one - never a torn write" (persist.rs:122-125), which holds when
\* the process dies but not when the machine does.
NeverTorn == \A p \in Paths : files[p].state # "unreadable"
=============================================================================
