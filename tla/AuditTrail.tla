----------------------------- MODULE AuditTrail -----------------------------
(***************************************************************************)
(* The audit trail: AuditLog of src/persist.rs, which writes JSON lines,   *)
(* and the Postgres mirror of src/pg_audit.rs, which AuditLog::append      *)
(* feeds first.  The mirror's channel is bounded; its worker inserts one   *)
(* record at a time and never retries.  The engine ignores a failed append.*)
(*                                                                         *)
(* A record is its place in the order of the appends.  A line of the file  *)
(* is ended when its newline was written; the next append goes on where    *)
(* the file stops.                                                         *)
(***************************************************************************)
EXTENDS Naturals, Sequences, FiniteSets, SequencesExt

CONSTANTS
    MirrorDepth,    \* MIRROR_CHANNEL_DEPTH
    MaxAppends,     \* bound: records
    MaxAuditLives   \* bound: processes

ASSUME AuditTrailAssumption ==
    /\ MirrorDepth \in Nat
    /\ MaxAppends \in Nat
    /\ MaxAuditLives \in Nat

VARIABLES
    auditLife,  \* number of the running process
    mirror,     \* the mirror is attached
    channel,    \* records queued for the worker
    inserting,  \* the record of the INSERT under way: at most one
    rows,       \* the table, in the order of its ids
    dropped,    \* records dropped since boot
    trail,      \* the pieces of the file
    appended,   \* history: records appended so far
    born,       \* history: records of earlier processes
    acked,      \* history: records whose append returned Ok
    miscounted  \* history: rows of this process counted as dropped

auditVars == <<auditLife, mirror, channel, inserting, rows, dropped, trail,
               appended, born, acked, miscounted>>
file == <<trail, acked>>

AuditInit ==
    /\ auditLife = 1
    /\ mirror \in BOOLEAN
    /\ channel = <<>>
    /\ inserting = <<>>
    /\ rows = <<>>
    /\ dropped = 0
    /\ trail = <<>>
    /\ appended = 0
    /\ born = 0
    /\ acked = {}
    /\ miscounted = {}

-----------------------------------------------------------------------------
(* Appending                                                               *)

\* PgMirror::log: queue, or drop and count.
Log(rec) ==
    IF ~mirror THEN UNCHANGED <<channel, dropped>>
    ELSE IF Len(channel) < MirrorDepth
    THEN channel' = Append(channel, rec) /\ dropped' = dropped
    ELSE dropped' = dropped + 1 /\ channel' = channel

\* Mutant: a write cut short is taken for a whole one.
ShortWriteTaken(rec) ==
    \E ended \in BOOLEAN :
        /\ trail' = Append(trail, [rec |-> rec, ended |-> ended])
        /\ acked' = acked \cup {rec}

\* The line is written; or it is cut short (a full disk); or nothing is.
Write(rec) ==
    \/ /\ trail' = Append(trail, [rec |-> rec, ended |-> TRUE])
       /\ acked' = acked \cup {rec}
    \/ trail' = Append(trail, [rec |-> rec, ended |-> FALSE]) /\ acked' = acked
    \/ UNCHANGED <<trail, acked>>

\* AuditLog::append: the mirror first, then the file.
AppendRecord ==
    /\ appended < MaxAppends
    /\ appended' = appended + 1
    /\ Log(appended')
    /\ Write(appended')
    /\ UNCHANGED <<auditLife, mirror, inserting, rows, born, miscounted>>

-----------------------------------------------------------------------------
(* The worker and the process                                              *)

TakeRecord ==
    /\ inserting = <<>>
    /\ channel # <<>>
    /\ inserting' = <<Head(channel)>>
    /\ channel' = Tail(channel)
    /\ UNCHANGED <<auditLife, mirror, rows, dropped, appended, born, miscounted,
                   file>>

InsertDone ==
    /\ inserting # <<>>
    /\ inserting' = <<>>
    /\ rows' = rows \o inserting
    /\ UNCHANGED <<auditLife, mirror, channel, dropped, appended, born,
                   miscounted, file>>

\* Mutant: a failed INSERT is queued again.
InsertRetried ==
    /\ inserting # <<>>
    /\ inserting' = <<>>
    /\ channel' = channel \o inserting
    /\ UNCHANGED <<auditLife, mirror, rows, dropped, appended, born, miscounted,
                   file>>

\* The INSERT fails, or its answer is lost after it was done: counted, never
\* tried again.
InsertFails ==
    /\ inserting # <<>>
    /\ inserting' = <<>>
    /\ \/ rows' = rows /\ miscounted' = miscounted
       \/ rows' = rows \o inserting
          /\ miscounted' = miscounted \cup ToSet(inserting)
    /\ dropped' = dropped + 1
    /\ UNCHANGED <<auditLife, mirror, channel, appended, born, file>>

\* The process ends, perhaps inside a write, and another one starts.  What was
\* queued is lost and the count begins again; an INSERT under way may be done.
\* A dead database refuses a live boot, and a paper boot goes on without.
AuditRestart(cut) ==
    /\ auditLife < MaxAuditLives
    /\ auditLife' = auditLife + 1
    /\ mirror' \in BOOLEAN
    /\ channel' = <<>>
    /\ inserting' = <<>>
    /\ rows' \in {rows, rows \o inserting}
    /\ dropped' = 0
    /\ miscounted' = {}
    /\ IF cut
       THEN /\ appended < MaxAppends
            /\ appended' = appended + 1
            /\ trail' = Append(trail, [rec |-> appended', ended |-> FALSE])
       ELSE UNCHANGED <<appended, trail>>
    /\ born' = appended'
    /\ UNCHANGED acked

AuditNext ==
    \/ AppendRecord
    \/ TakeRecord \/ InsertDone \/ InsertFails
    \/ \E cut \in BOOLEAN : AuditRestart(cut)

AuditSpec == AuditInit /\ [][AuditNext]_auditVars
-----------------------------------------------------------------------------
(* Correctness                                                             *)

Piece == [rec : Nat, ended : BOOLEAN]

AuditTypeOK ==
    /\ auditLife \in Nat
    /\ mirror \in BOOLEAN
    /\ channel \in Seq(Nat) /\ Len(channel) <= MirrorDepth
    /\ inserting \in Seq(Nat) /\ Len(inserting) <= 1
    /\ rows \in Seq(Nat)
    /\ dropped \in Nat
    /\ trail \in Seq(Piece)
    /\ appended \in Nat
    /\ born \in 0 .. appended
    /\ acked \subseteq 1 .. appended
    /\ miscounted \subseteq 1 .. appended

Increasing(s) == \A i, j \in DOMAIN s : i < j => s[i] < s[j]

Missing == {r \in born + 1 .. appended : r \notin ToSet(rows)}

\* The count of dropped records (pg_audit.rs:151-152) is exact but for the
\* INSERTs whose answer was lost: it is the records of this process that the
\* table lacks and that are not under way, and those.  The table never has a
\* record twice, nor one behind a later one (pg_audit.rs:171-172), across
\* crashes and lost answers.
MirrorAccounts ==
    /\ Increasing(rows)
    /\ mirror => dropped + Len(channel) + Len(inserting)
                    = Cardinality(Missing) + Cardinality(miscounted)

\* A reader of JSON lines gets a record when its line is ended and begins at
\* the start of a line.
Readable(r) ==
    \E i \in DOMAIN trail :
        /\ trail[i].rec = r
        /\ trail[i].ended
        /\ i > 1 => trail[i - 1].ended

Torn == {i \in DOMAIN trail : ~trail[i].ended}
Unreadable == {r \in acked : ~Readable(r)}

\* What failed and interrupted writes cost (persist.rs:87-96): a record whose
\* append returned Ok is unreadable only if it is the first one since a torn
\* line, which it continues, and each torn line costs one such record at most.
TornLinesCost ==
    /\ Cardinality(Unreadable) <= Cardinality(Torn)
    /\ \A r \in Unreadable :
           \E t \in Torn :
              /\ trail[t].rec < r
              /\ \A q \in acked : ~(trail[t].rec < q /\ q < r)

-----------------------------------------------------------------------------
(* Statements of the comments that the code does not keep                  *)

\* pg_audit.rs:151-152: "a nonzero count means the mirror diverged".  Refuted
\* by an INSERT that is done and whose answer is lost; no run checks it.
NonzeroMeansDiverged == mirror /\ dropped > 0 => Missing # {}

\* persist.rs:51-52: "a crash never loses the trail".  Refuted by a write cut
\* short by a crash or a full disk: the next append continues its line, and is
\* lost to a reader with it.  No run checks it.
CrashKeepsTrail == Unreadable = {}

\* pg_audit.rs:145, 178: a record that the mirror dropped is in the file, "JSONL
\* still complete".  Refuted by an append that failed after the mirror was
\* told; no run checks it.
DroppedIsInFile ==
    mirror /\ dropped > 0 /\ channel = <<>> /\ inserting = <<>>
        => \A r \in Missing : Readable(r)
=============================================================================
