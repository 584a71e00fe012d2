------------------------------ MODULE DiskStore ------------------------------
(***************************************************************************)
(* The disk-backed store (crates/core-store/src/disk.rs): a redb file, a     *)
(* write-ahead journal beside it, and the steps at which the process may die *)
(* or the machine lose power.  Each operation holds the store's mutex, so    *)
(* operations do not interleave; a step ends where a crash would leave a     *)
(* different disk.                                                           *)
(*                                                                          *)
(* redb keeps non-durable commits in the process: `visible` is what readers  *)
(* of the running process see, `durable` what the file holds.  The journal   *)
(* file has contents (`journal`) and a part known to be on stable storage    *)
(* (`synced`).                                                               *)
(***************************************************************************)
EXTENDS Integers, Sequences, FiniteSets

CONSTANTS
    Keys, Values, Absent,
    Mutations,      \* what a commit may write: functions from keys to values
    JournalOptions, \* the values of options.journal a store may be run with
    Durabilities,   \* the values of options.durability an open may use
    IndexOptions,   \* the values of options.field_indexes an open may use
    TornFrames,     \* the frames a power cut may leave after the last whole one
    MaxCommits      \* bound on commits attempted

None == -1
Contents == [Keys -> Values \cup {Absent}]
NoDocuments == [k \in Keys |-> Absent]

ASSUME KeysAssumption == IsFiniteSet(Keys)
ASSUME AbsentAssumption == Absent \notin Values
ASSUME MutationsAssumption ==
    \A m \in Mutations : DOMAIN m \subseteq Keys /\ \A k \in DOMAIN m : m[k] \in Values \cup {Absent}
ASSUME OptionsAssumption ==
    /\ JournalOptions \subseteq BOOLEAN
    /\ Durabilities \subseteq {"PerCommit", "WriteBehind"}
    /\ IndexOptions \subseteq BOOLEAN
    /\ MaxCommits \in Nat

VARIABLES
    pc,                \* the step the holder of the mutex is at
    options,           \* the options of the current open
    revision, last_commit_time, usage,       \* memory: State
    requires_restart, unflushed, redb_failed,
    serving,           \* start-up is over: bulk loads happen before it
    draft,             \* what a note writer has read: a set of at most one note
    visible, durable,  \* redb
    journal, synced,   \* the journal's frames, and those on stable storage
    pending,           \* the record of the commit, or frames still to replay
    index_valid,       \* decided before replay
    staged,            \* redb contents under an open bulk transaction
    clock,             \* commits attempted so far: the time of the last one
    history,           \* ghost: the contents every revision was to leave
    owed, safe         \* ghosts: see below

memory == <<revision, last_commit_time, usage>>
flags == <<options, requires_restart, unflushed, redb_failed, serving, draft>>
files == <<visible, durable, journal, synced>>
ghosts == <<history, owed, safe>>
vars == <<pc, memory, flags, files, pending, index_valid, staged, clock, ghosts>>

(***************************************************************************)
(* What redb holds after a transaction.                                     *)
(***************************************************************************)

ApplyTo(docs, m) == [k \in Keys |-> IF k \in DOMAIN m THEN m[k] ELSE docs[k]]
Present(docs) == Cardinality({k \in Keys : docs[k] # Absent})

\* The index entries of a written document: the ones of the stored document it
\* replaces go, its own come.  Entries of any other version stay.
IndexAfter(index, docs, m) ==
    [k \in Keys |-> IF k \notin DOMAIN m THEN index[k]
                    ELSE (index[k] \ {docs[k]}) \cup ({m[k]} \ {Absent})]

apply_mutations(db, m, indexed) ==
    [db EXCEPT !.docs = ApplyTo(db.docs, m),
               !.index = IF indexed THEN IndexAfter(db.index, db.docs, m) ELSE db.index]

\* A mutant: the index is stamped even where it is not maintained.
StampsAlways(db, rev, time, indexed, count) ==
    [db EXCEPT !.revision = rev,
               !.time = time,
               !.index_revision = rev,
               !.usage = IF count = None THEN db.usage ELSE count,
               !.usage_revision = IF count = None THEN db.usage_revision ELSE rev]

\* count is the documents' figure, or None to leave the saved one.
persist_state(db, rev, time, indexed, count) ==
    [db EXCEPT !.revision = rev,
               !.time = time,
               !.index_revision = IF indexed THEN rev ELSE db.index_revision,
               !.usage = IF count = None THEN db.usage ELSE count,
               !.usage_revision = IF count = None THEN db.usage_revision ELSE rev]

persist_record(db, record, indexed, count) ==
    persist_state(apply_mutations(db, record.mutations, indexed),
                  record.revision, record.time, indexed, count)

saved_usage(db) == IF db.usage_revision = db.revision THEN db.usage ELSE None
field_index_valid(db) == db.index_revision = db.revision

\* The documents' figure after a record, from the one before it.
usage_after_record(docs, before, m) ==
    IF before = None THEN None
    ELSE before - Present(docs) + Present(ApplyTo(docs, m))

(***************************************************************************)
(* Ghosts.  history[r] is what the last commit attempted as revision r was   *)
(* to leave.  owed is the newest revision a reopened store must still have;  *)
(* safe the newest one that a power cut may not take.                        *)
(***************************************************************************)

Attempt(rev, docs) ==
    history' = [r \in 0..rev |-> IF r = rev THEN docs ELSE history[r]]

(***************************************************************************)
(* Ordinary commits: journal, then redb, then memory.                       *)
(***************************************************************************)

Idle == pc = "idle" /\ ~redb_failed
PerCommit == options.durability = "PerCommit"

NextRecord(m) == [revision |-> revision + 1, time |-> clock + 1, mutations |-> m]

\* A commit is planned and appended to the journal; per-commit durability syncs
\* the frame as well.
CommitAppend(m) ==
    /\ Idle /\ serving /\ ~requires_restart
    /\ clock < MaxCommits
    /\ clock' = clock + 1
    /\ pending' = <<NextRecord(m)>>
    /\ journal' = IF options.journal THEN Append(journal, NextRecord(m)) ELSE journal
    /\ synced' = IF options.journal /\ PerCommit THEN journal' ELSE synced
    /\ Attempt(revision + 1, ApplyTo(visible.docs, m))
    /\ pc' = "append"
    /\ UNCHANGED <<memory, flags, visible, durable, index_valid, staged, owed, safe>>

\* The append fails: nothing of the frame, or all of it where only the sync
\* failed, is in the file.  A cut-short frame reads as none.
CommitAppendFails(m) ==
    /\ Idle /\ serving /\ ~requires_restart /\ options.journal
    /\ clock < MaxCommits
    /\ clock' = clock + 1
    /\ journal' \in {journal} \cup (IF PerCommit THEN {Append(journal, NextRecord(m))} ELSE {})
    /\ requires_restart' = TRUE
    /\ Attempt(revision + 1, ApplyTo(visible.docs, m))
    /\ UNCHANGED <<pc, memory, options, unflushed, redb_failed, serving, draft, visible, durable,
                   synced, pending, index_valid, staged, owed, safe>>

\* The record reaches redb, the memory state is installed and the commit is
\* acknowledged.
CommitPersist ==
    LET record == pending[1]
        count == usage_after_record(visible.docs, usage, record.mutations)
    IN  /\ pc = "append"
        /\ visible' = persist_record(visible, record, options.field_indexes, count)
        /\ durable' = IF PerCommit THEN visible' ELSE durable
        /\ revision' = record.revision
        /\ last_commit_time' = record.time
        /\ usage' = count
        /\ unflushed' = IF PerCommit THEN unflushed ELSE TRUE
        /\ owed' = IF options.journal \/ PerCommit THEN record.revision ELSE owed
        /\ safe' = IF PerCommit THEN record.revision ELSE safe
        /\ pending' = <<>>
        /\ pc' = IF PerCommit /\ options.journal THEN "percommit" ELSE "idle"
        /\ UNCHANGED <<options, requires_restart, redb_failed, serving, draft, journal, synced,
                       index_valid, staged, clock, history>>

\* A mutant: the store is not fenced.
PersistFailsUnfenced ==
    /\ pc = "append"
    /\ durable' = durable
    /\ pending' = <<>>
    /\ pc' = "idle"
    /\ UNCHANGED <<memory, flags, visible, journal, synced, index_valid, staged, clock, ghosts>>

\* The write fails and the store is fenced.  redb refuses further work where
\* its commit failed, and a durable commit may have reached the file.
CommitPersistFails ==
    LET record == pending[1]
        count == usage_after_record(visible.docs, usage, record.mutations)
        written == persist_record(visible, record, options.field_indexes, count)
    IN  /\ pc = "append"
        /\ redb_failed' \in BOOLEAN
        /\ durable' \in {durable} \cup (IF redb_failed' /\ PerCommit THEN {written} ELSE {})
        /\ requires_restart' = TRUE
        /\ pending' = <<>>
        /\ pc' = "idle"
        /\ UNCHANGED <<memory, options, unflushed, serving, draft, visible, journal, synced,
                       index_valid, staged, clock, ghosts>>

\* Journal::checkpoint: the file is cut to nothing, then synced.
Truncate(at, next) ==
    /\ pc = at
    /\ journal' = <<>>
    /\ pc' = next
    /\ UNCHANGED <<memory, flags, visible, durable, synced, pending, index_valid, staged,
                   clock, ghosts>>

\* The checkpoint after a per-commit write; its failure is ignored.
PerCommitTruncate == Truncate("percommit", "percommit_truncated")

PerCommitCheckpointDone ==
    /\ pc \in {"percommit", "percommit_truncated"}
    /\ synced' = IF pc = "percommit" THEN synced ELSE journal
    /\ pc' = "idle"
    /\ UNCHANGED <<memory, flags, visible, durable, journal, pending, index_valid, staged,
                   clock, ghosts>>

(***************************************************************************)
(* The flusher, DiskStore::flush and close.                                  *)
(***************************************************************************)

FlushBegin ==
    /\ Idle /\ unflushed /\ ~requires_restart
    /\ pc' = "flush"
    /\ UNCHANGED <<memory, flags, files, pending, index_valid, staged, clock, ghosts>>

FlushSync ==
    /\ pc = "flush"
    /\ synced' = IF options.journal THEN journal ELSE synced
    /\ pc' = "flush_synced"
    /\ UNCHANGED <<memory, flags, visible, durable, journal, pending, index_valid, staged,
                   clock, ghosts>>

\* A mutant: the flush's redb commit is not durable.
FlushPersistsNothing ==
    /\ pc = "flush_synced"
    /\ visible' = persist_state(visible, revision, last_commit_time,
                                options.field_indexes, usage)
    /\ durable' = durable
    /\ pc' = "flush_persisted"
    /\ UNCHANGED <<memory, flags, journal, synced, pending, index_valid, staged, clock, ghosts>>

\* persist_state_durably: an empty durable commit carries every earlier one.
FlushPersist ==
    /\ pc = "flush_synced"
    /\ visible' = persist_state(visible, revision, last_commit_time,
                                options.field_indexes, usage)
    /\ durable' = visible'
    /\ pc' = "flush_persisted"
    /\ UNCHANGED <<memory, flags, journal, synced, pending, index_valid, staged, clock, ghosts>>

FlushTruncate == options.journal /\ Truncate("flush_persisted", "flush_truncated")

\* A mutant: the flag that asks for a flush is not cleared.
FlushNeverDone ==
    /\ pc = IF options.journal THEN "flush_truncated" ELSE "flush_persisted"
    /\ synced' = IF options.journal THEN journal ELSE synced
    /\ owed' = revision
    /\ safe' = revision
    /\ pc' = "idle"
    /\ UNCHANGED <<memory, flags, visible, durable, journal, pending, index_valid, staged,
                   clock, history>>

FlushDone ==
    /\ pc = IF options.journal THEN "flush_truncated" ELSE "flush_persisted"
    /\ synced' = IF options.journal THEN journal ELSE synced
    /\ unflushed' = FALSE
    /\ owed' = revision
    /\ safe' = revision
    /\ pc' = "idle"
    /\ UNCHANGED <<memory, options, requires_restart, redb_failed, serving, draft, visible, durable,
                   journal, pending, index_valid, staged, clock, history>>

\* Any step may fail: the store is fenced until it is reopened.  A failed redb
\* commit may have reached the file.
FlushFails ==
    LET written == persist_state(visible, revision, last_commit_time,
                                 options.field_indexes, usage)
    IN  /\ pc \in {"flush", "flush_synced", "flush_persisted", "flush_truncated"}
        /\ redb_failed' \in {FALSE, pc = "flush_synced"}
        /\ durable' \in {durable} \cup (IF redb_failed' THEN {written} ELSE {})
        /\ requires_restart' = TRUE
        /\ pc' = "idle"
        /\ UNCHANGED <<memory, options, unflushed, serving, draft, visible, journal, synced,
                       pending, index_valid, staged, clock, ghosts>>

(***************************************************************************)
(* Notes: a reader's record of the data at one revision.                    *)
(***************************************************************************)

\* A writer takes a snapshot and, later, hands in the note it made of it.
DraftNote ==
    /\ Idle /\ serving
    /\ draft' = {[revision |-> revision, docs |-> visible.docs]}
    /\ UNCHANGED <<pc, memory, options, requires_restart, unflushed, redb_failed, serving,
                   files, pending, index_valid, staged, clock, ghosts>>

\* Nothing is saved once a commit has moved the store past the note's revision.
\* The durable transaction carries every earlier commit with it.
save_note ==
    \E n \in draft :
      /\ Idle
      /\ visible' = IF n.revision # revision THEN visible ELSE [visible EXCEPT !.note = n]
      /\ durable' = IF n.revision # revision THEN durable ELSE visible'
      /\ draft' = {}
      /\ UNCHANGED <<pc, memory, options, requires_restart, unflushed, redb_failed, serving,
                     journal, synced, pending, index_valid, staged, clock, ghosts>>

\* The saved note, while the store is at the revision it was saved for.
note == {n.docs : n \in {visible.note} \cap [revision : {revision}, docs : Contents]}

(***************************************************************************)
(* Bulk loads, before serving: every batch in one redb transaction.         *)
(***************************************************************************)

begin_bulk_commit ==
    /\ Idle /\ ~serving /\ ~requires_restart
    /\ staged' = visible
    /\ pc' = "bulk"
    /\ UNCHANGED <<memory, flags, files, pending, index_valid, clock, ghosts>>

BulkCommit(m) ==
    /\ pc = "bulk"
    /\ clock < MaxCommits
    /\ clock' = clock + 1
    /\ staged' = apply_mutations(staged, m, options.field_indexes)
    /\ revision' = revision + 1
    /\ last_commit_time' = clock + 1
    /\ usage' = usage_after_record(staged.docs, usage, m)
    /\ Attempt(revision + 1, ApplyTo(staged.docs, m))
    /\ UNCHANGED <<pc, flags, files, pending, index_valid, owed, safe>>

\* A load without batches aborts its transaction and leaves no trace.
BulkFinish ==
    LET batches == revision - visible.revision
    IN  /\ pc = "bulk"
        /\ visible' = IF batches = 0 THEN visible
                      ELSE persist_state(staged, revision, last_commit_time,
                                         options.field_indexes, usage)
        /\ durable' = IF batches = 0 THEN durable ELSE visible'
        /\ owed' = IF batches = 0 THEN owed ELSE revision
        /\ safe' = IF batches = 0 THEN safe ELSE revision
        /\ pc' = "idle"
        /\ UNCHANGED <<memory, flags, journal, synced, pending, index_valid, staged, clock,
                       history>>

\* The load is dropped, or its final commit fails and may have reached the file.
BulkAbandon ==
    LET batches == revision - visible.revision
    IN  /\ pc = "bulk"
        /\ durable' \in {durable} \cup
             (IF batches = 0 THEN {}
              ELSE {persist_state(staged, revision, last_commit_time,
                                  options.field_indexes, usage)})
        /\ requires_restart' = (requires_restart \/ batches > 0)
        /\ pc' = "idle"
        /\ UNCHANGED <<memory, options, unflushed, redb_failed, serving, draft, visible, journal,
                       synced, pending, index_valid, staged, clock, ghosts>>

\* Start-up ends and requests are served; a start-up whose load failed does not.
Serve ==
    /\ Idle /\ ~serving /\ ~requires_restart
    /\ serving' = TRUE
    /\ UNCHANGED <<pc, memory, options, requires_restart, unflushed, redb_failed, draft, files,
                   pending, index_valid, staged, clock, ghosts>>

(***************************************************************************)
(* The process dies or the machine loses power; the store is opened again.  *)
(***************************************************************************)

Fresh(j) == [journal |-> j, durability |-> "WriteBehind", field_indexes |-> TRUE]

\* What dies with the process, non-durable redb commits included.
Dies ==
    /\ visible' = durable
    /\ staged' = durable
    /\ options' = Fresh(options.journal)
    /\ revision' = 0 /\ last_commit_time' = 0 /\ usage' = 0
    /\ requires_restart' = FALSE /\ unflushed' = FALSE /\ redb_failed' = FALSE
    /\ serving' = FALSE /\ draft' = {} /\ index_valid' = FALSE
    /\ pending' = <<>>
    /\ pc' = "down"
    /\ UNCHANGED <<durable, clock, history, safe>>

\* The operating system keeps what was written to the journal.
Crash ==
    /\ pc \notin {"down", "corrupt"}
    /\ Dies
    /\ UNCHANGED <<journal, synced, owed>>

IsPrefix(s, t) == Len(s) <= Len(t) /\ SubSeq(t, 1, Len(s)) = s

\* Of an unsynced append a power cut keeps any whole frames and perhaps a torn
\* one; of an unsynced truncation, either side.
Survivors ==
    IF IsPrefix(synced, journal)
    THEN LET kept == {SubSeq(journal, 1, n) : n \in Len(synced)..Len(journal)}
         IN  kept \cup {Append(k, torn) : k \in kept \ {journal}, torn \in TornFrames}
    ELSE {journal, synced}

PowerLoss ==
    /\ pc # "corrupt"
    /\ Dies
    /\ journal' \in Survivors
    /\ synced' = journal'
    /\ owed' = safe

\* close after a flush: everything is durable and the file is dropped.
close ==
    /\ Idle /\ ~unflushed
    /\ Dies
    /\ UNCHANGED <<journal, synced, owed>>

\* open_watched up to the replay: the journal is read, and the index is judged
\* before replay changes the stamps.  A torn frame that is not cut short fails
\* the open.
OpenBegin(o) ==
    /\ pc = "down"
    /\ options' = o
    /\ index_valid' = field_index_valid(visible)
    /\ IF o.journal /\ \E i \in DOMAIN journal : journal[i] \in TornFrames
       THEN pc' = "corrupt" /\ UNCHANGED pending
       ELSE IF o.journal THEN pc' = "replay" /\ pending' = journal
       ELSE pc' = "index" /\ UNCHANGED pending
    /\ owed' = IF o.journal THEN owed ELSE safe
    /\ UNCHANGED <<memory, requires_restart, unflushed, redb_failed, serving, draft, files, staged,
                   clock, history, safe>>

\* A mutant: records redb already holds are not skipped.
ReplayWithoutSkip ==
    LET record == Head(pending)
        follows == /\ record.revision = visible.revision + 1
                   /\ record.time > visible.time
        count == usage_after_record(visible.docs, saved_usage(visible), record.mutations)
    IN  /\ pc = "replay" /\ pending # <<>>
        /\ visible' = IF ~follows THEN visible
                      ELSE persist_record(visible, record,
                                          options.field_indexes /\ index_valid, count)
        /\ durable' = visible'
        /\ pending' = Tail(pending)
        /\ pc' = IF follows THEN "replay" ELSE "corrupt"
        /\ UNCHANGED <<memory, flags, journal, synced, index_valid, staged, clock, ghosts>>

\* replay_records, one durable transaction per record.
replay_records ==
    LET record == Head(pending)
        skip == record.revision <= visible.revision
        follows == /\ record.revision = visible.revision + 1
                   /\ record.time > visible.time
        count == usage_after_record(visible.docs, saved_usage(visible), record.mutations)
    IN  /\ pc = "replay" /\ pending # <<>>
        /\ visible' = IF skip \/ ~follows THEN visible
                      ELSE persist_record(visible, record,
                                          options.field_indexes /\ index_valid, count)
        /\ durable' = visible'
        /\ pending' = Tail(pending)
        /\ pc' = IF skip \/ follows THEN "replay" ELSE "corrupt"
        /\ UNCHANGED <<memory, flags, journal, synced, index_valid, staged, clock, ghosts>>

ReplayTruncate == pending = <<>> /\ Truncate("replay", "truncated")

ReplayCheckpointed ==
    /\ pc = "truncated"
    /\ synced' = journal
    /\ pc' = "index"
    /\ UNCHANGED <<memory, flags, visible, durable, journal, pending, index_valid, staged,
                   clock, ghosts>>

Rebuilds == options.field_indexes /\ ~index_valid

\* A missing or stale index is rebuilt from the documents and stamped.
rebuild_field_index ==
    /\ pc = "index"
    /\ visible' = IF Rebuilds
                  THEN [visible EXCEPT !.index = [k \in Keys |-> {visible.docs[k]} \ {Absent}],
                                       !.index_revision = visible.revision]
                  ELSE visible
    /\ durable' = visible'
    /\ pc' = "load"
    /\ UNCHANGED <<memory, flags, journal, synced, pending, index_valid, staged, clock, ghosts>>

\* load_database and State::from_persisted: the saved figure is used when it is
\* of this revision; otherwise, or after a rebuild, the documents are counted
\* and the figure saved.
load_database ==
    LET count == Present(visible.docs)
        recounted == Rebuilds \/ saved_usage(visible) = None
    IN  /\ pc = "load"
        /\ visible' = IF recounted
                      THEN [visible EXCEPT !.usage = count, !.usage_revision = visible.revision]
                      ELSE visible
        /\ durable' = visible'
        /\ usage' = IF recounted THEN count ELSE saved_usage(visible)
        /\ revision' = visible.revision
        /\ last_commit_time' = visible.time
        /\ history' = [r \in {i \in DOMAIN history : i <= visible.revision} |-> history[r]]
        /\ owed' = visible.revision
        /\ safe' = visible.revision
        /\ pc' = "idle"
        /\ UNCHANGED <<flags, journal, synced, pending, index_valid, staged, clock>>

(***************************************************************************)
(* The specification.                                                       *)
(***************************************************************************)

EmptyRedb ==
    [revision |-> 0, time |-> 0, docs |-> NoDocuments,
     index |-> [k \in Keys |-> {}], index_revision |-> None,
     usage |-> 0, usage_revision |-> None,
     note |-> [revision |-> None, docs |-> NoDocuments]]

\* An empty directory: redb has just been created.
Init ==
    /\ pc = "down" /\ options \in {Fresh(j) : j \in JournalOptions}
    /\ revision = 0 /\ last_commit_time = 0 /\ usage = 0
    /\ requires_restart = FALSE /\ unflushed = FALSE /\ redb_failed = FALSE
    /\ serving = FALSE /\ draft = {} /\ index_valid = FALSE
    /\ visible = EmptyRedb /\ durable = EmptyRedb /\ staged = EmptyRedb
    /\ journal = <<>> /\ synced = <<>> /\ pending = <<>>
    /\ clock = 0
    /\ history = [r \in {0} |-> NoDocuments]
    /\ owed = 0 /\ safe = 0

\* The journal setting stays what it was; the others are chosen at every open.
Open ==
    \E d \in Durabilities, f \in IndexOptions :
        OpenBegin([journal |-> options.journal, durability |-> d, field_indexes |-> f])

Next ==
    \/ \E m \in Mutations : CommitAppend(m) \/ CommitAppendFails(m) \/ BulkCommit(m)
    \/ CommitPersist \/ CommitPersistFails
    \/ PerCommitTruncate \/ PerCommitCheckpointDone
    \/ FlushBegin \/ FlushSync \/ FlushPersist \/ FlushTruncate \/ FlushDone \/ FlushFails
    \/ DraftNote \/ save_note
    \/ begin_bulk_commit \/ BulkFinish \/ BulkAbandon \/ Serve
    \/ Crash \/ PowerLoss \/ close
    \/ Open \/ replay_records \/ ReplayTruncate \/ ReplayCheckpointed
    \/ rebuild_field_index \/ load_database

Spec == Init /\ [][Next]_vars

(***************************************************************************)
(* Properties.                                                              *)
(***************************************************************************)

Ready == pc = "idle" /\ ~requires_restart

\* An open store shows exactly what its revision was to leave, whichever
\* crashes, power cuts, failed steps and replays came before: never part of a
\* commit, never a mixture of two lineages.
ShowsItsRevision ==
    Ready => /\ revision \in DOMAIN history
             /\ visible.revision = revision
             /\ visible.docs = history[revision]

\* Opening recovers every revision owed: all acknowledged commits after a
\* process crash with the journal on, all flushed ones after a power cut or
\* without the journal.
RecoversWhatIsOwed ==
    [][pc = "load" /\ pc' = "idle" => revision' >= owed]_vars

\* The journal left behind always continues the redb file it is replayed onto,
\* so no legal history makes an open fail as corrupt.
NeverCorrupt == pc # "corrupt"

\* What DESIGN.md says of a power cut: framing and checksums end replay at a
\* torn tail, so the store opens.
ReplayEndsAtTornTail == pc # "corrupt"

\* Queries that use the field index see the documents: every entry is one of
\* the stored documents and none is missing, through crashes, replays, bulk
\* loads and opens with the index turned off.
IndexMatches ==
    Ready /\ options.field_indexes =>
        \A k \in Keys : visible.index[k] = {visible.docs[k]} \ {Absent}

\* The documents' figure follows every commit and replay without a recount.
UsageExact == Ready => usage = Present(visible.docs)

\* A note is returned only for the data it was made from.
NotesFresh == Ready /\ serving => note \subseteq {visible.docs}

\* What is kept beside the documents says what the documents say: the index,
\* the figure that is never recounted and the notes, whatever crashed or was
\* turned off in between (persist_state, usage_after_record, save_note).
DerivedExact == IndexMatches /\ UsageExact /\ NotesFresh

\* The flusher's thread runs, and gets the mutex in the end although commits keep
\* taking it; whoever holds the mutex goes on.
Fairness ==
    /\ SF_vars(FlushBegin)
    /\ WF_vars(FlushSync) /\ WF_vars(FlushPersist) /\ WF_vars(FlushTruncate)
    /\ WF_vars(FlushDone)
    /\ WF_vars(CommitPersist)

FairSpec == Spec /\ Fairness

\* Under write-behind every acknowledged commit is flushed in the end, unless
\* the process dies or the store is fenced.
FlushedEventually ==
    unflushed ~> (~unflushed \/ requires_restart)
=============================================================================
