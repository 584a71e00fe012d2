------------------------------ MODULE MvccStore ------------------------------
(***************************************************************************)
(* The in-memory State of the core store (crates/core-store/src/lib.rs):    *)
(* one atomic commit at a time, a bounded change log from which historical  *)
(* snapshots are rebuilt, and a bounded list of commit points that maps a   *)
(* read time to a revision.  A disk-backed store keeps the same State; its  *)
(* documents live in redb, and opening it starts State::from_persisted,     *)
(* modelled by Reopen.                                                      *)
(*                                                                         *)
(* history and times are ghosts: the documents after every revision and the *)
(* commit time of every revision, whatever the bounded log still retains.   *)
(***************************************************************************)
EXTENDS Naturals, Sequences, FiniteSets

CONSTANTS
    Keys,                 \* document keys
    Values,               \* document contents
    Absent,               \* no document under a key
    Batches,              \* the write sequences a client may commit
    Clock,                \* readings of the system clock, in any order
    MaxChangeLogEntries,  \* options.max_change_log_entries
    MaxReplayVersions,    \* options.max_change_log_logical_bytes, one per version
    MaxRevision           \* the largest revision (u64::MAX in the code)

Times == Nat
Document == [value : Values, create_time : Times, update_time : Times]
Maybe == Document \cup {Absent}
Documents == [Keys -> Maybe]

Precondition ==
    {[kind |-> "None"]}
        \cup [kind : {"Exists"}, exists : BOOLEAN]
        \cup [kind : {"UpdateTime"}, time : Times]

\* Set is a set without transforms; Patch stands for the writes that always
\* produce a new version: a merge, or a set that carries transforms.
Write ==
    [op : {"Create", "Set", "Patch", "Delete", "Verify"},
     key : Keys, value : Values, precondition : Precondition]

ASSUME AbsentAssumption == Absent \notin Document
ASSUME BatchesAssumption == Batches \subseteq Seq(Write)
ASSUME ClockAssumption == Clock \subseteq Times
ASSUME LimitsAssumption ==
    /\ MaxChangeLogEntries \in Nat \ {0}
    /\ MaxReplayVersions \in Nat \ {0}
    /\ MaxRevision \in Nat

VARIABLES
    revision, last_commit_time, documents,
    change_log,       \* sequence of changes, oldest first
    change_floor,     \* the newest revision that lost a change to eviction
    commit_times,     \* sequence of commit points, oldest first
    history_floor,    \* the newest commit point evicted from commit_times
    history, times    \* ghosts, functions on 0..revision

vars == <<revision, last_commit_time, documents, change_log, change_floor,
          commit_times, history_floor, history, times>>

Change == [revision : Nat, key : Keys, before : Maybe, after : Maybe]
CommitPoint == [revision : Nat, commit_time : Times]

TypeOK ==
    /\ revision \in Nat
    /\ last_commit_time \in Times
    /\ documents \in Documents
    /\ change_log \in Seq(Change)
    /\ change_floor \in 0..revision
    /\ commit_times \in Seq(CommitPoint)
    /\ history_floor \in CommitPoint
    /\ history \in [0..revision -> Documents]
    /\ times \in [0..revision -> Times]

(***************************************************************************)
(* Planning a commit.                                                       *)
(***************************************************************************)

\* A mutant: a clock that stands still repeats the last commit time.
RepeatedCommitTime(observed) ==
    IF observed > last_commit_time THEN observed ELSE last_commit_time

\* The observed clock when it moved past the last commit, else one tick later.
next_commit_time(observed) ==
    IF observed > last_commit_time THEN observed ELSE last_commit_time + 1

validate_precondition(document, precondition) ==
    CASE precondition.kind = "None" -> TRUE
      [] precondition.kind = "Exists" ->
            (document # Absent) = precondition.exists
      [] precondition.kind = "UpdateTime" ->
            document # Absent /\ document.update_time = precondition.time

Accepts(write, previous) ==
    IF write.op = "Create" THEN previous = Absent
    ELSE validate_precondition(previous, write.precondition)

\* A new version keeps the creation time of the document it replaces.
NewVersion(write, previous, time) ==
    [value |-> write.value,
     create_time |-> IF previous = Absent THEN time ELSE previous.create_time,
     update_time |-> time]

\* The document after the write.  An identical Set keeps the stored version.
apply_write(write, previous, time) ==
    CASE write.op = "Delete" -> Absent
      [] write.op = "Verify" -> previous
      [] write.op = "Set" /\ previous # Absent /\ previous.value = write.value ->
            previous
      [] OTHER -> NewVersion(write, previous, time)

\* A mutant: a rewrite that leaves the contents alone is not recorded.
PlanStepByValue(plan, write, rev, time) ==
    LET previous == plan.documents[write.key]
        next == apply_write(write, previous, time)
        same == previous = next
                    \/ (previous # Absent /\ next # Absent /\ previous.value = next.value)
    IN  [ok |-> plan.ok /\ Accepts(write, previous),
         documents |-> [plan.documents EXCEPT ![write.key] = next],
         changes |-> IF same THEN plan.changes
                     ELSE Append(plan.changes,
                                 [revision |-> rev, key |-> write.key,
                                  before |-> previous, after |-> next])]

\* The plan after the first i writes of the batch: each write sees the ones
\* before it, and a change is recorded only where the document differs.
PlanStep(plan, write, rev, time) ==
    LET previous == plan.documents[write.key]
        next == apply_write(write, previous, time)
    IN  [ok |-> plan.ok /\ Accepts(write, previous),
         documents |-> [plan.documents EXCEPT ![write.key] = next],
         changes |-> IF previous = next THEN plan.changes
                     ELSE Append(plan.changes,
                                 [revision |-> rev, key |-> write.key,
                                  before |-> previous, after |-> next])]

plan_with_documents(batch, docs, rev, time) ==
    LET plan[i \in 0..Len(batch)] ==
            IF i = 0 THEN [ok |-> TRUE, documents |-> docs, changes |-> <<>>]
            ELSE PlanStep(plan[i - 1], batch[i], rev, time)
    IN  plan[Len(batch)]

(***************************************************************************)
(* Installing a plan: the change log and the commit points are trimmed from *)
(* the front, and the floors remember what was dropped.                     *)
(***************************************************************************)

DropFirst(s, n) == SubSeq(s, n + 1, Len(s))

VersionsOf(change) ==
    {<<change.key, d.update_time>> : d \in {change.before, change.after} \ {Absent}}

\* The distinct document versions the log keeps alive: the key and the update
\* time identify one, and each weighs one unit.
replay_versions(log) == UNION {VersionsOf(log[i]) : i \in DOMAIN log}

Overfull(log) ==
    \/ Len(log) > MaxChangeLogEntries
    \/ Cardinality(replay_versions(log)) > MaxReplayVersions

\* d is the least number of changes whose eviction brings the log in bounds.
Evicts(log, d) ==
    /\ d \in 0..Len(log)
    /\ ~Overfull(DropFirst(log, d))
    /\ \A e \in 0..Len(log) : e < d => Overfull(DropFirst(log, e))

\* Two mutants: eviction that forgets the floor, and one that moves it past
\* the newest change.
PushChangeKeepsFloor(changes) ==
    LET log == change_log \o changes
    IN  \E d \in 0..Len(log) :
          /\ Evicts(log, d)
          /\ change_log' = DropFirst(log, d)
          /\ change_floor' = change_floor

PushChangeFloorPast(changes) ==
    LET log == change_log \o changes
    IN  \E d \in 0..Len(log) :
          /\ Evicts(log, d)
          /\ change_log' = DropFirst(log, d)
          /\ change_floor' = IF d > 0 THEN log[Len(log)].revision + 1 ELSE change_floor

push_change(changes) ==
    LET log == change_log \o changes
    IN  \E d \in 0..Len(log) :
          /\ Evicts(log, d)
          /\ change_log' = DropFirst(log, d)
          /\ change_floor' =
                IF d > 0 /\ log[d].revision > change_floor
                THEN log[d].revision ELSE change_floor

\* A mutant: commit points are trimmed by number only.
ExpiresPointsByNumber(points, floor, p) ==
    /\ p \in 0..Len(points)
    /\ Len(points) - p <= MaxChangeLogEntries
    /\ p > 0 => Len(points) - p = MaxChangeLogEntries

\* p is the least number of commit points whose eviction brings the list in
\* bounds and leaves none at or below the change floor.
ExpiresPoints(points, floor, p) ==
    LET Kept(n) ==
            /\ Len(points) - n <= MaxChangeLogEntries
            /\ n < Len(points) => points[n + 1].revision > floor
    IN  /\ p \in 0..Len(points)
        /\ Kept(p)
        /\ \A n \in 0..Len(points) : n < p => ~Kept(n)

push_commit_point(point) ==
    LET points == Append(commit_times, point)
    IN  \E p \in 0..Len(points) :
          /\ ExpiresPoints(points, change_floor', p)
          /\ commit_times' = DropFirst(points, p)
          /\ history_floor' = IF p = 0 THEN history_floor ELSE points[p]

install(plan, rev, time) ==
    /\ documents' = plan.documents
    /\ revision' = rev
    /\ last_commit_time' = time
    /\ push_change(plan.changes)
    /\ push_commit_point([revision |-> rev, commit_time |-> time])
    /\ history' = [r \in 0..rev |-> IF r = rev THEN plan.documents ELSE history[r]]
    /\ times' = [r \in 0..rev |-> IF r = rev THEN time ELSE times[r]]

(***************************************************************************)
(* Reads.                                                                   *)
(***************************************************************************)

\* The least and the greatest of a set of positions.
Least(S) == CHOOSE i \in S : \A j \in S : i <= j
Greatest(S) == CHOOSE i \in S : \A j \in S : j <= i

\* The positions of the changes to k made after revision r.
Newer(log, r, k) == {i \in DOMAIN log : log[i].revision > r /\ log[i].key = k}

\* Undoing the changes newer than r, newest first, leaves under every key the
\* state before its oldest such change.
historical_overlay(log, docs, r) ==
    [k \in Keys |-> IF Newer(log, r, k) = {} THEN docs[k]
                    ELSE log[Least(Newer(log, r, k))].before]

snapshot_at_revision(r) == historical_overlay(change_log, documents, r)

\* changes_since(r) returns the changes newer than r, in log order: applied in
\* that order, a key ends with its newest change.
Replayed(log, base, r) ==
    [k \in Keys |-> IF Newer(log, r, k) = {} THEN base[k]
                    ELSE log[Greatest(Newer(log, r, k))].after]

\* The revision a read time names: the last retained commit point at or
\* before it, else the floor.
snapshot_at_time(points, floor, t) ==
    LET older == {i \in DOMAIN points : points[i].commit_time <= t}
    IN  IF older = {} THEN floor.revision ELSE points[Greatest(older)].revision

(***************************************************************************)
(* The specification.                                                       *)
(***************************************************************************)

Init ==
    /\ revision = 0
    /\ last_commit_time = 0
    /\ documents = [k \in Keys |-> Absent]
    /\ change_log = <<>>
    /\ change_floor = 0
    /\ commit_times = <<>>
    /\ history_floor = [revision |-> 0, commit_time |-> 0]
    /\ history = [r \in 0..0 |-> documents]
    /\ times = [r \in 0..0 |-> 0]

\* Store::commit: an unacceptable write anywhere in the batch fails the whole
\* commit, and nothing is installed.
commit_from(batch, observed) ==
    LET time == next_commit_time(observed)
        plan == plan_with_documents(batch, documents, revision + 1, time)
    IN  /\ revision < MaxRevision
        /\ plan.ok
        /\ install(plan, revision + 1, time)

\* A disk-backed store is closed and opened again: State::from_persisted
\* starts with empty logs and both floors at the persisted revision.
from_persisted ==
    /\ change_log' = <<>>
    /\ change_floor' = revision
    /\ commit_times' = <<>>
    /\ history_floor' = [revision |-> revision, commit_time |-> last_commit_time]
    /\ UNCHANGED <<revision, last_commit_time, documents, history, times>>

Next ==
    \/ \E batch \in Batches, observed \in Clock : commit_from(batch, observed)
    \/ from_persisted

Spec == Init /\ [][Next]_vars

(***************************************************************************)
(* Properties.                                                              *)
(***************************************************************************)

\* Every revision the change log still covers can be read back exactly:
\* snapshot_at_revision rebuilds the documents that commit left, however many
\* later commits and evictions there were.
SnapshotsExact ==
    \A r \in change_floor..revision : snapshot_at_revision(r) = history[r]

\* What changes_since(r) returns is complete: a listener that starts from the
\* documents of revision r and applies the changes in order holds the current
\* documents.
ChangesComplete ==
    \A r \in change_floor..revision :
        Replayed(change_log, history[r], r) = documents

\* A read time inside the retained window names the newest revision committed
\* at or before it, and that revision is still covered by the change log: a
\* read by time never fails with ResetRequired.
ReadTimesExact ==
    \A t \in {times[r] : r \in 0..revision} \cup {times[r] + 1 : r \in 0..revision} :
        t >= history_floor.commit_time =>
            LET found == snapshot_at_time(commit_times, history_floor, t)
            IN  /\ found \in change_floor..revision
                /\ times[found] <= t
                /\ \A r \in 0..revision : times[r] <= t => r <= found

\* The key and the update time identify a version for good, whatever the clock
\* does: update-time preconditions and the transaction read check rely on it.
VersionsIdentified ==
    \A r, s \in 0..revision, k \in Keys :
        /\ history[r][k] # Absent
        /\ history[s][k] # Absent
        /\ history[r][k].update_time = history[s][k].update_time
        => history[r][k] = history[s][k]

\* What a reader of a revision, and of a read time, is answered, as the window
\* of revisions SnapshotStore promises.
Reads == INSTANCE SnapshotStore WITH
    Contents <- Documents, Empty <- [k \in Keys |-> Absent], newest <- revision,
    answers <- [r \in change_floor..revision |-> snapshot_at_revision(r)],
    stamps <- [r \in history_floor.revision..revision |->
                 IF r = history_floor.revision THEN history_floor.commit_time
                 ELSE commit_times[r - history_floor.revision].commit_time]

\* The store implements SnapshotStore: what it rebuilds from the change log and
\* the commit points for a revision or a read time never changes, however
\* commits, evictions and reopenings go on, until it is refused for good.
ReadsStable == Reads!Spec
=============================================================================
