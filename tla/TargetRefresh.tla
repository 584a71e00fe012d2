---------------------------- MODULE TargetRefresh ----------------------------
(***************************************************************************)
(* One listen target following a store that commits, and the client that    *)
(* applies the batches it emits (WatchTarget of crates/watch-broker).        *)
(* Init ranges over every content of the scope, and a commit writes or       *)
(* deletes any set of its keys.                                              *)
(***************************************************************************)
EXTENDS WatchTarget

CONSTANTS Specs, MaxRevision

VARIABLES
    documents,  \* the store's documents at its latest revision
    revision,   \* that revision
    history,    \* the changes since the target's revision, and whether all are retained
    target,     \* the watch target
    shown,      \* the documents the target's view was last evaluated at
    batch,      \* the changes of the last refresh, in the order they were emitted
    client      \* what a client that applied every batch holds

vars == <<documents, revision, history, target, shown, batch, client>>

Snapshot == [documents |-> documents, revision |-> revision]

\* A client keeps what is upserted and forgets what is deleted or removed.
Applied(view, changes) ==
    LET Apply(n, held) ==
            IF changes[n].kind = "Upsert" THEN With(held, changes[n].key, changes[n].document)
            ELSE Without(held, changes[n].key)
    IN  MapThenFoldSet(Apply, view, LAMBDA n : n, Max, 1..Len(changes))

Init ==
    \E content \in [Keys -> [match : BOOLEAN, order : Orders, update_time : {0}] \cup {Absent}],
       spec \in Specs :
        LET initial == initialize(spec, [documents |-> content, revision |-> 0])
        IN  /\ documents = content /\ shown = content
            /\ revision = 0
            /\ history = [retained |-> TRUE, changes |-> {}]
            /\ target = initial.target
            /\ batch = initial.changes
            /\ client = Applied(<<>>, initial.changes)

\* A write of a commit: the new document or Absent for a delete.
Written(time) == [match : BOOLEAN, order : Orders, update_time : {time}] \cup {Absent}

Commit ==
    /\ revision < MaxRevision
    /\ revision' = revision + 1
    /\ \E written \in SUBSET Keys \ {{}} : \E content \in [written -> Written(revision + 1)] :
        /\ documents' = [k \in Keys |-> IF k \in written THEN content[k] ELSE documents[k]]
        /\ history' = [history EXCEPT !.changes = @ \cup
                           {[key |-> k, revision |-> revision + 1] :
                               k \in {l \in written : documents'[l] # documents[l]}}]
    /\ UNCHANGED <<target, shown, batch, client>>

\* The bounded change log no longer reaches back to the target's revision.
Expire ==
    /\ history.retained /\ history.changes # {}
    /\ history' = [retained |-> FALSE, changes |-> {}]
    /\ UNCHANGED <<documents, revision, target, shown, batch, client>>

Refresh ==
    /\ target.revision < revision
    /\ LET refreshed == refresh_with_changes(target, Snapshot, history)
       IN  /\ target' = refreshed.target
           /\ batch' = refreshed.changes
           /\ client' = Applied(client, refreshed.changes)
    /\ shown' = documents
    /\ history' = [retained |-> TRUE, changes |-> {}]
    /\ UNCHANGED <<documents, revision>>

Next == Commit \/ Expire \/ Refresh

Spec == Init /\ [][Next]_vars

(***************************************************************************)
(* Properties.                                                              *)
(***************************************************************************)

\* The view, its cached sort keys and the revision it claims are those of a full
\* evaluation of the target at the documents of that revision, whichever way
\* apply_touched and its fallbacks took to get there.
ViewExact ==
    LET view == evaluate(target.spec, shown)
    IN  target.documents = view.documents /\ target.order_keys = view.order_keys

\* A client that applies the changes of every batch in the order they were
\* emitted holds exactly the target's view, although a batch may evict and admit
\* several keys of a limit window.
ClientExact == client = target.documents

\* Every document that a refresh reports as deleted is deleted, and one it
\* upserts as the final word on that key is the stored one.
ReportsStored ==
    \A n \in 1..Len(batch) :
        /\ batch[n].kind = "Delete" => shown[batch[n].key] = Absent
        /\ batch[n].kind = "Upsert" => batch[n].document = shown[batch[n].key]
=============================================================================
