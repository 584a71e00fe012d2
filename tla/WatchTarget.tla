----------------------------- MODULE WatchTarget -----------------------------
(***************************************************************************)
(* A listen target's view and how it follows the store                     *)
(* (crates/watch-broker/src/lib.rs, IncrementalQuery of crates/query-engine).*)
(* A view is refreshed from the keys that changed where that is enough, and *)
(* re-evaluated where it is not.                                           *)
(*                                                                         *)
(* A document is abstracted to whether it is a candidate of the query (group *)
(* ancestor, filters, order fields, cursors), where it sorts, and its update *)
(* time: WatchDocument equality compares the whole document, so a rewrite  *)
(* with the same fields is a change.  Keys are naturals: their order is the *)
(* resource-name order, which also breaks ties.                            *)
(***************************************************************************)
EXTENDS Naturals, Sequences, FiniteSets, FiniteSetsExt, Folds

CONSTANTS Keys, Orders, Absent

ASSUME KeysAssumption == Keys \subseteq Nat /\ IsFiniteSet(Keys)
ASSUME OrdersAssumption == Orders \subseteq Nat
ASSUME AbsentAssumption == Absent \notin [match : BOOLEAN, order : Orders, update_time : Nat]

Document == [match : BOOLEAN, order : Orders, update_time : Nat]

Documents == [Keys -> Document \cup {Absent}]

\* A documents target names its keys; a query target's keys are the scope, the
\* collection it reads.
TargetSpec ==
    [kind : {"Documents", "Query"}, keys : SUBSET Keys,
     limit : {"None", "First", "Last"}, size : Nat, offset : Nat]

(***************************************************************************)
(* Evaluation.                                                             *)
(***************************************************************************)

Matches(spec, document) ==
    document # Absent /\ (spec.kind = "Query" => document.match)

\* compare: by order value, ties by key.
Before(k, order, l, other) == order < other \/ (order = other /\ k < l)

\* The keys of the results: the matching documents after the offset that the
\* limit window keeps.
Results(spec, docs) ==
    LET found == {k \in spec.keys : Matches(spec, docs[k])}
        Rank(k) == Cardinality({l \in found : Before(l, docs[l].order, k, docs[k].order)})
        Kept(k) ==
            /\ Rank(k) >= spec.offset
            /\ spec.limit = "First" => Rank(k) < spec.offset + spec.size
            /\ spec.limit = "Last" => Rank(k) + spec.size >= Cardinality(found)
    IN  IF spec.kind = "Documents" THEN found ELSE {k \in found : Kept(k)}

Incremental(spec) == spec.kind = "Documents" \/ (spec.offset = 0 /\ spec.limit # "Last")

evaluate(spec, docs) ==
    [documents |-> [k \in Results(spec, docs) |-> docs[k]],
     order_keys |-> [k \in IF spec.kind = "Query" /\ Incremental(spec)
                           THEN Results(spec, docs) ELSE {} |-> docs[k].order]]

(***************************************************************************)
(* Changes of a view.                                                      *)
(***************************************************************************)

Upsert(k, document) == [key |-> k, kind |-> "Upsert", document |-> document]

\* A mutant: every document that leaves is reported deleted.
GoneDeleted(k, docs) == [key |-> k, kind |-> "Delete", document |-> Absent]

Gone(k, docs) ==
    [key |-> k, kind |-> IF docs[k] = Absent THEN "Delete" ELSE "Remove", document |-> Absent]

With(f, k, v) == [l \in DOMAIN f \cup {k} |-> IF l = k THEN v ELSE f[l]]
Without(f, k) == [l \in DOMAIN f \ {k} |-> f[l]]

\* The window's last entry under the query order, from the cached sort keys.
last_in_window(order_keys) ==
    CHOOSE k \in DOMAIN order_keys :
        \A l \in DOMAIN order_keys \ {k} : Before(l, order_keys[l], k, order_keys[k])

\* One touched key of a documents target.
TouchDocument(work, k, docs) ==
    IF docs[k] # Absent
    THEN IF k \in DOMAIN work.documents /\ work.documents[k] = docs[k] THEN work
         ELSE [work EXCEPT !.documents = With(@, k, docs[k]),
                           !.changes = Append(@, Upsert(k, docs[k]))]
    ELSE IF k \in DOMAIN work.documents
         THEN [work EXCEPT !.documents = Without(@, k),
                           !.changes = Append(@, Gone(k, docs))]
    ELSE work

\* A mutant: the entry that makes room is dropped without a word.
EntersSilently(work, k, docs, full) ==
    LET last == last_in_window(work.order_keys)
        entered == [work EXCEPT !.documents = With(@, k, docs[k]),
                                !.order_keys = With(@, k, docs[k].order),
                                !.changes = Append(@, Upsert(k, docs[k]))]
    IN  IF ~full THEN entered
        ELSE IF DOMAIN work.order_keys = {} THEN [work EXCEPT !.incremental = FALSE]
        ELSE IF ~Before(k, docs[k].order, last, work.order_keys[last]) THEN work
        ELSE [entered EXCEPT !.documents = Without(@, last), !.order_keys = Without(@, last)]

\* A key that was not visible and matches now.  In a full window only a document
\* before the last entry enters, and that entry leaves.
Enters(work, k, docs, full) ==
    LET last == last_in_window(work.order_keys)
        entered == [work EXCEPT !.documents = With(@, k, docs[k]),
                                !.order_keys = With(@, k, docs[k].order),
                                !.changes = Append(@, Upsert(k, docs[k]))]
    IN  IF ~full THEN entered
        ELSE IF DOMAIN work.order_keys = {} THEN [work EXCEPT !.incremental = FALSE]
        ELSE IF ~Before(k, docs[k].order, last, work.order_keys[last]) THEN work
        ELSE [entered EXCEPT
                !.documents = Without(@, last),
                !.order_keys = Without(@, last),
                !.changes = work.changes \o
                            <<[key |-> last, kind |-> "Remove", document |-> Absent],
                              Upsert(k, docs[k])>>]

\* A mutant: a move inside a full window is taken as it is.
StaysWherever(work, k, docs, full) ==
    [work EXCEPT
        !.documents = With(@, k, docs[k]),
        !.order_keys = With(@, k, docs[k].order),
        !.changes = IF work.documents[k] = docs[k] THEN @ ELSE Append(@, Upsert(k, docs[k]))]

\* A visible key that still matches: a move inside a full window may cross its
\* edge.
Stays(work, k, docs, full) ==
    IF full /\ work.order_keys[k] # docs[k].order THEN [work EXCEPT !.incremental = FALSE]
    ELSE [work EXCEPT
            !.documents = With(@, k, docs[k]),
            !.order_keys = With(@, k, docs[k].order),
            !.changes = IF work.documents[k] = docs[k] THEN @ ELSE Append(@, Upsert(k, docs[k]))]

\* A visible key that no longer matches: the store must refill a full window.
Leaves(work, k, docs, full) ==
    IF full THEN [work EXCEPT !.incremental = FALSE]
    ELSE [work EXCEPT !.documents = Without(@, k),
                      !.order_keys = Without(@, k),
                      !.changes = Append(@, Gone(k, docs))]

TouchQuery(spec, work, k, docs) ==
    LET visible == k \in DOMAIN work.documents
        matches == Matches(spec, docs[k])
        full == spec.limit = "First" /\ Cardinality(DOMAIN work.documents) >= spec.size
    IN  CASE ~visible /\ matches -> Enters(work, k, docs, full)
          [] visible /\ matches -> Stays(work, k, docs, full)
          [] visible /\ ~matches -> Leaves(work, k, docs, full)
          [] OTHER -> work

\* The touched keys in key order; the result is incremental only when no key
\* asked for a full evaluation.
apply_touched(target, docs, touched) ==
    LET start == [documents |-> target.documents, order_keys |-> target.order_keys,
                  changes |-> <<>>, incremental |-> Incremental(target.spec)]
        Touch(k, work) ==
            IF ~work.incremental THEN work
            ELSE IF target.spec.kind = "Documents" THEN TouchDocument(work, k, docs)
            ELSE TouchQuery(target.spec, work, k, docs)
    IN  MapThenFoldSet(Touch, start, LAMBDA k : k, Max, touched)

(***************************************************************************)
(* Refreshing: a target and the batch it emits.                            *)
(***************************************************************************)

\* The transitions between two views in key order.
Difference(before, after, docs) ==
    LET Add(k, changes) ==
            IF k \notin DOMAIN after THEN Append(changes, Gone(k, docs))
            ELSE IF k \in DOMAIN before /\ before[k] = after[k] THEN changes
            ELSE Append(changes, Upsert(k, after[k]))
    IN  MapThenFoldSet(Add, <<>>, LAMBDA k : k, Max, DOMAIN before \cup DOMAIN after)

refresh(target, snapshot) ==
    LET view == evaluate(target.spec, snapshot.documents)
    IN  [target |-> [target EXCEPT !.documents = view.documents,
                                   !.order_keys = view.order_keys,
                                   !.revision = snapshot.revision],
         changes |-> Difference(target.documents, view.documents, snapshot.documents)]

\* The keys in the target's scope that changed between its view and the snapshot.
Touched(target, snapshot, history) ==
    {c.key : c \in {d \in history.changes : /\ d.revision > target.revision
                                            /\ d.revision <= snapshot.revision
                                            /\ d.key \in target.spec.keys}}

\* history holds the changes since the target's revision or before, when they
\* are all still retained.
refresh_with_changes(target, snapshot, history) ==
    LET touched == Touched(target, snapshot, history)
        work == apply_touched(target, snapshot.documents, touched)
    IN  IF snapshot.revision < target.revision \/ ~history.retained THEN refresh(target, snapshot)
        ELSE IF touched = {}
        THEN [target |-> [target EXCEPT !.revision = snapshot.revision], changes |-> <<>>]
        ELSE IF ~work.incremental THEN refresh(target, snapshot)
        ELSE [target |-> [target EXCEPT !.documents = work.documents,
                                        !.order_keys = work.order_keys,
                                        !.revision = snapshot.revision],
              changes |-> work.changes]

initialize(spec, snapshot) ==
    LET view == evaluate(spec, snapshot.documents)
    IN  [target |-> [spec |-> spec, documents |-> view.documents,
                     order_keys |-> view.order_keys, revision |-> snapshot.revision],
         changes |-> Difference(<<>>, view.documents, snapshot.documents)]

(***************************************************************************)
(* What the batches of a target say to a client: the vocabulary in which   *)
(* the invariants and the proofs about targets and streams state that a    *)
(* batch leads from one view to the next and reports what is stored.       *)
(***************************************************************************)

\* A change of a batch.
Change == [key : Keys, kind : {"Upsert", "Delete", "Remove"}, document : Document \cup {Absent}]

\* The documents of some keys.
Shown(R, docs) == [k \in R |-> docs[k]]

\* What a client makes of a change.
Heeded(held, change) ==
    IF change.kind = "Upsert" THEN With(held, change.key, change.document)
    ELSE Without(held, change.key)

\* A client that applies the changes in order goes from one view to the other.
Leads(changes, from, to) ==
    \E h : /\ h[0] = from /\ h[Len(changes)] = to
           /\ \A i \in 1..Len(changes) : h[i] = Heeded(h[i - 1], changes[i])

\* A refresh reports as deleted what is deleted, and upserts what is stored.
Reports(changes, docs) ==
    \A i \in 1..Len(changes) :
        /\ changes[i].kind = "Delete" => docs[changes[i].key] = Absent
        /\ changes[i].kind = "Upsert" => changes[i].document = docs[changes[i].key]
=============================================================================
