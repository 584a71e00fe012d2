------------------------------ MODULE CellEdit ------------------------------
(***************************************************************************)
(* The grid's cell editor over the fields of one Firestore document        *)
(* (console/src/firestore/components/cell-editor.tsx and grid.tsx).  A     *)
(* grid page is a preview: a value in Long arrives in it cut short.  A     *)
(* text in the editor is [v, cut]: what it says, and whether it began as   *)
(* such a part.                                                            *)
(***************************************************************************)
EXTENDS Integers, FiniteSets, TLC

CONSTANTS Fields, Values, Long, MaxTime, MaxTyped

VARIABLES doc,    \* the engine: [there, time, fields]
          whole,  \* the document query's data, or None
          page,   \* the grid page's copy of the document
          cell,   \* the cell being edited, or None
          sends,  \* the writes in flight
          typed   \* keystrokes so far (bounded)

vars == <<doc, whole, page, cell, sends, typed>>

None == [none |-> TRUE]
Absent == "absent"
Bad == "bad"

Whole(v) == [v |-> v, cut |-> FALSE]
Preview(v) == [v |-> v, cut |-> v \in Long]

Init == /\ doc \in [there : {TRUE}, time : {0}, fields : [Fields -> Values]]
        /\ page = doc /\ whole = None /\ cell = None /\ sends = {}
        /\ typed = 0

Commit(n, v) == doc' = [doc EXCEPT !.time = @ + 1, !.fields[n] = v]

\* Another client writes a field, or deletes the document.
Elsewhere ==
    /\ doc.there /\ doc.time < MaxTime
    /\ \/ \E n \in Fields, v \in Values \cup {Absent} : v # doc.fields[n] /\ Commit(n, v)
       \/ doc' = [doc EXCEPT !.there = FALSE]
    /\ UNCHANGED <<whole, page, cell, sends, typed>>

stored == Preview(page.fields[cell.field])
partial == stored.cut

\* Mutant: the page's value in any case.
value_ == stored
\* What the editor works on: the page's value, or, of one the page has only
\* part of, the document query's.
value == IF partial THEN Whole(whole.fields[cell.field]) ELSE stored

(***************************************************************************)
(* Editing is mounted when its value is at hand, on the value as it is     *)
(* then; it is unmounted when the page's value turns into a part of one    *)
(* the query has not read.                                                 *)
(***************************************************************************)
CellEditor ==
    /\ cell # None /\ cell.of = None
    /\ partial => whole # None
    /\ cell' = [cell EXCEPT !.of = value, !.node = value]
    /\ UNCHANGED <<doc, whole, page, sends, typed>>

Orphaned == {[w EXCEPT !.own = FALSE] : w \in sends}
Unmounted == [cell EXCEPT !.of = None, !.node = None]

\* The grid's page is read again, after a write of its own or live.  The
\* cell closes when its document is no longer in the page.
Page ==
    /\ page # doc /\ page' = doc
    /\ IF cell = None THEN UNCHANGED <<cell, sends>>
       ELSE IF ~doc.there THEN cell' = None /\ sends' = Orphaned
       ELSE IF doc.fields[cell.field] \in Long /\ whole = None
            THEN cell' = Unmounted /\ sends' = Orphaned
            ELSE UNCHANGED <<cell, sends>>
    /\ UNCHANGED <<doc, whole, typed>>

\* The document query, asked while the page has only a part (or for an open
\* inspector), and read again after every change it hears of.
ReadWhole ==
         /\ cell # None /\ partial /\ doc.there /\ whole # doc
         /\ whole' = doc
         /\ UNCHANGED <<doc, page, cell, sends, typed>>

\* A double click, or Enter, on a cell: the one editor moves there, and the
\* click outside finishes the editor that was open first.
edit(n) ==
    /\ cell = None /\ page.there
    /\ cell' = [field |-> n, of |-> None, node |-> None]
    /\ UNCHANGED <<doc, whole, page, sends, typed>>

Sending == \E w \in sends : w.own

Type(v) ==
    /\ cell # None /\ cell.of # None /\ v # cell.node.v /\ typed < MaxTyped
    /\ typed' = typed + 1
    /\ cell' = [cell EXCEPT !.node.v = v]
    /\ UNCHANGED <<doc, whole, page, sends>>

\* finish: a text left alone, or equal to the value by now, writes nothing;
\* one that does not read stays open and says so.
Write == [field |-> cell.field, value |-> cell.node, own |-> TRUE]
finish ==
    /\ cell # None /\ cell.of # None /\ ~Sending /\ cell.node.v # Bad
    /\ IF cell.node = cell.of \/ cell.node.v = value.v
       THEN cell' = None /\ UNCHANGED sends
       ELSE sends' = sends \cup {Write} /\ UNCHANGED cell
    /\ UNCHANGED <<doc, whole, page, typed>>

\* Escape; also while the write is in flight, which it does not take back.
cancel == /\ cell # None /\ cell' = None /\ sends' = Orphaned
          /\ UNCHANGED <<doc, whole, page, typed>>

(***************************************************************************)
(* The answer.  Written: the grid's one editor closes, on whichever cell   *)
(* it is by then.  Refused (the document is gone): the editor that sent it *)
(* says so and stays, and a toast says it in any case.                     *)
(***************************************************************************)
onSuccess(w) ==
    /\ doc.there /\ doc.time < MaxTime
    /\ Commit(w.field, w.value.v)
    /\ cell' = None
    /\ sends' = {[x EXCEPT !.own = FALSE] : x \in sends \ {w}}
    /\ UNCHANGED <<whole, page, typed>>

onError(w) == /\ ~doc.there /\ sends' = sends \ {w}
              /\ UNCHANGED <<doc, whole, page, cell, typed>>

Next == \/ Elsewhere \/ CellEditor \/ Page \/ ReadWhole \/ finish \/ cancel
        \/ \E n \in Fields : edit(n)
        \/ \E v \in Values \cup {Bad} : Type(v)
        \/ \E w \in sends : onSuccess(w) \/ onError(w)

Spec == Init /\ [][Next]_vars

-----------------------------------------------------------------------------
(***************************************************************************)
(* What is written never began as the part of a value a grid page holds    *)
(* ("Saving what arrived would write the fragment over the value",         *)
(* cell-editor.tsx:152).                                                   *)
(***************************************************************************)
FragmentNeverWritten == \A w \in sends : ~w.value.cut
=============================================================================
