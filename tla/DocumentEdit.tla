---------------------------- MODULE DocumentEdit ----------------------------
(***************************************************************************)
(* One Firestore document edited in the console (console/src/firestore):   *)
(* the inspector's rows and its JSON view, and the write Save makes of     *)
(* them, while other clients (the grid's cell editor is one) write it too. *)
(*                                                                         *)
(* A value is [j, t]: what JSON shows of it, and its type, which JSON      *)
(* cannot carry for every type (a timestamp is an ISO string there).       *)
(* Reading JSON infers the "plain" type.  A row may also hold Bad, a text  *)
(* its type cannot read.                                                   *)
(***************************************************************************)
EXTENDS Integers, Sequences, SequencesExt, FiniteSetsExt, TLC

CONSTANTS Fields, Numbers, Starts, MaxEdits, MaxTime

VARIABLES doc,      \* the engine: [there, time, fields]
          read,     \* the document query's data; the inspector shows it
          rows,     \* the inspector's draft: [name, value, removed]
          madeFrom, \* history: the fields the rows were made from
          tab,      \* "fields" or "json"
          json,     \* the JSON view: [text, ok], ok when it is a document
          baseline, \* the rows the text is reconciled against, while it is open
          moved,    \* the rows changed since the JSON view was last left
          save,     \* the inspector's mutation in flight
          edits     \* keystrokes so far (bounded)

vars == <<doc, read, rows, madeFrom, tab, json, baseline, moved, save, edits>>

InspectorVars == <<read, rows, madeFrom, tab, json, baseline, moved, save>>

None == [none |-> TRUE]
Absent == [j |-> 9, t |-> "absent"]
Bad == [j |-> 0, t |-> "bad"]
NoName == "unnamed"
Names == Fields \cup {NoName}
Plain(n) == [j |-> n, t |-> "plain"]
Values == [j : Numbers, t : {"plain", "typed"}]

Row(n, v) == [name |-> n, value |-> v, removed |-> FALSE]
nodesFrom(fields) ==
    LET held == SetToSeq({n \in Fields : fields[n] # Absent})
    IN [i \in 1..Len(held) |-> Row(held[i], fields[held[i]])]

\* The rows of a sequence that stand for field n, by place.
Named(rs, n) == {i \in 1..Len(rs) : rs[i].name = n}
Live(rs, n) == {i \in Named(rs, n) : ~rs[i].removed}
Readable(rs, n) == {i \in Live(rs, n) : rs[i].value # Bad}

\* problemsOf: no name, a name twice, a text that does not read.
problems == Live(rows, NoName)
            \cup UNION {Live(rows, n) \ Readable(rows, n) : n \in Fields}
            \cup UNION {{i \in Live(rows, n) : i > Min(Live(rows, n))} : n \in Fields}

ValueOf(rs, n) == IF Readable(rs, n) = {} THEN Absent ELSE rs[Max(Readable(rs, n))].value

\* The masked write: the names it carries, and what each becomes.
diffDocument(original, rs) ==
    [n \in {m \in Fields : ValueOf(rs, m) # original[m]} |-> ValueOf(rs, n)]

nodesToJson(rs) ==
    [n \in Names |-> IF Live(rs, n) = {} THEN Absent.j ELSE rs[Max(Live(rs, n))].value.j]

\* mapEntries: a line that says what the last row of its name says keeps
\* that row, type and all; any other line is read afresh.
nodesFromJson(text, current) ==
    LET lines == SetToSeq({n \in Names : text[n] # Absent.j})
        Entry(n) ==
            LET previous == Named(current, n)
                row == current[Max(previous)]
            IN IF previous # {} /\ row.value # Bad /\ row.value.j = text[n]
               THEN [row EXCEPT !.removed = FALSE] ELSE Row(n, Plain(text[n]))
    IN [i \in 1..Len(lines) |-> Entry(lines[i])]

\* A DocumentEditor mounted over a document: fresh rows, and the JSON view
\* rebuilt from them when it is the tab that is open.
Mount(fields) ==
    /\ rows' = nodesFrom(fields) /\ madeFrom' = fields
    /\ baseline' = IF tab = "json" THEN nodesFrom(fields) ELSE <<>>
    /\ moved' = FALSE
    /\ json' = [text |-> nodesToJson(nodesFrom(fields)), ok |-> TRUE]

Init == /\ \E fields \in Starts :
              /\ doc = [there |-> TRUE, time |-> 0, fields |-> fields]
              /\ read = [there |-> TRUE, time |-> 0, fields |-> fields]
              /\ rows = nodesFrom(fields) /\ madeFrom = fields
              /\ json = [text |-> nodesToJson(nodesFrom(fields)), ok |-> TRUE]
        /\ tab = "fields" /\ baseline = <<>> /\ moved = FALSE /\ save = None
        /\ edits = 0

Commit(write) ==
    doc.time < MaxTime /\ doc' = [doc EXCEPT !.time = @ + 1, !.fields = write @@ @]

\* Another client sets or clears a field, or deletes the document.
Elsewhere ==
    /\ doc.there /\ doc.time < MaxTime
    /\ \/ \E n \in Fields, v \in Values \cup {Absent} :
             v # doc.fields[n] /\ doc' = [doc EXCEPT !.time = @ + 1, !.fields[n] = v]
       \/ doc' = [doc EXCEPT !.there = FALSE]
    /\ UNCHANGED <<InspectorVars, edits>>

\* Mutant: the draft is kept over whatever version is read.
Inspector_ == /\ read # doc /\ read' = doc
              /\ UNCHANGED <<rows, madeFrom, json, baseline, moved>>
              /\ UNCHANGED <<doc, tab, save, edits>>
(***************************************************************************)
(* The document query answers.  The editor is keyed by the path and the    *)
(* updateTime, so a newer version remounts it over the new fields and the  *)
(* draft of the old version goes with it.                                  *)
(***************************************************************************)
Inspector == /\ read # doc /\ read' = doc
             /\ IF read.time = doc.time
                THEN UNCHANGED <<rows, madeFrom, json, baseline, moved>>
                ELSE Mount(doc.fields)
             /\ UNCHANGED <<doc, tab, save, edits>>

Edit == read.there /\ edits < MaxEdits /\ edits' = edits + 1

\* The rows: type a value, rename, remove or put back, add a field.
changeNodes ==
    /\ tab = "fields" /\ Edit
    /\ \/ \E i \in DOMAIN rows :
            /\ ~rows[i].removed
            /\ \/ \E v \in Values \cup {Bad} : v # rows[i].value /\ rows' = [rows EXCEPT ![i].value = v]
               \/ \E n \in Names : n # rows[i].name /\ rows' = [rows EXCEPT ![i].name = n]
       \/ \E i \in DOMAIN rows : rows' = [rows EXCEPT ![i].removed = ~@]
       \/ \E n \in Fields : Live(rows, n) = {} /\ rows' = Append(rows, Row(n, Plain(Min(Numbers))))
    /\ moved' = TRUE
    /\ UNCHANGED <<doc, read, madeFrom, tab, json, baseline, save>>

\* Mutant: the JSON view opens on the text it had.
ToTab_(t) ==
    /\ tab # t /\ tab' = t
    /\ IF t = "json" THEN baseline' = rows /\ UNCHANGED <<json, moved>>
       ELSE moved' = FALSE /\ baseline' = <<>> /\ UNCHANGED json
    /\ UNCHANGED <<doc, read, rows, madeFrom, save, edits>>
\* FieldsPanel, when the tab changes.
ToTab(t) ==
    /\ tab # t /\ tab' = t
    /\ IF t = "json"
       THEN /\ json' = IF ~json.ok /\ ~moved THEN json
                       ELSE [text |-> nodesToJson(rows), ok |-> TRUE]
            /\ baseline' = rows /\ UNCHANGED moved
       ELSE moved' = FALSE /\ baseline' = <<>> /\ UNCHANGED json
    /\ UNCHANGED <<doc, read, rows, madeFrom, save, edits>>

\* Mutant: types are looked up in the rows the last keystroke left.
editJson_ ==
    /\ tab = "json" /\ Edit
    /\ \/ \E n \in Names, j \in Numbers \cup {Absent.j} :
             /\ json' = [text |-> [json.text EXCEPT ![n] = j], ok |-> TRUE]
             /\ rows' = nodesFromJson(json'.text, rows)
       \/ json.ok /\ json' = [json EXCEPT !.ok = FALSE] /\ UNCHANGED rows
    /\ UNCHANGED <<doc, read, madeFrom, tab, baseline, moved, save>>
\* A keystroke in the JSON view: a text that is a document is the document.
editJson ==
    /\ tab = "json" /\ Edit
    /\ \/ \E n \in Names, j \in Numbers \cup {Absent.j} :
             /\ json' = [text |-> [json.text EXCEPT ![n] = j], ok |-> TRUE]
             /\ rows' = nodesFromJson(json'.text, baseline)
       \/ json.ok /\ json' = [json EXCEPT !.ok = FALSE] /\ UNCHANGED rows
    /\ UNCHANGED <<doc, read, madeFrom, tab, baseline, moved, save>>

changed == diffDocument(read.fields, rows)
canSave == read.there /\ save = None /\ changed # <<>> /\ problems = {} /\ json.ok

\* Save.  `draft` is history: the rows on screen.
SaveDocument ==
    /\ canSave
    /\ save' = [write |-> changed, draft |-> rows, over |-> madeFrom]
    /\ UNCHANGED <<doc, read, rows, madeFrom, tab, json, baseline, moved,
                   edits>>

\* The commit asks for the document to exist; either way it is answered.
Saved == /\ save # None /\ save' = None
         /\ IF doc.there THEN Commit(save.write) ELSE UNCHANGED doc
         /\ UNCHANGED <<read, rows, madeFrom, tab, json, baseline, moved,
                        edits>>

Next == \/ Elsewhere \/ Inspector \/ changeNodes \/ editJson \/ SaveDocument \/ Saved
        \/ \E t \in {"fields", "json"} : ToTab(t)

Spec == Init /\ [][Next]_vars

-----------------------------------------------------------------------------
(***************************************************************************)
(* A Save changes exactly the fields whose rows differ from the version    *)
(* the draft was made from, each to what its row says, and leaves every    *)
(* other field as it is in the engine by then: another client's change to  *)
(* a field the user left alone is never overwritten or cleared.            *)
(***************************************************************************)
SaveIsTheDraft ==
    save # None /\ save' = None /\ doc.there =>
        \A n \in Fields :
            doc'.fields[n] = IF ValueOf(save.draft, n) # save.over[n]
                             THEN ValueOf(save.draft, n) ELSE doc.fields[n]

(***************************************************************************)
(* While the JSON view is open, Save is on offer only for what the view    *)
(* says ("writing those would be writing something other than what is on   *)
(* screen", inspector.tsx:509).                                            *)
(***************************************************************************)
SavesWhatIsShown ==
    canSave /\ tab = "json" => json.ok /\ json.text = nodesToJson(rows)

(***************************************************************************)
(* While the JSON view is open, a line that says what it said when the     *)
(* view was opened stands for the same typed value, whatever was typed     *)
(* there in between: a timestamp does not come back a string.  Said of     *)
(* rows of which no two, removed ones included, have one name: mapEntries  *)
(* looks rows up by name, and the last of a name stands for all.           *)
(***************************************************************************)
TypesSurviveJson ==
    tab = "json" /\ json.ok =>
        \A n \in Fields :
            (/\ json.text[n] = nodesToJson(baseline)[n]
             /\ Readable(baseline, n) # {} /\ Cardinality(Named(baseline, n)) = 1)
            => ValueOf(rows, n) = ValueOf(baseline, n)
=============================================================================
