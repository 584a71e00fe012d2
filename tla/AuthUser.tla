------------------------------ MODULE AuthUser ------------------------------
(***************************************************************************)
(* One account open in the Authentication inspector: a draft kept field by *)
(* field against what the engine last said, saved in one accounts:update,  *)
(* beside account actions that are sent at once.  The account is changed   *)
(* by others too (the app, another tab): a live window names it and it is  *)
(* read again.                                                             *)
(*                                                                         *)
(* Two fields are followed: a text nobody checks and one of the kinds the  *)
(* draft tells apart.  A value is written "x" or "x~" where two texts say  *)
(* the same thing.  Left out: the sections that only list (passkeys,       *)
(* traces), wording, layout.  React Query is external.                     *)
(***************************************************************************)
EXTENDS Naturals, FiniteSets, Functions, TLC

CONSTANTS None,
          Kinds,        \* the kinds of field under study
          Factors,      \* second factors (of accounts studied with a text field)
          MaxEdits,     \* bound: edits and answers of conflicts
          MaxSends,     \* bound: requests sent from the inspector
          MaxElsewhere  \* bound: changes made elsewhere

VARIABLES kind,         \* the kind of the field "field"
          engine,       \* the account as stored: values, factors
          shown,        \* the detail last read, None before the first
          draft,        \* field -> [from, to]; only fields touched
          reading,      \* the read under way: None, Asked, or what it got
          named,        \* a live window naming the account is on its way
          asked,        \* requests on their way
          refused,      \* the Save button's error is shown
          crossed,      \* factor lists were sent over one another
          edits, sends, elsewhere

vars == <<kind, engine, shown, draft, reading, named, asked, refused, crossed, edits, sends, elsewhere>>

Fields == {"name", "field"}

----------------------------------------------------------------------------
(* Values: what can be stored, and what can be typed (TextBox, TimeBox).   *)

Stored(k) == CASE k = "text" -> {"", "a"}
               [] k = "email" -> {"", "e1"}
               [] k = "flag" -> {"on", "off"}
               [] k = "time" -> {"t1", "t2"}
               [] k = "claims" -> {"", "c1"}

\* A time box takes any text, and its calendar, clock and Now write instants.
Typed(k) == Stored(k) \cup CASE k = "email" -> {"bad"}
                             [] k = "time" -> {"", "bad", "t1~"}
                             [] k = "claims" -> {"bad", "reserved", "c1~"}
                             [] OTHER -> {}

KindOf(f) == IF f = "name" THEN "text" ELSE kind

\* canonicalClaims, canonicalTime: texts that say the same thing.
canonical(v) == CASE v = "t1~" -> "t1" [] v = "c1~" -> "c1" [] OTHER -> v

sameValue(a, b) == canonical(a) = canonical(b)

\* readClaims: JSON, an object, no reserved key, not too long.
readClaims(v) == v \notin {"bad", "reserved"}

----------------------------------------------------------------------------
(* The draft.                                                              *)

editDraft(d, server, f, v) ==
  (f :> [from |-> IF f \in DOMAIN d THEN d[f].from ELSE server[f], to |-> v]) @@ d

shownValue(d, server, f) == IF f \in DOMAIN d THEN d[f].to ELSE server[f]

\* What Save would write: touched, and different from the server's value now.
changedFields(d, server) == {f \in DOMAIN d : ~sameValue(d[f].to, server[f])}

\* Mutant: a field the server moved is no conflict.
draftConflicts_(d, server) == {}

draftConflicts(d, server) ==
  {f \in DOMAIN d : ~sameValue(d[f].from, server[f]) /\ ~sameValue(d[f].to, server[f])}

takeTheirs(d, f) == Restrict(d, DOMAIN d \ {f})
keepMine(d, server, f) == [d EXCEPT ![f].from = server[f]]

\* Mutant: a cleared time is no problem.
draftProblems_(d) ==
  {f \in DOMAIN d : \/ KindOf(f) \in {"email", "time"} /\ d[f].to = "bad"
                    \/ KindOf(f) = "claims" /\ ~readClaims(d[f].to)}

\* An email's form, a time that cannot be unset, claims Firebase refuses.
draftProblems(d) ==
  {f \in DOMAIN d :
     CASE KindOf(f) = "email" -> d[f].to = "bad"
       [] KindOf(f) = "time" -> d[f].to = "bad" \/ (d[f].to = "" /\ d[f].from # "")
       [] KindOf(f) = "claims" -> ~readClaims(d[f].to)
       [] OTHER -> FALSE}

\* The accounts:update body: an instant as its milliseconds, claims compact.
updateBody(d, server) == [f \in changedFields(d, server) |-> canonical(d[f].to)]

canSave ==
  /\ shown # None
  /\ changedFields(draft, shown.values) # {}
  /\ draftProblems(draft) \cap changedFields(draft, shown.values) = {}
  /\ draftConflicts(draft, shown.values) = {}

----------------------------------------------------------------------------
Pending(is) == {r \in asked : r.is = is}
Empty == [f \in {} |-> {}]
Asked == [got |-> None]

Init ==
  /\ kind \in Kinds
  /\ engine \in [values : {v \in [Fields -> UNION {Stored(k) : k \in Kinds \cup {"text"}}] :
                             v["name"] = "a" /\ v["field"] \in Stored(kind)},
                 factors : {IF kind = "text" THEN Factors ELSE {}}]
  /\ shown = None /\ draft = Empty /\ reading = Asked /\ named = FALSE
  /\ asked = {} /\ refused = FALSE /\ crossed = FALSE
  /\ edits = 0 /\ sends = 0 /\ elsewhere = 0

\* invalidateQueries: a read under way is given up for a new one.
refresh == reading' = Asked

\* The engine answers the read; the answer reaches the page.
ReadAnswered ==
  /\ reading = Asked /\ reading' = [got |-> engine]
  /\ UNCHANGED <<kind, engine, shown, draft, named, asked, refused, crossed, edits, sends, elsewhere>>
ReadLands ==
  /\ reading \notin {None, Asked} /\ shown' = reading.got /\ reading' = None
  /\ UNCHANGED <<kind, engine, draft, named, asked, refused, crossed, edits, sends, elsewhere>>

\* Mutant: a window that comes while a read is under way is dropped.
refreshOpen_ ==
  /\ named /\ named' = FALSE
  /\ reading' = IF reading = None THEN Asked ELSE reading
  /\ UNCHANGED <<kind, engine, shown, draft, asked, refused, crossed, edits, sends, elsewhere>>

\* A live window names the open user.
refreshOpen ==
  /\ named /\ named' = FALSE
  /\ refresh
  /\ UNCHANGED <<kind, engine, shown, draft, asked, refused, crossed, edits, sends, elsewhere>>

\* A field of the Details tab or the claims editor is typed in.
Edit(f, v) ==
  /\ shown # None /\ edits < MaxEdits /\ v # shownValue(draft, shown.values, f)
  /\ draft' = editDraft(draft, shown.values, f, v) /\ edits' = edits + 1
  /\ UNCHANGED <<kind, engine, shown, reading, named, asked, refused, crossed, sends, elsewhere>>

\* A conflict's two buttons.
Answer(f) ==
  /\ shown # None /\ f \in draftConflicts(draft, shown.values) /\ edits < MaxEdits
  /\ draft' \in {takeTheirs(draft, f), keepMine(draft, shown.values, f)} /\ edits' = edits + 1
  /\ UNCHANGED <<kind, engine, shown, reading, named, asked, refused, crossed, sends, elsewhere>>

Send(r) == sends < MaxSends /\ sends' = sends + 1 /\ asked' = asked \cup {r @@ [id |-> sends, done |-> FALSE]}

\* The Save button, Mod+S, Mod+Enter in the claims editor.
doSave ==
  /\ canSave /\ Pending("save") = {}
  /\ Send([is |-> "save", body |-> updateBody(draft, shown.values),
           from |-> [f \in changedFields(draft, shown.values) |-> draft[f].from],
           over |-> shown.values])
  /\ refused' = FALSE
  /\ UNCHANGED <<kind, engine, shown, draft, reading, named, crossed, edits, elsewhere>>

\* The footer's Disable or Enable: sent at once, whatever the draft holds.
toggle ==
  /\ shown # None /\ kind = "flag" /\ Pending("toggle") = {}
  /\ Send([is |-> "toggle", body |-> "field" :> IF shown.values["field"] = "on" THEN "off" ELSE "on"])
  /\ UNCHANGED <<kind, engine, shown, draft, reading, named, refused, crossed, edits, elsewhere>>

\* A second factor is added or removed: the whole list, from the detail read.
setSmsFactors(list) ==
  /\ Send([is |-> "factors", list |-> list, of |-> shown.factors])
  /\ crossed' = (crossed \/ Pending("factors") # {} \/ shown.factors # engine.factors)
  /\ UNCHANGED <<kind, engine, shown, draft, reading, named, refused, edits, elsewhere>>


MfaSection ==
  /\ shown # None
  /\ \/ \E x \in shown.factors : setSmsFactors(shown.factors \ {x})
     \/ Pending("factors") = {} /\ kind = "text" /\ \E x \in Factors \ shown.factors : setSmsFactors(shown.factors \cup {x})

\* The engine applies a request, and tells every page of the account.
Applied(r) ==
  /\ r \in asked /\ ~r.done
  /\ engine' = IF r.is = "factors" THEN [engine EXCEPT !.factors = r.list]
               ELSE [engine EXCEPT !.values = r.body @@ @]
  /\ asked' = (asked \ {r}) \cup {[r EXCEPT !.done = TRUE]}
  /\ named' = TRUE
  /\ UNCHANGED <<kind, shown, draft, reading, refused, crossed, edits, sends, elsewhere>>

\* Its answer: a save drops the draft, and the detail is read again.
Answered(r) ==
  /\ r \in asked /\ r.done /\ asked' = asked \ {r}
  /\ draft' = IF r.is = "save" THEN Empty ELSE draft
  /\ refresh
  /\ UNCHANGED <<kind, engine, shown, named, refused, crossed, edits, sends, elsewhere>>

\* The engine refuses it: a save says so beside the button, the rest in a toast.
Refused(r) ==
  /\ r \in asked /\ ~r.done /\ asked' = asked \ {r}
  /\ refused' = (refused \/ r.is = "save")
  /\ UNCHANGED <<kind, engine, shown, draft, reading, named, crossed, edits, sends, elsewhere>>

\* The app, or another tab, changes the account.
Elsewhere ==
  /\ elsewhere < MaxElsewhere /\ elsewhere' = elsewhere + 1 /\ named' = TRUE
  /\ \E f \in Fields : \E v \in Stored(KindOf(f)) :
       v # engine.values[f] /\ engine' = [engine EXCEPT !.values[f] = v]
  /\ UNCHANGED <<kind, shown, draft, reading, asked, refused, crossed, edits, sends>>

Next ==
  \/ ReadAnswered \/ ReadLands \/ refreshOpen
  \/ \E f \in Fields : Answer(f) \/ \E v \in Typed(KindOf(f)) : Edit(f, v)
  \/ doSave \/ toggle \/ MfaSection
  \/ \E r \in asked : Applied(r) \/ Answered(r) \/ Refused(r)
  \/ Elsewhere

Spec == Init /\ [][Next]_vars

----------------------------------------------------------------------------
Settled == asked = {} /\ ~named /\ reading = None

\* Once nothing is on its way the inspector shows the account as stored: a
\* change that lands while a read is under way is never missed, because the
\* window that names the account starts the read again (refreshOpen).
SettledShowsAccount == Settled => shown = engine

\* A save writes only over values its author was shown: a field someone else
\* changed meanwhile was answered with Keep mine first (draftConflicts,
\* keepMine), and what is sent is something Firebase stores (draftProblems).
SavesOverWhatWasSeen ==
  \A r \in Pending("save") : \A f \in DOMAIN r.body :
    /\ sameValue(r.from[f], r.over[f])
    /\ r.body[f] \in Stored(KindOf(f))

=============================================================================
