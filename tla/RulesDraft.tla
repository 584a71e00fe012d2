----------------------------- MODULE RulesDraft -----------------------------
(***************************************************************************)
(* The text on a rules page (console/src/rules): the draft a tab keeps per *)
(* scope (a database's or a bucket's rules), Apply and Save, the check of  *)
(* the text as it is typed, and trips to other scopes and pages.           *)
(*                                                                         *)
(* A text is <<scope, n>>: the n-th version anybody ever wrote for a       *)
(* scope.  Versions in Broken do not compile.  What the check or a refusal *)
(* finds in a text is a function of the text, so a diagnostic is           *)
(* represented by the text it is about.                                    *)
(***************************************************************************)
EXTENDS Integers, FiniteSets

CONSTANTS Scopes, Versions, Broken, MaxActs, MaxPuts

VARIABLES force,     \* the engine: the text in force, by scope
          cache,     \* the document query's data, by scope
          open,      \* the scope the page is at, or Away (another page)
          stored,    \* the hook's draft state: [base, text] or None
          kept,      \* the session storage: a draft or None, by scope
          rejected,  \* the refused text whose diagnostics the page lists
          settled,   \* useDebounced: the last text to have settled
          puts,      \* the mutations not answered yet
          acts,      \* user and outside steps so far (bounded)
          made,      \* history: what the user made of each scope's rules
          lost       \* history: scopes whose draft a late answer dropped

vars == <<force, cache, open, stored, kept, rejected, settled, puts, acts,
          made, lost>>

None == <<"none">>
Empty == <<"empty">>
Away == "away"
Mounted == "mounted"

Texts(s) == {s} \X Versions
NoDraft == [base |-> None, text |-> None]
Compiles(t) == t[2] \notin Broken

loaded == cache[open] # None
inForce == IF loaded THEN cache[open] ELSE Empty
draft == IF loaded /\ stored.text = inForce THEN NoDraft ELSE stored
source == IF draft = NoDraft THEN inForce ELSE draft.text
edited == loaded /\ draft # NoDraft /\ draft.text # inForce
overtaken == edited /\ draft.base # inForce

(***************************************************************************)
(* textToCheck: nothing before the scope's rules have loaded, the text as  *)
(* it is now while the settled one is another scope's or from before, and  *)
(* the settled one otherwise.  `settled` is the scope and the text.        *)
(***************************************************************************)
current == IF loaded THEN <<open, source>> ELSE None
\* Mutant: the settled text, whichever scope it is of.
textToCheck_ == IF settled # None THEN settled[2]
                ELSE IF current = None THEN None ELSE source
textToCheck == IF settled # None /\ settled[1] = open THEN settled[2]
               ELSE IF current = None THEN None ELSE source

Init == /\ force = [s \in Scopes |-> <<s, 0>>]
        /\ cache = [s \in Scopes |-> None]
        /\ open \in Scopes
        /\ stored = NoDraft
        /\ kept = [s \in Scopes |-> NoDraft]
        /\ rejected = None /\ settled = None
        /\ puts = {} /\ acts = 0
        /\ made = [s \in Scopes |-> None]
        /\ lost = {}

Act == acts < MaxActs /\ acts' = acts + 1

\* The document query reads what is in force: the first time the page is at
\* the scope, and whenever its topic or an answered mutation invalidates it.
Read == /\ open # Away /\ cache[open] # force[open]
        /\ cache' = [cache EXCEPT ![open] = force[open]]
        /\ UNCHANGED <<force, open, stored, kept, rejected, settled, puts,
                       acts, made, lost>>

\* A save from another tab, a file changed on disk, a test suite's reload.
Elsewhere(s) ==
    /\ Act
    /\ \E t \in Texts(s) : Compiles(t) /\ t # force[s] /\ force' = [force EXCEPT ![s] = t]
    /\ UNCHANGED <<cache, open, stored, kept, rejected, settled, puts, made, lost>>

Keep(d) == stored' = d /\ kept' = [kept EXCEPT ![open] = d]

\* Typing, "Put in the editor" of the history dialog and "Open the file to
\* fix it" of the banner: all of them are setSource.
setSource(t) ==
    /\ open # Away /\ Act /\ t # source
    /\ Keep([base |-> IF draft = NoDraft THEN inForce ELSE draft.base, text |-> t])
    /\ made' = [made EXCEPT ![open] = t]
    /\ UNCHANGED <<force, cache, open, rejected, settled, puts, lost>>

\* Mutant: the draft kept beside the page is not dropped.
revert_ == /\ open # Away /\ edited /\ stored' = NoDraft
           /\ rejected' = None
           /\ made' = [made EXCEPT ![open] = None]
           /\ UNCHANGED <<force, cache, open, kept, settled, puts, acts, lost>>
revert == /\ open # Away /\ edited /\ Keep(NoDraft)
          /\ rejected' = None
          /\ made' = [made EXCEPT ![open] = None]
          /\ UNCHANGED <<force, cache, open, settled, puts, acts, lost>>

rebase == /\ open # Away /\ overtaken
          /\ Keep([base |-> inForce, text |-> draft.text])
          /\ UNCHANGED <<force, cache, open, rejected, settled, puts, acts, made, lost>>

(***************************************************************************)
(* Apply and Save send the text of the editor to the scope the page is at. *)
(* Apply asks for an edited text; Save (the toolbar, the palette, the key) *)
(* for a loaded one.  `of` is the scope its callbacks will write to:       *)
(* Mounted, wherever the page is by then, or, once the page that sent it   *)
(* is left, the scope it was at last.                                      *)
(***************************************************************************)
apply(save) ==
    /\ open # Away /\ loaded /\ Act /\ Cardinality(puts) < MaxPuts
    /\ save \/ edited
    /\ puts' = puts \cup {[id |-> acts, scope |-> open, text |-> source,
                           of |-> Mounted, state |-> "sent"]}
    /\ UNCHANGED <<force, cache, open, stored, kept, rejected, settled, made, lost>>

\* The engine compiles the text and installs it, or refuses it.
Install(p) ==
    /\ p.state = "sent"
    /\ IF Compiles(p.text)
       THEN /\ force' = [force EXCEPT ![p.scope] = p.text]
            /\ puts' = (puts \ {p}) \cup {[p EXCEPT !.state = "installed"]}
       ELSE /\ puts' = (puts \ {p}) \cup {[p EXCEPT !.state = "refused"]}
            /\ UNCHANGED force
    /\ UNCHANGED <<cache, open, stored, kept, rejected, settled, acts, made, lost>>

AnswersTo(p) == IF p.of = Mounted THEN open ELSE p.of

\* The draft the answer clears is not the text it was sent for: the editor
\* moved on, or is at another scope by now.
Late(p) == AnswersTo(p) # p.scope \/ made[p.scope] \notin {None, p.text}

onSuccess(p) ==
    LET k == AnswersTo(p) IN
    /\ p.state = "installed"
    /\ stored' = IF p.of = Mounted THEN NoDraft ELSE stored
    /\ rejected' = IF p.of = Mounted THEN None ELSE rejected
    /\ kept' = [kept EXCEPT ![k] = NoDraft]
    /\ cache' = [cache EXCEPT ![k] = IF @ = None THEN None ELSE p.text]
    /\ made' = IF Late(p) THEN made ELSE [made EXCEPT ![k] = None]
    /\ lost' = IF Late(p) \/ (p.of # Mounted /\ open = k) THEN lost \cup {k} ELSE lost
    /\ puts' = puts \ {p}
    /\ UNCHANGED <<force, open, settled, acts>>

onError(p) ==
    /\ p.state = "refused"
    /\ rejected' = IF p.of = Mounted THEN p.text ELSE rejected
    /\ puts' = puts \ {p}
    /\ UNCHANGED <<force, cache, open, stored, kept, settled, acts, made, lost>>

\* Mutant: the other scope's draft is not read.
PickScope_(s) ==
    /\ open \notin {Away, s} /\ Act
    /\ open' = s
    /\ rejected' = None
    /\ UNCHANGED <<force, cache, stored, kept, settled, puts, made, lost>>
\* The picker: the hook reads the other scope's draft while it renders.
PickScope(s) ==
    /\ open \notin {Away, s} /\ Act
    /\ open' = s
    /\ stored' = kept[s] /\ rejected' = None
    /\ UNCHANGED <<force, cache, kept, settled, puts, made, lost>>

\* A trip to another page and back: the hook's state goes with the page.
Leave == /\ open # Away /\ Act
         /\ puts' = {IF p.of = Mounted THEN [p EXCEPT !.of = open] ELSE p : p \in puts}
         /\ open' = Away /\ stored' = NoDraft /\ rejected' = None /\ settled' = None
         /\ UNCHANGED <<force, cache, kept, made, lost>>

Return(s) == /\ open = Away
             /\ open' = s /\ stored' = kept[s]
             /\ settled' = IF cache[s] = None THEN None
                           ELSE <<s, IF kept[s] = NoDraft THEN cache[s] ELSE kept[s].text>>
             /\ UNCHANGED <<force, cache, kept, rejected, puts, acts, made, lost>>

\* The text has not changed for 300 ms.
Settle == /\ open # Away /\ settled # current
          /\ settled' = current
          /\ UNCHANGED <<force, cache, open, stored, kept, rejected, puts, acts, made, lost>>

Next == \/ Read \/ revert \/ rebase \/ Leave \/ Settle
        \/ \E s \in Scopes : Elsewhere(s) \/ PickScope(s) \/ Return(s)
        \/ open # Away /\ \E t \in Texts(open) : setSource(t)
        \/ \E save \in BOOLEAN : apply(save)
        \/ \E p \in puts : Install(p) \/ onSuccess(p) \/ onError(p)

Spec == Init /\ [][Next]_vars

-----------------------------------------------------------------------------
(***************************************************************************)
(* The editor shows what the user made of the scope's rules, and what is   *)
(* in force when nothing was made of them or it was reverted or applied:   *)
(* through scope changes, trips to other pages, refusals and the rules     *)
(* moving underneath ("A draft outlives a trip to another page and back",  *)
(* draft.ts:6).  Scopes in `lost` are left out: an answer that finds the   *)
(* editor at another text or another scope drops that draft.               *)
(***************************************************************************)
EditorShowsTheDraft ==
    open \in Scopes \ lost =>
        source = IF made[open] # None THEN made[open] ELSE inForce

(***************************************************************************)
(* Only a text the editor held for this scope is checked: never another    *)
(* scope's, nor the empty text from before the rules arrived (check.ts:8). *)
(***************************************************************************)
ChecksItsOwnText ==
    open \in Scopes \ lost /\ textToCheck # None => textToCheck \in Texts(open)

=============================================================================
