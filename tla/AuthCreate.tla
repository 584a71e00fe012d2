----------------------------- MODULE AuthCreate -----------------------------
(***************************************************************************)
(* The dialogs of the Authentication section that make users: New user,    *)
(* whose kinds share one form and whose accounts take one to three calls;  *)
(* and Import (sample users go the same way), which uploads a file once,   *)
(* previews it and starts a job over what the engine kept.  Both are part  *)
(* of the page and stay mounted; answers come whenever they come.          *)
(*                                                                         *)
(* A field's text is one of a few values ("bad" is refused).  Left out:    *)
(* names, photos, generated passwords and ids, the drawing of previews.    *)
(* React Query and the emulator are external.                              *)
(***************************************************************************)
EXTENDS Naturals, FiniteSets, TLC

CONSTANTS None,
          Files,        \* files: emulator exports, or not users at all
          IsExport,     \* the subset of Files that are exports
          MaxEdits, MaxSends, MaxOpens

VARIABLES dialog,       \* None, "user" or "import"
          kind, form,   \* New user: the kind and the shared form
          error,        \* New user: the uid (or None) its failure names; "" when none is shown
          asked,        \* requests on their way
          made,         \* accounts in the engine: what each has, what it lacks
          file, recognition, uploaded, mode, reviewed, job,   \* the import form
          kept,         \* uploads the engine keeps
          edits, sends, opens

userVars == <<kind, form, error, made>>
importVars == <<file, recognition, uploaded, mode, reviewed, job, kept>>
vars == <<dialog, userVars, importVars, asked, edits, sends, opens>>

----------------------------------------------------------------------------
(* The form of New user.                                                   *)

NEW_USER_KINDS == {"password", "phone", "anonymous", "federated", "custom"}

\* Whether a kind asks for a field; every kind has claims.
kindHas(k, f) ==
  CASE f = "email" -> k \in {"password", "federated", "custom"}
    [] f = "password" -> k \in {"password", "custom"}
    [] f = "phone" -> k \in {"phone", "custom"}
    [] f = "uid" -> k # "anonymous"
    [] f = "provider" -> k = "federated"
    [] OTHER -> TRUE

Texts == [email |-> {"", "e", "bad"}, password |-> {"", "long"}, phone |-> {"", "p"},
          uid |-> {"", "u"}, provider |-> {"google", "bad"}, claims |-> {"", "c"}]

EMPTY_FORM == [email |-> "", password |-> "", phone |-> "", uid |-> "", provider |-> "google", claims |-> ""]
nextForm(f) == [EMPTY_FORM EXCEPT !.provider = f.provider]

\* Mutant: a value left behind under another kind is checked too.
formProblems_(k, f) ==
  {x \in DOMAIN f : f[x] = "bad"}
    \cup {x \in {"email", "password", "phone", "uid"} :
            f[x] = "" /\ x \in CASE k = "password" -> {"email", "password"} [] k = "phone" -> {"phone"}
                                  [] k = "custom" -> {"uid"} [] OTHER -> {}}

\* What is wrong with the form for this kind.
formProblems(k, f) ==
  {x \in DOMAIN f : kindHas(k, x) /\ f[x] = "bad"}
    \cup {x \in {"email", "password", "phone", "uid"} :
            f[x] = "" /\ x \in CASE k = "password" -> {"email", "password"} [] k = "phone" -> {"phone"}
                                  [] k = "custom" -> {"uid"} [] OTHER -> {}}

\* The calls that make the account: what the create carries, then one call
\* for each of the rest.  An anonymous sign-up carries nothing.
createPlan(k, f) ==
  LET has == {x \in DOMAIN f \ {"provider", "claims"} : kindHas(k, x) /\ f[x] # ""}
  IN  [create |-> has,
       followUps |-> {x \in {"provider", "claims"} : kindHas(k, x) /\ f[x] # ""}]

----------------------------------------------------------------------------
Init ==
  /\ dialog = None /\ kind = "password" /\ form = EMPTY_FORM /\ error = ""
  /\ asked = {} /\ made = {}
  /\ file = None /\ recognition = None /\ uploaded = None /\ mode = "skip" /\ reviewed = None /\ job = None
  /\ kept = {}
  /\ edits = 0 /\ sends = 0 /\ opens = 0

Pending(is) == {r \in asked : r.is = is}
Send(r) == sends < MaxSends /\ sends' = sends + 1 /\ asked' = asked \cup {r @@ [id |-> sends]}
Edited == edits < MaxEdits /\ edits' = edits + 1

\* `?new=user` or `?new=import`: the form starts anew at each opening; New
\* user keeps its kind and its request, Import's form is keyed by the session
\* (a recognition the last one waited for is nobody's).
Open(d) ==
  /\ dialog = None /\ opens < MaxOpens /\ opens' = opens + 1 /\ dialog' = d
  /\ IF d = "user"
       THEN form' = EMPTY_FORM /\ UNCHANGED <<kind, error, made, importVars>>
       ELSE /\ file' = None /\ recognition' = None /\ uploaded' = None /\ mode' = "skip"
            /\ reviewed' = None /\ job' = None /\ UNCHANGED <<userVars, kept>>
  /\ asked' = asked \ Pending("recognise")
  /\ UNCHANGED <<edits, sends>>

\* Escape and the scrim wait for what runs; Back and a new address do not.
\* Only the form's own Cancel has the engine drop what was not imported.
running == Pending("upload") # {} \/ Pending("start") # {} \/ job = "running"
Dismiss == dialog # None /\ dialog' = None
           /\ UNCHANGED <<userVars, importVars, asked, edits, sends, opens>>
Cancel ==
  /\ dialog = "import" /\ Pending("upload") = {} /\ job # "running"
  /\ dialog' = None /\ kept' = (IF job = None THEN kept \ {uploaded} ELSE kept)
  /\ UNCHANGED <<userVars, file, recognition, uploaded, mode, reviewed, job, asked, edits, sends, opens>>

----------------------------------------------------------------------------
(* New user.                                                               *)

set(x, v) ==
  /\ dialog = "user" /\ kindHas(kind, x) /\ v # form[x] /\ Edited
  /\ form' = [form EXCEPT ![x] = v]
  /\ UNCHANGED <<dialog, kind, error, made, importVars, asked, sends, opens>>

\* Another kind: the failure goes, what was typed stays.
setKind(k) ==
  /\ dialog = "user" /\ k # kind /\ Edited /\ kind' = k /\ error' = ""
  /\ asked' = {IF r.is = "create" THEN [r EXCEPT !.watched = FALSE] ELSE r : r \in asked}
  /\ UNCHANGED <<dialog, form, made, importVars, sends, opens>>

\* Create, or Create and add another: each button waits only for its own.
submit(another) ==
  /\ dialog = "user" /\ formProblems(kind, form) = {}
  /\ \A r \in Pending("create") : r.watched => r.another # another
  /\ sends < MaxSends /\ sends' = sends + 1
  /\ asked' = {IF r.is = "create" THEN [r EXCEPT !.watched = FALSE] ELSE r : r \in asked}
                \cup {[is |-> "create", id |-> sends, another |-> another, watched |-> TRUE, uid |-> None,
                       shows |-> {x \in DOMAIN form : kindHas(kind, x) /\ form[x] # ""},
                       todo |-> createPlan(kind, form)]}
  /\ error' = ""
  /\ UNCHANGED <<dialog, kind, form, made, importVars, edits, opens>>

\* runPlan: the create, then its follow-ups one by one.
PlanStep(r) ==
  /\ r \in Pending("create")
  /\ \/ /\ r.uid = None
        /\ made' = made \cup {[uid |-> r.id, has |-> r.todo.create]}
        /\ asked' = (asked \ {r}) \cup {[r EXCEPT !.uid = r.id]}
     \/ /\ r.uid # None
        /\ \E x \in r.todo.followUps :
             /\ x = "claims" => "provider" \notin r.todo.followUps
             /\ made' = {IF m.uid = r.uid THEN [m EXCEPT !.has = @ \cup {x}] ELSE m : m \in made}
             /\ asked' = (asked \ {r}) \cup {[r EXCEPT !.todo.followUps = @ \ {x}]}
  /\ UNCHANGED <<dialog, kind, form, error, importVars, edits, sends, opens>>

\* All done: the dialog is closed, whichever is open by now, or the form
\* cleared for another.
Created(r) ==
  /\ r \in Pending("create") /\ r.uid # None /\ r.todo.followUps = {}
  /\ asked' = asked \ {r}
  /\ IF r.another THEN form' = nextForm(form) /\ UNCHANGED dialog
     ELSE dialog' = None /\ UNCHANGED form
  /\ UNCHANGED <<kind, error, made, importVars, edits, sends, opens>>

\* A call is refused: the create, or a step after it, which names the account.
Refused(r) ==
  /\ r \in Pending("create") /\ (r.uid = None \/ r.todo.followUps # {})
  /\ asked' = asked \ {r}
  /\ error' = IF r.watched THEN <<r.uid>> ELSE error
  /\ UNCHANGED <<dialog, kind, form, made, importVars, edits, sends, opens>>

----------------------------------------------------------------------------
(* Import.                                                                 *)

\* The form a request was made from is still on the page.
Here(r) == dialog = "import" /\ r.at = opens

\* A file is chosen: its first bytes are read, the upload of the last forgotten.
choose(f) ==
  /\ dialog = "import" /\ ~running /\ job = None /\ f # file
  /\ file' = f /\ recognition' = None /\ uploaded' = None /\ reviewed' = None
  /\ asked' = asked \cup {[is |-> "recognise", of |-> f]}
  /\ UNCHANGED <<dialog, userVars, mode, job, kept, edits, sends, opens>>

\* The first 64 KB say what a file is, for whichever file is chosen by then.
recogniseImportFile(r) ==
  /\ r \in Pending("recognise") /\ dialog = "import" /\ asked' = asked \ {r}
  /\ recognition' = [of |-> r.of, ok |-> r.of \in IsExport]
  /\ UNCHANGED <<dialog, userVars, file, uploaded, mode, reviewed, job, kept, edits, sends, opens>>

\* Check uploads the file: allowed until it is known not to be users.
upload ==
  /\ dialog = "import" /\ file # None /\ uploaded = None /\ ~running
  /\ ~(recognition # None /\ ~recognition.ok)
  /\ Send([is |-> "upload", at |-> opens])
  /\ UNCHANGED <<dialog, userVars, importVars, edits, opens>>
Preview(m) == IF m = "skip" THEN None ELSE [for |-> m, is |-> "asked"]
Uploaded(r) ==
  /\ r \in Pending("upload") /\ asked' = asked \ {r}
  /\ \/ kept' = kept \cup {r.id}
        /\ IF Here(r) THEN uploaded' = r.id /\ reviewed' = Preview(mode) ELSE UNCHANGED <<uploaded, reviewed>>
     \/ UNCHANGED <<uploaded, kept, reviewed>>
  /\ UNCHANGED <<dialog, userVars, file, recognition, mode, job, edits, sends, opens>>

\* Skip or overwrite: the kept upload is previewed again unless it is the
\* upload's own preview.
setMode ==
  /\ dialog = "import" /\ uploaded # None /\ job = None /\ Edited
  /\ mode' = IF mode = "skip" THEN "overwrite" ELSE "skip"
  /\ reviewed' = Preview(mode')
  /\ UNCHANGED <<dialog, userVars, file, recognition, uploaded, job, kept, asked, sends, opens>>
Reviewed ==
  /\ reviewed # None /\ reviewed.is = "asked"
  /\ reviewed' \in {[reviewed EXCEPT !.is = i] : i \in {"shown", "failed"}}
  /\ UNCHANGED <<dialog, userVars, file, recognition, uploaded, mode, job, kept, asked, edits, sends, opens>>

\* Mutant: Import does not wait for the preview of its options.
startImport_ ==
  /\ dialog = "import" /\ uploaded # None /\ job = None /\ ~running
  /\ Send([is |-> "start", at |-> opens, upload |-> uploaded, mode |-> mode, seen |-> reviewed])
  /\ UNCHANGED <<dialog, userVars, importVars, edits, opens>>

\* Import starts the job over what was kept, with the options of the form.
startImport ==
  /\ dialog = "import" /\ uploaded # None /\ job = None /\ ~running
  /\ ~(reviewed # None /\ reviewed.is = "asked")
  /\ Send([is |-> "start", at |-> opens, upload |-> uploaded, mode |-> mode, seen |-> reviewed])
  /\ UNCHANGED <<dialog, userVars, importVars, edits, opens>>
Started(r) ==
  /\ r \in Pending("start") /\ asked' = asked \ {r}
  /\ \/ r.upload \in kept /\ kept' = kept \ {r.upload} /\ job' = IF Here(r) THEN "running" ELSE job
     \/ UNCHANGED <<job, kept>>
  /\ UNCHANGED <<dialog, userVars, file, recognition, uploaded, mode, reviewed, edits, sends, opens>>
JobEnds == job = "running" /\ job' = "done"
           /\ UNCHANGED <<dialog, userVars, file, recognition, uploaded, mode, reviewed, kept, asked, edits, sends, opens>>

Next ==
  \/ \E d \in {"user", "import"} : Open(d)
  \/ Dismiss \/ Cancel
  \/ \E x \in DOMAIN Texts : \E v \in Texts[x] : set(x, v)
  \/ \E k \in NEW_USER_KINDS : setKind(k)
  \/ \E another \in BOOLEAN : submit(another)
  \/ \E r \in asked : PlanStep(r) \/ Created(r) \/ Refused(r)
  \/ \E f \in Files : choose(f)
  \/ \E r \in asked : recogniseImportFile(r) \/ Uploaded(r) \/ Started(r)
  \/ upload \/ setMode \/ Reviewed \/ startImport \/ JobEnds

Spec == Init /\ [][Next]_vars

----------------------------------------------------------------------------
\* What the dialog shows is what is sent: once its calls are done an account
\* has every value the form showed for its kind and none left behind under
\* another, and no value left behind holds Create back (kindHas).
CreatedAsShown ==
  /\ \A r \in Pending("create") : r.uid # None =>
       \E m \in made : m.uid = r.uid /\ m.has \cup r.todo.followUps = r.shows
  /\ dialog = "user" => formProblems(kind, form) \subseteq {x \in DOMAIN form : kindHas(kind, x)}

\* A job writes with the options whose effect was previewed, unless that
\* preview failed: Import waits for the preview of its own options.
ImportIsPreviewed ==
  \A r \in Pending("start") :
    /\ r.mode = "skip" => r.seen = None
    /\ r.mode # "skip" => r.seen # None /\ r.seen.for = r.mode /\ r.seen.is \in {"shown", "failed"}
=============================================================================
