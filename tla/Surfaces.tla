------------------------------ MODULE Surfaces ------------------------------
(***************************************************************************)
(* What the console's dialogs, confirmations, inline forms and action      *)
(* buttons have in common: something is opened about a subject, perhaps    *)
(* filled in, a request is sent from it, and the answer comes back later,  *)
(* when the surface may be shut, open again for something else, or gone    *)
(* with its page.  A surface is a record of how its source treats that:    *)
(*   host    where the request's state lives: "form" is mounted anew at    *)
(*           each opening (keyed, or drawn only while open), "page" stays; *)
(*   place   where being open lives: "state" of a component, or the "url", *)
(*           which a late answer edits whatever page is shown;             *)
(*   resets  what opening a "page" surface forgets of the last request:    *)
(*           that it is "busy", its "error", its "job";                    *)
(*   draft   what is typed: "none", "fresh" (anew at each opening) or      *)
(*           "kept" (as the last opening left it);                         *)
(*   checks  what is typed is checked before it is sent;                   *)
(*   target  the subject of the request: "opened" (fixed by the opening),  *)
(*           "current" (the page's, when it is sent), or "keyed" (fixed:   *)
(*           the surface goes when the page turns to another);             *)
(*   exits   how it is dismissed: what it waits for (the "request", the    *)
(*           "job") and what it clears (as resets, and the "draft");       *)
(*           leaving the page heeds neither;                               *)
(*   guard   a second submission while one runs is stopped;                *)
(*   keeps   "hook": useMutation's own callbacks, which run whatever       *)
(*           became of the component; "call": the callbacks given to       *)
(*           mutate(), run only for the request still watched; "await":    *)
(*           state set after an await; "abort": as "await", but shutting   *)
(*           the surface calls the request off;                            *)
(*   done    what success does: "close", "job" (shows the job), "stay",    *)
(*           or "once" (it is shown as done and cannot be sent again);     *)
(*   asks    it can be opened for something else while it is open;         *)
(*   says    where a failure is said: "here", "toast" or "nowhere".        *)
(* The records are in the modules of the sections.  React Query, React,    *)
(* the router and the kit are external: modelled by what sections rely on. *)
(***************************************************************************)
EXTENDS Naturals, FiniteSets, SurfaceKit

CONSTANTS Catalogue,      \* the surfaces: name -> record
          MaxOpenings,    \* bound: openings of the surface
          MaxRequests,    \* bound: requests it sends
          MaxTurns        \* bound: times the page turns to another subject, or is left

VARIABLES surface,        \* the name of the surface this behaviour follows
          open, at,       \* it is on screen; the number of its latest opening
          page, gen,      \* the number of the mount that holds being open, and of the request state's
          about, named,   \* what the page is about, and what the opening was about
          draft,          \* what is typed: since which opening (0: nothing), and right or not
          watch, busy,    \* the request the state follows (0: none), shown as pending
          error, job,     \* the failure, and the job or success, it shows: of which request
          running,        \* that job still runs
          flight, sent    \* requests on their way, and how many were sent

vars == <<surface, open, at, page, gen, about, named, draft, watch, busy, error, job, running, flight, sent>>
state == <<watch, busy, error, job, running>>

S == Catalogue[surface]
Blank == [of |-> 0, ok |-> TRUE]
Nothing == [at |-> 0, on |-> 0]

----------------------------------------------------------------------------
Init ==
  /\ surface \in DOMAIN Catalogue
  /\ open = FALSE /\ at = 0 /\ page = 1 /\ gen = 1 /\ about = 1 /\ named = 1
  /\ draft = Blank /\ watch = 0 /\ busy = FALSE /\ error = Nothing /\ job = Nothing /\ running = FALSE
  /\ flight = {} /\ sent = 0

\* Leaves nothing, or nothing of some of it, for the next opening to show.
Forget(what) ==
  /\ IF "busy" \in what THEN watch' = 0 /\ busy' = FALSE ELSE UNCHANGED <<watch, busy>>
  /\ error' = IF "error" \in what THEN Nothing ELSE error
  /\ IF "job" \in what THEN job' = Nothing /\ running' = FALSE ELSE UNCHANGED <<job, running>>
CalledOff == IF S.keeps = "abort" THEN flight' = {} ELSE UNCHANGED flight

\* It is opened, by a button, a row's menu, a shortcut or an address.
Open ==
  /\ ~open \/ S.asks
  /\ at < MaxOpenings
  /\ open' = TRUE /\ at' = at + 1 /\ named' = about
  /\ gen' = IF S.host = "form" THEN gen + 1 ELSE gen
  /\ draft' = IF S.draft = "kept" THEN draft ELSE Blank
  /\ Forget(IF S.host = "form" THEN All ELSE S.resets)
  /\ UNCHANGED <<surface, page, about, flight, sent>>

\* Something is typed into it, right or wrong.
Type(ok) ==
  /\ open /\ S.draft # "none"
  /\ draft' = [of |-> at, ok |-> ok] /\ draft' # draft
  /\ UNCHANGED <<surface, open, at, page, gen, about, named, state, flight, sent>>

\* It is dismissed by one of its exits: Escape, the scrim, Cancel, its cross.
Dismiss(e) ==
  /\ open
  /\ ~(busy /\ "request" \in e.waits) /\ ~(running /\ "job" \in e.waits)
  /\ open' = FALSE
  /\ Forget(e.clears) /\ CalledOff
  /\ draft' = IF "draft" \in e.clears THEN Blank ELSE draft
  /\ UNCHANGED <<surface, at, page, gen, about, named, sent>>

\* The page is left, whatever is pending, and shown again later.
Leave ==
  /\ page < about + MaxTurns
  /\ open' = FALSE /\ page' = page + 1 /\ gen' = gen + 1 /\ draft' = Blank
  /\ Forget(All) /\ CalledOff
  /\ UNCHANGED <<surface, at, about, named, sent>>

\* The page turns to another subject under what is open (Back, the palette).
\* What is keyed by the subject goes; the address opens it again for the new.
Turn ==
  /\ about < MaxTurns + 1 /\ about' = about + 1
  /\ IF S.target # "keyed"
       THEN UNCHANGED <<open, at, named, page, gen, draft, state>>
       ELSE /\ page' = page + 1 /\ gen' = gen + 1 /\ draft' = Blank /\ Forget(All)
            /\ IF open /\ S.place = "url"
                 THEN at < MaxOpenings /\ at' = at + 1 /\ named' = about' /\ UNCHANGED open
                 ELSE open' = FALSE /\ UNCHANGED <<at, named>>
  /\ UNCHANGED <<surface, flight, sent>>

\* It is submitted: the button, Enter, or a shortcut.
Submit ==
  /\ open /\ job = Nothing /\ sent < MaxRequests
  /\ S.guard => ~busy
  /\ S.checks => draft.of # 0 /\ draft.ok
  /\ flight' = flight \cup {[id |-> sent + 1, at |-> at, gen |-> gen, page |-> page,
                             on |-> IF S.target = "current" THEN about ELSE named]}
  /\ sent' = sent + 1 /\ watch' = sent + 1 /\ busy' = TRUE /\ error' = Nothing
  /\ UNCHANGED <<surface, open, at, page, gen, about, named, draft, job, running>>

\* Mutant: any answer is written.
Mine_(r) == TRUE
\* The state an answer is written to is the one its request was sent from.
Mine(r) == IF S.keeps \in {"hook", "call"} THEN r.id = watch ELSE r.gen = gen

\* The success callback runs, on a page that is still there to see it.
Ran(r) == (S.keeps = "call" => Mine(r)) /\ (S.place = "state" => r.page = page)

Of(r) == [at |-> r.at, on |-> r.on]

\* The engine did it.
Succeed(r) ==
  /\ flight' = flight \ {r}
  /\ busy' = (busy /\ ~Mine(r))
  /\ open' = (open /\ ~(S.done = "close" /\ Ran(r)))
  /\ IF S.done \in {"job", "once"} /\ Ran(r) /\ (S.host = "form" => r.gen = gen) /\ (S.done = "once" => Mine(r))
       THEN job' = Of(r) /\ running' = (S.done = "job")
       ELSE UNCHANGED <<job, running>>
  /\ UNCHANGED <<surface, at, page, gen, about, named, draft, watch, error, sent>>

\* The engine refused it, or could not be reached.
Fail(r) ==
  /\ flight' = flight \ {r}
  /\ busy' = (busy /\ ~Mine(r))
  /\ error' = IF S.says = "here" /\ Mine(r) THEN Of(r) ELSE error
  /\ UNCHANGED <<surface, open, at, page, gen, about, named, draft, watch, job, running, sent>>

\* The job it shows ends, by itself or cancelled.
JobEnds ==
  /\ running /\ running' = FALSE
  /\ UNCHANGED <<surface, open, at, page, gen, about, named, draft, watch, busy, error, job, flight, sent>>

Next ==
  \/ Open
  \/ \E ok \in BOOLEAN : Type(ok)
  \/ \E e \in S.exits : Dismiss(e)
  \/ Leave \/ Turn \/ Submit
  \/ \E r \in flight : Succeed(r) \/ Fail(r)
  \/ JobEnds

Spec == Init /\ [][Next]_vars

----------------------------------------------------------------------------
\* What the page says the surface is about.
subject == IF S.target = "current" THEN about ELSE named

\* Nothing of another opening is shown: not a failure, not a job or a
\* success, not what was typed; nor, by a control that is part of its page,
\* of another subject.  (The surfaces named depart from it.)
ShowsItsOwn(departs) ==
  open /\ surface \notin departs =>
    /\ \A x \in {error, job} : x # Nothing => x.at = at /\ (S.exits = {} => x.on = subject)
    /\ draft.of \in {0, at}

\* One opening has one request under way for one subject.
SendsOnce(departs) ==
  \A r, q \in flight : surface \notin departs /\ r.at = q.at /\ r.page = q.page /\ r.on = q.on => r = q

\* Step: an answer shuts only the opening its request was sent from.
ShutsItsOwn(departs) ==
  \A r \in flight : Succeed(r) /\ surface \notin departs /\ open /\ ~open' => r.at = at

\* Step: a failure is said, unless what it was sent from is no longer shown.
FailureIsSaid(departs) ==
  \A r \in flight : Fail(r) /\ surface \notin departs /\ open /\ r.at = at /\ r.page = page /\ r.on = subject
    => S.says = "toast" \/ error' = Of(r)
=============================================================================
