------------------------------ MODULE Uploads ------------------------------
(***************************************************************************)
(* The tab's uploads (console/src/storage): a drop checked against the      *)
(* names the bucket has (components/upload-flow.tsx), the queue that judges *)
(* and sends each file (uploads.ts), the tray's rows and totals             *)
(* (upload-queue-store.ts), and the pool that hands the tab's few long      *)
(* requests to pictures and uploads (net.ts).                               *)
(* A name is a stem and the numbers "Keep both" has added to it.  A file is *)
(* one unit of bytes.  An attempt is one call of `start`: it waits for a    *)
(* slot, sends, and gives the slot back.                                    *)
(***************************************************************************)
EXTENDS Integers, Sequences, FiniteSets, SequencesExt

CONSTANTS Drops,        \* the drops a developer may make: sets of names
          Taken,        \* what the bucket may hold before: sets of names
          Identities,   \* as whom: "owner", or "client", judged by rules first
          Limit,        \* slots of the tab (3)
          KeepFinished, \* finished rows the tray keeps
          MaxFiles,     \* bound: files queued
          MaxAttempts,  \* bound: attempts started
          Pictures      \* the pictures that may come on screen

VARIABLES
  stored,    \* the names the bucket has
  viewAs,    \* the identity the page acts as
  check,     \* the existence check in flight: the names asked about
  pending,   \* the conflict dialog's drop and the names that were taken
  plans,     \* per file queued, the name it becomes
  tray,      \* per file its row's state, "gone" once it left; and the totals
  work,      \* the files whose bytes are held
  controller,\* per file, the attempt its Cancel aborts; 0 for none
  judging,   \* the files a dry run is judging
  attempt,   \* per attempt: its file, where it is, whether it was aborted
  waiting,   \* the pool's tickets: attempts and pictures
  held,      \* slots held by uploads and by pictures
  pic,       \* per picture: away, or on screen waiting, loading or shown
  asking,    \* the pool is waiting for a slot of the tab's budget
  others,    \* slots held by other sections of the tab
  wanted,    \* per file: not cancelled since it was queued or sent again
  early      \* the files cancelled before they had a request to abort

queue == <<plans, tray, work, controller>>
pool == <<waiting, held, pic, asking, others>>
flow == <<stored, viewAs, check, pending>>
vars == <<flow, queue, judging, attempt, pool, wanted, early>>

Active == {"checking", "queued", "uploading"}
isActive(state) == state \in Active
NoDrop == [names |-> {}, existing |-> {}]

----------------------------------------------------------------------------
(* Names. *)

\* The first numbered name that is not taken.
keepBothName(name, taken) ==
  LET Numbered(k) == [name EXCEPT !.marks = Append(@, k)]
      k == CHOOSE k \in 1..Cardinality(taken) + 1 :
             Numbered(k) \notin taken /\ \A j \in 1..k - 1 : Numbered(j) \in taken
  IN  Numbered(k)

\* The drop as it will be sent: taken names replaced, skipped or renamed one
\* after the other.
resolveConflicts(drop, existing, choice) ==
  LET One(acc, name) ==
        IF name \notin existing \/ choice = "replace" THEN [acc EXCEPT !.send = Append(@, name)]
        ELSE IF choice = "skip" THEN [acc EXCEPT !.skipped = Append(@, name)]
        ELSE LET renamed == keepBothName(name, acc.taken)
             IN  [acc EXCEPT !.taken = @ \cup {renamed}, !.send = Append(@, renamed)]
  IN  FoldLeft(One, [send |-> <<>>, skipped |-> <<>>, taken |-> existing \cup drop], SetToSeq(drop))

----------------------------------------------------------------------------
(* The tray. *)

\* Finished rows past the last KeepFinished leave, the oldest first.
pruneFinished(r) ==
  LET finished == {id \in DOMAIN r : ~isActive(r[id]) /\ r[id] # "gone"}
  IN  [id \in DOMAIN r |-> IF id \in finished /\ Cardinality({x \in finished : x > id}) >= KeepFinished
                             THEN "gone" ELSE r[id]]
add(t, states) ==
  [t EXCEPT !.row = pruneFinished(@ \o states), !.files = @ + Len(states),
            !.finished = @ + Cardinality({i \in DOMAIN states : ~isActive(states[i])})]
patch(t, id, state) ==
  LET before    == t.row[id]
      ended     == isActive(before) /\ ~isActive(state)
      restarted == ~isActive(before) /\ isActive(state)
      row       == [t.row EXCEPT ![id] = state]
  IN  IF before = "gone" THEN t
      ELSE [t EXCEPT !.row = IF ended THEN pruneFinished(row) ELSE row,
                     !.finished = @ + (IF ended THEN 1 ELSE IF restarted THEN -1 ELSE 0),
                     !.sent = @ + (IF state = "done" /\ before # "done" THEN 1 ELSE 0)]
patchAll(t, ids, state) == FoldLeft(LAMBDA acc, id : patch(acc, id, state), t, SetToSortSeq(ids, <))
Emptied(t) == [row |-> [id \in DOMAIN t.row |-> "gone"], files |-> 0, finished |-> 0, sent |-> 0]
ActiveRows(t) == {id \in DOMAIN t.row : isActive(t.row[id])}

----------------------------------------------------------------------------
(* The pool: the slots of the tab, to pictures before uploads. *)

PicturesWaiting(w) == \E t \in w : t.kind = "picture"
OnScreen(ps) == {p \in DOMAIN ps : ps[p] # "away"}
\* Mutant: uploads may take every slot.
uploadCap_(w, ps) == Limit
uploadCap(w, ps) == IF OnScreen(ps) # {} \/ PicturesWaiting(w) THEN Limit - 1 ELSE Limit
\* The tickets that may get the next slot, and which of two goes first.
Eligible(w, h, ps) == {t \in w : t.kind = "upload" => h.upload < uploadCap(w, ps)}
rank(t, u) == \/ t.kind = "picture" /\ u.kind = "upload"
              \/ t.kind = u.kind /\ t.id <= u.id
Asks(w, h, ps) == h.upload + h.picture < Limit /\ Eligible(w, h, ps) # {}
\* Mutant: only a free tab is asked for a slot.
pump_(w, h, ps) == asking' = (asking \/ (Asks(w, h, ps) /\ h.upload + h.picture = 0))
\* Someone asked, left or gave a slot back: a slot is asked for, once.
pump(w, h, ps) == asking' = (asking \/ Asks(w, h, ps))

\* A slot of the tab's budget arrives, for whoever is first by now.
Grant ==
  LET able == Eligible(waiting, held, pic)
      t    == CHOOSE t \in able : \A u \in able : rank(t, u)
  IN  /\ asking /\ held.upload + held.picture + others < Limit
      /\ \/ able = {} /\ asking' = FALSE /\ UNCHANGED <<waiting, held, pic, attempt, tray>>
         \/ /\ able # {}
            /\ waiting' = waiting \ {t} /\ held' = [held EXCEPT ![t.kind] = @ + 1]
            /\ IF t.kind = "picture"
                 THEN pic' = [pic EXCEPT ![t.id] = "loading"] /\ UNCHANGED <<attempt, tray>>
                 ELSE /\ attempt' = [attempt EXCEPT ![t.id].at = "sending"]
                      /\ tray' = patch(tray, attempt[t.id].file, "uploading")
                      /\ UNCHANGED pic
            /\ asking' = Asks(waiting', held', pic')
      /\ UNCHANGED <<flow, plans, work, controller, judging, others, wanted, early>>

\* A picture comes on screen and asks for a slot; it is loaded; it leaves,
\* before its turn, while it loads, or after.
Picture(p) ==
  LET t == [kind |-> "picture", id |-> p]
  IN  /\ \/ /\ pic[p] = "away"
            /\ pic' = [pic EXCEPT ![p] = "waiting"] /\ waiting' = waiting \cup {t} /\ UNCHANGED held
         \/ /\ pic[p] = "loading"
            /\ pic' = [pic EXCEPT ![p] = "shown"] /\ held' = [held EXCEPT !.picture = @ - 1]
            /\ UNCHANGED waiting
         \/ /\ pic[p] # "away"
            /\ pic' = [pic EXCEPT ![p] = "away"] /\ waiting' = waiting \ {t}
            /\ held' = [held EXCEPT !.picture = IF pic[p] = "loading" THEN @ - 1 ELSE @]
      /\ pump(waiting', held', pic')
      /\ UNCHANGED <<flow, queue, judging, attempt, others, wanted, early>>
\* Another section of the tab takes a slot of the budget, or gives it back.
Elsewhere ==
  /\ \/ others = 0 /\ held.upload + held.picture < Limit /\ others' = 1
     \/ others = 1 /\ others' = 0
  /\ UNCHANGED <<flow, queue, judging, attempt, waiting, held, pic, asking, wanted, early>>

----------------------------------------------------------------------------
Init ==
  /\ stored \in Taken /\ viewAs \in Identities
  /\ check = {} /\ pending = NoDrop
  /\ plans = <<>> /\ work = {} /\ controller = <<>> /\ judging = {}
  /\ tray = [row |-> <<>>, files |-> 0, finished |-> 0, sent |-> 0]
  /\ attempt = <<>> /\ waiting = {} /\ held = [upload |-> 0, picture |-> 0]
  /\ pic = [p \in Pictures |-> "away"] /\ asking = FALSE /\ others = 0
  /\ wanted = <<>> /\ early = {}

\* Attempts for some files, in order: each has a controller, a row that waits
\* and a ticket in the pool.
start(t, c, ids) ==
  LET order == SetToSortSeq(ids \cap work', <)
      Nth(id) == Len(attempt) + Cardinality({x \in ids \cap work' : x <= id})
  IN  /\ Len(attempt) + Len(order) <= MaxAttempts
      /\ controller' = [id \in DOMAIN c |-> IF id \in ids \cap work' THEN Nth(id) ELSE c[id]]
      /\ tray' = patchAll(t, ids \cap work', "queued")
      /\ attempt' = attempt \o [i \in DOMAIN order |-> [file |-> order[i], at |-> "waiting", abort |-> FALSE]]
      /\ waiting' = waiting \cup {[kind |-> "upload", id |-> Nth(id)] : id \in ids \cap work'}
      /\ pump(waiting', held, pic)

\* A drop is queued: a client's is judged first, the owner's starts.
enqueueUploads(names, skipped) ==
  LET new     == {Len(plans) + i : i \in DOMAIN names}
      Same(x) == [i \in DOMAIN (names \o skipped) |-> x]
      Rows(x) == [i \in DOMAIN names |-> x] \o [i \in DOMAIN skipped |-> "skipped"]
  IN  /\ Len(plans) + Len(names) + Len(skipped) <= MaxFiles
      /\ plans' = plans \o names \o skipped
      /\ work' = work \cup new
      /\ wanted' = wanted \o Same(TRUE)
      /\ IF viewAs # "owner" /\ new # {}
           THEN /\ judging' = judging \cup {new} /\ controller' = controller \o Same(0)
                /\ tray' = add(tray, Rows("checking"))
                /\ UNCHANGED <<attempt, waiting, asking>>
           ELSE /\ start(add(tray, Rows("queued")), controller \o Same(0), new)
                /\ UNCHANGED judging
      /\ UNCHANGED <<stored, viewAs, held, pic, others, early>>

\* Files are dropped, and the bucket asked which of their names it has.
prepare(drop) ==
  /\ check = {} /\ pending = NoDrop /\ drop # {}
  /\ Len(plans) + Cardinality(drop) <= MaxFiles
  /\ check' = drop
  /\ UNCHANGED <<stored, viewAs, pending, queue, judging, attempt, pool, wanted, early>>
Checked ==
  LET existing == check \cap stored
  IN  /\ check # {} /\ check' = {}
      /\ \/ /\ existing # {} /\ pending' = [names |-> check, existing |-> existing]
            /\ UNCHANGED <<stored, viewAs, queue, judging, attempt, pool, wanted, early>>
         \/ /\ existing = {} /\ enqueueUploads(SetToSeq(check), <<>>) /\ UNCHANGED pending
         \/ UNCHANGED <<stored, viewAs, pending, queue, judging, attempt, pool, wanted, early>>
confirm(choice) ==
  LET resolved == resolveConflicts(pending.names, pending.existing, choice)
  IN  /\ pending # NoDrop /\ pending' = NoDrop
      /\ enqueueUploads(resolved.send, resolved.skipped)
      /\ UNCHANGED check
onCancel ==
  /\ pending # NoDrop /\ pending' = NoDrop
  /\ UNCHANGED <<stored, viewAs, check, queue, judging, attempt, pool, wanted, early>>

\* A dry run answers: the files refused end there, the rest start; a dry run
\* that cannot run allows them all, and one with no identity fails them all.
dryRun(drop, refused) ==
  /\ drop \in judging /\ judging' = judging \ {drop}
  /\ work' = work \ refused
  /\ start(patchAll(tray, refused, "refused"), controller, drop \ refused)
  /\ UNCHANGED <<flow, plans, held, pic, others, wanted, early>>
NoIdentity(drop) ==
  /\ drop \in judging /\ judging' = judging \ {drop}
  /\ tray' = patchAll(tray, drop, "failed")
  /\ UNCHANGED <<flow, plans, work, controller, attempt, pool, wanted, early>>

\* An attempt ends and gives its slot back: the object is stored, or it is
\* refused (by the rules, or because the name is taken), or it fails; one that
\* was aborted ends cancelled.  The bytes of what can be sent again are kept.
Settle(n, outcome) ==
  LET file == attempt[n].file
  IN  /\ attempt[n].at = "sending" /\ attempt[n].abort = (outcome = "cancelled")
      /\ stored' = IF outcome = "done" THEN stored \cup {plans[file]} ELSE stored
      /\ work' = IF outcome \in {"done", "refused"} THEN work \ {file} ELSE work
      /\ tray' = patch(tray, file, outcome)
      /\ attempt' = [attempt EXCEPT ![n].at = "ended"]
      /\ held' = [held EXCEPT !.upload = @ - 1]
      /\ pump(waiting, held', pic)
      /\ UNCHANGED <<viewAs, check, pending, plans, controller, judging, waiting, pic, others, wanted, early>>

\* Cancel aborts the attempt: a waiting one leaves the pool at once.  A file
\* with no attempt yet is only said to be cancelled.
cancelUpload(id) ==
  LET n == controller[id]
      t == [kind |-> "upload", id |-> n]
  IN  /\ isActive(tray.row[id]) /\ id \in work
      /\ wanted' = [wanted EXCEPT ![id] = FALSE]
      /\ \/ /\ n = 0 /\ tray' = patch(tray, id, "cancelled") /\ early' = early \cup {id}
            /\ UNCHANGED <<attempt, waiting, asking>>
         \/ /\ n # 0 /\ t \in waiting
            /\ waiting' = waiting \ {t} /\ pump(waiting', held, pic)
            /\ attempt' = [attempt EXCEPT ![n].at = "ended", ![n].abort = TRUE]
            /\ tray' = patch(tray, id, "cancelled") /\ UNCHANGED early
         \/ /\ n # 0 /\ attempt[n].at = "sending" /\ ~attempt[n].abort
            /\ attempt' = [attempt EXCEPT ![n].abort = TRUE]
            /\ UNCHANGED <<tray, waiting, asking, early>>
      /\ UNCHANGED <<flow, plans, work, controller, judging, held, pic, others>>
\* Mutant: whatever its row says.
retryUpload_(id) ==
  /\ id \in work
  /\ UNCHANGED work /\ start(tray, controller, {id})
  /\ wanted' = [wanted EXCEPT ![id] = TRUE]
  /\ UNCHANGED <<flow, plans, judging, held, pic, others, early>>
\* A failed or cancelled file is sent again.
retryUpload(id) ==
  /\ tray.row[id] \in {"failed", "cancelled"} /\ id \in work
  /\ UNCHANGED work /\ start(tray, controller, {id})
  /\ wanted' = [wanted EXCEPT ![id] = TRUE]
  /\ UNCHANGED <<flow, plans, judging, held, pic, others, early>>

\* The tray is closed, once nothing in it is active: its rows go, and the
\* bytes they could be sent again from.
clearFinishedUploads ==
  /\ tray.files > 0 /\ ActiveRows(tray) = {}
  /\ work' = work \ {id \in DOMAIN tray.row : tray.row[id] # "gone"}
  /\ tray' = Emptied(tray)
  /\ UNCHANGED <<flow, plans, controller, judging, attempt, pool, wanted, early>>

Next ==
  \/ \E drop \in Drops : prepare(drop)
  \/ Checked \/ onCancel
  \/ \E choice \in {"replace", "skip", "keep"} : confirm(choice)
  \/ \E drop \in judging : NoIdentity(drop) \/ \E refused \in SUBSET drop : dryRun(drop, refused)
  \/ Grant \/ Elsewhere \/ \E p \in Pictures : Picture(p)
  \/ \E n \in DOMAIN attempt, o \in {"done", "refused", "failed", "cancelled"} : Settle(n, o)
  \/ \E id \in DOMAIN plans : cancelUpload(id) \/ retryUpload(id)
  \/ clearFinishedUploads

----------------------------------------------------------------------------
InFlight(id) == {n \in DOMAIN attempt : attempt[n].file = id /\ attempt[n].at # "ended" /\ ~attempt[n].abort}

\* No slot is lost and none waits unseen: every slot held belongs to a request
\* on its way, every ticket to an attempt that still wants it, and while a
\* slot is free for a ticket the pool is asking for it (net.ts, pump).
SlotsAccounted ==
  /\ held.upload = Cardinality({n \in DOMAIN attempt : attempt[n].at = "sending"})
  /\ held.picture = Cardinality({p \in Pictures : pic[p] = "loading"})
  /\ \A n \in DOMAIN attempt : attempt[n].at = "waiting" <=> [kind |-> "upload", id |-> n] \in waiting
  /\ Asks(waiting, held, pic) => asking

\* Step: "a picture never waits behind a long upload": no upload takes the last slot
\* while a picture is on screen.
PicturesGetThrough ==
  held'.upload > held.upload /\ OnScreen(pic) # {} => held'.upload < Limit

\* A file is sent by one request at a time, its bytes are held as long as its
\* row is active, and the totals count each row once: not once it was
\* cancelled before it had a request (`early`).
EachSentOnce ==
  /\ tray.files - tray.finished = Cardinality(ActiveRows(tray))
  /\ early = {} =>
       /\ tray.sent <= tray.finished
       /\ \A id \in DOMAIN plans :
            /\ Cardinality(InFlight(id)) <= 1
            /\ isActive(tray.row[id]) => id \in work
            /\ InFlight(id) # {} => isActive(tray.row[id]) /\ controller[id] \in InFlight(id)

\* A file that was cancelled is not sent, unless it is sent again (uploads.ts:
\* "Cancel aborts the request and the engine drops the staged bytes"): one that
\* was cancelled before it had a request (`early`) is sent all the same.
CancelledIsNotSent ==
  \A id \in DOMAIN plans \ early : ~wanted[id] => InFlight(id) = {}

\* "Keep both" and "Skip" never replace what the check found: the names sent
\* are not taken, and no two files get one name.
KeepsWhatWasFound ==
  pending # NoDrop =>
    \A choice \in {"skip", "keep"} :
      LET sent == resolveConflicts(pending.names, pending.existing, choice).send
      IN  ToSet(sent) \cap pending.existing = {} /\ Cardinality(ToSet(sent)) = Len(sent)
============================================================================
