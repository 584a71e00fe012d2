------------------------------ MODULE RunForms ------------------------------
(***************************************************************************)
(* The Run tab of a function (console/src/functions/components): the forms  *)
(* that call it, send it a test event, or do the real thing that triggers   *)
(* it, and the answer shown below them.  A test is a stream of frames, one  *)
(* open per tab (invoke-stream.ts); the real thing's invocation is found on *)
(* the function's live events (useNextInvocation of run-parts.tsx).         *)
(* Each press of a button is an action, numbered; the invocation it makes   *)
(* has its number.                                                          *)
(***************************************************************************)
EXTENDS Integers, Sequences, FiniteSets, SequencesExt

CONSTANTS Forms,    \* the forms looked at
          Recent,   \* finished invocations a form remembers (50)
          MaxRuns   \* bound: actions

\* What each form can do: `tests` opens a stream, from `setup` when a token is
\* read first; `real` does the real thing and recognises its invocation by
\* its own id ("id"), by the name of what was written ("name"), or by having
\* started since ("since"), or is not there ("none"); where `one` mutation does
\* everything, the next waits for the last.
InvokeForm == [tests |-> TRUE, setup |-> TRUE, real |-> "none", one |-> FALSE]
CallableForm == [tests |-> TRUE, setup |-> TRUE, real |-> "none", one |-> FALSE]
TaskForm == [tests |-> FALSE, setup |-> FALSE, real |-> "id", one |-> TRUE]
BlockingForm == [tests |-> TRUE, setup |-> FALSE, real |-> "since", one |-> FALSE]
ScheduleForm(viaPubsub) == [tests |-> ~viaPubsub, setup |-> FALSE, one |-> TRUE,
                            real |-> IF viaPubsub THEN "since" ELSE "none"]
EventForm == [tests |-> TRUE, setup |-> FALSE, real |-> "name", one |-> FALSE]
PublishForm == [EventForm EXCEPT !.real = "id"]
Form == [invoke |-> InvokeForm, callable |-> CallableForm, task |-> TaskForm, blocking |-> BlockingForm,
         schedule |-> ScheduleForm(TRUE), direct |-> ScheduleForm(FALSE), event |-> EventForm, publish |-> PublishForm]

VARIABLES
  form,      \* which form it is
  acts,      \* the actions taken: whether a test, and the name written
  current,   \* the tab's open stream: an action, 0 for none
  stream,    \* per action, how far its stream or its request is
  invoked,   \* per action, its invocation: none, running, finished or told
  run,       \* the answer a test wrote
  waits,     \* the action whose invocation is awaited, 0 for none
  found,     \* the invocation found, and for which wait
  recent,    \* the finished invocations the form has heard of
  crossed    \* two actions overlapped, or could not be told apart

vars == <<form, acts, current, stream, invoked, run, waits, found, recent, crossed>>
K == Form[form]
Blank == [shown |-> FALSE, sending |-> FALSE, started |-> 0, finished |-> 0, error |-> FALSE]
Latest == Len(acts)
NotFound == [for |-> 0, inv |-> 0]

Init ==
  /\ form \in Forms /\ acts = <<>> /\ current = 0 /\ stream = <<>> /\ invoked = <<>>
  /\ run = Blank /\ waits = 0 /\ found = NotFound /\ recent = <<>> /\ crossed = FALSE

\* The invocations an action's wait recognises: "since" allows a second, so an
\* action soon after the last (name 2) takes the last's too.
Matches(n, m) ==
  CASE K.real = "id"    -> m = n
    [] K.real = "name"  -> ~acts[m].test /\ acts[m].name = acts[n].name
    [] K.real = "since" -> m >= n \/ (acts[n].name = 2 /\ m = n - 1)
    [] OTHER            -> FALSE

\* A request is on its way for the form's real action.
Pending(n) == stream[n] = "asked"
Open(n) == stream[n] \in {"setup", "open", "started"}
Settled(n) == stream[n] \in {"ended", "failed"}
\* Starting a stream stops waiting on the tab's other one.
Stopped(s) == IF current # 0 /\ Open(current) THEN [s EXCEPT ![current] = "stopped"] ELSE s

\* Mutant: the invocation awaited before stays.
Answering_ == run' = [Blank EXCEPT !.shown = TRUE, !.sending = TRUE] /\ UNCHANGED waits
\* What the form shows from now on is this test's answer.
Answering == run' = [Blank EXCEPT !.shown = TRUE, !.sending = TRUE] /\ waits' = 0
\* A test is sent.
send ==
  /\ K.tests /\ Latest < MaxRuns /\ ~run.sending
  /\ K.one => \A n \in 1..Latest : Settled(n)
  /\ acts' = Append(acts, [test |-> TRUE, name |-> 0]) /\ invoked' = Append(invoked, "none")
  /\ Answering
  /\ IF K.setup THEN stream' = Append(stream, "setup") /\ UNCHANGED current
                ELSE stream' = Append(Stopped(stream), "open") /\ current' = Latest + 1
  /\ crossed' = (crossed \/ \E n \in 1..Latest : ~Settled(n))
  /\ UNCHANGED <<form, found, recent>>
\* The token it is sent with is read, or cannot be.
identityHeaders(n) ==
  /\ stream[n] = "setup"
  /\ \/ stream' = [Stopped(stream) EXCEPT ![n] = "open"] /\ current' = n /\ UNCHANGED run
     \/ /\ stream' = [stream EXCEPT ![n] = "ended"]
        /\ run' = [Blank EXCEPT !.shown = TRUE, !.error = TRUE] /\ UNCHANGED current
  /\ UNCHANGED <<form, acts, invoked, waits, found, recent, crossed>>

\* A frame arrives and is written over whatever answer is there now.
onFrame(n) ==
  /\ \/ /\ stream[n] = "open" /\ stream' = [stream EXCEPT ![n] = "started"]
        /\ invoked' = [invoked EXCEPT ![n] = "running"]
        /\ run' = [run EXCEPT !.shown = TRUE, !.sending = TRUE, !.started = n]
     \/ /\ stream[n] = "started" /\ stream' = [stream EXCEPT ![n] = "over"]
        /\ invoked' = [invoked EXCEPT ![n] = "finished"]
        /\ run' = [run EXCEPT !.shown = TRUE, !.sending = FALSE, !.finished = n]
  /\ UNCHANGED <<form, acts, current, waits, found, recent, crossed>>
\* Nothing more is coming.
Quiet == [run EXCEPT !.shown = TRUE, !.sending = FALSE]
\* The stream ends: by itself, broken, or because something stopped waiting.
StreamEnds(n) ==
  /\ \/ stream[n] \in {"over", "stopped"} /\ run' = Quiet
     \/ stream[n] \in {"open", "started"}
        /\ run' = [Quiet EXCEPT !.error = TRUE]
     \/ stream[n] = "open" /\ run' = [Blank EXCEPT !.shown = TRUE, !.error = TRUE]
  /\ stream' = [stream EXCEPT ![n] = "ended"]
  /\ current' = IF current = n THEN 0 ELSE current
  /\ UNCHANGED <<form, acts, invoked, waits, found, recent, crossed>>
\* Stop waiting, or another page of the tab opens a stream.
stopWaiting ==
  /\ current # 0 /\ Open(current) /\ stream' = Stopped(stream)
  /\ UNCHANGED <<form, acts, current, invoked, run, waits, found, recent, crossed>>

\* The real thing is done; its button waits for its own request only.
forReal(name) ==
  /\ K.real # "none" /\ Latest < MaxRuns /\ \A n \in 1..Latest : ~Pending(n)
  /\ K.one => \A n \in 1..Latest : Settled(n)
  /\ acts' = Append(acts, [test |-> FALSE, name |-> name])
  /\ stream' = Append(stream, "asked") /\ invoked' = Append(invoked, "none")
  /\ run' = Blank
  /\ waits' = IF form = "task" THEN waits ELSE 0
  /\ crossed' = (crossed \/ (\E n \in 1..Latest : ~Settled(n))
                        \/ (K.real = "since" /\ name = 2)
                        \/ (K.real = "name" /\ \E n \in 1..Latest : ~acts[n].test /\ acts[n].name = name))
  /\ UNCHANGED <<form, current, found, recent>>
\* It triggers the function, before or after its request returns.
Triggers(n) ==
  /\ ~acts[n].test /\ invoked[n] = "none" /\ stream[n] # "failed"
  /\ invoked' = [invoked EXCEPT ![n] = "running"]
  /\ UNCHANGED <<form, acts, current, stream, run, waits, found, recent, crossed>>
Finishes(n) ==
  /\ ~acts[n].test /\ invoked[n] = "running"
  /\ invoked' = [invoked EXCEPT ![n] = "finished"]
  /\ UNCHANGED <<form, acts, current, stream, run, waits, found, recent, crossed>>

\* Mutant: the wait begins with what is told from now on.
Known_(n) == {}
\* The invocations heard of already that the action's wait recognises.
Known(n) == {i \in DOMAIN recent : Matches(n, recent[i])}
\* Its request returns with what to wait for, which may be in already.
onSuccess(n) ==
  LET known == Known(n)
  IN  /\ Pending(n)
      /\ stream' = [stream EXCEPT ![n] = "ended"] /\ waits' = n
      /\ found' = IF known = {} THEN found
                  ELSE [for |-> n, inv |-> recent[CHOOSE i \in known : \A j \in known : j <= i]]
      /\ UNCHANGED <<form, acts, current, invoked, run, recent, crossed>>
onError(n) ==
  /\ Pending(n) /\ invoked[n] = "none"
  /\ stream' = [stream EXCEPT ![n] = "failed"]
  /\ UNCHANGED <<form, acts, current, invoked, run, waits, found, recent, crossed>>

\* The live events tell of a finished invocation.
onBatch(m) ==
  /\ invoked[m] = "finished" /\ invoked' = [invoked EXCEPT ![m] = "told"]
  /\ recent' = LET all == Append(recent, m)
               IN  SubSeq(all, IF Len(all) > Recent THEN Len(all) - Recent + 1 ELSE 1, Len(all))
  /\ found' = IF waits # 0 /\ Matches(waits, m) THEN [for |-> waits, inv |-> m] ELSE found
  /\ UNCHANGED <<form, acts, current, stream, run, waits, crossed>>

Next ==
  \/ send \/ stopWaiting \/ \E name \in 1..2 : forReal(name)
  \/ \E n \in 1..Latest : \/ identityHeaders(n) \/ onFrame(n) \/ StreamEnds(n) \/ onBatch(n)
                          \/ Triggers(n) \/ Finishes(n) \/ onSuccess(n) \/ onError(n)

----------------------------------------------------------------------------
\* The invocation the answer shows.
Awaited == IF waits # 0 /\ found.for = waits THEN found.inv ELSE 0
Answer == IF run.started # 0 THEN run.started ELSE IF run.finished # 0 THEN run.finished ELSE Awaited

\* The answer is the latest action's, never an earlier one's; the task form
\* keeps the last task's until another is enqueued.  Not for the moments
\* `crossed` records, where the last action was still on its way or cannot
\* be told from this one.
AnswersTheLatest ==
  ~crossed /\ Answer # 0 =>
    IF Answer = Awaited /\ K.real = "since" THEN Answer >= Latest
    ELSE Answer = (IF form = "task" THEN waits ELSE Latest)

\* An invocation that finishes before the action has said what it waits for
\* is found all the same, as long as the form remembers it (run-parts.tsx).
FoundAllTheSame ==
  waits # 0 /\ (\E i \in DOMAIN recent : recent[i] = waits /\ Matches(waits, waits)) => Awaited # 0

\* Send is not held for ever: a form that says it is sending has a stream, or
\* a token, on its way to end it.
SendingEnds ==
  run.sending => \E n \in 1..Latest : ~Settled(n) /\ ~Pending(n)
============================================================================
