-------------------------------- MODULE SetUp --------------------------------
(***************************************************************************)
(* firenook init in a terminal: the form's choices, then the set-up's      *)
(* steps (setUpSteps in setup.mjs) under a key that stops them, and the    *)
(* question that starts the emulators (initInTerminal).  The installs run  *)
(* beside each other, the first build after the packages.                  *)
(***************************************************************************)
EXTENDS Integers

CONSTANT NodeRuns  \* subset of BOOLEAN: whether this Node starts the emulators

VARIABLES node,
          form,       \* the choices: language, emulators, agents, install, pin
          phase,      \* "form", "files", "run", "steps", "ask", "started", "done"
          steps,      \* the state of each step
          stopped,
          written,    \* pin.written
          code

vars == <<node, form, phase, steps, stopped, written, code>>

Choices == [language : {"typescript", "javascript", "none"}, emulators : BOOLEAN, agents : BOOLEAN,
            install : BOOLEAN, pin : BOOLEAN]
functions == form.language # "none"

Init ==
  /\ node \in NodeRuns /\ form \in Choices
  /\ phase = "form" /\ steps = <<>> /\ stopped = FALSE /\ written = FALSE /\ code = -1

\* Enter submits a form that starts something; Esc writes nothing.
submit ==
  /\ phase = "form"
  /\ form.emulators \/ functions
  /\ phase' = "files"
  /\ UNCHANGED <<node, form, steps, stopped, written, code>>

cancel ==
  /\ phase = "form"
  /\ phase' = "done" /\ code' = 130
  /\ UNCHANGED <<node, form, steps, stopped, written>>

\* The steps these choices have, in the order the screen lists them.
Steps ==
  {s \in {"agents", "firenook", "packages", "build"} :
     CASE s = "agents" -> form.agents
       [] s = "firenook" -> form.pin
       [] s = "packages" -> form.install /\ functions
       [] s = "build" -> form.install /\ form.language = "typescript"}

\* The files are written, then agents and the pin, and the installs begin.
writeScaffold(works) ==
  /\ phase = "files"
  /\ IF works
     THEN phase' = "run" /\ steps' = [s \in Steps |-> "waiting"] /\ UNCHANGED code
     ELSE phase' = "done" /\ code' = 1 /\ UNCHANGED steps
  /\ UNCHANGED <<node, form, stopped, written>>

run(agents, pinned) ==
  /\ phase = "run"
  /\ phase' = "steps"
  /\ written' = (form.pin /\ pinned)
  /\ steps' = [s \in Steps |->
       CASE s = "agents" -> agents
         [] s = "firenook" -> IF ~pinned THEN "failed" ELSE IF form.install THEN "running" ELSE "done"
         [] s = "packages" -> "running"
         [] s = "build" -> "waiting"]
  /\ UNCHANGED <<node, form, stopped, code>>

\* Mutant: a stop does not hold the build back.
ends_(s, works) ==
  /\ phase = "steps" /\ steps[s] = "running"
  /\ LET after == IF works THEN "done" ELSE IF stopped THEN "skipped" ELSE "failed"
     IN steps' = [t \in Steps |-> CASE t = s -> after
                                    [] t = "build" /\ s = "packages" -> IF works THEN "running" ELSE "skipped"
                                    [] OTHER -> steps[t]]
  /\ UNCHANGED <<node, form, phase, stopped, written, code>>

\* A command ends.  The packages let the build begin, unless it was stopped.
ends(s, works) ==
  /\ phase = "steps" /\ steps[s] = "running"
  /\ LET after == IF works THEN "done" ELSE IF stopped THEN "skipped" ELSE "failed"
         build == IF works /\ ~stopped THEN "running" ELSE "skipped"
     IN steps' = [t \in Steps |-> CASE t = s -> after
                                    [] t = "build" /\ s = "packages" -> build
                                    [] OTHER -> steps[t]]
  /\ UNCHANGED <<node, form, phase, stopped, written, code>>

stop ==
  /\ phase = "steps" /\ ~stopped
  /\ stopped' = TRUE
  /\ UNCHANGED <<node, form, phase, steps, written, code>>

\* All have ended: the emulators are offered, or the steps still to take.
Over == \A s \in Steps : steps[s] \notin {"running", "waiting"}
ok == \A s \in Steps : steps[s] # "failed"
\* Mutant: offered although a step failed.
readyToStart_ == ~stopped /\ node

readyToStart == /\ ~stopped /\ ok /\ node
                /\ functions => "packages" \in Steps /\ steps["packages"] = "done"

finish ==
  /\ phase = "steps" /\ Over
  /\ IF readyToStart THEN phase' = "ask" /\ UNCHANGED code
     ELSE phase' = "done" /\ code' = (IF stopped THEN 130 ELSE IF ok THEN 0 ELSE 1)
  /\ UNCHANGED <<node, form, steps, stopped, written>>

ask(yes) ==
  /\ phase = "ask"
  /\ IF yes THEN phase' = "started" /\ UNCHANGED code ELSE phase' = "done" /\ code' = 0
  /\ UNCHANGED <<node, form, steps, stopped, written>>

\* nextSteps: what init leaves to be typed.
nextSteps ==
  {step \in {"node", "packages", "firenook"} :
     CASE step = "node" -> ~node
       [] step = "packages" -> functions /\ ("packages" \in Steps => steps["packages"] # "done")
       [] step = "firenook" -> written /\ (form.install => steps["firenook"] # "done")}

Next ==
  \/ submit \/ cancel \/ stop \/ finish
  \/ \E works \in BOOLEAN : writeScaffold(works) \/ ask(works)
  \/ \E agents \in {"done", "failed"}, pinned \in BOOLEAN : run(agents, pinned)
  \/ \E s \in DOMAIN steps, works \in BOOLEAN : ends(s, works)

Spec == Init /\ [][Next]_vars
----------------------------------------------------------------------------
\* The first build runs on installed packages only, and a step is skipped only
\* because of a stop or of the packages (setup.mjs:196).
BuildsOnPackages ==
  phase \in {"steps", "ask", "started", "done"} =>
    \A s \in DOMAIN steps :
      /\ s = "build" /\ steps[s] \in {"running", "done", "failed"} => steps["packages"] = "done"
      /\ steps[s] = "skipped" => stopped \/ (s = "build" /\ steps["packages"] = "failed")

\* init ends with 0, or starts the emulators, only when nothing failed and
\* nothing was stopped; and what it starts has its Node and its packages.
EndsAsItWent ==
  /\ code = 0 \/ phase \in {"ask", "started"} =>
       ~stopped /\ \A s \in DOMAIN steps : steps[s] = "done"
  /\ phase = "started" => nextSteps \subseteq {"firenook"}

\* Step: once it was stopped, no command begins (setup.mjs: stop).
StopsWhatRuns ==
  stopped => \A s \in DOMAIN steps : steps'[s] = "running" => steps[s] = "running"
=============================================================================
