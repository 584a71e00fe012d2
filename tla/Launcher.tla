------------------------------ MODULE Launcher ------------------------------
(***************************************************************************)
(* The launcher as the parent of the processes it starts: the builds, then *)
(* the engine, then the command of emulators:exec.  mode tells the plain   *)
(* start and exec (supervise in runtime.mjs) from the terminal's session   *)
(* (runInteractive in session.mjs).  A process ends at one moment and the  *)
(* launcher hears of it at a later one; what follows an await whose last   *)
(* promise just settled is part of the step that settled it.               *)
(***************************************************************************)
EXTENDS Integers

CONSTANTS Builds,    \* codebases with a script to run first
          Watching,  \* those of them whose script goes on compiling
          Modes      \* of "start", "exec" and "terminal"

VARIABLES mode,
          phase,     \* "builds", "engine", "shut" (the engine's end was heard), "done"
          builds,    \* by codebase: is it running, how its first build settled, its exit code
          stopped,   \* requestedStop
          engine,    \* the engine's process
          ready,     \* its readiness was heard
          failure,   \* the failure it described: "no", "showing", "shown"
          hub,       \* the listing of what runs: "no", "asked", "listed", "missing", "heard"
          test,      \* the command's process
          status,    \* commandStatus, or None
          error,     \* startupError is set
          result,    \* the exit code, or None
          said       \* what the terminal said of the data at the end

vars == <<mode, phase, builds, stopped, engine, ready, failure, hub, test, status, error, result, said>>

None == -1
Signals == {"SIGINT", "SIGTERM"}
Silent == [at |-> "none", asked |-> "no", up |-> FALSE, code |-> None, signal |-> "no"]
NoTest == [at |-> "none", killed |-> FALSE, code |-> None, signal |-> "no"]
exec == mode = "exec"
terminal == mode = "terminal"
watch(b) == ~exec /\ b \in Watching
Alive == engine.at \in {"starting", "up"}

\* The exit code of a process: its own, or the one that tells its signal.
exitOf(p) == IF p.signal = "no" THEN p.code ELSE IF p.signal = "SIGINT" THEN 130 ELSE 1

Init ==
  /\ mode \in Modes
  /\ \E some \in SUBSET Builds :
       builds = [b \in some |-> [at |-> "running", first |-> "no", code |-> None, stop |-> FALSE]]
  /\ phase = (IF DOMAIN builds = {} THEN "engine" ELSE "builds")
  /\ engine = (IF phase = "engine" THEN [Silent EXCEPT !.at = "starting"] ELSE Silent)
  /\ stopped = FALSE /\ ready = FALSE /\ failure = "no" /\ hub = "no" /\ test = NoTest
  /\ status = None /\ error = FALSE /\ result = None /\ said = "nothing"

Stopping(bs) == [b \in DOMAIN bs |-> [bs[b] EXCEPT !.stop = TRUE]]

\* The end of the launcher, its finally included.
Settle(code, words) ==
  /\ phase' = "done"
  /\ result' = code
  /\ said' = words
----------------------------------------------------------------------------
\* Mutant: a build ended by a signal did not fail.
FailedBuild_(bs) == \E b \in DOMAIN bs : ~watch(b) /\ bs[b].code > 0

\* The builds.  bs is what they are once one more first build has settled.
FailedBuild(bs) == \E b \in DOMAIN bs : ~watch(b) /\ ~(bs[b].first = "exit" /\ bs[b].code = 0)

AfterBuilds(bs) ==
  IF \E b \in DOMAIN bs : bs[b].first = "no"
  THEN builds' = bs /\ UNCHANGED <<phase, engine, result, said>>
  ELSE IF stopped
  THEN builds' = Stopping(bs) /\ Settle(130, "nothing") /\ UNCHANGED engine
  ELSE IF exec /\ FailedBuild(bs)
  THEN builds' = Stopping(bs) /\ Settle(1, "nothing") /\ UNCHANGED engine
  ELSE /\ builds' = bs
       /\ phase' = "engine"
       /\ engine' = [engine EXCEPT !.at = "starting"]
       /\ UNCHANGED <<result, said>>

\* A build's first answer is kept, whatever follows it.
Settled(b, how) == IF builds[b].first = "no" THEN how ELSE builds[b].first

Hears(bs) ==
  IF phase = "builds" THEN AfterBuilds(bs)
  ELSE builds' = bs /\ UNCHANGED <<phase, engine, result, said>>

\* A watch says that it is watching.
BuildWatches(b) ==
  /\ builds[b].at = "running" /\ watch(b) /\ builds[b].first = "no"
  /\ Hears([builds EXCEPT ![b].first = "said"])
  /\ UNCHANGED <<mode, stopped, ready, failure, hub, test, status, error>>

\* The patience of two minutes is over.
BuildIsSlow(b) ==
  /\ builds[b].at = "running" /\ builds[b].first = "no"
  /\ Hears([builds EXCEPT ![b].first = "slow"])
  /\ UNCHANGED <<mode, stopped, ready, failure, hub, test, status, error>>

\* A build ends: a watch only when stopped or by failing.
BuildEnds(b, code) ==
  /\ builds[b].at = "running"
  /\ code # 0 \/ ~watch(b)
  /\ Hears([builds EXCEPT ![b].at = "ended", ![b].first = Settled(b, "exit"), ![b].code = code])
  /\ UNCHANGED <<mode, stopped, ready, failure, hub, test, status, error>>
----------------------------------------------------------------------------
\* What a stop asks of the processes; those that ended are asked nothing.
requestNativeStop(signal) ==
  engine' = IF Alive /\ engine.asked = "no" THEN [engine EXCEPT !.asked = signal] ELSE engine

stop(signal) ==
  /\ stopped' = TRUE
  /\ builds' = Stopping(builds)
  /\ test' = IF test.at = "running" THEN [test EXCEPT !.killed = TRUE] ELSE test
  /\ requestNativeStop(signal)

\* A signal, or the terminal's q and Ctrl-C.  The session stops once.
Signal(signal) ==
  /\ phase # "done"
  /\ terminal => ~stopped
  /\ stop(signal)
  /\ UNCHANGED <<mode, phase, ready, failure, hub, status, error, result, said>>

\* Twenty minutes without a word while starting.
Quiet ==
  /\ phase = "engine" /\ engine.at = "starting" /\ ~ready
  /\ terminal => ~stopped
  /\ stop("SIGTERM")
  /\ error' = (error \/ ~terminal)
  /\ UNCHANGED <<mode, phase, ready, failure, hub, status, result, said>>
----------------------------------------------------------------------------
\* The engine: it starts, says so, and stops when asked; or it describes a
\* failure, ends on its own or is killed.  A signal that comes before it
\* listens for one ends it.
EngineUp ==
  /\ engine.at = "starting"
  /\ engine' = [engine EXCEPT !.at = "up", !.up = TRUE]
  /\ UNCHANGED <<mode, phase, builds, stopped, ready, failure, hub, test, status, error, result, said>>

EngineEnds(code, signal) ==
  /\ Alive
  /\ signal \in Signals => engine.at = "starting"
  /\ engine' = [engine EXCEPT !.at = "gone", !.code = code, !.signal = signal]
  /\ hub' = IF hub = "asked" THEN "missing" ELSE hub
  /\ UNCHANGED <<mode, phase, builds, stopped, ready, failure, test, status, error, result, said>>

\* A failure it can describe goes to the terminal before it ends.
EngineFails ==
  /\ Alive /\ failure = "no" /\ terminal
  /\ engine' = [engine EXCEPT !.at = "gone", !.code = 1]
  /\ failure' = "showing"
  /\ UNCHANGED <<mode, phase, builds, stopped, ready, hub, test, status, error, result, said>>

\* The binary does not start: the promise of its end is rejected.
EngineMissing ==
  /\ phase = "engine" /\ engine.at = "starting"
  /\ engine' = [engine EXCEPT !.at = "gone", !.code = 1]
  /\ Settle(1, "nothing")
  /\ builds' = Stopping(builds)
  /\ UNCHANGED <<mode, stopped, ready, failure, hub, test, status, error>>

\* Its readiness is read; exec then asks the hub what runs.
Ready ==
  /\ engine.up /\ ~ready /\ phase = "engine"
  /\ ready' = TRUE
  /\ hub' = IF exec /\ ~stopped THEN IF Alive THEN "asked" ELSE "missing" ELSE hub
  /\ UNCHANGED <<mode, phase, builds, stopped, engine, failure, test, status, error, result, said>>

HubAnswers(answer) ==
  /\ hub = "asked"
  /\ hub' = answer
  /\ UNCHANGED <<mode, phase, builds, stopped, engine, ready, failure, test, status, error, result, said>>

\* startCommand after its await: no listing stops the run, a stop asked for
\* meanwhile runs nothing.
startCommand ==
  /\ hub \in {"listed", "missing"}
  /\ hub' = "heard"
  /\ IF hub = "missing"
     THEN stop("SIGTERM") /\ error' = TRUE /\ status' = 1
     ELSE /\ test' = IF stopped THEN test ELSE [test EXCEPT !.at = "running"]
          /\ UNCHANGED <<stopped, builds, engine, error, status>>
  /\ UNCHANGED <<mode, phase, ready, failure, result, said>>
----------------------------------------------------------------------------
\* Mutant: how the engine ended is not asked.
Verdict_(stat, asked) == IF error \/ ~asked THEN 1 ELSE IF stat = None THEN 0 ELSE stat

\* The end, of the plain launcher.
Verdict(stat, asked) ==
  IF error THEN 1
  ELSE IF engine.code # 0 THEN exitOf(engine)
  ELSE IF ~asked THEN 1
  ELSE IF stat = None THEN 0 ELSE stat

\* What the terminal says became of the data.
Words ==
  IF failure # "no" \/ (stopped /\ engine.code = 0) \/ (stopped /\ ~ready /\ engine.signal \in Signals)
  THEN IF ready THEN "kept" ELSE "as it was"
  ELSE IF stopped \/ engine.signal # "no" \/ ready THEN "unchecked" ELSE "as it was"

SessionCode ==
  IF failure # "no" THEN 1
  ELSE IF stopped /\ engine.code = 0 THEN 0
  ELSE IF stopped /\ ~ready /\ engine.signal \in Signals THEN 130
  ELSE IF engine.code = 0 THEN 1 ELSE exitOf(engine)

\* exitCode of the command as Node keeps it: null while it runs, and after a
\* signal ended it.
exitCodeIsNull == test.at # "none" /\ (test.at # "heard" \/ test.signal # "no")

\* Mutant: heard at its exit, whatever it printed last.
Closed_ == engine.at = "gone"

\* Its end is heard once all it printed is read.
Closed == engine.at = "gone" /\ (engine.up => ready)

\* The plain launcher then ends a command that still runs, and waits for it.
HearsEngine ==
  /\ phase = "engine" /\ Closed
  /\ failure # "showing"
  /\ IF ~terminal /\ exitCodeIsNull
     THEN /\ phase' = "shut"
          /\ test' = IF test.at = "running" THEN [test EXCEPT !.killed = TRUE] ELSE test
          /\ UNCHANGED <<builds, result, said>>
     ELSE /\ IF terminal THEN Settle(SessionCode, Words) ELSE Settle(Verdict(status, stopped), "nothing")
          /\ builds' = Stopping(builds)
          /\ UNCHANGED test
  /\ UNCHANGED <<mode, stopped, engine, ready, failure, hub, status, error>>

ShowsFailure ==
  /\ failure = "showing"
  /\ engine.up => ready
  /\ failure' = "shown"
  /\ UNCHANGED <<mode, phase, builds, stopped, engine, ready, hub, test, status, error, result, said>>

TestEnds(code, signal) ==
  /\ test.at = "running"
  /\ test' = [test EXCEPT !.at = "over", !.code = code, !.signal = signal]
  /\ UNCHANGED <<mode, phase, builds, stopped, engine, ready, failure, hub, status, error, result, said>>

\* Mutant: the command's end asks nothing of the engine.
HearsTest_ ==
  /\ test.at = "over"
  /\ test' = [test EXCEPT !.at = "heard"]
  /\ status' = exitOf(test)
  /\ stopped' = TRUE
  /\ IF phase = "shut"
     THEN Settle(Verdict(exitOf(test), TRUE), "nothing") /\ builds' = Stopping(builds)
     ELSE UNCHANGED <<phase, result, said, builds>>
  /\ UNCHANGED <<mode, engine, ready, failure, hub, error>>

\* The command's exit is heard, and with it its close: a wait that began
\* before ends here.
HearsTest ==
  /\ test.at = "over"
  /\ test' = [test EXCEPT !.at = "heard"]
  /\ status' = exitOf(test)
  /\ stopped' = TRUE
  /\ requestNativeStop("SIGINT")
  /\ IF phase = "shut"
     THEN Settle(Verdict(exitOf(test), TRUE), "nothing") /\ builds' = Stopping(builds)
     ELSE UNCHANGED <<phase, result, said, builds>>
  /\ UNCHANGED <<mode, ready, failure, hub, error>>

\* The command could not be run.
TestMissing ==
  /\ test.at = "running"
  /\ test' = [test EXCEPT !.at = "heard", !.code = 1]
  /\ error' = TRUE /\ status' = 1
  /\ stopped' = TRUE
  /\ builds' = Stopping(builds)
  /\ requestNativeStop("SIGTERM")
  /\ IF phase = "shut" THEN Settle(1, "nothing") ELSE UNCHANGED <<phase, result, said>>
  /\ UNCHANGED <<mode, ready, failure, hub>>
----------------------------------------------------------------------------
Next ==
  \/ \E b \in DOMAIN builds : \/ BuildWatches(b) \/ BuildIsSlow(b)
                              \/ \E code \in {None, 0, 1} : BuildEnds(b, code)
  \/ \E signal \in Signals : Signal(signal)
  \/ Quiet
  \/ EngineUp \/ EngineFails \/ EngineMissing
  \/ \E end \in {<<0, "no">>, <<9, "no">>, <<None, "SIGINT">>, <<None, "SIGKILL">>} :
       EngineEnds(end[1], end[2])
  \/ Ready \/ startCommand \/ HearsEngine \/ ShowsFailure \/ HearsTest \/ TestMissing
  \/ \E answer \in {"listed", "missing"} : HubAnswers(answer)
  \/ \E end \in {<<0, "no">>, <<7, "no">>, <<None, "SIGINT">>} : TestEnds(end[1], end[2])

Spec == Init /\ [][Next]_vars

\* An engine asked to stop ends.
Stops == engine.asked # "no" /\ (EngineEnds(0, "no") \/ EngineEnds(9, "no"))
----------------------------------------------------------------------------
\* The launcher exits 0 only after an engine that was asked to stop finished
\* its stop, and, when it ran a command, the command passed (runtime.mjs:352,
\* session.mjs:1010).  A stop before the command ran exits 0 too.
CodeIsEarned ==
  result = 0 => /\ stopped /\ engine.code = 0 /\ engine.signal = "no" /\ failure = "no"
                /\ exec => status = 0 \/ test.at = "none"

\* exec runs its command only on codebases whose build passed, and refuses to
\* only because one did not: it failed, or took more than the two minutes of
\* patience (runtime.mjs:264).
TestsWhatWasBuilt ==
  /\ test.at # "none" => \A b \in DOMAIN builds : builds[b].first = "exit" /\ builds[b].code = 0
  /\ phase = "done" /\ engine.at = "none" /\ ~stopped =>
       \E b \in DOMAIN builds : \/ builds[b].first = "slow"
                                \/ builds[b].first = "exit" /\ builds[b].code # 0

\* The listing was heard after the engine ended by itself.
LateListing == engine.asked = "no" /\ test.at # "none" /\ ~test.killed

\* No process outlives the launcher's answer, and it waits only for a command
\* that is still to end.  Two departures: a listing that is heard after an
\* engine which ended by itself starts the command all the same, and a command
\* that a signal ended is waited for although its end was heard.
EndsWithItsChildren ==
  /\ phase = "done" => /\ engine.at \in {"none", "gone"}
                       /\ \A b \in DOMAIN builds : builds[b].stop
                       /\ test.at \in {"none", "heard"} \/ engine.asked = "no"
  /\ phase = "shut" => \/ test.at = "running" /\ test.killed
                       \/ test.at = "over"
                       \/ test.signal # "no"

\* The terminal says the data is as it was only if nothing was served.
SaysWhatBecameOfTheData == said = "as it was" => ~engine.up

\* emulators:exec, once its command ended, stops and passes on the exit code
\* ("then stops and passes on the exit code", getting-started.md): CommandEnded
\* leads to PassedOn.  A failure of its own takes the code's place, a command
\* started late has no one to pass its code to, and one that a signal ended
\* is waited for without end.
CommandEnded == test.at = "over" /\ test.signal = "no"
PassedOn == phase = "done" /\ (result = test.code \/ error \/ engine.code # 0 \/ LateListing)
=============================================================================
