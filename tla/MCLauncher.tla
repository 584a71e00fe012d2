----------------------------- MODULE MCLauncher -----------------------------
(***************************************************************************)
(* The npm launcher: its processes, the set-up of a project, and the log   *)
(* and the task of its terminal, one at a time.  The first state chooses   *)
(* the one whose behaviour is followed.  Its variables stand in v1, v2,    *)
(* ... in the order its module declares them, and the rest stay Unused.    *)
(***************************************************************************)
EXTENDS Integers, TLC

CONSTANT Unused

VARIABLES part, v1, v2, v3, v4, v5, v6, v7, v8, v9, v10, v11, v12, v13

vars == <<part, v1, v2, v3, v4, v5, v6, v7, v8, v9, v10, v11, v12, v13>>

\* The variables that a part of so many leaves alone, and that they are Unused.
Above7 == <<v8, v9, v10, v11, v12, v13>>
Above11 == <<v12, v13>>
Unused11 == v12 = Unused /\ v13 = Unused
Unused7 == v8 = Unused /\ v9 = Unused /\ v10 = Unused /\ v11 = Unused /\ Unused11

Launch == INSTANCE Launcher WITH
    Builds <- {"a", "b"}, Watching <- {"b"}, Modes <- {"start", "exec", "terminal"}, mode <- v1,
    phase <- v2, builds <- v3, stopped <- v4, engine <- v5, ready <- v6, failure <- v7,
    hub <- v8, test <- v9, status <- v10, error <- v11, result <- v12, said <- v13
Set == INSTANCE SetUp WITH
    NodeRuns <- BOOLEAN, node <- v1, form <- v2, phase <- v3, steps <- v4, stopped <- v5,
    written <- v6, code <- v7
Log == INSTANCE TerminalLog WITH
    Calls <- {"x", "y"}, Most <- 2, Rows <- 1, MaxLines <- 4, ready <- v1, stopping <- v2,
    calls <- v3, over <- v4, early <- v5, raw <- v6, history <- v7, pending <- v8, seen <- v9,
    cut <- v10, lines <- v11
Task == INSTANCE TerminalTask WITH
    Codebases <- {"a", "b"}, MaxTasks <- 2, ready <- v1, stopping <- v2, task <- v3,
    loading <- v4, reload <- v5, exports <- v6, build <- v7

Init ==
  \/ part = "launch" /\ Launch!Init
  \/ part = "setup" /\ Set!Init /\ Unused7
  \/ part = "log" /\ Log!Init /\ Unused11
  \/ part = "task" /\ Task!Init /\ Unused7

Next ==
  \/ part = "launch" /\ Launch!Next /\ UNCHANGED part
  \/ part = "setup" /\ Set!Next /\ UNCHANGED <<part, Above7>>
  \/ part = "log" /\ Log!Next /\ UNCHANGED <<part, Above11>>
  \/ part = "task" /\ Task!Next /\ UNCHANGED <<part, Above7>>

Spec == Init /\ [][Next]_vars

\* The event loop takes what waits for it, the hub of an engine that runs
\* answers or its request times out, and an engine asked to stop ends.
Launching(A) == part = "launch" /\ A /\ UNCHANGED part
FairSpec ==
  /\ Spec
  /\ WF_vars(Launching(Launch!Ready)) /\ WF_vars(Launching(Launch!startCommand))
  /\ WF_vars(Launching(Launch!HearsEngine)) /\ WF_vars(Launching(Launch!HearsTest))
  /\ WF_vars(Launching(\E answer \in {"listed", "missing"} : Launch!HubAnswers(answer)))
  /\ WF_vars(Launching(Launch!Stops))

----------------------------------------------------------------------------
\* The launcher's exit code and last words, and those of init, are of what
\* became of the processes, the builds and the steps, and no process is left
\* behind (CodeIsEarned, TestsWhatWasBuilt, EndsWithItsChildren,
\* SaysWhatBecameOfTheData; BuildsOnPackages, EndsAsItWent).
EndsAsItSays ==
  /\ part = "launch" => /\ Launch!CodeIsEarned /\ Launch!TestsWhatWasBuilt
                        /\ Launch!EndsWithItsChildren /\ Launch!SaysWhatBecameOfTheData
  /\ part = "setup" => Set!BuildsOnPackages /\ Set!EndsAsItWent
\* Step: once init was stopped, no command of its steps begins (SetUp).
StopsWhatRuns == [][part = "setup" => Set!StopsWhatRuns]_vars
\* The terminal prints every line once, and the task that holds its keys back
\* goes on (EachLineOnce, PrintsWhatItEmits, TaskGoesOn).
TerminalShowsWhatGoesOn ==
  /\ part = "log" => Log!EachLineOnce /\ Log!PrintsWhatItEmits
  /\ part = "task" => Task!TaskGoesOn
\* Liveness: emulators:exec passes on the exit code of a command that ended.
PassesOnTheExitCode ==
  (part = "launch" /\ Launch!CommandEnded) ~> (part = "launch" /\ Launch!PassedOn)
=============================================================================
