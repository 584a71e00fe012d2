---------------------------- MODULE TerminalTask ----------------------------
(***************************************************************************)
(* The one task of the terminal session's footer: a compile of the watch,  *)
(* a codebase that loads, a reload or an export asked for with its key.    *)
(* The keys do nothing while there is one (session.mjs).                   *)
(***************************************************************************)
EXTENDS Integers, Sequences, SequencesExt, FiniteSets

CONSTANTS Codebases,  \* codebases of the project
          MaxTasks    \* reloads, and exports, in flight at once

VARIABLES ready, stopping,
          task,     \* model.task: [label, detail], or Idle
          loading,  \* codebases whose last event was that they load
          reload,   \* reloads asked for with the key: how many answers each still waits for
          exports,  \* exports in flight
          build     \* the watch: "idle", "compiling", "ended"

vars == <<ready, stopping, task, loading, reload, exports, build>>

Idle == [label |-> "no", detail |-> {}]

Init ==
  /\ ready = FALSE /\ stopping = FALSE
  /\ task = Idle /\ loading = {} /\ reload = <<>> /\ exports = 0 /\ build = "idle"

becomeReady ==
  /\ ~ready
  /\ ready' = TRUE
  /\ UNCHANGED <<stopping, task, loading, reload, exports, build>>

stop ==
  /\ ~stopping
  /\ stopping' = TRUE
  /\ UNCHANGED <<ready, task, loading, reload, exports, build>>

\* A watch's compile is one, unless there is one already.
compiling ==
  /\ build = "idle"
  /\ build' = "compiling"
  /\ task' = IF ready /\ task = Idle THEN [label |-> "compiling", detail |-> {"build"}] ELSE task
  /\ UNCHANGED <<ready, stopping, loading, reload, exports>>

\* Mutant: a compile that ends clears nothing.
compiled_ ==
  /\ build = "compiling"
  /\ build' = "idle"
  /\ UNCHANGED <<ready, stopping, task, loading, reload, exports>>

compiled ==
  /\ build = "compiling"
  /\ build' = "idle"
  /\ task' = IF task.label = "compiling" THEN Idle ELSE task
  /\ UNCHANGED <<ready, stopping, loading, reload, exports>>

\* The watch ends, in a compile or between two; its task stays.
ended ==
  /\ build # "ended"
  /\ build' = "ended"
  /\ UNCHANGED <<ready, stopping, task, loading, reload, exports>>

\* codebaseEvent.
loads(b) ==
  /\ b \notin loading
  /\ loading' = loading \cup {b}
  /\ task' = IF ready THEN [label |-> "reloading", detail |-> {b}] ELSE task
  /\ UNCHANGED <<ready, stopping, reload, exports, build>>

loaded(b) ==
  /\ b \in loading
  /\ loading' = loading \ {b}
  /\ task' = IF ready /\ task.detail = {b} THEN Idle ELSE task
  /\ UNCHANGED <<ready, stopping, reload, exports, build>>

\* The reload key asks for one codebase after another.
reloadFunctions ==
  /\ ready /\ ~stopping /\ task = Idle
  /\ Codebases # {} /\ Len(reload) < MaxTasks
  /\ reload' = Append(reload, Cardinality(Codebases))
  /\ task' = [label |-> "reloading", detail |-> Codebases]
  /\ UNCHANGED <<ready, stopping, loading, exports, build>>

reloadAnswered(i) ==
  /\ IF reload[i] = 1
     THEN reload' = RemoveAt(reload, i) /\ task' = Idle
     ELSE reload' = [reload EXCEPT ![i] = @ - 1] /\ UNCHANGED task
  /\ UNCHANGED <<ready, stopping, loading, exports, build>>

exportSnapshot ==
  /\ ready /\ ~stopping /\ task = Idle
  /\ exports < MaxTasks
  /\ exports' = exports + 1
  /\ task' = [label |-> "exporting", detail |-> {"export"}]
  /\ UNCHANGED <<ready, stopping, loading, reload, build>>

exportAnswered ==
  /\ exports > 0
  /\ exports' = exports - 1
  /\ task' = Idle
  /\ UNCHANGED <<ready, stopping, loading, reload, build>>
----------------------------------------------------------------------------
Next ==
  \/ becomeReady \/ stop
  \/ compiling \/ compiled \/ ended \/ \E b \in Codebases : loads(b) \/ loaded(b)
  \/ reloadFunctions \/ \E i \in DOMAIN reload : reloadAnswered(i)
  \/ exportSnapshot \/ exportAnswered

Spec == Init /\ [][Next]_vars

\* The task, while which the keys for reloading and exporting do nothing, is of
\* something that goes on; a watch that ended in a compile leaves its own.
TaskGoesOn ==
  CASE task.label = "compiling" -> build # "idle"
    [] task.label = "reloading" -> reload # <<>> \/ task.detail \cap loading # {}
    [] task.label = "exporting" -> exports > 0
    [] OTHER -> task = Idle
=============================================================================
