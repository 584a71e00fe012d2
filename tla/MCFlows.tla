------------------------------ MODULE MCFlows ------------------------------
(***************************************************************************)
(* The console's flows of requests, answers and live events, one at a      *)
(* time: the first state chooses the one whose behaviour is followed.  Its *)
(* variables stand in v1, v2, ... in the order its module declares them,   *)
(* and the rest stay Unused.                                               *)
(***************************************************************************)
EXTENDS Integers, Sequences, TLC, SurfaceCatalogue

CONSTANT Unused

\* One field whose type JSON does not show, and one that is not there yet.
Starts == {[f |-> [j |-> 0, t |-> "typed"], g |-> [j |-> 9, t |-> "absent"]]}

\* A file, alone or with the name "Keep both" would give it; in a bucket that
\* has neither, or the first.
Name(marks) == [stem |-> "a", marks |-> marks]
Drops == {{Name(<<>>)}, {Name(<<>>), Name(<<1>>)}}
Taken == {{}, {Name(<<>>)}}

RunForms == {"invoke", "callable", "task", "blocking", "schedule", "direct", "event", "publish"}

Every == AuthCatalogue @@ MessagingCatalogue @@ DataCatalogue @@ ComputeCatalogue

VARIABLES part, v1, v2, v3, v4, v5, v6, v7, v8, v9, v10, v11, v12, v13, v14, v15, v16, v17

vars == <<part, v1, v2, v3, v4, v5, v6, v7, v8, v9, v10, v11, v12, v13, v14, v15, v16, v17>>

\* The variables that a part of so many leaves alone, and that they are Unused.
Above6 == <<v7, v8, v9, v10, v11, v12, v13, v14, v15, v16, v17>>
Above10 == <<v11, v12, v13, v14, v15, v16, v17>>
Above11 == <<v12, v13, v14, v15, v16, v17>>
Above12 == <<v13, v14, v15, v16, v17>>
Above15 == <<v16, v17>>
Unused15 == v16 = Unused /\ v17 = Unused
Unused12 == v13 = Unused /\ v14 = Unused /\ v15 = Unused /\ Unused15
Unused11 == v12 = Unused /\ Unused12
Unused10 == v11 = Unused /\ Unused11
Unused6 == v7 = Unused /\ v8 = Unused /\ v9 = Unused /\ v10 = Unused /\ Unused10

Document == INSTANCE DocumentEdit WITH
    Fields <- {"f", "g"}, Numbers <- {0, 1}, Starts <- Starts, MaxEdits <- 2, MaxTime <- 2,
    doc <- v1, read <- v2, rows <- v3, madeFrom <- v4, tab <- v5, json <- v6, baseline <- v7,
    moved <- v8, save <- v9, edits <- v10
Cell == INSTANCE CellEdit WITH
    Fields <- {"f", "g"}, Values <- {"a", "long"}, Long <- {"long"}, MaxTime <- 2,
    MaxTyped <- 2, doc <- v1, whole <- v2, page <- v3, cell <- v4, sends <- v5, typed <- v6
Upload == INSTANCE Uploads WITH
    Drops <- Drops, Taken <- Taken, Identities <- {"owner", "client"}, Limit <- 2,
    KeepFinished <- 1, MaxFiles <- 2, MaxAttempts <- 2, Pictures <- {1}, stored <- v1,
    viewAs <- v2, check <- v3, pending <- v4, plans <- v5, tray <- v6, work <- v7,
    controller <- v8, judging <- v9, attempt <- v10, waiting <- v11, held <- v12, pic <- v13,
    asking <- v14, others <- v15, wanted <- v16, early <- v17
Run == INSTANCE RunForms WITH
    Forms <- RunForms, Recent <- 2, MaxRuns <- 3, form <- v1, acts <- v2, current <- v3,
    stream <- v4, invoked <- v5, run <- v6, waits <- v7, found <- v8, recent <- v9,
    crossed <- v10
Logs == INSTANCE LogFeed WITH
    Words <- {"a", "b"}, Views <- {{"a"}, {"a", "b"}}, PageMax <- 2, FeedMax <- 3,
    ResumeMax <- 1, Keeps <- 3, MaxLines <- 4, MaxMoves <- 3, run <- v1, log <- v2, rows <- v3,
    f <- v4, page <- v5, older <- v6, sub <- v7, hidden <- v8, asked <- v9, moves <- v10,
    mixed <- v11
Count == INSTANCE Counters WITH
    Rows <- {1, 2}, Limit <- 2, MaxRevision <- 3, MaxMoves <- 1, was <- v1, sub <- v2,
    last <- v3, others <- v4, joined <- v5, mine <- v6, wire <- v7, log <- v8, list <- v9,
    read <- v10, moves <- v11, missed <- v12
Surface == INSTANCE Surfaces WITH
    Catalogue <- Every, MaxOpenings <- 2, MaxRequests <- 2, MaxTurns <- 1, surface <- v1,
    open <- v2, at <- v3, page <- v4, gen <- v5, about <- v6, named <- v7, draft <- v8,
    watch <- v9, busy <- v10, error <- v11, job <- v12, running <- v13, flight <- v14,
    sent <- v15

Init ==
  \/ part = "document" /\ Document!Init /\ Unused10
  \/ part = "cell" /\ Cell!Init /\ Unused6
  \/ part = "uploads" /\ Upload!Init
  \/ part = "runs" /\ Run!Init /\ Unused10
  \/ part = "logs" /\ Logs!Init /\ Unused11
  \/ part = "counters" /\ Count!Init /\ Unused12
  \/ part = "surface" /\ Surface!Init /\ Unused15

Next ==
  \/ part = "document" /\ Document!Next /\ UNCHANGED <<part, Above10>>
  \/ part = "cell" /\ Cell!Next /\ UNCHANGED <<part, Above6>>
  \/ part = "uploads" /\ Upload!Next /\ UNCHANGED part
  \/ part = "runs" /\ Run!Next /\ UNCHANGED <<part, Above10>>
  \/ part = "logs" /\ Logs!Next /\ UNCHANGED <<part, Above11>>
  \/ part = "counters" /\ Count!Next /\ UNCHANGED <<part, Above12>>
  \/ part = "surface" /\ Surface!Next /\ UNCHANGED <<part, Above15>>

Spec == Init /\ [][Next]_vars

----------------------------------------------------------------------------
\* The surfaces known to depart from what follows, by why.

\* A failure left by the last opening is shown in this one: nothing resets
\* the request when it opens, or it was answered after it had been reset.
KeepsFailure ==
  {"CreateFolder", "EditMetadata", "Move", "deletePaths", "deleteOrphaned", "PublishAgain",
   "ExportUsers", "SampleUsers", "CreateUser", "TenantSignIn", "ActionSection", "clearInbox",
   "clearActivity"}
\* By design: the drawer keeps what was typed when it is closed.
KeepsDraft == {"PublishDrawer"}
\* An answer that comes after the surface was closed and opened again closes
\* it: whether it is open is one flag, and the callback only clears it.
LateClose ==
  {"useRunAgain", "runTask", "runTasks", "enqueueAgain", "CreateForm", "CellEditor", "ImportForm",
   "PublishAgain", "Enqueue", "ExportUsers", "EditMetadata", "Move", "CreateFolder",
   "PublishDrawer", "CreateSubscription", "CreateSchema", "CreateTopic", "CreateTenant",
   "EditTenant", "LinkProvider", "CreateUser"}
\* A press that nothing holds back until its request is answered.
PressedTwice ==
  {"duplicateFile", "commitRename", "downloadSelection", "copySelection", "replayInvocation",
   "ackRow", "pauseQueue", "holdQueue", "stopTask", "startQuick", "setConfig", "applyMessage",
   "ReplayButton", "replayCall", "ExportUsers", "mintToken"}
\* Nobody is told.
SaysNothing == {"ackRow", "replayOpen", "setConfig"}

----------------------------------------------------------------------------
\* A document is saved as the inspector shows it, with the types its fields
\* had, and never a cell's preview in place of its value
\* (SavesWhatIsShown, TypesSurviveJson, FragmentNeverWritten).
DocumentsKeepTheirValues ==
  /\ part = "document" => Document!SavesWhatIsShown /\ Document!TypesSurviveJson
  /\ part = "cell" => Cell!FragmentNeverWritten
\* Step: a save writes the draft's changes and nothing else (SaveIsTheDraft), and
\* no upload takes the last slot while a picture is on screen (PicturesGetThrough).
TakesOnlyItsOwn ==
  [][/\ part = "document" => Document!SaveIsTheDraft
     /\ part = "uploads" => Upload!PicturesGetThrough]_vars
\* The log feed shows each line once, in order, up to the newest, and says
\* where it leaves lines out (InOrder, NoSilentHole, FollowsTheNewest); a list
\* patched by counters frames is as new as its revision (ListIsAsNewAsItSays).
ListsAreWhole ==
  /\ part = "logs" => Logs!InOrder /\ Logs!NoSilentHole /\ Logs!FollowsTheNewest
  /\ part = "counters" => Count!ListIsAsNewAsItSays
\* An opening of a surface shows nothing of another one, and has one request
\* under way for one subject (ShowsItsOwn, SendsOnce).
SurfacesShowTheirOwn ==
  part = "surface" => /\ Surface!ShowsItsOwn(KeepsFailure \cup KeepsDraft)
                      /\ Surface!SendsOnce(PressedTwice)
\* Step: an answer shuts only the opening it was asked from, and a failure is
\* said (ShutsItsOwn, FailureIsSaid).
SurfacesAnswerTheirOwn ==
  [][part = "surface" => Surface!ShutsItsOwn(LateClose) /\ Surface!FailureIsSaid(SaysNothing)]_vars
=============================================================================
