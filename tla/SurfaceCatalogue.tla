-------------------------- MODULE SurfaceCatalogue --------------------------
(***************************************************************************)
(* Every dialog, confirmation, form and control of the console that sends a *)
(* request, as Surfaces records.                                           *)
(***************************************************************************)
EXTENDS SurfaceKit

(***************************************************************************)
(* The Authentication section.                                             *)
(***************************************************************************)

\* The bulk bar's quick actions: no question, the selection of the moment.
startQuick == [Press EXCEPT !.target = "current"]

\* Confirms a bulk action; the job it starts is shown in its place.
BulkConfirm ==
  [DangerConfirm EXCEPT !.exits = {HeldClearing}, !.done = "job", !.target = "current", !.resets = {}]

BulkDeleteDialog == [TypedConfirm EXCEPT !.done = "job", !.target = "current", !.resets = {}]

\* Escape waits for the job, the cross for the request, Cancel for neither.
BulkClaimsDialog ==
  [useGeneration EXCEPT !.exits = {[waits |-> {"job"}, clears |-> {}], [waits |-> {"request"}, clears |-> {}], Free},
                        !.done = "job", !.target = "current"]

LinkProviderDialog == useGeneration

\* A file the engine streams: the link is followed, nothing marks it running.
ExportUsersDialog == [ExportDialog EXCEPT !.place = "url", !.keeps = "await", !.guard = FALSE, !.exits = {Clearing, Free}]

\* Creating is in the address, editing in the page's state.
CreateTenant == [useGeneration EXCEPT !.place = "url", !.target = "opened"]
EditTenant == [useGeneration EXCEPT !.target = "opened"]
removeTenant == [DangerConfirm EXCEPT !.exits = {HeldClearing}, !.resets = {}, !.target = "opened"]

\* The switches wait for each other; the palette's commands do not.
setConfig == [Inline EXCEPT !.guard = FALSE]
TenantSignIn == [Inline EXCEPT !.target = "current"]

\* The reader's own Apply and Reset: nothing keys them by the message.
ActionSection == [Inline EXCEPT !.target = "current", !.done = "once"]
applyMessage == Press
clearInbox == [DangerConfirm EXCEPT !.resets = {}]
clearActivity == [DangerConfirm EXCEPT !.resets = {}]

\* The popover's run returns at once; the replay answers with a toast.
ReplayButton == [Press EXCEPT !.target = "current"]
replayCall == Press

\* The row's user, in the tenant of the moment it is confirmed.
deleteUser == [DangerConfirm EXCEPT !.target = "current"]

\* Create, with its own guard; Create and add another has another.
CreateUserDialog ==
  [useGeneration EXCEPT !.host = "page", !.place = "url", !.target = "current"]
SampleUsersDialog ==
  [BulkConfirm EXCEPT !.place = "url", !.exits = {HeldClearing, Free}, !.resets = {"job"}]
mintToken == [Press EXCEPT !.target = "current"]

AuthCatalogue ==
  [startQuick |-> startQuick, BulkConfirm |-> BulkConfirm, BulkDelete |-> BulkDeleteDialog,
   BulkClaims |-> BulkClaimsDialog, LinkProvider |-> LinkProviderDialog, ExportUsers |-> ExportUsersDialog,
   CreateTenant |-> CreateTenant, EditTenant |-> EditTenant, removeTenant |-> removeTenant,
   setConfig |-> setConfig, TenantSignIn |-> TenantSignIn, ActionSection |-> ActionSection,
   applyMessage |-> applyMessage, clearInbox |-> clearInbox, clearActivity |-> clearActivity,
   ReplayButton |-> ReplayButton, replayCall |-> replayCall, deleteUser |-> deleteUser,
   CreateUser |-> CreateUserDialog, SampleUsers |-> SampleUsersDialog, mintToken |-> mintToken]

(***************************************************************************)
(* Pub/Sub, Cloud Tasks and Eventarc.                                      *)
(***************************************************************************)

CreateTopicDialog == [useGeneration EXCEPT !.place = "url", !.target = "opened"]
CreateSubscriptionDialog == CreateTopicDialog
CreateSchemaDialog == CreateTopicDialog

\* Escape and the cross clear it, Cancel does not; it sends what is asked now.
PublishAgain ==
  [DangerConfirm EXCEPT !.resets = {}, !.exits = {Clearing, Free}, !.target = "opened"]
PurgeDialog == DangerConfirm
useRunAgain == useConfirmPopover

\* A subscription nothing drains any more: its failure stays for the next time.
deleteOrphaned == [DangerConfirm EXCEPT !.resets = {}]
toPull == [Press EXCEPT !.guard = TRUE, !.target = "keyed"]

\* The backlog: the ticked rows as a job, one leased row after asking, and a
\* row nobody holds at once, whose failure only the question would show.
bulkBacklog ==
  [DangerConfirm EXCEPT !.resets = {"busy", "error"}, !.exits = {HeldClearing}, !.done = "job", !.target = "current"]
ackLeased == [DangerConfirm EXCEPT !.target = "opened"]
ackRow == [Press EXCEPT !.says = "nowhere"]

\* A setup file: a new import for each opening, its result shown in it.
ImportPanel == [useGeneration EXCEPT !.place = "url", !.done = "once", !.target = "opened"]
deleteSchema == [DangerConfirm EXCEPT !.target = "current"]
commitSchema ==
  [Inline EXCEPT !.draft = "kept", !.checks = TRUE, !.says = "toast"]

\* A task by hand: the address opens it, the queue keys it.
EnqueueDialog == [useGeneration EXCEPT !.place = "url"]

purgeQueue == DangerConfirm
pauseQueue == Press
holdQueue == Press
Hold == Inline

\* Ticked tasks: the ones ticked when it is confirmed.
deleteTasks == [DangerConfirm EXCEPT !.keeps = "await", !.done = "job", !.exits = {HeldClearing}, !.target = "current"]
runTasks == useConfirmPopover
deleteTask == [DangerConfirm EXCEPT !.exits = {HeldClearing}, !.target = "opened"]
runTask == useConfirmPopover
enqueueAgain == useConfirmPopover
stopTask == Press

\* Eventarc's drawer keeps its draft by design; replaying the open event has
\* nowhere to say that it failed, the row's question has.
PublishDrawer ==
  [useGeneration EXCEPT !.host = "page", !.place = "url", !.draft = "kept", !.target = "current"]
replayEvent == [ConfirmPopover EXCEPT !.exits = {HeldClearing}]
replayOpen == [Inline EXCEPT !.says = "nowhere", !.target = "current"]

MessagingCatalogue ==
  [CreateTopic |-> CreateTopicDialog, CreateSubscription |-> CreateSubscriptionDialog,
   CreateSchema |-> CreateSchemaDialog, PublishAgain |-> PublishAgain, Purge |-> PurgeDialog,
   useRunAgain |-> useRunAgain, Enqueue |-> EnqueueDialog, purgeQueue |-> purgeQueue,
   pauseQueue |-> pauseQueue, holdQueue |-> holdQueue, Hold |-> Hold, deleteTasks |-> deleteTasks,
   runTasks |-> runTasks, deleteTask |-> deleteTask, runTask |-> runTask,
   enqueueAgain |-> enqueueAgain, stopTask |-> stopTask,
   deleteOrphaned |-> deleteOrphaned, toPull |-> toPull, bulkBacklog |-> bulkBacklog,
   ackLeased |-> ackLeased, ackRow |-> ackRow, ImportPanel |-> ImportPanel,
   deleteSchema |-> deleteSchema, commitSchema |-> commitSchema, PublishDrawer |-> PublishDrawer,
   replayEvent |-> replayEvent, replayOpen |-> replayOpen]

(***************************************************************************)
(* Storage, Firestore and the Overview.                                    *)
(***************************************************************************)

\* What useFileActions asks before it deletes or replaces: one file, the
\* ticked ones, or (its name typed) everything in the bucket.
deleteFile ==
  [DangerConfirm EXCEPT !.resets = {"error", "job"}, !.keeps = "await", !.exits = {HeldClearing}, !.target = "current"]
deleteTicked == [deleteFile EXCEPT !.done = "job"]
emptyBucket == [TypedConfirm EXCEPT !.resets = {"error", "job"}, !.keeps = "await", !.target = "current", !.done = "job"]

\* Closing forgets what was typed and the failure, not that it runs.
Forgetful == [waits |-> {}, clears |-> {"error", "draft"}]
MoveDialog ==
  [DangerConfirm EXCEPT !.resets = {}, !.draft = "kept", !.checks = TRUE, !.exits = {Forgetful},
                        !.keeps = "await", !.target = "current"]
EditMetadataDialog == MoveDialog

\* The address opens it: Back leaves the name that was typed.
CreateFolderDialog == [MoveDialog EXCEPT !.place = "url", !.exits = {Forgetful, Free}]

duplicateFile == [Press EXCEPT !.target = "current"]
commitRename == [Press EXCEPT !.target = "current"]
downloadSelection == [Press EXCEPT !.target = "current"]

\* A round of its own for each opening, so that nothing typed stays.
ResetDialog ==
  [TypedConfirm EXCEPT !.draft = "fresh", !.resets = {}, !.exits = {HeldClearing}, !.keeps = "await", !.target = "opened"]

\* Closing waits while it saves, and forgets what was chosen.
SaveSnapshotDialog == [ResetDialog EXCEPT !.checks = FALSE]

\* Nothing clears the last failure when it opens.
deletePaths == [DangerConfirm EXCEPT !.resets = {}, !.target = "opened"]

\* One request at a time, for whoever asked last; a form for each session.
CreateForm == [useGeneration EXCEPT !.asks = TRUE, !.target = "opened"]
ImportForm == CreateForm
copySelection == [Press EXCEPT !.target = "current"]

\* The cell being edited, in place: another cell's editor takes its place.
CellEditor == [useGeneration EXCEPT !.asks = TRUE, !.target = "opened"]

DataCatalogue ==
  [deleteFile |-> deleteFile, deleteTicked |-> deleteTicked, emptyBucket |-> emptyBucket,
   Move |-> MoveDialog, EditMetadata |-> EditMetadataDialog, CreateFolder |-> CreateFolderDialog,
   duplicateFile |-> duplicateFile, commitRename |-> commitRename, downloadSelection |-> downloadSelection,
   Reset |-> ResetDialog, SaveSnapshot |-> SaveSnapshotDialog, deletePaths |-> deletePaths,
   CreateForm |-> CreateForm, ImportForm |-> ImportForm, copySelection |-> copySelection,
   CellEditor |-> CellEditor]

(***************************************************************************)
(* Functions and Extensions.                                               *)
(***************************************************************************)

\* Buttons that show they run and answer with a toast.
Loading == [Press EXCEPT !.guard = TRUE]
useReloadCodebase == Loading
restartCodebase == Loading
PausedWarning == Loading
setClock == Loading
useReloadInstance == Loading

\* Variables changed: closing waits, and forgets the last save.
EnvChangeDialog ==
  [DangerConfirm EXCEPT !.resets = {}, !.exits = {HeldClearing}, !.draft = "fresh", !.checks = TRUE, !.target = "opened"]
RestartWorkerDialog == [DangerConfirm EXCEPT !.resets = {}, !.exits = {HeldClearing}]

\* A replay is asked about when a rerun writes again, and otherwise sent.
askReplay == [ConfirmPopover EXCEPT !.says = "toast"]
replayInvocation == Press

clearInvocations == [DangerConfirm EXCEPT !.resets = {}, !.exits = {HeldClearing}, !.keeps = "await"]
saveConfiguration == DangerConfirm

ComputeCatalogue ==
  [useReloadCodebase |-> useReloadCodebase, restartCodebase |-> restartCodebase,
   PausedWarning |-> PausedWarning, setClock |-> setClock, useReloadInstance |-> useReloadInstance,
   EnvChange |-> EnvChangeDialog, RestartWorker |-> RestartWorkerDialog, askReplay |-> askReplay,
   replayInvocation |-> replayInvocation, clearInvocations |-> clearInvocations,
   saveConfiguration |-> saveConfiguration]
=============================================================================
