----------------------------- MODULE SurfaceKit -----------------------------
(***************************************************************************)
(* The parts the console's dialogs, confirmations and inline forms are     *)
(* made of, as records of how they treat a request: see Surfaces for what  *)
(* each field means.  The modules of the sections start from these.        *)
(***************************************************************************)

All == {"busy", "error", "job"}
Free == [waits |-> {}, clears |-> {}]
Clearing == [waits |-> {}, clears |-> All]
\* Mutant: a request under way holds nothing back.
Held_ == [waits |-> {"job"}, clears |-> {}]
Held == [waits |-> {"request", "job"}, clears |-> {}]
HeldClearing == [waits |-> {"request", "job"}, clears |-> All]

\* Mutant: its button is not disabled while it runs.
DangerConfirm_ ==
  [host |-> "page", place |-> "state", resets |-> All, draft |-> "none", checks |-> FALSE,
   target |-> "keyed", exits |-> {Held}, guard |-> FALSE, keeps |-> "hook", done |-> "close",
   asks |-> FALSE, says |-> "here"]
\* DangerConfirm, over a page's own useMutation that the button resets.
\* Dismissal waits while it runs.
DangerConfirm ==
  [host |-> "page", place |-> "state", resets |-> All, draft |-> "none", checks |-> FALSE,
   target |-> "keyed", exits |-> {Held}, guard |-> TRUE, keeps |-> "hook", done |-> "close",
   asks |-> FALSE, says |-> "here"]

\* DangerConfirm that asks for a word to be typed: its own dismissal clears
\* it, and what the page clears when it closes.
TypedConfirm ==
  [DangerConfirm EXCEPT !.draft = "kept", !.checks = TRUE,
                        !.exits = {[HeldClearing EXCEPT !.clears = All \cup {"draft"}]}]

\* Mutant: a rejected promise is dropped.
ConfirmPopover_ == [DangerConfirm EXCEPT !.keeps = "await", !.target = "opened", !.says = "nowhere"]
\* ConfirmPopover: pending and error are its own, cleared when it opens.
ConfirmPopover == [DangerConfirm EXCEPT !.keeps = "await", !.target = "opened"]

\* useConfirmPopover: one `open` for whoever asks, a popover keyed by the ask.
useConfirmPopover == [ConfirmPopover EXCEPT !.host = "form", !.asks = TRUE]

\* A form in a dialog, mounted anew for each opening by useGeneration's key.
useGeneration ==
  [DangerConfirm EXCEPT !.host = "form", !.resets = {}, !.draft = "fresh", !.checks = TRUE, !.exits = {Free}]

\* ExportDialog: closing calls off an export built in the tab.
ExportDialog ==
  [DangerConfirm EXCEPT !.resets = {}, !.exits = {Clearing}, !.keeps = "abort", !.target = "current"]

\* A control of the page itself: nothing opens or shuts but the page.
Inline == [DangerConfirm EXCEPT !.resets = {}, !.exits = {}, !.done = "stay"]

\* A button or key that acts at once, on what it was pressed for, and whose
\* answer is a toast: nothing stops a second press.
Press == [Inline EXCEPT !.guard = FALSE, !.target = "opened", !.says = "toast"]
=============================================================================
