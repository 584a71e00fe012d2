----------------------------- MODULE TerminalLog -----------------------------
(***************************************************************************)
(* What the terminal's session shows while the emulators run: the lines of *)
(* functions, held until their call ends or has run for a while, the lines *)
(* of the builds, and the screen that prints them in bursts (session.mjs,  *)
(* createScreen in terminal.mjs).  A line is its number; an entry of the   *)
(* screen is the lines printed together.                                   *)
(***************************************************************************)
EXTENDS Integers, Sequences, SequencesExt, FiniteSets

CONSTANTS Calls,      \* calls of functions
          Most,       \* lines a call is held for before they show (200)
          Rows,       \* printed lines that fit in the window
          MaxLines

VARIABLES ready, stopping,
          calls,    \* model.calls, in the order they started: [id, lines, shown]
          over,     \* calls that finished
          early,    \* heldBuildLines
          raw,      \* model.raw: lines that show only if the start fails
          history,  \* the screen's entries
          pending,  \* lines to go out with the next frame
          seen,     \* lines that were printed
          cut,      \* lines a resize took before they were printed
          lines     \* lines so far

vars == <<ready, stopping, calls, over, early, raw, history, pending, seen, cut, lines>>

Init ==
  /\ ready = FALSE /\ stopping = FALSE
  /\ calls = <<>> /\ over = {} /\ early = <<>> /\ raw = {} /\ history = <<>> /\ pending = <<>>
  /\ seen = {} /\ cut = {} /\ lines = 0

\* The screen.  emit keeps entries and lets a frame print them; frame prints.
emit(entries) ==
  /\ history' = history \o entries
  /\ pending' = pending \o FlattenSeq(entries)

\* Mutant: what waited for the frame is forgotten.
frame_(entries) ==
  /\ history' = history \o entries
  /\ seen' = seen \cup Range(FlattenSeq(entries))
  /\ pending' = <<>>

frame(entries) ==
  /\ history' = history \o entries
  /\ seen' = seen \cup Range(pending \o FlattenSeq(entries))
  /\ pending' = <<>>

Frame ==
  /\ pending # <<>>
  /\ frame(<<>>)
  /\ UNCHANGED <<ready, stopping, calls, over, early, raw, cut, lines>>

\* A resized window is drawn again from the entries: as much of the end as
\* fits.  What waited for a frame goes with it.
relayout ==
  LET all == FlattenSeq(history)
      from == IF Len(all) > Rows THEN Len(all) - Rows + 1 ELSE 1
      tail == Range(SubSeq(all, from, Len(all)))
  IN /\ seen' = seen \cup tail
     /\ cut' = cut \cup (Range(pending) \ tail)
     /\ pending' = <<>>
     /\ UNCHANGED <<ready, stopping, calls, over, early, raw, history, lines>>
----------------------------------------------------------------------------
\* becomeReady prints what the builds said before, and pins the footer.
becomeReady ==
  /\ ~ready
  /\ ready' = TRUE
  /\ frame([i \in DOMAIN early |-> <<early[i]>>])
  /\ early' = <<>>
  /\ UNCHANGED <<stopping, calls, over, raw, cut, lines>>

started(c) ==
  /\ c \notin over /\ \A i \in DOMAIN calls : calls[i].id # c
  /\ calls' = Append(calls, [id |-> c, lines |-> <<>>, shown |-> FALSE])
  /\ UNCHANGED <<ready, stopping, over, early, raw, history, pending, seen, cut, lines>>

\* A call that was shown says only that it finished.
callFinished(i) ==
  /\ calls' = RemoveAt(calls, i)
  /\ over' = over \cup {calls[i].id}
  /\ emit(IF calls[i].shown THEN <<>> ELSE <<calls[i].lines>>)
  /\ UNCHANGED <<ready, stopping, early, raw, seen, cut, lines>>

\* The calls of now that are shown once those up to the i-th are late.
Late(now, i) == {k \in DOMAIN now : ~now[k].shown /\ (k <= i \/ Len(now[k].lines) >= Most)}

releaseHeld(now, late) ==
  calls' = [k \in DOMAIN now |-> IF k \in late THEN [now[k] EXCEPT !.shown = TRUE, !.lines = <<>>]
                                 ELSE now[k]]

Entries(now, late) == LET ks == SetToSortSeq(late, <)
                      IN [j \in DOMAIN ks |-> now[ks[j]].lines]

\* The ticker of the footer, with the calls up to the i-th past HOLD.
Tick(i) ==
  /\ ready /\ Late(calls, i) # {}
  /\ releaseHeld(calls, Late(calls, i))
  /\ frame(Entries(calls, Late(calls, i)))
  /\ UNCHANGED <<ready, stopping, over, early, raw, cut, lines>>

\* Mutant: a call that was shown goes on holding lines.
logEvent_(c) ==
  /\ lines' = lines + 1
  /\ IF ~ready THEN raw' = raw \cup {lines'} /\ UNCHANGED <<calls, history, pending>>
     ELSE LET at == {i \in DOMAIN calls : calls[i].id = c}
              now == [i \in DOMAIN calls |->
                        IF i \in at THEN [calls[i] EXCEPT !.lines = Append(@, lines')] ELSE calls[i]]
              late == IF \E i \in at : Len(now[i].lines) >= Most THEN Late(now, 0) ELSE {}
          IN /\ releaseHeld(now, late)
             /\ emit(IF at = {} THEN <<<<lines'>>>> ELSE Entries(now, late))
             /\ UNCHANGED raw
  /\ UNCHANGED <<ready, stopping, over, early, seen, cut>>

\* A line of a function's: held by its call, or printed.
logEvent(c) ==
  /\ lines' = lines + 1
  /\ IF ~ready THEN raw' = raw \cup {lines'} /\ UNCHANGED <<calls, history, pending>>
     ELSE LET at == {i \in DOMAIN calls : calls[i].id = c /\ ~calls[i].shown}
              now == [i \in DOMAIN calls |->
                        IF i \in at THEN [calls[i] EXCEPT !.lines = Append(@, lines')] ELSE calls[i]]
              late == IF \E i \in at : Len(now[i].lines) >= Most THEN Late(now, 0) ELSE {}
          IN /\ releaseHeld(now, late)
             /\ emit(IF at = {} THEN <<<<lines'>>>> ELSE Entries(now, late))
             /\ UNCHANGED raw
  /\ UNCHANGED <<ready, stopping, over, early, seen, cut>>

\* A line the engine prints as it is.
rawLine ==
  /\ lines' = lines + 1
  /\ IF ~ready \/ stopping THEN raw' = raw \cup {lines'} /\ UNCHANGED <<history, pending>>
     ELSE emit(<<<<lines'>>>>) /\ UNCHANGED raw
  /\ UNCHANGED <<ready, stopping, calls, over, early, seen, cut>>

\* A line of a build's that is not the compiler's.
buildText ==
  /\ lines' = lines + 1
  /\ IF ready THEN emit(<<<<lines'>>>>) /\ UNCHANGED early
     ELSE early' = Append(early, lines') /\ UNCHANGED <<history, pending>>
  /\ UNCHANGED <<ready, stopping, calls, over, raw, seen, cut>>

stop ==
  /\ ~stopping
  /\ stopping' = TRUE
  /\ frame(<<>>)
  /\ UNCHANGED <<ready, calls, over, early, raw, cut, lines>>
----------------------------------------------------------------------------
Next ==
  \/ Frame \/ relayout \/ becomeReady \/ stop
  \/ lines < MaxLines /\ (rawLine \/ buildText \/ \E c \in Calls : logEvent(c))
  \/ \E c \in Calls : started(c)
  \/ \E i \in DOMAIN calls : callFinished(i) \/ Tick(i)

Spec == Init /\ [][Next]_vars
----------------------------------------------------------------------------
Held == [i \in DOMAIN calls |-> calls[i].lines]

\* Every line is in one place, once: printed with an entry, held by a call that
\* runs, held for readiness, or kept for a failed start (session.mjs:543-629).
EachLineOnce ==
  LET shown == FlattenSeq(history) \o FlattenSeq(Held) \o early
  IN /\ IsInjective(shown)
     /\ Range(shown) \cap raw = {}
     /\ Range(shown) \cup raw = 1 .. lines
     /\ \A i \in DOMAIN calls : calls[i].shown => calls[i].lines = <<>>

\* What was emitted is printed with the next frame, but for the lines a resize
\* cuts off before it (terminal.mjs:352).
PrintsWhatItEmits == Range(FlattenSeq(history)) = seen \cup Range(pending) \cup cut
=============================================================================
