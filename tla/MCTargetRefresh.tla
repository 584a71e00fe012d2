--------------------------- MODULE MCTargetRefresh ---------------------------
(***************************************************************************)
(* A stream with a limited query and a document target over the same keys,    *)
(* and beside it one target refreshed over every content of a larger scope:   *)
(* the first state chooses which of the two is followed, and the variables of *)
(* the other stay as they are.                                                *)
(***************************************************************************)
EXTENDS MCListen

VARIABLES part, documents, stored, history, target, shown, batch, held

refreshVars == <<documents, stored, history, target, shown, batch, held>>

\* The shapes of target that apply_touched tells apart: documents, a query
\* without a limit, windows smaller than the scope (empty, one, two), and the
\* shapes that are always re-evaluated (limit to last, offset).
Scope == {1, 2, 3}
Query(limit, size, offset) ==
    [kind |-> "Query", keys |-> Scope, limit |-> limit, size |-> size, offset |-> offset]
MCSpecs ==
    {[Query("None", 0, 0) EXCEPT !.kind = "Documents", !.keys = {1, 2}],
     [Query("None", 0, 0) EXCEPT !.keys = {1, 2}],
     Query("First", 0, 0), Query("First", 1, 0), Query("First", 2, 0),
     Query("Last", 1, 0), Query("First", 1, 1)}

OneTarget == INSTANCE TargetRefresh WITH
    Keys <- Scope, Orders <- {1, 2}, Specs <- MCSpecs, MaxRevision <- 1,
    revision <- stored, client <- held

Still == <<>>
StillRefresh == /\ documents = Still /\ stored = Still /\ history = Still /\ target = Still
                /\ shown = Still /\ batch = Still /\ held = Still

MCInit == \/ part = "stream" /\ Init /\ StillRefresh
          \/ part = "target" /\ OneTarget!Init /\ Init
MCNext == \/ part = "stream" /\ Next /\ UNCHANGED <<part, refreshVars>>
          \/ part = "target" /\ OneTarget!Next /\ UNCHANGED <<part, vars>>
MCSpec == MCInit /\ [][MCNext]_<<part, vars, refreshVars>>

\* ViewExact, ClientExact and ReportsStored: the one target's view, with its
\* cached sort keys, is a full evaluation at its revision; applied in order, its
\* batches give that view, and each says what is stored.
BatchesExact ==
    part = "target" => OneTarget!ViewExact /\ OneTarget!ClientExact /\ OneTarget!ReportsStored
=============================================================================
