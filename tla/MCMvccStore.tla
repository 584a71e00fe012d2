----------------------------- MODULE MCMvccStore -----------------------------
(* The MVCC store on two keys, with logs of a few entries and a clock that    *)
(* may stand still or run backwards.                                          *)
EXTENDS MvccStore

CONSTANTS a, b, x, y

MCKeys == {a, b}
MCValues == {x, y}
MCClock == {1, 4}

NoPrecondition == [kind |-> "None"]
Wr(op, k, v, pre) == [op |-> op, key |-> k, value |-> v, precondition |-> pre]

\* Each write kind alone and the batches in which one write depends on another.
MCBatches ==
    {<<Wr("Set", k, x, NoPrecondition)>> : k \in MCKeys}
        \cup {<<Wr("Delete", a, x, [kind |-> "Exists", exists |-> TRUE])>>,
              <<Wr("Create", a, x, NoPrecondition), Wr("Set", a, y, NoPrecondition)>>,
              <<Wr("Patch", b, x, [kind |-> "UpdateTime", time |-> 1]),
                Wr("Verify", a, x, [kind |-> "Exists", exists |-> TRUE])>>,
              <<Wr("Set", b, y, NoPrecondition), Wr("Delete", a, x, NoPrecondition), Wr("Patch", b, x, NoPrecondition)>>,
              <<>>}
=============================================================================
