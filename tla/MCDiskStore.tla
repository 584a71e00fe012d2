----------------------------- MODULE MCDiskStore -----------------------------
(* The disk store on two keys; a commit writes one key or both.               *)
EXTENDS DiskStore

CONSTANTS a, b, x, y

MCKeys == {a, b}
MCValues == {x, y}
MCMutations ==
    {[k \in {a} |-> x], [k \in {a, b} |-> IF k = a THEN Absent ELSE y]}
=============================================================================
