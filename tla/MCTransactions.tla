--------------------------- MODULE MCTransactions ---------------------------
(***************************************************************************)
(* Two transactions over one key or two: enough for a conflict on a document   *)
(* that was read but not written, and for a commit sent twice.                *)
(***************************************************************************)
EXTENDS Transactions, TLC

CONSTANTS t1, t2

MCTransactions == {t1, t2}
Symmetry == Permutations(MCTransactions)

\* Every read method on one key, with the clearing endpoints in use.
Cleared == [keys |-> {1}, methods |-> ReadMethods, clearing |-> TRUE, last |-> 4]

\* Reads that answer for missing documents too, on two keys.
Batched == [keys |-> {1, 2}, methods |-> {"BatchGetDocuments"}, clearing |-> FALSE, last |-> 3]

Both == {Cleared, Batched}
MissingGet == {[Batched EXCEPT !.methods = {"GetDocument"}]}
=============================================================================
