---------------------------- MODULE Transactions ----------------------------
(***************************************************************************)
(* Optimistic transactions of the Firestore service, the write lock its       *)
(* commits run under, and the clearing endpoints that do not take it           *)
(* (crates/grpc-front/src/service.rs, crates/rest-front/src/lib.rs).           *)
(*                                                                          *)
(* A document is its version: the revision that wrote it, which its update     *)
(* time identifies (VersionsIdentified of MvccStore), or Missing.              *)
(***************************************************************************)
EXTENDS Naturals, Sequences, FiniteSets

CONSTANTS
    Keys, Transactions,
    Setups,          \* what clients do: the keys they use, how they read, whether
                     \* the database is cleared meanwhile, and the last revision
    MaxSends

ReadMethods == {"GetDocument", "BatchGetDocuments", "RunQuery"}

ASSUME SetupsAssumption ==
    Setups \subseteq [keys : SUBSET Keys, methods : SUBSET ReadMethods, clearing : BOOLEAN, last : Nat]
ASSUME BoundsAssumption == MaxSends \in Nat

Missing == 0
Nobody == "no transaction"
ASSUME TokensAssumption == Nobody \notin Transactions

VARIABLES
    setup,         \* what the clients of this behaviour do
    contents,      \* the documents at revision r are contents[r + 1]
    transactions,  \* the open transactions: TransactionState by token
    lock,          \* the task under the rules runtime's write lock, or Free
    clear,         \* the keys a clearing request is about to delete
    client,        \* per token: what its client was answered and how often it sent its commit
    installed      \* per token: the revisions its writes were installed on

vars == <<setup, contents, transactions, lock, clear, client, installed>>

Free == [stage |-> "Free"]
revision == Len(contents) - 1
Current == contents[revision + 1]

Versions == [Keys -> 0..setup.last]

Init ==
    /\ setup \in Setups
    /\ contents = <<[k \in Keys |-> Missing]>>
    /\ transactions = <<>>
    /\ lock = Free
    /\ clear = {}
    /\ client = [t \in Transactions |->
            [issued |-> FALSE, answers |-> <<>>, sends |-> 0, rolled_back |-> FALSE]]
    /\ installed = [t \in Transactions |-> {}]

Without(f, x) == [y \in DOMAIN f \ {x} |-> f[y]]
Over(f, g) == [x \in DOMAIN f \cup DOMAIN g |-> IF x \in DOMAIN f THEN f[x] ELSE g[x]]

(***************************************************************************)
(* Transactions and their reads.                                            *)
(***************************************************************************)

\* A read-only transaction may name an older read time.
begin_transaction(t) ==
    /\ ~client[t].issued
    /\ client' = [client EXCEPT ![t].issued = TRUE]
    /\ \E read_only \in BOOLEAN, r \in 0..revision :
        /\ ~read_only => r = revision
        /\ transactions' = Over([u \in {t} |-> [snapshot |-> r, read_only |-> read_only,
                                                reads |-> <<>>]], transactions)
    /\ UNCHANGED <<contents, lock, clear, installed>>

\* A mutant: the versions recorded are the store's, not the snapshot's.
RecordCurrent(reads, seen) == Over(reads, [k \in DOMAIN seen |-> Current[k]])

\* record_read keeps the first version recorded for a key.
record_read(reads, seen) == Over(reads, seen)

\* The keys a read answers for: get_document fails on a missing document before
\* it records it, a query returns the documents that exist, and
\* batch_get_documents answers and records every key it was asked for.
Recorded(method, asked, documents) ==
    IF method = "BatchGetDocuments" THEN asked ELSE {k \in asked : documents[k] # Missing}

\* A read of an open transaction from its snapshot.  The client learns of every
\* key it asked for, missing ones included, and waits for its answers before it
\* sends the commit.
Read(t, method, asked) ==
    /\ t \in DOMAIN transactions /\ client[t].sends = 0
    /\ method = "GetDocument" => Cardinality(asked) = 1
    /\ LET documents == contents[transactions[t].snapshot + 1]
           recorded == Recorded(method, asked, documents)
       IN  /\ transactions' = [transactions EXCEPT
                ![t].reads = record_read(@, [k \in recorded |-> documents[k]])]
           /\ client' = [client EXCEPT ![t].answers = Over(@, [k \in asked |-> documents[k]])]
    /\ UNCHANGED <<contents, lock, clear, installed>>

\* A mutant: the transaction is looked up and not taken out.
RollbackLeaves(t) ==
    /\ client[t].issued /\ ~client[t].rolled_back
    /\ client' = [client EXCEPT ![t].rolled_back = t \in DOMAIN transactions]
    /\ UNCHANGED <<contents, transactions, lock, clear, installed>>

\* Rolling back ends an open transaction and is otherwise answered alike.
rollback(t) ==
    /\ client[t].issued /\ ~client[t].rolled_back
    /\ client' = [client EXCEPT ![t].rolled_back = t \in DOMAIN transactions]
    /\ transactions' = Without(transactions, t)
    /\ UNCHANGED <<contents, lock, clear, installed>>

(***************************************************************************)
(* Commits, under the write lock.                                           *)
(***************************************************************************)

\* A commit gets the lock and captures the current snapshot.  A client that
\* missed the answer sends its commit again.
LockCommit(t, writes) ==
    /\ lock = Free
    /\ client[t].issued /\ client[t].sends < MaxSends
    /\ client' = [client EXCEPT ![t].sends = @ + 1]
    /\ lock' = [stage |-> "Validate", by |-> t, current |-> revision, writes |-> writes]
    /\ UNCHANGED <<contents, transactions, clear, installed>>

\* The documents after the writes, at the next revision.
Written(writes) ==
    [k \in Keys |->
        IF k \notin DOMAIN writes THEN Current[k]
        ELSE IF writes[k] = "Put" THEN revision + 1 ELSE Missing]

\* A mutant: a write that does not take the lock.
WriteUnlocked(k) ==
    /\ revision < setup.last
    /\ \E kind \in {"Put", "Delete"} : contents' = Append(contents, Written([l \in {k} |-> kind]))
    /\ UNCHANGED <<transactions, lock, clear, client, installed>>

\* A write outside a transaction: every frontend takes the lock for it too.
LockWrite(k) ==
    /\ lock = Free /\ revision < setup.last
    /\ \E kind \in {"Put", "Delete"} :
        lock' = [stage |-> "Install", by |-> Nobody, current |-> revision, writes |-> [l \in {k} |-> kind]]
    /\ UNCHANGED <<contents, transactions, clear, client, installed>>

\* A mutant: only documents that are still there are compared.
ReadsCurrentIfPresent(transaction, current) ==
    \A k \in DOMAIN transaction.reads :
        contents[current + 1][k] \in {transaction.reads[k], Missing}

\* Every recorded read still has its version.
ReadsCurrent(transaction, current) ==
    \A k \in DOMAIN transaction.reads : contents[current + 1][k] = transaction.reads[k]

\* A mutant: the transaction stays open until it is rolled back.
KeepsTransaction(t) == transactions

\* Taking the transaction out ends it, whatever comes of its commit.
Ended(t) == Without(transactions, t)

\* An ended transaction, writes of a read-only one, a stale read and a rules
\* denial each fail the commit; else it goes on to the store.
Validate ==
    /\ lock.stage = "Validate"
    /\ transactions' = Ended(lock.by)
    /\ \/ lock' = Free
       \/ /\ lock.by \in DOMAIN transactions
          /\ transactions[lock.by].read_only => lock.writes = <<>>
          /\ ReadsCurrent(transactions[lock.by], lock.current)
          /\ revision < setup.last
          /\ lock' = [lock EXCEPT !.stage = "Install"]
    /\ UNCHANGED <<contents, clear, client, installed>>

\* apply_writes: the store commits on what it holds now, which need not be the
\* snapshot the commit was checked against.
Install ==
    /\ lock.stage = "Install"
    /\ revision < setup.last
    /\ contents' = Append(contents, Written(lock.writes))
    /\ lock' = [lock EXCEPT !.stage = "Answer", !.current = revision + 1]
    /\ installed' = IF lock.by = Nobody \/ lock.writes = <<>> THEN installed
                    ELSE [installed EXCEPT ![lock.by] = @ \cup {revision}]
    /\ UNCHANGED <<transactions, clear, client>>

\* The write results are read from a snapshot taken after the commit, and the
\* lock is released.
Answer ==
    /\ lock.stage = "Answer"
    /\ lock' = Free
    /\ UNCHANGED <<contents, transactions, clear, client, installed>>

(***************************************************************************)
(* Clearing the database, without the lock: the keys of a snapshot are        *)
(* deleted in a commit of their own, until a snapshot has none.               *)
(***************************************************************************)

ClearSnapshot ==
    /\ setup.clearing /\ clear = {}
    /\ clear' = {k \in Keys : Current[k] # Missing}
    /\ clear' # {}
    /\ UNCHANGED <<contents, transactions, lock, client, installed>>

ClearCommit ==
    /\ clear # {} /\ revision < setup.last
    /\ contents' = Append(contents, Written([k \in clear |-> "Delete"]))
    /\ clear' = {}
    /\ UNCHANGED <<transactions, lock, client, installed>>

Step ==
    \/ \E t \in Transactions :
        \/ begin_transaction(t) \/ rollback(t)
        \/ \E method \in setup.methods, asked \in SUBSET setup.keys \ {{}} : Read(t, method, asked)
        \/ \E S \in SUBSET setup.keys : LockCommit(t, [k \in S |-> "Put"])
    \/ \E k \in setup.keys : LockWrite(k)
    \/ Validate \/ Install \/ Answer
    \/ ClearSnapshot \/ ClearCommit

Next == Step /\ UNCHANGED setup

Spec == Init /\ [][Next]_vars

(***************************************************************************)
(* Properties.                                                              *)
(***************************************************************************)

\* A transaction ends once: its writes are installed at most once, however often
\* its commit is sent again and whatever else ends it in between, and never if a
\* rollback was told that it ended it (take_transaction).
EndsOnce ==
    \A t \in Transactions :
        Cardinality(installed[t]) <= IF client[t].rolled_back THEN 0 ELSE 1

\* A commit past validation was checked against a snapshot in which every
\* document its client had been shown is unchanged.
CheckedReads ==
    lock.stage = "Install" /\ lock.by # Nobody =>
        \A k \in DOMAIN client[lock.by].answers :
            client[lock.by].answers[k] # Missing =>
                contents[lock.current + 1][k] = client[lock.by].answers[k]

\* What COMPATIBILITY.md says of optimistic transactions: a commit is installed
\* only where everything the transaction was answered, missing documents
\* included, is still so; a conflicting write before it aborts it. The clearing
\* endpoint installs its deletes without the write lock, so a setup that clears
\* is exempt.
ConflictsAbort ==
  ~setup.clearing =>
    \A t \in Transactions : \A r \in installed[t] : \A k \in DOMAIN client[t].answers :
        contents[r + 1][k] = client[t].answers[k]

\* The results a write answers with are those of its own commit: nothing is
\* installed between the commit and the snapshot the results are read from,
\* deletes of the clearing endpoint, which takes no write lock, excepted.
AnswersOwnWrite ==
    lock.stage = "Answer" /\ ~setup.clearing =>
        \A k \in DOMAIN lock.writes : lock.writes[k] = "Put" => Current[k] = lock.current

=============================================================================
