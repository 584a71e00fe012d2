------------------------- MODULE TransactionsProofs -------------------------
(***************************************************************************)
(* What Transactions promises, for any number of keys, transactions, sends    *)
(* and revisions.                                                           *)
(***************************************************************************)
EXTENDS Transactions, FiniteSetTheorems, TLAPS

Partial(V) == UNION {[S -> V] : S \in SUBSET Keys}
States == [snapshot : Nat, read_only : BOOLEAN, reads : Partial(Nat)]
Locks == [stage : {"Validate", "Install", "Answer"}, by : Transactions \cup {Nobody},
          current : Nat, writes : Partial({"Put", "Delete"})]

TypeOK ==
    /\ setup \in Setups
    /\ contents \in Seq([Keys -> Nat]) /\ contents # <<>>
    /\ DOMAIN transactions \subseteq Transactions
    /\ transactions \in [DOMAIN transactions -> States]
    /\ lock \in Locks \cup {Free}
    /\ clear \subseteq Keys
    /\ client \in [Transactions -> [issued : BOOLEAN, answers : Partial(Nat), sends : Nat,
                                    rolled_back : BOOLEAN]]
    /\ installed \in [Transactions -> SUBSET Nat]

\* The answers that were recorded with the transaction: all of them when every
\* read is a batch_get_documents, else those of documents that exist.
Tracked(t, k) ==
    client[t].answers[k] # Missing \/ setup.methods \subseteq {"BatchGetDocuments"}

\* Nothing has come yet of a transaction's writes.
Untouched(t) == installed[t] = {} /\ ~client[t].rolled_back

\* Every read of an open transaction is of its snapshot.
OpenInv ==
    \A t \in DOMAIN transactions :
        /\ client[t].issued /\ Untouched(t)
        /\ ~(lock.stage = "Install" /\ lock.by = t)
        /\ transactions[t].snapshot <= revision
        /\ \A k \in DOMAIN transactions[t].reads :
             transactions[t].reads[k] = contents[transactions[t].snapshot + 1][k]
        /\ \A k \in DOMAIN client[t].answers :
             /\ client[t].answers[k] = contents[transactions[t].snapshot + 1][k]
             /\ Tracked(t, k) => k \in DOMAIN transactions[t].reads

\* A token that was not given out has no history.
UnissuedInv ==
    \A t \in Transactions : ~client[t].issued =>
        /\ Untouched(t) /\ DOMAIN client[t].answers = {}
        /\ ~(lock.stage = "Install" /\ lock.by = t)

\* What is under the lock: outside a setup that clears, nothing else is
\* installed meanwhile.
LockInv ==
    /\ lock.stage = "Validate" => lock.by \in Transactions /\ client[lock.by].issued
    /\ lock.stage # "Free" => /\ lock.current <= revision
                              /\ ~setup.clearing => lock.current = revision
    /\ lock.stage = "Install" /\ lock.by # Nobody =>
         /\ Untouched(lock.by)
         /\ \A k \in DOMAIN client[lock.by].answers :
              Tracked(lock.by, k) => contents[lock.current + 1][k] = client[lock.by].answers[k]
    /\ ~setup.clearing => clear = {}

\* A transaction's writes are installed once, on what it was answered.
InstalledInv ==
    \A t \in Transactions :
        /\ installed[t] = {} \/ \E r \in Nat : installed[t] = {r}
        /\ client[t].rolled_back => installed[t] = {}
        /\ \A r \in installed[t] :
             /\ r <= revision
             /\ ~setup.clearing => \A k \in DOMAIN client[t].answers :
                  Tracked(t, k) => contents[r + 1][k] = client[t].answers[k]

IInv == TypeOK /\ OpenInv /\ UnissuedInv /\ LockInv /\ InstalledInv /\ AnswersOwnWrite
-----------------------------------------------------------------------------
\* What a partial function on the keys (reads, answers, writes) maps.
LEMMA PartialFacts ==
    ASSUME NEW V, NEW f \in Partial(V)
    PROVE  /\ DOMAIN f \subseteq Keys
           /\ f \in [DOMAIN f -> V]
BY ZenonT(60) DEF Partial

\* A function on some of the keys is a partial function on the keys.
LEMMA PartialIntro ==
    ASSUME NEW V, NEW S \in SUBSET Keys, NEW f \in [S -> V]
    PROVE  f \in Partial(V) /\ DOMAIN f = S
BY ZenonT(60) DEF Partial

\* A transaction that has read nothing: the empty partial function.
LEMMA EmptyPartial ==
    ASSUME NEW V
    PROVE  <<>> \in Partial(V) /\ DOMAIN <<>> = {}
<1>1. DOMAIN <<>> = {}
  BY SMTT(60)
<1>2. <<>> \in [{} -> V]
  BY SMTT(60)
<1> QED
  BY ZenonT(60), <1>1, <1>2, PartialIntro

\* record_read keeps what it has: Over is a partial function on both domains.
LEMMA OverPartial ==
    ASSUME NEW f \in Partial(Nat), NEW g \in Partial(Nat)
    PROVE  /\ Over(f, g) \in Partial(Nat)
           /\ DOMAIN Over(f, g) = DOMAIN f \cup DOMAIN g
           /\ \A x \in DOMAIN f : Over(f, g)[x] = f[x]
           /\ \A x \in DOMAIN g \ DOMAIN f : Over(f, g)[x] = g[x]
<1>1. DOMAIN f \subseteq Keys /\ DOMAIN g \subseteq Keys /\ f \in [DOMAIN f -> Nat] /\ g \in [DOMAIN g -> Nat]
  BY ZenonT(60), PartialFacts
<1>2. Over(f, g) \in [DOMAIN f \cup DOMAIN g -> Nat]
  BY ZenonT(60), <1>1 DEF Over
<1>3. DOMAIN f \cup DOMAIN g \in SUBSET Keys
  BY ZenonT(60), <1>1
<1>4. Over(f, g) \in Partial(Nat)
  BY ZenonT(60), <1>2, <1>3, PartialIntro
<1> QED
  BY ZenonT(60), <1>1, <1>4 DEF Over

\* The revisions of the store are those of its contents.
LEMMA Revisions ==
    ASSUME TypeOK
    PROVE  /\ revision \in Nat /\ Len(contents) = revision + 1
           /\ \A r \in 0..revision : contents[r + 1] \in [Keys -> Nat]
           /\ setup.keys \subseteq Keys /\ setup.clearing \in BOOLEAN /\ setup.last \in Nat
BY SMTT(60), SetupsAssumption DEF TypeOK, revision

\* Only a commit under the lock has fields.
LEMMA LockFacts ==
    ASSUME TypeOK, lock.stage # "Free"
    PROVE  /\ lock \in Locks
           /\ lock.by # Nobody => lock.by \in Transactions
BY SMTT(60) DEF TypeOK, Locks, Free

\* A commit adds a revision and leaves those before it.
LEMMA Appended ==
    ASSUME TypeOK, NEW d \in [Keys -> Nat], contents' = Append(contents, d)
    PROVE  /\ contents' \in Seq([Keys -> Nat]) /\ contents' # <<>>
           /\ revision' = revision + 1
           /\ Current' = d
           /\ \A r \in 0..revision : contents'[r + 1] = contents[r + 1]
<1>1. contents \in Seq([Keys -> Nat]) /\ revision \in Nat /\ Len(contents) = revision + 1
  BY ZenonT(60), Revisions DEF TypeOK
<1>2. /\ contents' \in Seq([Keys -> Nat])
      /\ Len(contents') = Len(contents) + 1
      /\ contents'[Len(contents) + 1] = d
      /\ \A i \in 1..Len(contents) : contents'[i] = contents[i]
  BY SMTT(60), <1>1
<1>3. revision' = revision + 1
  BY SMTT(60), <1>1, <1>2 DEF revision
<1>4. Current' = d
  BY ZenonT(60), <1>1, <1>2, <1>3 DEF Current
<1>5. contents' # <<>>
  <2>1. Len(contents') # 0 /\ Len(<<>>) = 0
    BY SMTT(60), <1>1, <1>2
  <2> QED
    BY ZenonT(60), <2>1
<1>6. \A r \in 0..revision : contents'[r + 1] = contents[r + 1]
  BY SMTT(60), <1>1, <1>2
<1> QED
  BY ZenonT(60), <1>2, <1>3, <1>4, <1>5, <1>6

\* The documents after writes are documents.
LEMMA WrittenType ==
    ASSUME TypeOK, NEW writes
    PROVE  Written(writes) \in [Keys -> Nat]
BY SMTT(60), Revisions DEF Written, Current, Missing

-----------------------------------------------------------------------------
\* The initial state satisfies the invariant.
LEMMA InitInv == Init => IInv
<1> SUFFICES ASSUME Init PROVE IInv
  OBVIOUS
<1>1. contents \in Seq([Keys -> Nat]) /\ contents # <<>> /\ Len(contents) = 1
  BY SMTT(60) DEF Init, Missing
<1>2. revision = 0
  BY SMTT(60), <1>1 DEF revision
<1>3. TypeOK
  <2>1. DOMAIN transactions = {} /\ transactions \in [DOMAIN transactions -> States]
    BY SMTT(60), EmptyPartial DEF Init
  <2>2. client \in [Transactions -> [issued : BOOLEAN, answers : Partial(Nat), sends : Nat,
                                     rolled_back : BOOLEAN]]
    BY ZenonT(60), EmptyPartial DEF Init
  <2> QED
    BY ZenonT(60), <1>1, <2>1, <2>2 DEF Init, TypeOK, Free
<1>4. DOMAIN transactions = {} /\ \A t \in Transactions : DOMAIN client[t].answers = {}
  BY ZenonT(60), EmptyPartial DEF Init
<1> QED
  BY ZenonT(60), <1>2, <1>3, <1>4 DEF Init, IInv, OpenInv, UnissuedInv, LockInv, InstalledInv, AnswersOwnWrite,
                          Untouched, Free

-----------------------------------------------------------------------------
\* begin_transaction: the new transaction is empty, at a revision there is.
LEMMA BeginStep ==
    ASSUME IInv, UNCHANGED setup, NEW t \in Transactions, begin_transaction(t)
    PROVE  IInv'
<1> USE DEF IInv
<1>1. PICK read_only \in BOOLEAN, r \in 0..revision :
        transactions' = Over([u \in {t} |-> [snapshot |-> r, read_only |-> read_only,
                                             reads |-> <<>>]], transactions)
  BY ZenonT(60) DEF begin_transaction
<1>2. /\ ~client[t].issued /\ t \notin DOMAIN transactions
      /\ client' = [client EXCEPT ![t].issued = TRUE]
      /\ UNCHANGED <<contents, lock, clear, installed>>
  BY ZenonT(60) DEF begin_transaction, OpenInv
<1>3. /\ DOMAIN transactions' = DOMAIN transactions \cup {t}
      /\ \A u \in DOMAIN transactions : transactions'[u] = transactions[u]
      /\ transactions'[t] = [snapshot |-> r, read_only |-> read_only, reads |-> <<>>]
      /\ transactions' = [u \in DOMAIN transactions' |-> transactions'[u]]
  BY ZenonT(60), <1>1, <1>2 DEF Over
<1>4. /\ client'[t] = [client[t] EXCEPT !.issued = TRUE]
      /\ \A u \in Transactions \ {t} : client'[u] = client[u]
      /\ client' \in [Transactions -> [issued : BOOLEAN, answers : Partial(Nat), sends : Nat,
                                       rolled_back : BOOLEAN]]
  BY ZenonT(60), <1>2 DEF TypeOK
<1>5. r \in Nat /\ r <= revision /\ revision' = revision
  BY SMTT(60), <1>2, Revisions DEF revision
<1>6. transactions'[t] \in States
  BY SMTT(60), <1>3, <1>5, EmptyPartial DEF States
<1>7. TypeOK'
  BY SMTT(60), <1>2, <1>3, <1>4, <1>6 DEF TypeOK
<1>8. Untouched(t) /\ DOMAIN client[t].answers = {} /\ ~(lock.stage = "Install" /\ lock.by = t)
  BY ZenonT(60), <1>2 DEF UnissuedInv
<1>9. \A u \in Transactions : /\ client'[u].answers = client[u].answers
                              /\ client'[u].rolled_back = client[u].rolled_back
                              /\ client[u].issued => client'[u].issued
                              /\ client'[u].issued => client[u].issued \/ u = t
  BY SMTT(60), <1>4 DEF TypeOK
<1>10. OpenInv'
  <2> SUFFICES ASSUME NEW u \in DOMAIN transactions'
               PROVE  OpenInv!(u)'
    BY ZenonT(60) DEF OpenInv
  <2>1. CASE u = t
    <3>1. DOMAIN transactions'[t].reads = {} /\ transactions'[t].snapshot = r
      BY SMTT(60), <1>3, EmptyPartial
    <3>2. DOMAIN client'[t].answers = {} /\ client'[t].issued /\ Untouched(t)'
      BY SMTT(60), <1>2, <1>4, <1>8, <1>9 DEF Untouched, TypeOK
    <3> QED
      BY ZenonT(60), <1>2, <1>5, <1>8, <2>1, <3>1, <3>2
  <2>2. CASE u # t
    <3>1. u \in DOMAIN transactions /\ u \in Transactions /\ transactions'[u] = transactions[u] /\ client'[u] = client[u]
      BY ZenonT(60), <1>3, <1>4, <2>2 DEF TypeOK
    <3> QED
      BY SMTT(60), <1>2, <1>5, <3>1 DEF OpenInv, Untouched, Tracked
  <2> QED
    BY ZenonT(60), <2>1, <2>2
<1>11. UnissuedInv'
  BY SMTT(60), <1>2, <1>4, <1>9 DEF UnissuedInv, Untouched
<1>12. LockInv'
  <2>1. lock.stage # "Free" /\ lock.by # Nobody => lock.by \in Transactions
    BY ZenonT(60), LockFacts
  <2>2. lock.stage = "Install" => lock.stage # "Free"
    OBVIOUS
  <2> QED
    BY SMTT(60), <1>2, <1>5, <1>9, <2>1, <2>2 DEF LockInv, Untouched, Tracked
<1>13. InstalledInv'
  BY SMTT(60), <1>2, <1>5, <1>9 DEF InstalledInv, Tracked
<1>14. AnswersOwnWrite'
  BY ZenonT(60), <1>2 DEF AnswersOwnWrite, Current, revision
<1> QED
  BY ZenonT(60), <1>7, <1>10, <1>11, <1>14, <1>12, <1>13

\* A read: what it answers and what it records are of the snapshot, and every
\* tracked answer is recorded.
LEMMA ReadStep ==
    ASSUME IInv, UNCHANGED setup, NEW t \in Transactions, NEW method \in setup.methods,
           NEW asked \in SUBSET setup.keys, Read(t, method, asked)
    PROVE  IInv'
<1> USE DEF IInv
<1> DEFINE documents == contents[transactions[t].snapshot + 1]
           recorded == Recorded(method, asked, documents)
           seen == [k \in recorded |-> documents[k]]
           told == [k \in asked |-> documents[k]]
           reads == Over(transactions[t].reads, seen)
           answers == Over(client[t].answers, told)
<1>1. /\ t \in DOMAIN transactions
      /\ transactions' = [transactions EXCEPT ![t].reads = reads]
      /\ client' = [client EXCEPT ![t].answers = answers]
      /\ UNCHANGED <<contents, lock, clear, installed>>
  BY ZenonT(60) DEF Read, record_read
<1>2. /\ transactions[t] \in States /\ transactions[t].snapshot \in 0..revision
      /\ client[t].answers \in Partial(Nat) /\ transactions[t].reads \in Partial(Nat)
  BY SMTT(60), <1>1, Revisions DEF TypeOK, States, OpenInv
<1>3. documents \in [Keys -> Nat] /\ asked \in SUBSET Keys /\ recorded \in SUBSET asked
  BY ZenonT(60), <1>2, Revisions DEF Recorded
<1>4. seen \in Partial(Nat) /\ told \in Partial(Nat) /\ DOMAIN seen = recorded /\ DOMAIN told = asked
  <2>1. seen \in [recorded -> Nat] /\ told \in [asked -> Nat] /\ recorded \in SUBSET Keys
    BY ZenonT(60), <1>3
  <2> HIDE DEF recorded, seen, told
  <2> QED
    BY ZenonT(60), <1>3, <2>1, PartialIntro
<1>5. \A k \in recorded : seen[k] = documents[k]
  OBVIOUS
<1>6. \A k \in asked : told[k] = documents[k]
  OBVIOUS
<1> HIDE DEF seen, told
<1>7. /\ reads \in Partial(Nat) /\ DOMAIN reads = DOMAIN transactions[t].reads \cup recorded
      /\ \A k \in DOMAIN transactions[t].reads : reads[k] = transactions[t].reads[k]
      /\ \A k \in recorded \ DOMAIN transactions[t].reads : reads[k] = seen[k]
  <2> HIDE DEF documents, recorded
  <2>1. /\ transactions[t].reads \in Partial(Nat) /\ seen \in Partial(Nat)
        /\ DOMAIN seen = recorded
    BY ZenonT(60), <1>2, <1>4
  <2>2. /\ reads \in Partial(Nat) /\ DOMAIN reads = DOMAIN transactions[t].reads \cup DOMAIN seen
        /\ \A x \in DOMAIN transactions[t].reads : reads[x] = transactions[t].reads[x]
        /\ \A x \in DOMAIN seen \ DOMAIN transactions[t].reads : reads[x] = seen[x]
    BY ONLY ZenonT(60), <2>1, OverPartial DEF reads
  <2> QED
    BY ZenonT(60), <2>1, <2>2
<1>8. /\ answers \in Partial(Nat) /\ DOMAIN answers = DOMAIN client[t].answers \cup asked
      /\ \A k \in DOMAIN client[t].answers : answers[k] = client[t].answers[k]
      /\ \A k \in asked \ DOMAIN client[t].answers : answers[k] = told[k]
  <2> HIDE DEF documents, recorded
  <2>1. /\ client[t].answers \in Partial(Nat) /\ told \in Partial(Nat)
        /\ DOMAIN told = asked
    BY ZenonT(60), <1>2, <1>4
  <2>2. /\ answers \in Partial(Nat) /\ DOMAIN answers = DOMAIN client[t].answers \cup DOMAIN told
        /\ \A x \in DOMAIN client[t].answers : answers[x] = client[t].answers[x]
        /\ \A x \in DOMAIN told \ DOMAIN client[t].answers : answers[x] = told[x]
    BY ONLY ZenonT(60), <2>1, OverPartial DEF answers
  <2> QED
    BY ZenonT(60), <2>1, <2>2
<1> HIDE DEF reads, answers
<1>9. /\ DOMAIN transactions' = DOMAIN transactions
      /\ transactions'[t] = [transactions[t] EXCEPT !.reads = reads]
      /\ transactions'[t] \in States
      /\ transactions'[t].reads = reads /\ transactions'[t].snapshot = transactions[t].snapshot
      /\ \A u \in DOMAIN transactions \ {t} : transactions'[u] = transactions[u]
      /\ transactions' \in [DOMAIN transactions -> States]
  BY ZenonT(60), <1>1, <1>2, <1>7 DEF TypeOK, States
<1>10. /\ client' \in [Transactions -> [issued : BOOLEAN, answers : Partial(Nat), sends : Nat,
                                        rolled_back : BOOLEAN]]
       /\ client'[t].answers = answers
       /\ \A u \in Transactions : /\ client'[u].issued = client[u].issued
                                  /\ client'[u].rolled_back = client[u].rolled_back
       /\ \A u \in Transactions \ {t} : client'[u] = client[u]
  BY ZenonT(60), <1>1, <1>8 DEF TypeOK
<1>11. TypeOK'
  BY ZenonT(60), <1>1, <1>9, <1>10 DEF TypeOK
<1>12. revision' = revision
  BY ZenonT(60), <1>1 DEF revision
<1>13. /\ \A k \in DOMAIN reads : reads[k] = documents[k]
       /\ \A k \in DOMAIN answers : answers[k] = documents[k]
  BY SMTT(60), <1>1, <1>4, <1>7, <1>8, <1>5, <1>6 DEF OpenInv
<1>14. ASSUME NEW k \in DOMAIN answers,
              answers[k] # Missing \/ setup.methods \subseteq {"BatchGetDocuments"}
       PROVE  k \in DOMAIN reads
  <2>1. CASE k \in DOMAIN client[t].answers
    <3>1. Tracked(t, k)
      BY ZenonT(60), <1>8, <1>14, <2>1 DEF Tracked
    <3> QED
      BY ZenonT(60), <1>1, <1>7, <2>1, <3>1 DEF OpenInv
  <2>2. CASE k \notin DOMAIN client[t].answers
    <3>1. k \in asked /\ answers[k] = documents[k]
      BY ZenonT(60), <1>8, <1>13, <2>2
    <3>2. k \in recorded
      BY ZenonT(60), <1>14, <3>1 DEF Recorded
    <3> QED
      BY ZenonT(60), <1>7, <3>2
  <2> QED
    BY ZenonT(60), <2>1, <2>2
<1>15. OpenInv'
  <2> SUFFICES ASSUME NEW u \in DOMAIN transactions'
               PROVE  OpenInv!(u)'
    BY ZenonT(60) DEF OpenInv
  <2>1. CASE u = t
    <3>1. client'[t].issued /\ Untouched(t)' /\ ~(lock'.stage = "Install" /\ lock'.by = t)
      BY SMTT(60), <1>1, <1>10 DEF OpenInv, Untouched
    <3>2. transactions'[t].snapshot <= revision' /\ contents'[transactions'[t].snapshot + 1] = documents
      BY SMTT(60), <1>1, <1>9, <1>12 DEF OpenInv
    <3>3. \A k \in DOMAIN client'[t].answers : Tracked(t, k)' => k \in DOMAIN transactions'[t].reads
      BY ZenonT(60), <1>9, <1>10, <1>14 DEF Tracked
    <3> HIDE DEF documents
    <3> QED
      BY ZenonT(60), <1>9, <1>10, <1>13, <2>1, <3>1, <3>2, <3>3
  <2>2. CASE u # t
    <3>1. u \in DOMAIN transactions /\ u \in Transactions /\ transactions'[u] = transactions[u] /\ client'[u] = client[u]
      BY ZenonT(60), <1>9, <1>10, <2>2 DEF TypeOK
    <3>2. OpenInv!(u)
      BY ZenonT(60), <3>1 DEF OpenInv
    <3> HIDE DEF documents, recorded
    <3> QED
      BY ZenonT(60), <1>1, <1>12, <3>1, <3>2 DEF Untouched, Tracked
  <2> QED
    BY ZenonT(60), <2>1, <2>2
<1>16. t \in DOMAIN transactions /\ client[t].issued /\ installed[t] = {} /\ ~(lock.stage = "Install" /\ lock.by = t)
  BY ZenonT(60), <1>1 DEF OpenInv, Untouched
<1>17. UnissuedInv'
  BY SMTT(60), <1>1, <1>10, <1>16 DEF UnissuedInv, Untouched
<1>18. LockInv'
  <2>1. lock.stage # "Free" /\ lock.by # Nobody => lock.by \in Transactions
    BY ZenonT(60), LockFacts
  <2>2. lock.stage = "Install" => lock.stage # "Free"
    OBVIOUS
  <2> QED
    BY SMTT(60), <1>1, <1>10, <1>12, <1>16, <2>1, <2>2 DEF LockInv, Untouched, Tracked
<1>19. InstalledInv'
  BY SMTT(60), <1>1, <1>10, <1>12, <1>16 DEF InstalledInv, Tracked
<1>20. AnswersOwnWrite'
  BY ZenonT(60), <1>1 DEF AnswersOwnWrite, Current, revision
<1> QED
  BY ZenonT(60), <1>11, <1>15, <1>17, <1>18, <1>19, <1>20

\* Taking a transaction out leaves the others as they were.
LEMMA WithoutFacts ==
    ASSUME TypeOK, NEW t
    PROVE  /\ DOMAIN Without(transactions, t) = DOMAIN transactions \ {t}
           /\ \A u \in DOMAIN transactions \ {t} : Without(transactions, t)[u] = transactions[u]
           /\ Without(transactions, t) \in [DOMAIN transactions \ {t} -> States]
BY ZenonT(60) DEF TypeOK, Without

\* rollback: an open transaction has installed nothing, and one that ended is
\* not told that it was rolled back.
LEMMA RollbackStep ==
    ASSUME IInv, UNCHANGED setup, NEW t \in Transactions, rollback(t)
    PROVE  IInv'
<1> USE DEF IInv
<1>1. PICK ended \in BOOLEAN : ended <=> t \in DOMAIN transactions
  BY ZenonT(60)
<1>2. ended = (t \in DOMAIN transactions)
  BY ZenonT(60), <1>1
<1>3. /\ client[t].issued /\ ~client[t].rolled_back
      /\ client' = [client EXCEPT ![t].rolled_back = ended]
      /\ UNCHANGED <<contents, lock, clear, installed>>
  BY ZenonT(60), <1>2 DEF rollback
<1>4. /\ DOMAIN transactions' = DOMAIN transactions \ {t}
      /\ \A u \in DOMAIN transactions \ {t} : transactions'[u] = transactions[u]
      /\ transactions' \in [DOMAIN transactions' -> States]
  BY ZenonT(60), WithoutFacts DEF rollback
<1>5. /\ client' \in [Transactions -> [issued : BOOLEAN, answers : Partial(Nat), sends : Nat,
                                       rolled_back : BOOLEAN]]
      /\ client'[t].rolled_back = ended
      /\ \A u \in Transactions : /\ client'[u].issued = client[u].issued
                                 /\ client'[u].answers = client[u].answers
      /\ \A u \in Transactions \ {t} : client'[u] = client[u]
  <2>1. client[t] \in [issued : BOOLEAN, answers : Partial(Nat), sends : Nat, rolled_back : BOOLEAN]
    BY ZenonT(60) DEF TypeOK
  <2>2. /\ client'[t] = [client[t] EXCEPT !.rolled_back = ended]
        /\ \A u \in Transactions \ {t} : client'[u] = client[u]
        /\ DOMAIN client' = Transactions /\ client' = [u \in Transactions |-> client'[u]]
    BY ZenonT(60), <1>3 DEF TypeOK
  <2>3. /\ client'[t] \in [issued : BOOLEAN, answers : Partial(Nat), sends : Nat, rolled_back : BOOLEAN]
        /\ client'[t].issued = client[t].issued /\ client'[t].answers = client[t].answers
        /\ client'[t].rolled_back = ended
    BY ZenonT(60), <2>1, <2>2
  <2> QED
    BY ZenonT(60), <2>2, <2>3 DEF TypeOK
<1>6. TypeOK'
  BY ZenonT(60), <1>3, <1>4, <1>5 DEF TypeOK
<1>7. revision' = revision
  BY ZenonT(60), <1>3 DEF revision
<1>8. t \in DOMAIN transactions => Untouched(t) /\ ~(lock.stage = "Install" /\ lock.by = t)
  BY ZenonT(60) DEF OpenInv
<1>9. OpenInv'
  <2> SUFFICES ASSUME NEW u \in DOMAIN transactions'
               PROVE  OpenInv!(u)'
    BY ZenonT(60) DEF OpenInv
  <2>1. u \in DOMAIN transactions /\ u \in Transactions /\ transactions'[u] = transactions[u] /\ client'[u] = client[u]
    BY ZenonT(60), <1>4, <1>5 DEF TypeOK
  <2>2. OpenInv!(u)
    BY ZenonT(60), <2>1 DEF OpenInv
  <2> QED
    BY ZenonT(60), <1>3, <1>7, <2>1, <2>2 DEF Untouched, Tracked
<1>10. UnissuedInv'
  BY SMTT(60), <1>3, <1>5 DEF UnissuedInv, Untouched
<1>11. LockInv'
  <2>1. lock.stage # "Free" /\ lock.by # Nobody => lock.by \in Transactions
    BY ZenonT(60), LockFacts
  <2>2. lock.stage = "Install" => lock.stage # "Free"
    OBVIOUS
  <2>3. lock.stage = "Install" /\ lock.by # Nobody => Untouched(lock.by)'
    BY ZenonT(60), <1>3, <1>5, <1>8, <1>1, <2>1, <2>2 DEF LockInv, Untouched
  <2> QED
    BY SMTT(60), <1>3, <1>5, <1>7, <2>1, <2>2, <2>3 DEF LockInv, Tracked
<1>12. InstalledInv'
  <2>1. \A u \in Transactions : client'[u].rolled_back => installed[u] = {}
    BY ZenonT(60), <1>5, <1>8, <1>1 DEF InstalledInv, Untouched
  <2> QED
    BY SMTT(60), <1>3, <1>5, <1>7, <2>1 DEF InstalledInv, Tracked
<1>13. AnswersOwnWrite'
  BY ZenonT(60), <1>3 DEF AnswersOwnWrite, Current, revision
<1> QED
  BY ZenonT(60), <1>6, <1>9, <1>10, <1>11, <1>12, <1>13

\* A commit gets the lock: what it is checked against is the current revision.
LEMMA LockCommitStep ==
    ASSUME IInv, UNCHANGED setup, NEW t \in Transactions, NEW writes \in Partial({"Put", "Delete"}),
           LockCommit(t, writes)
    PROVE  IInv'
<1> USE DEF IInv
<1>1. /\ lock = Free /\ client[t].issued
      /\ client' = [client EXCEPT ![t].sends = @ + 1]
      /\ lock' = [stage |-> "Validate", by |-> t, current |-> revision, writes |-> writes]
      /\ UNCHANGED <<contents, transactions, clear, installed>>
  BY ZenonT(60) DEF LockCommit
<1>2. revision \in Nat /\ revision' = revision
  BY ZenonT(60), <1>1, Revisions DEF revision
<1>3. /\ client' \in [Transactions -> [issued : BOOLEAN, answers : Partial(Nat), sends : Nat,
                                       rolled_back : BOOLEAN]]
      /\ \A u \in Transactions : /\ client'[u].issued = client[u].issued
                                 /\ client'[u].answers = client[u].answers
                                 /\ client'[u].rolled_back = client[u].rolled_back
  <2>1. client[t] \in [issued : BOOLEAN, answers : Partial(Nat), sends : Nat, rolled_back : BOOLEAN]
    BY ZenonT(60) DEF TypeOK
  <2>2. /\ client'[t] = [client[t] EXCEPT !.sends = client[t].sends + 1]
        /\ \A u \in Transactions \ {t} : client'[u] = client[u]
        /\ DOMAIN client' = Transactions /\ client' = [u \in Transactions |-> client'[u]]
    BY ZenonT(60), <1>1 DEF TypeOK
  <2>3. /\ client'[t] \in [issued : BOOLEAN, answers : Partial(Nat), sends : Nat, rolled_back : BOOLEAN]
        /\ client'[t].issued = client[t].issued /\ client'[t].answers = client[t].answers
        /\ client'[t].rolled_back = client[t].rolled_back
    BY SMTT(60), <2>1, <2>2
  <2> QED
    BY ZenonT(60), <2>2, <2>3 DEF TypeOK
<1>4. lock' \in Locks /\ lock'.stage = "Validate" /\ lock'.by = t /\ lock'.current = revision
  BY ZenonT(60), <1>1, <1>2 DEF Locks
<1>5. TypeOK'
  BY ZenonT(60), <1>1, <1>3, <1>4 DEF TypeOK
<1>6. OpenInv'
  <2> SUFFICES ASSUME NEW u \in DOMAIN transactions'
               PROVE  OpenInv!(u)'
    BY ZenonT(60) DEF OpenInv
  <2>1. u \in DOMAIN transactions /\ u \in Transactions /\ OpenInv!(u)
    BY ZenonT(60), <1>1 DEF OpenInv, TypeOK
  <2> QED
    BY SMTT(60), <1>1, <1>2, <1>3, <1>4, <2>1 DEF Untouched, Tracked
<1>7. UnissuedInv'
  BY SMTT(60), <1>1, <1>3, <1>4 DEF UnissuedInv, Untouched
<1>8. LockInv'
  BY SMTT(60), <1>1, <1>2, <1>3, <1>4 DEF LockInv
<1>9. InstalledInv'
  BY SMTT(60), <1>1, <1>2, <1>3 DEF InstalledInv, Tracked
<1>10. AnswersOwnWrite'
  BY ZenonT(60), <1>4 DEF AnswersOwnWrite
<1> QED
  BY ZenonT(60), <1>5, <1>6, <1>7, <1>8, <1>9, <1>10

\* A write outside a transaction gets the lock: it is nobody's.
LEMMA LockWriteStep ==
    ASSUME IInv, UNCHANGED setup, NEW k \in Keys, LockWrite(k)
    PROVE  IInv'
<1> USE DEF IInv
<1>1. PICK kind \in {"Put", "Delete"} :
        lock' = [stage |-> "Install", by |-> Nobody, current |-> revision, writes |-> [l \in {k} |-> kind]]
  BY ZenonT(60) DEF LockWrite
<1>2. lock = Free /\ UNCHANGED <<contents, transactions, clear, client, installed>>
  BY ZenonT(60) DEF LockWrite
<1>3. revision \in Nat /\ revision' = revision
  BY ZenonT(60), <1>2, Revisions DEF revision
<1>4. [l \in {k} |-> kind] \in Partial({"Put", "Delete"})
  BY SMTT(60), PartialIntro
<1>5. lock' \in Locks /\ lock'.stage = "Install" /\ lock'.by = Nobody /\ lock'.current = revision
  BY ZenonT(60), <1>1, <1>3, <1>4 DEF Locks
<1>6. TypeOK'
  BY ZenonT(60), <1>2, <1>5 DEF TypeOK
<1>7. OpenInv'
  <2> SUFFICES ASSUME NEW u \in DOMAIN transactions'
               PROVE  OpenInv!(u)'
    BY ZenonT(60) DEF OpenInv
  <2>1. u \in DOMAIN transactions /\ u \in Transactions /\ OpenInv!(u)
    BY ZenonT(60), <1>2 DEF OpenInv, TypeOK
  <2> QED
    BY ZenonT(60), <1>2, <1>3, <1>5, <2>1, TokensAssumption DEF Untouched, Tracked
<1>8. UnissuedInv'
  BY ZenonT(60), <1>2, <1>5, TokensAssumption DEF UnissuedInv, Untouched
<1>9. LockInv'
  BY SMTT(60), <1>2, <1>3, <1>5 DEF LockInv
<1>10. InstalledInv'
  BY SMTT(60), <1>2, <1>3 DEF InstalledInv, Tracked
<1>11. AnswersOwnWrite'
  BY ZenonT(60), <1>5 DEF AnswersOwnWrite
<1> QED
  BY ZenonT(60), <1>6, <1>7, <1>8, <1>9, <1>10, <1>11

\* Validate: the transaction is taken out whatever comes of the commit, and what
\* goes on to the store was found unchanged at the revision under the lock.
LEMMA ValidateStep ==
    ASSUME IInv, UNCHANGED setup, Validate
    PROVE  IInv'
<1> USE DEF IInv
<1>1. /\ lock.stage = "Validate" /\ UNCHANGED <<contents, clear, client, installed>>
      /\ lock.by \in Transactions /\ client[lock.by].issued /\ lock \in Locks
  BY ZenonT(60), LockFacts DEF Validate, LockInv
<1>2. PICK t \in Transactions : t = lock.by
  BY ZenonT(60), <1>1
<1>3. /\ lock.stage = "Validate" /\ UNCHANGED <<contents, clear, client, installed>>
      /\ t \in Transactions /\ client[t].issued /\ lock \in Locks
  BY ZenonT(60), <1>1, <1>2
<1>4. /\ DOMAIN transactions' = DOMAIN transactions \ {t}
      /\ \A u \in DOMAIN transactions \ {t} : transactions'[u] = transactions[u]
      /\ transactions' \in [DOMAIN transactions' -> States]
  BY ZenonT(60), <1>2, WithoutFacts DEF Validate, Ended
<1>5. revision \in Nat /\ revision' = revision
  BY ZenonT(60), <1>3, Revisions DEF revision
<1>6. \/ lock' = Free
      \/ /\ t \in DOMAIN transactions
         /\ ReadsCurrent(transactions[t], lock.current)
         /\ lock' = [lock EXCEPT !.stage = "Install"]
  BY ZenonT(60), <1>2 DEF Validate
<1>7. \/ lock' = Free
      \/ /\ lock' \in Locks
         /\ lock'.stage = "Install" /\ lock'.by = t /\ lock'.current = lock.current
  <2>1. CASE lock' = [lock EXCEPT !.stage = "Install"]
    <3>1. lock'.stage = "Install" /\ lock'.by = t /\ lock'.current = lock.current
      BY ZenonT(60), <1>3, <1>2, <2>1 DEF Locks
    <3>2. lock' \in Locks
      BY ZenonT(60), <1>3, <2>1 DEF Locks
    <3> QED
      BY ZenonT(60), <3>1, <3>2
  <2> QED
    BY ZenonT(60), <1>6, <2>1
<1>8. TypeOK'
  BY ZenonT(60), <1>3, <1>4, <1>7 DEF TypeOK
<1>9. OpenInv'
  <2> SUFFICES ASSUME NEW u \in DOMAIN transactions'
               PROVE  OpenInv!(u)'
    BY ZenonT(60) DEF OpenInv
  <2>1. u \in DOMAIN transactions /\ u # t /\ transactions'[u] = transactions[u] /\ OpenInv!(u)
    BY ZenonT(60), <1>4 DEF OpenInv
  <2>2. ~(lock'.stage = "Install" /\ lock'.by = u)
    BY SMTT(60), <1>7, <2>1 DEF Free
  <2> QED
    BY SMTT(60), <1>3, <1>5, <2>1, <2>2 DEF Untouched, Tracked
<1>10. UnissuedInv'
  <2> SUFFICES ASSUME NEW u \in Transactions, ~client[u].issued
               PROVE  Untouched(u)' /\ DOMAIN client'[u].answers = {} /\ ~(lock'.stage = "Install" /\ lock'.by = u)
    BY ZenonT(60), <1>3 DEF UnissuedInv
  <2>1. ~(lock'.stage = "Install" /\ lock'.by = u)
    BY SMTT(60), <1>3, <1>7 DEF Free
  <2> QED
    BY ZenonT(60), <1>3, <2>1 DEF UnissuedInv, Untouched
<1>11. LockInv'
  <2>1. CASE lock' = Free
    BY ZenonT(60), <1>3, <2>1 DEF LockInv, Free
  <2>2. CASE lock' # Free
    <3>1. lock'.stage = "Install" /\ lock'.by = t /\ lock'.current = lock.current /\ t \in DOMAIN transactions
          /\ ReadsCurrent(transactions[t], lock.current) /\ OpenInv!(t)
      BY ZenonT(60), <1>6, <1>7, <2>2 DEF OpenInv
    <3>2. Untouched(t)'
      BY ZenonT(60), <1>3, <3>1 DEF Untouched
    <3>3. ASSUME NEW k \in DOMAIN client'[t].answers, Tracked(t, k)'
          PROVE  contents'[lock'.current + 1][k] = client'[t].answers[k]
      <4>1. k \in DOMAIN client[t].answers /\ Tracked(t, k)
        BY ZenonT(60), <1>3, <3>3 DEF Tracked
      <4>2. k \in DOMAIN transactions[t].reads /\ transactions[t].reads[k] = client[t].answers[k]
        BY ZenonT(60), <3>1, <4>1
      <4> QED
        BY SMTT(60), <1>3, <3>1, <4>2 DEF ReadsCurrent
    <3> QED
      BY SMTT(60), <1>3, <1>5, <3>1, <3>2, <3>3 DEF LockInv
  <2> QED
    BY ZenonT(60), <2>1, <2>2
<1>12. InstalledInv'
  BY SMTT(60), <1>3, <1>5 DEF InstalledInv, Tracked
<1>13. AnswersOwnWrite'
  BY SMTT(60), <1>7 DEF AnswersOwnWrite, Free
<1> QED
  BY ZenonT(60), <1>8, <1>9, <1>10, <1>11, <1>12, <1>13

\* Install: the revision a transaction's writes are installed on is, outside a
\* setup that clears, the one they were checked against.
LEMMA InstallStep ==
    ASSUME IInv, UNCHANGED setup, Install
    PROVE  IInv'
<1> USE DEF IInv
<1>1. /\ lock.stage = "Install" /\ lock \in Locks
      /\ contents' = Append(contents, Written(lock.writes))
      /\ lock' = [lock EXCEPT !.stage = "Answer", !.current = revision + 1]
      /\ UNCHANGED <<transactions, clear, client>>
  BY ZenonT(60), LockFacts DEF Install
<1>2. revision \in Nat /\ \A r \in 0..revision : contents[r + 1] \in [Keys -> Nat]
  BY ZenonT(60), Revisions
<1>3. /\ contents' \in Seq([Keys -> Nat]) /\ contents' # <<>>
      /\ revision' = revision + 1 /\ Current' = Written(lock.writes)
      /\ \A r \in 0..revision : contents'[r + 1] = contents[r + 1]
  BY ZenonT(60), <1>1, WrittenType, Appended
<1>4. /\ lock' \in Locks /\ lock'.stage = "Answer" /\ lock'.by = lock.by
      /\ lock'.current = revision + 1 /\ lock'.writes = lock.writes
  <2>1. /\ lock'.stage = "Answer" /\ lock'.by = lock.by
        /\ lock'.current = revision + 1 /\ lock'.writes = lock.writes
    BY ZenonT(60), <1>1 DEF Locks
  <2>2. lock' \in Locks
    <3>1. lock' = [stage |-> "Answer", by |-> lock.by, current |-> revision + 1, writes |-> lock.writes]
      BY ZenonT(60), <1>1 DEF Locks
    <3>2. lock.by \in Transactions \cup {Nobody} /\ lock.writes \in Partial({"Put", "Delete"})
      BY ZenonT(60), <1>1 DEF Locks
    <3>3. revision + 1 \in Nat
      BY SMTT(60), <1>2
    <3> HIDE DEF revision
    <3> QED
      BY ZenonT(60), <3>1, <3>2, <3>3 DEF Locks
  <2> QED
    BY ZenonT(60), <2>1, <2>2
<1>5. PICK by \in Transactions \cup {Nobody} : by = lock.by
  BY ZenonT(60), <1>1 DEF Locks
<1>6. installed' = installed \/ (by \in Transactions /\ installed' = [installed EXCEPT ![by] = @ \cup {revision}])
  BY ZenonT(60), <1>1, <1>5, LockFacts DEF Install
<1>7. by \in Transactions =>
        /\ Untouched(by) /\ by # Nobody
        /\ \A k \in DOMAIN client[by].answers :
              Tracked(by, k) => contents[lock.current + 1][k] = client[by].answers[k]
  BY ZenonT(60), <1>1, <1>5, TokensAssumption DEF LockInv
<1>8. \A t \in Transactions : /\ t # by => installed'[t] = installed[t]
                              /\ t = by => installed'[t] \in {{}, {revision}}
  BY ZenonT(60), <1>6, <1>7 DEF Untouched, TypeOK
<1>9. installed' \in [Transactions -> SUBSET Nat]
  <2>1. CASE by \in Transactions /\ installed' = [installed EXCEPT ![by] = @ \cup {revision}]
    <3>1. installed[by] \cup {revision} \in SUBSET Nat
      BY ZenonT(60), <1>2, <2>1 DEF TypeOK
    <3> QED
      BY ZenonT(60), <2>1, <3>1 DEF TypeOK
  <2> QED
    BY ZenonT(60), <1>6, <2>1 DEF TypeOK
<1>10. TypeOK'
  BY ZenonT(60), <1>1, <1>3, <1>4, <1>9 DEF TypeOK
<1>11. OpenInv'
  <2> SUFFICES ASSUME NEW u \in DOMAIN transactions'
               PROVE  OpenInv!(u)'
    BY ZenonT(60) DEF OpenInv
  <2>1. u \in DOMAIN transactions /\ u \in Transactions /\ OpenInv!(u) /\ u # by
    BY ZenonT(60), <1>1, <1>5 DEF OpenInv, TypeOK
  <2>2. transactions[u].snapshot \in 0..revision
    BY SMTT(60), <1>2, <2>1 DEF TypeOK, States
  <2>3. contents'[transactions[u].snapshot + 1] = contents[transactions[u].snapshot + 1]
    BY ZenonT(60), <1>3, <2>2
  <2>4. Untouched(u)'
    BY ZenonT(60), <1>1, <1>8, <2>1 DEF Untouched
  <2> QED
    <3>1. transactions'[u].snapshot <= revision'
      BY SMTT(60), <1>1, <1>2, <1>3, <2>2
    <3>2. contents'[transactions'[u].snapshot + 1] = contents[transactions[u].snapshot + 1]
      BY ZenonT(60), <1>1, <2>3
    <3>3. \A k : Tracked(u, k)' <=> Tracked(u, k)
      BY ZenonT(60), <1>1 DEF Tracked
    <3> QED
      BY SMTT(60), <1>1, <1>4, <2>1, <2>4, <3>1, <3>2, <3>3
<1>12. UnissuedInv'
  BY ZenonT(60), <1>1, <1>4, <1>5, <1>8 DEF UnissuedInv, Untouched
<1>13. LockInv'
  BY SMTT(60), <1>1, <1>2, <1>3, <1>4 DEF LockInv
<1>14. InstalledInv'
  <2> SUFFICES ASSUME NEW t \in Transactions PROVE InstalledInv!(t)'
    BY ZenonT(60) DEF InstalledInv
  <2>1. CASE t # by
    <3>1. installed'[t] = installed[t] /\ InstalledInv!(t)
      BY ZenonT(60), <1>8, <2>1 DEF InstalledInv
    <3>2. \A r \in installed[t] : r \in 0..revision
      BY SMTT(60), <1>2, <3>1 DEF TypeOK
    <3>3. ~setup.clearing => \A r \in installed[t] : \A k \in DOMAIN client[t].answers :
                  Tracked(t, k) => contents'[r + 1][k] = client[t].answers[k]
      <4> SUFFICES ASSUME ~setup.clearing, NEW r \in installed[t], NEW k \in DOMAIN client[t].answers,
                          Tracked(t, k)
                   PROVE  contents'[r + 1][k] = client[t].answers[k]
        OBVIOUS
      <4>1. contents'[r + 1] = contents[r + 1]
        BY ZenonT(60), <1>3, <3>2
      <4> QED
        BY SMTT(60), <3>1, <4>1
    <3>4. \A k : Tracked(t, k)' <=> Tracked(t, k)
      BY ZenonT(60), <1>1 DEF Tracked
    <3>5. \A r \in installed[t] : r <= revision'
      BY SMTT(60), <1>2, <1>3, <3>2
    <3> QED
      BY ZenonT(60), <1>1, <3>1, <3>3, <3>4, <3>5
  <2>2. CASE t = by
    <3>1. installed'[t] \in {{}, {revision}} /\ ~client[t].rolled_back
      BY ZenonT(60), <1>7, <1>8, <2>2 DEF Untouched
    <3>2. ~setup.clearing => lock.current = revision
      BY ZenonT(60), <1>1 DEF LockInv
    <3>3. ~setup.clearing => \A k \in DOMAIN client[t].answers :
                               Tracked(t, k) => contents'[revision + 1][k] = client[t].answers[k]
      BY SMTT(60), <1>2, <1>3, <1>7, <2>2, <3>2
    <3> QED
      <4>1. \A k : Tracked(t, k)' <=> Tracked(t, k)
        BY ZenonT(60), <1>1 DEF Tracked
      <4>2. revision <= revision'
        BY SMTT(60), <1>2, <1>3
      <4> QED
        BY ZenonT(60), <1>1, <1>2, <3>1, <3>3, <4>1, <4>2
  <2> QED
    BY ZenonT(60), <2>1, <2>2
<1>15. AnswersOwnWrite'
  <2>1. ASSUME NEW k \in DOMAIN lock.writes, lock.writes[k] = "Put"
        PROVE  Written(lock.writes)[k] = revision + 1
    <3>1. k \in Keys
      BY ZenonT(60), <1>1, PartialFacts DEF Locks
    <3> QED
      BY ZenonT(60), <2>1, <3>1 DEF Written
  <2> QED
    BY ZenonT(60), <1>3, <1>4, <2>1 DEF AnswersOwnWrite
<1> QED
  BY ZenonT(60), <1>10, <1>11, <1>12, <1>13, <1>14, <1>15

\* Answer: the lock is free again.
LEMMA AnswerStep ==
    ASSUME IInv, UNCHANGED setup, Answer
    PROVE  IInv'
<1> USE DEF IInv
<1>1. lock' = Free /\ UNCHANGED <<contents, transactions, clear, client, installed>>
  BY ZenonT(60) DEF Answer
<1>2. revision' = revision
  BY ZenonT(60), <1>1 DEF revision
<1>3. TypeOK'
  BY ZenonT(60), <1>1 DEF TypeOK
<1>4. OpenInv'
  <2> SUFFICES ASSUME NEW u \in DOMAIN transactions'
               PROVE  OpenInv!(u)'
    BY ZenonT(60) DEF OpenInv
  <2>1. u \in DOMAIN transactions /\ OpenInv!(u)
    BY ZenonT(60), <1>1 DEF OpenInv
  <2> QED
    BY ZenonT(60), <1>1, <1>2, <2>1 DEF Untouched, Tracked, Free
<1>5. UnissuedInv'
  BY ZenonT(60), <1>1 DEF UnissuedInv, Untouched, Free
<1>6. LockInv'
  BY ZenonT(60), <1>1 DEF LockInv, Free
<1>7. InstalledInv'
  BY SMTT(60), <1>1, <1>2 DEF InstalledInv, Tracked
<1>8. AnswersOwnWrite'
  BY ZenonT(60), <1>1 DEF AnswersOwnWrite, Free
<1> QED
  BY ZenonT(60), <1>3, <1>4, <1>5, <1>6, <1>7, <1>8

\* ClearSnapshot changes nothing but the keys to delete.
LEMMA ClearSnapshotStep ==
    ASSUME IInv, UNCHANGED setup, ClearSnapshot
    PROVE  IInv'
<1> USE DEF IInv
<1>1. /\ setup.clearing /\ clear' \subseteq Keys
      /\ UNCHANGED <<contents, transactions, lock, client, installed>>
  BY ZenonT(60) DEF ClearSnapshot
<1>2. revision' = revision
  BY ZenonT(60), <1>1 DEF revision
<1>3. TypeOK'
  BY ZenonT(60), <1>1 DEF TypeOK
<1>4. OpenInv'
  <2> SUFFICES ASSUME NEW u \in DOMAIN transactions'
               PROVE  OpenInv!(u)'
    BY ZenonT(60) DEF OpenInv
  <2>1. u \in DOMAIN transactions /\ OpenInv!(u)
    BY ZenonT(60), <1>1 DEF OpenInv
  <2> QED
    BY ZenonT(60), <1>1, <1>2, <2>1 DEF Untouched, Tracked
<1>5. UnissuedInv'
  BY ZenonT(60), <1>1 DEF UnissuedInv, Untouched
<1>6. LockInv'
  BY ZenonT(60), <1>1, <1>2 DEF LockInv, Untouched, Tracked
<1>7. InstalledInv'
  BY ZenonT(60), <1>1, <1>2 DEF InstalledInv, Tracked
<1>8. AnswersOwnWrite'
  BY ZenonT(60), <1>1 DEF AnswersOwnWrite
<1> QED
  BY ZenonT(60), <1>3, <1>4, <1>5, <1>6, <1>7, <1>8

\* ClearCommit adds a revision, whoever holds the lock: the revision a commit is
\* checked against stays as it was.
LEMMA ClearCommitStep ==
    ASSUME IInv, UNCHANGED setup, ClearCommit
    PROVE  IInv'
<1> USE DEF IInv
<1>1. /\ setup.clearing /\ clear' = {}
      /\ contents' = Append(contents, Written([k \in clear |-> "Delete"]))
      /\ UNCHANGED <<transactions, lock, client, installed>>
  BY ZenonT(60), Revisions DEF ClearCommit, LockInv
<1>2. revision \in Nat
  BY ZenonT(60), Revisions
<1>3. /\ contents' \in Seq([Keys -> Nat]) /\ contents' # <<>>
      /\ revision' = revision + 1
      /\ \A r \in 0..revision : contents'[r + 1] = contents[r + 1]
  BY ZenonT(60), <1>1, WrittenType, Appended
<1>4. TypeOK'
  BY ZenonT(60), <1>1, <1>3 DEF TypeOK
<1>5. OpenInv'
  <2> SUFFICES ASSUME NEW u \in DOMAIN transactions'
               PROVE  OpenInv!(u)'
    BY ZenonT(60) DEF OpenInv
  <2>1. u \in DOMAIN transactions /\ OpenInv!(u)
    BY ZenonT(60), <1>1 DEF OpenInv
  <2>2. transactions[u].snapshot \in 0..revision
    BY SMTT(60), <1>2, <2>1 DEF TypeOK, States
  <2>3. transactions'[u].snapshot <= revision'
    BY SMTT(60), <1>1, <1>2, <1>3, <2>2
  <2>4. contents'[transactions'[u].snapshot + 1] = contents[transactions[u].snapshot + 1]
    BY ZenonT(60), <1>1, <1>3, <2>2
  <2>5. Untouched(u)' /\ \A k : Tracked(u, k)' <=> Tracked(u, k)
    BY ZenonT(60), <1>1, <2>1 DEF Untouched, Tracked
  <2> QED
    BY ZenonT(60), <1>1, <2>1, <2>3, <2>4, <2>5
<1>6. UnissuedInv'
  BY ZenonT(60), <1>1 DEF UnissuedInv, Untouched
<1>7. LockInv'
  <2>1. CASE lock.stage = "Free"
    BY ZenonT(60), <1>1, <2>1 DEF LockInv
  <2>2. CASE lock.stage # "Free"
    <3>1. lock.current \in 0..revision
      BY SMTT(60), <1>2, <2>2, LockFacts DEF LockInv, Locks
    <3>2. contents'[lock.current + 1] = contents[lock.current + 1]
      BY ZenonT(60), <1>3, <3>1
    <3>3. lock.current <= revision'
      BY SMTT(60), <1>2, <1>3, <3>1
    <3> QED
      BY ZenonT(60), <1>1, <3>2, <3>3 DEF LockInv, Untouched, Tracked
  <2> QED
    BY ZenonT(60), <2>1, <2>2
<1>8. InstalledInv'
  <2>1. \A t \in Transactions : \A r \in installed[t] : r <= revision'
    BY SMTT(60), <1>2, <1>3 DEF InstalledInv, TypeOK
  <2> QED
    BY ZenonT(60), <1>1, <2>1 DEF InstalledInv
<1>9. AnswersOwnWrite'
  BY ZenonT(60), <1>1 DEF AnswersOwnWrite
<1> QED
  BY ZenonT(60), <1>4, <1>5, <1>6, <1>7, <1>8, <1>9
-----------------------------------------------------------------------------
\* Every step keeps the invariant.
LEMMA NextInv ==
    ASSUME IInv, [Next]_vars
    PROVE  IInv'
<1>1. CASE UNCHANGED vars
  <2>1. revision' = revision /\ UNCHANGED <<setup, contents, transactions, lock, clear, client, installed>>
    BY ZenonT(60), <1>1 DEF vars, revision
  <2>2. TypeOK'
    BY ZenonT(60), <2>1 DEF IInv, TypeOK
  <2>3. OpenInv'
    BY SMTT(60), <2>1 DEF IInv, OpenInv, Untouched, Tracked
  <2>4. UnissuedInv'
    BY ZenonT(60), <2>1 DEF IInv, UnissuedInv, Untouched
  <2>5. LockInv'
    BY ZenonT(60), <2>1 DEF IInv, LockInv, Untouched, Tracked
  <2>6. InstalledInv'
    BY SMTT(60), <2>1 DEF IInv, InstalledInv, Tracked
  <2>7. AnswersOwnWrite'
    BY ZenonT(60), <2>1 DEF IInv, AnswersOwnWrite, Current
  <2> QED
    BY ZenonT(60), <2>2, <2>3, <2>4, <2>5, <2>6, <2>7 DEF IInv
<1>2. CASE Next
  <2> SUFFICES ASSUME Step, UNCHANGED setup PROVE IInv'
    BY ZenonT(60), <1>2 DEF Next
  <2>1. setup.keys \subseteq Keys
    BY ZenonT(60), Revisions DEF IInv
  <2>2. ASSUME NEW t \in Transactions, begin_transaction(t) PROVE IInv'
    BY ZenonT(60), <2>2, BeginStep
  <2>3. ASSUME NEW t \in Transactions, rollback(t) PROVE IInv'
    BY ZenonT(60), <2>3, RollbackStep
  <2>4. ASSUME NEW t \in Transactions, NEW method \in setup.methods, NEW asked \in SUBSET setup.keys \ {{}},
               Read(t, method, asked)
        PROVE IInv'
    BY ZenonT(60), <2>4, ReadStep
  <2>5. ASSUME NEW t \in Transactions, NEW S \in SUBSET setup.keys, LockCommit(t, [k \in S |-> "Put"])
        PROVE IInv'
    <3> DEFINE writes == [k \in S |-> "Put"]
    <3>1. writes \in [S -> {"Put", "Delete"}] /\ S \in SUBSET Keys
      BY ZenonT(60), <2>1
    <3> HIDE DEF writes
    <3>2. writes \in Partial({"Put", "Delete"})
      BY ZenonT(60), <3>1, PartialIntro
    <3>3. LockCommit(t, writes)
      BY ZenonT(60), <2>5 DEF writes
    <3> QED
      BY ZenonT(60), <3>2, <3>3, LockCommitStep
  <2>6. ASSUME NEW k \in setup.keys, LockWrite(k) PROVE IInv'
    BY ZenonT(60), <2>1, <2>6, LockWriteStep
  <2>7. CASE Validate
    BY ZenonT(60), <2>7, ValidateStep
  <2>8. CASE Install
    BY ZenonT(60), <2>8, InstallStep
  <2>9. CASE Answer
    BY ZenonT(60), <2>9, AnswerStep
  <2>10. CASE ClearSnapshot
    BY ZenonT(60), <2>10, ClearSnapshotStep
  <2>11. CASE ClearCommit
    BY ZenonT(60), <2>11, ClearCommitStep
  <2> QED
    BY ZenonT(60), <2>2, <2>3, <2>4, <2>5, <2>6, <2>7, <2>8, <2>9, <2>10, <2>11 DEF Step
<1> QED
  BY ZenonT(60), <1>1, <1>2

\* The inductive invariant holds in every state of the service.
THEOREM TransactionsInv == Spec => []IInv
<1>1. Init => IInv
  BY ZenonT(60), InitInv
<1>2. IInv /\ [Next]_vars => IInv'
  BY ZenonT(60), NextInv
<1> QED
  BY <1>1, <1>2, PTL DEF Spec

\* take_transaction: however often a commit is sent again, and whatever else ends
\* the transaction meanwhile, its writes are installed at most once, and never
\* after a rollback that was told it ended the transaction.
THEOREM EndsOnceAlways == Spec => []EndsOnce
<1>1. IInv => EndsOnce
  <2> SUFFICES ASSUME IInv, NEW t \in Transactions
               PROVE  Cardinality(installed[t]) <= IF client[t].rolled_back THEN 0 ELSE 1
    BY ZenonT(60) DEF EndsOnce
  <2>1. CASE installed[t] = {}
    BY SMTT(60), <2>1, FS_EmptySet
  <2>2. CASE installed[t] # {}
    <3>1. PICK r \in Nat : installed[t] = {r}
      BY ZenonT(60), <2>2 DEF IInv, InstalledInv
    <3>2. Cardinality(installed[t]) = 1
      BY ZenonT(60), <3>1, FS_Singleton
    <3>3. ~client[t].rolled_back
      BY ZenonT(60), <2>2 DEF IInv, InstalledInv
    <3> QED
      BY SMTT(60), <3>2, <3>3
  <2> QED
    BY ZenonT(60), <2>1, <2>2
<1> QED
  BY <1>1, TransactionsInv, PTL

\* The reads of a commit past validation are unchanged at the revision it was
\* checked against, also while the database is being cleared.
THEOREM CheckedReadsAlways == Spec => []CheckedReads
<1>1. IInv => CheckedReads
  BY ZenonT(60) DEF IInv, LockInv, CheckedReads, Tracked
<1> QED
  BY <1>1, TransactionsInv, PTL

\* The write results a commit answers with are those of its own commit.
THEOREM AnswersOwnWriteAlways == Spec => []AnswersOwnWrite
<1>1. IInv => AnswersOwnWrite
  BY ZenonT(60) DEF IInv
<1> QED
  BY <1>1, TransactionsInv, PTL

\* With any read methods: outside a setup that clears, a commit is installed only
\* where every existing document its transaction was answered is still as it was.
ExistingConflictsAbort ==
  ~setup.clearing =>
    \A t \in Transactions : \A r \in installed[t] : \A k \in DOMAIN client[t].answers :
        client[t].answers[k] # Missing => contents[r + 1][k] = client[t].answers[k]

\* Any client and any read method: get_document's missing documents are all that a
\* commit may overlook.
THEOREM ExistingConflictsAbortAlways == Spec => []ExistingConflictsAbort
<1>1. IInv => ExistingConflictsAbort
  BY ZenonT(60) DEF IInv, InstalledInv, ExistingConflictsAbort, Tracked
<1> QED
  BY <1>1, TransactionsInv, PTL

\* Where clients read with batch_get_documents, which records the missing
\* documents too, a commit is installed only where everything its transaction was
\* answered is still so.
THEOREM ConflictsAbortAlways ==
    ASSUME \A s \in Setups : s.clearing \/ s.methods \subseteq {"BatchGetDocuments"}
    PROVE  Spec => []ConflictsAbort
<1>1. IInv => ConflictsAbort
  BY ZenonT(60) DEF IInv, TypeOK, InstalledInv, ConflictsAbort, Tracked
<1> QED
  BY <1>1, TransactionsInv, PTL
=============================================================================
