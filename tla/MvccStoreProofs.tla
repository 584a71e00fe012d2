--------------------------- MODULE MvccStoreProofs ---------------------------
(***************************************************************************)
(* Proofs about MvccStore.                                                  *)
(***************************************************************************)
EXTENDS MvccStore, WellFoundedInduction, SequenceTheorems, TLAPS

\* A non-empty set of naturals has a least element; the log's positions and
\* revisions are such sets.
LEMMA LeastElement ==
    ASSUME NEW T, T \subseteq Nat, T # {}
    PROVE  \E x \in T : \A y \in T : x <= y
<1> DEFINE R == OpToRel(<, Nat)
<1>1. IsWellFoundedOn(R, Nat)
  BY ZenonT(60), NatLessThanWellFounded
<1>2. \E x \in T : \A y \in T : ~ (<<y, x>> \in R)
  <2> HIDE DEF R
  <2> QED BY ZenonT(60), <1>1, WFMin
<1>3. \A x, y \in Nat : x < y => <<x, y>> \in R
  BY ZenonT(60) DEF OpToRel
<1> HIDE DEF R
<1>4. PICK x \in T : \A y \in T : ~ (<<y, x>> \in R)
  BY ZenonT(60), <1>2
<1>5. \A y \in T : ~ (y < x)
  BY ZenonT(60), <1>3, <1>4
<1> QED BY SMTT(60), <1>5

\* Induction in the form the provers can use: a set of naturals that holds 0
\* and every successor is all of them.
LEMMA SetInduction ==
    ASSUME NEW T, T \subseteq Nat, 0 \in T, \A n \in T : n + 1 \in T
    PROVE  T = Nat
<1> SUFFICES ASSUME Nat \ T # {} PROVE FALSE
  BY ZenonT(60)
<1>1. PICK m \in Nat \ T : \A y \in Nat \ T : m <= y
  BY ZenonT(60), LeastElement
<1>2. m # 0
  OBVIOUS
<1>3. m - 1 \in Nat /\ m - 1 \in T
  BY SMTT(60), <1>1, <1>2
<1> QED BY SMTT(60), <1>3

(***************************************************************************)
(* Planning.                                                                *)
(***************************************************************************)

EmptyPlan(docs) == [ok |-> TRUE, documents |-> docs, changes |-> <<>>]

\* f is the table of plans that plan_with_documents builds, up to write n.
IsPlanTable(f, n, batch, docs, rev, time) ==
    f = [i \in 0..n |-> IF i = 0 THEN EmptyPlan(docs)
                        ELSE PlanStep(f[i - 1], batch[i], rev, time)]

\* The table exists, so the recursive definition means what it says.
LEMMA PlanTableExists ==
    ASSUME NEW batch, NEW docs, NEW rev, NEW time, NEW n \in Nat
    PROVE  \E f : IsPlanTable(f, n, batch, docs, rev, time)
<1> DEFINE T == {m \in Nat : \E f : IsPlanTable(f, m, batch, docs, rev, time)}
<1>1. 0 \in T
  <2>1. IsPlanTable([i \in 0..0 |-> EmptyPlan(docs)], 0, batch, docs, rev, time)
    BY SMTT(60) DEF IsPlanTable
  <2> QED BY ZenonT(60), <2>1
<1>2. ASSUME NEW m \in T PROVE m + 1 \in T
  <2>1. PICK f : IsPlanTable(f, m, batch, docs, rev, time)
    BY ZenonT(60), <1>2
  <2> DEFINE g == [i \in 0..(m + 1) |->
                     IF i <= m THEN f[i] ELSE PlanStep(f[m], batch[m + 1], rev, time)]
  <2>2. IsPlanTable(g, m + 1, batch, docs, rev, time)
    <3>1. \A i \in 0..m : g[i] = f[i]
      BY SMTT(60)
    <3>2. \A i \in 0..(m + 1) :
             g[i] = IF i = 0 THEN EmptyPlan(docs)
                    ELSE PlanStep(g[i - 1], batch[i], rev, time)
      <4> TAKE i \in 0..(m + 1)
      <4>1. CASE i = 0
        BY SMTT(60), <4>1, <2>1 DEF IsPlanTable
      <4>2. CASE i # 0 /\ i <= m
        BY SMTT(60), <4>2, <2>1, <3>1 DEF IsPlanTable
      <4>3. CASE i = m + 1
        BY SMTT(60), <4>3
      <4> QED BY SMTT(60), <4>1, <4>2, <4>3
    <3> QED BY ZenonT(60), <3>2 DEF IsPlanTable
  <2> QED BY SMTT(60), <2>2
<1>3. T = Nat
  BY ZenonT(60), <1>1, <1>2, SetInduction
<1> QED BY ZenonT(60), <1>3

\* plan_with_documents folds PlanStep over the batch, as the loop of
\* State::plan_with_documents does.
LEMMA PlanTable ==
    ASSUME NEW batch \in Seq(Write), NEW docs, NEW rev, NEW time
    PROVE  \E f : /\ f[0] = EmptyPlan(docs)
                  /\ \A i \in 1..Len(batch) : f[i] = PlanStep(f[i - 1], batch[i], rev, time)
                  /\ plan_with_documents(batch, docs, rev, time) = f[Len(batch)]
<1> DEFINE Q(f) == f = [i \in 0..Len(batch) |-> IF i = 0 THEN EmptyPlan(docs)
                        ELSE PlanStep(f[i - 1], batch[i], rev, time)]
<1>0. Len(batch) \in Nat
  BY SMTT(60)
<1>1. \E f : Q(f)
  <2> DEFINE n == Len(batch)
  <2> HIDE DEF n
  <2>1. PICK f : IsPlanTable(f, n, batch, docs, rev, time)
    BY ZenonT(60), <1>0, PlanTableExists DEF n
  <2> QED BY ZenonT(60), <2>1 DEF IsPlanTable, n
<1>2. Q(CHOOSE f : Q(f))
  BY ZenonT(60), <1>1
<1>3. plan_with_documents(batch, docs, rev, time) = (CHOOSE f : Q(f))[Len(batch)]
  BY ZenonT(60) DEF plan_with_documents, EmptyPlan
<1> DEFINE h == CHOOSE f : Q(f)
<1>4. h[0] = EmptyPlan(docs) /\ \A i \in 1..Len(batch) : h[i] = PlanStep(h[i - 1], batch[i], rev, time)
  <2> HIDE DEF h
  <2> SUFFICES ASSUME Q(h) PROVE h[0] = EmptyPlan(docs) /\ \A i \in 1..Len(batch) : h[i] = PlanStep(h[i - 1], batch[i], rev, time)
    BY ZenonT(60), <1>2 DEF h
  <2> QED BY SMTT(60), <1>0
<1> QED BY ZenonT(60), <1>3, <1>4

\* What a plan guarantees: its changes are those of one revision, a key it does
\* not change keeps its document, the first change of a key starts from the
\* document before the commit, the last one ends with the document after it,
\* and a document it leaves behind is an old one or one stamped with its time.
PlanInv(plan, docs, rev, time) ==
    /\ plan.documents \in Documents
    /\ plan.changes \in Seq(Change)
    /\ \A i \in 1..Len(plan.changes) : plan.changes[i].revision = rev
    /\ \A k \in Keys :
          (\A i \in 1..Len(plan.changes) : plan.changes[i].key # k)
              => plan.documents[k] = docs[k]
    /\ \A i \in 1..Len(plan.changes) :
          (\A j \in 1..Len(plan.changes) : j < i => plan.changes[j].key # plan.changes[i].key)
              => plan.changes[i].before = docs[plan.changes[i].key]
    /\ \A i \in 1..Len(plan.changes) :
          (\A j \in 1..Len(plan.changes) : j > i => plan.changes[j].key # plan.changes[i].key)
              => plan.changes[i].after = plan.documents[plan.changes[i].key]
    /\ \A k \in Keys :
          \/ plan.documents[k] = docs[k]
          \/ plan.documents[k] = Absent
          \/ plan.documents[k].update_time = time

\* A write leaves the stored version, no document, or one stamped with the
\* commit time (apply_write).
LEMMA ApplyWrite ==
    ASSUME NEW write \in Write, NEW previous \in Maybe, NEW time \in Times
    PROVE  LET next == apply_write(write, previous, time)
           IN  /\ next \in Maybe
               /\ next = previous \/ next = Absent \/ next.update_time = time
BY ZenonT(60), AbsentAssumption DEF apply_write, NewVersion, Write, Maybe, Document, Times

\* Planning one more write keeps what a plan guarantees (the loop body of
\* State::plan_with_documents).
LEMMA PlanStepInv ==
    ASSUME NEW plan, NEW docs \in Documents, NEW rev \in Nat, NEW time \in Times,
           NEW write \in Write, PlanInv(plan, docs, rev, time)
    PROVE  PlanInv(PlanStep(plan, write, rev, time), docs, rev, time)
<1> DEFINE k0 == write.key
           previous == plan.documents[k0]
           next == apply_write(write, previous, time)
           c == [revision |-> rev, key |-> k0, before |-> previous, after |-> next]
           p == PlanStep(plan, write, rev, time)
<1>1. k0 \in Keys /\ previous \in Maybe
  BY ZenonT(60) DEF PlanInv, Documents, Write
<1>2. next \in Maybe /\ (next = previous \/ next = Absent \/ next.update_time = time)
  BY ZenonT(60), <1>1, ApplyWrite
<1>3. c \in Change
  BY ZenonT(60), <1>1, <1>2 DEF Change
<1>4. /\ p.documents = [plan.documents EXCEPT ![k0] = next]
      /\ p.changes = IF previous = next THEN plan.changes ELSE Append(plan.changes, c)
  BY ZenonT(60) DEF PlanStep
<1>5. c.key = k0 /\ c.before = previous /\ c.after = next /\ c.revision = rev
  OBVIOUS
<1> HIDE DEF k0, previous, next, c, p
<1>6. previous = plan.documents[k0]
  BY ZenonT(60) DEF previous
<1>7. plan.documents \in [Keys -> Maybe] /\ plan.changes \in Seq(Change)
  BY ZenonT(60) DEF PlanInv, Documents
<1>8. p.documents \in Documents /\ p.documents[k0] = next
        /\ \A k \in Keys \ {k0} : p.documents[k] = plan.documents[k]
  BY ZenonT(60), <1>1, <1>2, <1>4, <1>7 DEF Documents
<1>9. CASE previous = next
  <2>1. p.changes = plan.changes
    BY ZenonT(60), <1>4, <1>9
  <2>2. p.documents = plan.documents
    BY ZenonT(60), <1>4, <1>6, <1>7, <1>9
  <2>3. PlanInv(p, docs, rev, time)
    BY SMTT(60), <2>1, <2>2 DEF PlanInv
  <2> QED BY ZenonT(60), <2>3 DEF p
<1>10. CASE previous # next
  <2> DEFINE n == Len(plan.changes)
  <2>1. p.changes = Append(plan.changes, c)
    BY ZenonT(60), <1>4, <1>10
  <2>2. /\ n \in Nat /\ Len(p.changes) = n + 1 /\ p.changes \in Seq(Change)
        /\ \A i \in 1..n : p.changes[i] = plan.changes[i]
        /\ p.changes[n + 1] = c
    BY SMTT(60), <2>1, <1>3, <1>7
  <2> HIDE DEF n
  <2>3. \A i \in 1..Len(p.changes) : i \in 1..n \/ i = n + 1
    BY SMTT(60), <2>2
  <2>4. \A i \in 1..(n + 1) : p.changes[i].revision = rev
    BY ZenonT(60), <2>2, <2>3, <1>5 DEF PlanInv, n
  <2>5. ASSUME NEW k \in Keys, \A i \in 1..(n + 1) : p.changes[i].key # k
        PROVE  p.documents[k] = docs[k]
    <3>1. k # k0
      BY SMTT(60), <2>5, <2>2, <1>5
    <3>2. \A i \in 1..n : plan.changes[i].key # k
      BY SMTT(60), <2>5, <2>2
    <3> QED BY ZenonT(60), <3>1, <3>2, <1>8 DEF PlanInv, n
  <2>6. ASSUME NEW i \in 1..(n + 1),
               \A j \in 1..(n + 1) : j < i => p.changes[j].key # p.changes[i].key
        PROVE  p.changes[i].before = docs[p.changes[i].key]
    <3>1. CASE i \in 1..n
      <4>1. ASSUME NEW j \in 1..n, j < i PROVE plan.changes[j].key # plan.changes[i].key
        <5>1. j \in 1..(n + 1) /\ p.changes[j] = plan.changes[j] /\ p.changes[i] = plan.changes[i]
          BY SMTT(60), <3>1, <2>2
        <5> QED BY ZenonT(60), <5>1, <4>1, <2>6
      <4> QED BY ZenonT(60), <4>1, <3>1, <2>2 DEF PlanInv, n
    <3>2. CASE i = n + 1
      <4>1. \A j \in 1..n : plan.changes[j].key # k0
        BY SMTT(60), <3>2, <2>6, <2>2, <1>5
      <4>2. previous = docs[k0]
        BY ZenonT(60), <4>1, <1>1, <1>6 DEF PlanInv, n
      <4> QED BY ZenonT(60), <4>2, <3>2, <2>2, <1>5
    <3> QED BY SMTT(60), <3>1, <3>2, <2>2
  <2>7. ASSUME NEW i \in 1..(n + 1),
               \A j \in 1..(n + 1) : j > i => p.changes[j].key # p.changes[i].key
        PROVE  p.changes[i].after = p.documents[p.changes[i].key]
    <3>1. CASE i \in 1..n
      <4>1. \A j \in 1..n : j > i => plan.changes[j].key # plan.changes[i].key
        BY SMTT(60), <3>1, <2>7, <2>2
      <4>2. plan.changes[i].key # k0
        BY SMTT(60), <3>1, <2>7, <2>2, <1>5
      <4>3. plan.changes[i] \in Change
        BY ZenonT(60), <3>1, <1>7, ElementOfSeq DEF n
      <4>4. plan.changes[i].key \in Keys
        BY ZenonT(60), <4>3 DEF Change
      <4>5. plan.changes[i].after = plan.documents[plan.changes[i].key]
        BY ZenonT(60), <4>1, <3>1 DEF PlanInv, n
      <4>6. p.changes[i] = plan.changes[i]
        BY ZenonT(60), <3>1, <2>2
      <4>7. p.documents[plan.changes[i].key] = plan.documents[plan.changes[i].key]
        BY ZenonT(60), <4>2, <4>4, <1>8
      <4> QED BY ZenonT(60), <4>5, <4>6, <4>7
    <3>2. CASE i = n + 1
      BY ZenonT(60), <3>2, <2>2, <1>5, <1>8
    <3> QED BY SMTT(60), <3>1, <3>2, <2>2
  <2>8. ASSUME NEW k \in Keys
        PROVE  p.documents[k] = docs[k] \/ p.documents[k] = Absent
                 \/ p.documents[k].update_time = time
    <3>1. CASE k # k0
      BY ZenonT(60), <3>1, <1>8 DEF PlanInv
    <3>2. CASE k = k0
      BY ZenonT(60), <3>2, <1>2, <1>6, <1>8 DEF PlanInv
    <3> QED BY ZenonT(60), <3>1, <3>2
  <2>9. PlanInv(p, docs, rev, time)
    BY SMTT(60), <1>8, <2>2, <2>4, <2>5, <2>6, <2>7, <2>8 DEF PlanInv
  <2> QED BY ZenonT(60), <2>9 DEF p
<1> QED BY ZenonT(60), <1>9, <1>10

\* A planned commit guarantees PlanInv, however many writes it has and however
\* often they touch one key (State::plan_with_documents).
LEMMA PlanCorrect ==
    ASSUME NEW batch \in Seq(Write), NEW docs \in Documents,
           NEW rev \in Nat, NEW time \in Times
    PROVE  PlanInv(plan_with_documents(batch, docs, rev, time), docs, rev, time)
<1>1. PICK f : /\ f[0] = EmptyPlan(docs)
               /\ \A i \in 1..Len(batch) : f[i] = PlanStep(f[i - 1], batch[i], rev, time)
               /\ plan_with_documents(batch, docs, rev, time) = f[Len(batch)]
  BY SMTT(60), PlanTable
<1> DEFINE T == {i \in Nat : i <= Len(batch) => PlanInv(f[i], docs, rev, time)}
<1>2. 0 \in T
  <2>1. PlanInv(EmptyPlan(docs), docs, rev, time)
    BY SMTT(60) DEF PlanInv, EmptyPlan
  <2> QED BY ZenonT(60), <2>1, <1>1
<1>3. ASSUME NEW i \in T PROVE i + 1 \in T
  <2> SUFFICES ASSUME i + 1 <= Len(batch) PROVE PlanInv(f[i + 1], docs, rev, time)
    BY SMTT(60)
  <2>1. PlanInv(f[i], docs, rev, time)
    BY SMTT(60), <1>3
  <2>2. batch[i + 1] \in Write /\ f[i + 1] = PlanStep(f[i], batch[i + 1], rev, time)
    BY SMTT(60), <1>1, <1>3
  <2> QED BY ZenonT(60), <2>1, <2>2, PlanStepInv
<1>4. T = Nat
  BY ZenonT(60), <1>2, <1>3, SetInduction
<1>5. PlanInv(f[Len(batch)], docs, rev, time)
  BY SMTT(60), <1>4
<1> QED BY ZenonT(60), <1>1, <1>5

(***************************************************************************)
(* Reading the change log backwards and forwards.                           *)
(***************************************************************************)

\* Least picks the least position of a non-empty set, the oldest change.
LEMMA LeastIn ==
    ASSUME NEW S, S \subseteq Nat, S # {}
    PROVE  Least(S) \in S /\ \A j \in S : Least(S) <= j
<1>1. \E i \in S : \A j \in S : i <= j
  BY ZenonT(60), LeastElement
<1> QED BY ZenonT(60), <1>1 DEF Least

\* Greatest picks the greatest position of a bounded set, the newest change.
LEMMA GreatestIn ==
    ASSUME NEW n \in Nat, NEW S, S \subseteq 1..n, S # {}
    PROVE  Greatest(S) \in S /\ \A j \in S : j <= Greatest(S)
<1> DEFINE T == {m \in Nat : n - m \in S}
<1>1. T # {}
  <2>1. PICK i \in S : TRUE
    BY ZenonT(60)
  <2>2. i \in 1..n /\ n - i \in Nat /\ n - (n - i) = i
    BY SMTT(60), <2>1
  <2> QED BY ZenonT(60), <2>1, <2>2
<1>2. PICK m \in T : \A y \in T : m <= y
  BY ZenonT(60), <1>1, LeastElement
<1>3. \A j \in S : j <= n - m
  <2> TAKE j \in S
  <2>1. n - j \in Nat /\ n - (n - j) = j
    BY SMTT(60)
  <2>2. m <= n - j
    BY ZenonT(60), <2>1, <1>2
  <2> QED BY SMTT(60), <2>2
<1>4. \E i \in S : \A j \in S : j <= i
  BY ZenonT(60), <1>2, <1>3
<1> QED BY ZenonT(60), <1>4 DEF Greatest

\* The value under one key, by the position of its oldest or newest change.
OverlayAt(log, docs, r, k) ==
    /\ Newer(log, r, k) = {} => historical_overlay(log, docs, r)[k] = docs[k]
    /\ \A i \in Newer(log, r, k) :
          (\A j \in Newer(log, r, k) : i <= j)
              => historical_overlay(log, docs, r)[k] = log[i].before

ReplayedAt(log, base, r, k) ==
    /\ Newer(log, r, k) = {} => Replayed(log, base, r)[k] = base[k]
    /\ \A i \in Newer(log, r, k) :
          (\A j \in Newer(log, r, k) : j <= i)
              => Replayed(log, base, r)[k] = log[i].after

\* What historical_overlay puts under a key: the document, or the state before
\* the oldest newer change.
LEMMA OverlayValue ==
    ASSUME NEW log \in Seq(Change), NEW docs, NEW r, NEW k \in Keys
    PROVE  OverlayAt(log, docs, r, k)
<1>1. Newer(log, r, k) \subseteq 1..Len(log)
  BY SMTT(60) DEF Newer
<1>2. ASSUME NEW i \in Newer(log, r, k), \A j \in Newer(log, r, k) : i <= j
      PROVE  historical_overlay(log, docs, r)[k] = log[i].before
  <2>1. Least(Newer(log, r, k)) \in Newer(log, r, k) /\ Least(Newer(log, r, k)) <= i
    BY SMTT(60), <1>1, <1>2, LeastIn
  <2>2. i <= Least(Newer(log, r, k))
    BY ZenonT(60), <2>1, <1>2
  <2>3. Least(Newer(log, r, k)) = i
    BY SMTT(60), <1>1, <2>1, <2>2
  <2> QED BY ZenonT(60), <1>2, <2>3 DEF historical_overlay
<1> QED BY ZenonT(60), <1>2 DEF historical_overlay, OverlayAt

\* What applying changes_since leaves under a key: the base, or the state after
\* the newest change.
LEMMA ReplayedValue ==
    ASSUME NEW log \in Seq(Change), NEW base, NEW r, NEW k \in Keys
    PROVE  ReplayedAt(log, base, r, k)
<1>1. Newer(log, r, k) \subseteq 1..Len(log) /\ Len(log) \in Nat
  BY SMTT(60) DEF Newer
<1>2. ASSUME NEW i \in Newer(log, r, k), \A j \in Newer(log, r, k) : j <= i
      PROVE  Replayed(log, base, r)[k] = log[i].after
  <2>1. Greatest(Newer(log, r, k)) \in Newer(log, r, k) /\ i <= Greatest(Newer(log, r, k))
    BY ZenonT(60), <1>1, <1>2, GreatestIn
  <2>2. Greatest(Newer(log, r, k)) <= i
    BY ZenonT(60), <2>1, <1>2
  <2>3. Greatest(Newer(log, r, k)) = i
    BY SMTT(60), <1>1, <2>1, <2>2
  <2> QED BY ZenonT(60), <1>2, <2>3 DEF Replayed
<1> QED BY ZenonT(60), <1>2 DEF Replayed, ReplayedAt

\* Popping d entries from the front of a log leaves the others in order
\* (the pop_front loops of push_change and push_commit_point).
LEMMA DropFirstOf ==
    ASSUME NEW S, NEW s \in Seq(S), NEW d \in 0..Len(s)
    PROVE  /\ DropFirst(s, d) \in Seq(S)
           /\ Len(DropFirst(s, d)) = Len(s) - d
           /\ \A j \in 1..(Len(s) - d) : DropFirst(s, d)[j] = s[j + d]
<1>1. Len(s) \in Nat /\ d \in Nat /\ d + 1 \in Int /\ Len(s) \in Int
  BY SMTT(60)
<1>2. \A i \in (d + 1)..Len(s) : s[i] \in S
  BY SMTT(60)
<1>3. /\ SubSeq(s, d + 1, Len(s)) \in Seq(S)
      /\ Len(SubSeq(s, d + 1, Len(s))) = IF d + 1 <= Len(s) THEN Len(s) - (d + 1) + 1 ELSE 0
      /\ \A i \in 1..(Len(s) - (d + 1) + 1) : SubSeq(s, d + 1, Len(s))[i] = s[d + 1 + i - 1]
  BY SMTT(60), <1>1, <1>2, SubSeqProperties
<1> QED BY SMTT(60), <1>1, <1>3 DEF DropFirst

\* Where the entries of the trimmed log come from.
LEMMA Positions ==
    ASSUME NEW log \in Seq(Change), NEW changes \in Seq(Change),
           NEW d \in 0..Len(log \o changes)
    PROVE  LET new == DropFirst(log \o changes, d)
           IN  /\ new \in Seq(Change)
               /\ Len(new) = Len(log) + Len(changes) - d
               /\ \A j \in 1..Len(new) :
                     /\ j + d <= Len(log) => new[j] = log[j + d]
                     /\ j + d > Len(log) => new[j] = changes[j + d - Len(log)]
<1> DEFINE full == log \o changes
<1>1. /\ full \in Seq(Change) /\ Len(full) = Len(log) + Len(changes)
      /\ Len(log) \in Nat /\ Len(changes) \in Nat
      /\ \A i \in 1..(Len(log) + Len(changes)) :
            full[i] = IF i <= Len(log) THEN log[i] ELSE changes[i - Len(log)]
  BY SMTT(60), ConcatProperties
<1> HIDE DEF full
<1>2. /\ DropFirst(full, d) \in Seq(Change)
      /\ Len(DropFirst(full, d)) = Len(full) - d
      /\ \A j \in 1..(Len(full) - d) : DropFirst(full, d)[j] = full[j + d]
  BY ZenonT(60), <1>1, DropFirstOf DEF full
<1>3. ASSUME NEW j \in 1..(Len(full) - d)
      PROVE /\ j + d <= Len(log) => DropFirst(full, d)[j] = log[j + d]
            /\ j + d > Len(log) => DropFirst(full, d)[j] = changes[j + d - Len(log)]
  <2>1. j + d \in 1..(Len(log) + Len(changes))
    BY SMTT(60), <1>1 DEF full
  <2> QED BY SMTT(60), <1>1, <1>2, <2>1
<1> QED BY SMTT(60), <1>1, <1>2, <1>3 DEF full

EvictedBy(log, changes, d, r) ==
    \A i \in 1..Len(log \o changes) : i <= d => (log \o changes)[i].revision <= r

\* Appending a commit's changes and evicting old ones changes neither what an
\* older retained revision reads as, nor that replay leads to the current state.
Preserves(log, docs, plan, d, r, base) ==
    LET new == DropFirst(log \o plan.changes, d)
    IN  /\ historical_overlay(new, plan.documents, r) = historical_overlay(log, docs, r)
        /\ Replayed(log, base, r) = docs => Replayed(new, base, r) = plan.documents

\* One commit and its evictions change neither what an older retained revision
\* reads as nor what its listener ends up with (State::push_change).
LEMMA LogStep ==
    ASSUME NEW log \in Seq(Change), NEW docs \in Documents, NEW plan,
           NEW rev \in Nat, NEW time, PlanInv(plan, docs, rev, time),
           NEW d \in 0..Len(log \o plan.changes), NEW r \in Nat, r < rev,
           EvictedBy(log, plan.changes, d, r), NEW base
    PROVE  Preserves(log, docs, plan, d, r, base)
<1> DEFINE changes == plan.changes
           n == Len(log)
           c == Len(changes)
           new == DropFirst(log \o changes, d)
<1>1. changes \in Seq(Change) /\ n \in Nat /\ c \in Nat /\ d \in Nat
  BY SMTT(60) DEF PlanInv
<1>2. /\ new \in Seq(Change)
      /\ Len(new) = n + c - d
      /\ \A j \in 1..(n + c - d) :
            /\ j + d <= n => new[j] = log[j + d]
            /\ j + d > n => new[j] = changes[j + d - n]
  <2> HIDE DEF changes
  <2>1. d \in 0..Len(log \o changes)
    BY ZenonT(60) DEF changes
  <2>2. /\ new \in Seq(Change)
        /\ Len(new) = Len(log) + Len(changes) - d
        /\ \A j \in 1..Len(new) :
              /\ j + d <= Len(log) => new[j] = log[j + d]
              /\ j + d > Len(log) => new[j] = changes[j + d - Len(log)]
    BY ZenonT(60), <1>1, <2>1, Positions
  <2> HIDE DEF new
  <2> QED BY ZenonT(60), <2>2
<1>3. /\ \A i \in 1..n : i <= d => log[i].revision <= r
      /\ \A i \in 1..c : n + i > d
  <2>1. \A i \in 1..(n + c) :
          (log \o changes)[i] = IF i <= n THEN log[i] ELSE changes[i - n]
    BY ZenonT(60), <1>1, ConcatProperties
  <2>2. Len(log \o changes) = n + c
    BY ZenonT(60), <1>1, ConcatProperties
  <2>3. ASSUME NEW i \in 1..n, i <= d PROVE log[i].revision <= r
    BY SMTT(60), <1>1, <2>1, <2>2, <2>3 DEF EvictedBy
  <2>4. ASSUME NEW i \in 1..c, n + i <= d PROVE FALSE
    <3>1. n + i \in 1..(n + c) /\ (log \o changes)[n + i] = changes[i]
      BY SMTT(60), <1>1, <2>1
    <3>2. changes[i].revision = rev
      BY ZenonT(60) DEF PlanInv
    <3> QED BY SMTT(60), <3>1, <3>2, <2>2, <2>4 DEF EvictedBy
  <2> QED BY SMTT(60), <2>3, <2>4, <1>1
<1>4. \A i \in 1..c : changes[i].revision > r
  BY ZenonT(60) DEF PlanInv
<1>0. /\ DOMAIN log = 1..n /\ DOMAIN new = 1..(n + c - d) /\ DOMAIN changes = 1..c
      /\ new \in Seq(Change) /\ changes = plan.changes
  BY SMTT(60), <1>1, <1>2
<1> HIDE DEF new, changes, n
<1>5. ASSUME NEW k \in Keys
      PROVE  /\ historical_overlay(new, plan.documents, r)[k] = historical_overlay(log, docs, r)[k]
             /\ Replayed(log, base, r) = docs => Replayed(new, base, r)[k] = plan.documents[k]
  <2> DEFINE N == Newer(log, r, k)
             M == Newer(new, r, k)
             K == {i \in 1..c : changes[i].key = k}
  <2>1. N \subseteq 1..n /\ M \subseteq 1..(n + c - d) /\ K \subseteq 1..c
    BY ZenonT(60), <1>0 DEF Newer
  <2>2. \A i \in N : i - d \in M /\ new[i - d] = log[i]
    <3> TAKE i \in N
    <3>1. i \in 1..n /\ log[i].revision > r /\ log[i].key = k
      BY ZenonT(60), <1>0 DEF Newer
    <3>2. log[i] \in Change
      BY ZenonT(60), <3>1, ElementOfSeq DEF n
    <3>3. i > d
      BY SMTT(60), <3>1, <3>2, <1>1, <1>3 DEF Change
    <3>4. i - d \in 1..(n + c - d) /\ (i - d) + d = i
      BY SMTT(60), <3>1, <3>3, <1>1
    <3>5. new[i - d] = log[i]
      BY SMTT(60), <3>1, <3>4, <1>2
    <3> QED BY ZenonT(60), <3>1, <3>4, <3>5, <1>0 DEF Newer
  <2>3. \A i \in K : n + i - d \in M /\ new[n + i - d] = changes[i]
    <3> TAKE i \in K
    <3>1. n + i > d /\ i \in 1..c /\ changes[i].key = k /\ changes[i].revision > r
      BY ZenonT(60), <1>3, <1>4
    <3>2. /\ n + i - d \in 1..(n + c - d) /\ (n + i - d) + d > n
          /\ (n + i - d) + d - n = i
      BY SMTT(60), <3>1, <1>1
    <3>3. new[n + i - d] = changes[i]
      BY ZenonT(60), <3>2, <1>2
    <3> QED BY ZenonT(60), <3>1, <3>2, <3>3, <1>0 DEF Newer
  <2>4. \A j \in M : /\ j + d <= n => j + d \in N
                     /\ j + d > n => j + d - n \in K
    <3> TAKE j \in M
    <3>1. j \in 1..(n + c - d) /\ new[j].revision > r /\ new[j].key = k
      BY ZenonT(60), <1>0 DEF Newer
    <3>2. CASE j + d <= n
      <4>1. j + d \in 1..n /\ new[j] = log[j + d]
        BY SMTT(60), <3>1, <3>2, <1>1, <1>2
      <4> QED BY SMTT(60), <3>1, <3>2, <4>1, <1>0, <1>1 DEF Newer
    <3>3. CASE j + d > n
      <4>1. j + d - n \in 1..c /\ new[j] = changes[j + d - n]
        BY SMTT(60), <3>1, <3>3, <1>1, <1>2
      <4> QED BY SMTT(60), <3>1, <3>3, <4>1, <1>0, <1>1
    <3> QED BY ZenonT(60), <3>1, <3>2, <3>3, <1>1
  <2>5. /\ N = {} => historical_overlay(log, docs, r)[k] = docs[k]
        /\ \A i \in N : (\A j \in N : i <= j)
              => historical_overlay(log, docs, r)[k] = log[i].before
        /\ M = {} => historical_overlay(new, plan.documents, r)[k] = plan.documents[k]
        /\ \A i \in M : (\A j \in M : i <= j)
              => historical_overlay(new, plan.documents, r)[k] = new[i].before
    <3>1. OverlayAt(log, docs, r, k) /\ OverlayAt(new, plan.documents, r, k)
      BY ZenonT(60), <1>0, OverlayValue
    <3> QED BY ZenonT(60), <3>1 DEF OverlayAt
  <2>6. /\ N = {} => Replayed(log, base, r)[k] = base[k]
        /\ \A i \in N : (\A j \in N : j <= i) => Replayed(log, base, r)[k] = log[i].after
        /\ M = {} => Replayed(new, base, r)[k] = base[k]
        /\ \A i \in M : (\A j \in M : j <= i) => Replayed(new, base, r)[k] = new[i].after
    <3>1. ReplayedAt(log, base, r, k) /\ ReplayedAt(new, base, r, k)
      BY ZenonT(60), <1>0, ReplayedValue
    <3> QED BY ZenonT(60), <3>1 DEF ReplayedAt
  <2>7. K = {} => plan.documents[k] = docs[k]
    BY ZenonT(60) DEF PlanInv, changes
  <2>8. \A i \in K : (\A j \in K : i <= j) => changes[i].before = docs[k]
    <3> SUFFICES ASSUME NEW i \in K, \A j \in K : i <= j PROVE changes[i].before = docs[k]
      OBVIOUS
    <3>1. \A j \in 1..c : j < i => changes[j].key # changes[i].key
      BY SMTT(60), <2>1
    <3> QED BY ZenonT(60), <3>1 DEF PlanInv, changes
  <2>9. \A i \in K : (\A j \in K : j <= i) => changes[i].after = plan.documents[k]
    <3> SUFFICES ASSUME NEW i \in K, \A j \in K : j <= i
                 PROVE  changes[i].after = plan.documents[k]
      OBVIOUS
    <3>1. \A j \in 1..c : j > i => changes[j].key # changes[i].key
      BY SMTT(60), <2>1
    <3> QED BY ZenonT(60), <3>1 DEF PlanInv, changes
  <2> HIDE DEF N, M, K, new, changes, n, c
  <2>10. historical_overlay(new, plan.documents, r)[k] = historical_overlay(log, docs, r)[k]
    <3>1. CASE N # {}
      <4>1. PICK i \in N : \A j \in N : i <= j
        <5>1. N \subseteq Nat
          BY SMTT(60), <1>1, <2>1
        <5> QED BY ZenonT(60), <3>1, <5>1, LeastElement
      <4>2. \A j \in M : i - d <= j
        <5> TAKE j \in M
        <5>1. CASE j + d <= n
          BY SMTT(60), <5>1, <4>1, <2>1, <2>4, <1>1
        <5>2. CASE j + d > n
          BY SMTT(60), <5>2, <4>1, <2>1, <1>1
        <5> QED BY SMTT(60), <5>1, <5>2, <2>1, <1>1
      <4> QED BY SMTT(60), <4>1, <4>2, <2>2, <2>5
    <3>2. CASE N = {} /\ K = {}
      <4>1. M = {}
        BY SMTT(60), <3>2, <2>1, <2>4, <1>1
      <4> QED BY ZenonT(60), <4>1, <3>2, <2>5, <2>7
    <3>3. CASE N = {} /\ K # {}
      <4>1. PICK i \in K : \A j \in K : i <= j
        <5>1. K \subseteq Nat
          BY SMTT(60), <1>1, <2>1
        <5> QED BY ZenonT(60), <3>3, <5>1, LeastElement
      <4>2. \A j \in M : n + i - d <= j
        <5> TAKE j \in M
        <5>1. j + d - n \in K
          BY SMTT(60), <3>3, <2>1, <2>4, <1>1
        <5>2. i <= j + d - n
          BY ZenonT(60), <5>1, <4>1
        <5> QED BY SMTT(60), <5>2, <4>1, <2>1, <1>1
      <4> QED BY ZenonT(60), <4>1, <4>2, <3>3, <2>3, <2>5, <2>8
    <3> QED BY ZenonT(60), <3>1, <3>2, <3>3
  <2>11. ASSUME Replayed(log, base, r) = docs
         PROVE  Replayed(new, base, r)[k] = plan.documents[k]
    <3>1. CASE K # {}
      <4>1. PICK i \in K : \A j \in K : j <= i
        BY ZenonT(60), <3>1, <2>1, <1>1, GreatestIn
      <4>2. \A j \in M : j <= n + i - d
        <5> TAKE j \in M
        <5>1. CASE j + d <= n
          BY SMTT(60), <5>1, <4>1, <2>1, <1>1
        <5>2. CASE j + d > n
          <6>1. j + d - n <= i
            BY ZenonT(60), <5>2, <4>1, <2>4
          <6> QED BY SMTT(60), <6>1, <4>1, <2>1, <1>1
        <5> QED BY SMTT(60), <5>1, <5>2, <2>1, <1>1
      <4> QED BY ZenonT(60), <4>1, <4>2, <2>3, <2>6, <2>9
    <3>2. CASE K = {} /\ N = {}
      <4>1. M = {}
        BY SMTT(60), <3>2, <2>1, <2>4, <1>1
      <4> QED BY ZenonT(60), <4>1, <3>2, <2>6, <2>7, <2>11
    <3>3. CASE K = {} /\ N # {}
      <4>1. PICK i \in N : \A j \in N : j <= i
        BY ZenonT(60), <3>3, <2>1, <1>1, GreatestIn
      <4>2. \A j \in M : j <= i - d
        <5> TAKE j \in M
        <5>1. j + d \in N
          BY SMTT(60), <3>3, <2>1, <2>4, <1>1
        <5>2. j + d <= i
          BY ZenonT(60), <5>1, <4>1
        <5> QED BY SMTT(60), <5>2, <4>1, <2>1, <1>1
      <4> QED BY ZenonT(60), <4>1, <4>2, <3>3, <2>2, <2>6, <2>7, <2>11
    <3> QED BY ZenonT(60), <3>1, <3>2, <3>3
  <2> QED BY ZenonT(60), <2>10, <2>11
<1>6. historical_overlay(new, plan.documents, r) = historical_overlay(log, docs, r)
  BY ZenonT(60), <1>5 DEF historical_overlay
<1>7. plan.documents \in [Keys -> Maybe]
  BY ZenonT(60) DEF PlanInv, Documents
<1>8. Replayed(log, base, r) = docs => Replayed(new, base, r) = plan.documents
  BY ZenonT(60), <1>5, <1>7 DEF Replayed
<1> QED BY ZenonT(60), <1>6, <1>8 DEF new, changes, Preserves

\* VersionsIdentified of any history h of the revisions 0..n, and: no document
\* in it is stamped later than last.
Identified(h, n) ==
    \A r, s \in 0..n, k \in Keys :
        /\ h[r][k] # Absent
        /\ h[s][k] # Absent
        /\ h[r][k].update_time = h[s][k].update_time
        => h[r][k] = h[s][k]

StampedBy(h, n, last) ==
    \A r \in 0..n, k \in Keys :
        h[r][k] # Absent => h[r][k].update_time \in Nat /\ h[r][k].update_time <= last

\* Whether g continues h with one commit made at a given time.
Continues(g, h, n, time) ==
    /\ \A r \in 0..n : g[r] = h[r]
    /\ \A k \in Keys : \/ g[n + 1][k] = h[n][k]
                       \/ g[n + 1][k] = Absent
                       \/ g[n + 1][k].update_time = time

\* A commit at a later time (next_commit_time) never reuses the identity of a
\* version: what it leaves is an old version or one with a new update time.
LEMMA VersionsStep ==
    ASSUME NEW n \in Nat, NEW h, NEW g, NEW last \in Nat, NEW time \in Nat, last < time,
           Identified(h, n), StampedBy(h, n, last), Continues(g, h, n, time)
    PROVE  Identified(g, n + 1)
<1>1. ASSUME NEW r \in 0..n, NEW k \in Keys, g[r][k] # Absent, g[n + 1][k] # Absent,
             g[r][k].update_time = g[n + 1][k].update_time
      PROVE  g[r][k] = g[n + 1][k]
  <2>1. g[r][k] = h[r][k]
    BY ZenonT(60) DEF Continues
  <2>2. h[r][k].update_time \in Nat /\ h[r][k].update_time <= last
    BY ZenonT(60), <2>1, <1>1 DEF StampedBy
  <2>3. g[n + 1][k].update_time # time
    BY SMTT(60), <2>1, <2>2, <1>1
  <2>4. g[n + 1][k] = h[n][k]
    BY ZenonT(60), <2>3, <1>1 DEF Continues
  <2>5. n \in 0..n
    BY SMTT(60)
  <2> QED BY SMTT(60), <2>1, <2>4, <2>5, <1>1 DEF Identified
<1>2. ASSUME NEW r \in 0..n, NEW s \in 0..n, NEW k \in Keys, g[r][k] # Absent, g[s][k] # Absent,
             g[r][k].update_time = g[s][k].update_time
      PROVE  g[r][k] = g[s][k]
  <2>1. g[r] = h[r] /\ g[s] = h[s]
    BY ZenonT(60) DEF Continues
  <2> QED BY SMTT(60), <2>1, <1>2 DEF Identified
<1>3. \A r \in 0..(n + 1) : r \in 0..n \/ r = n + 1
  BY SMTT(60)
<1> QED BY SMTT(60), <1>1, <1>2, <1>3 DEF Identified

(***************************************************************************)
(* The inductive invariant.                                                 *)
(***************************************************************************)

\* The log is in revision order and never ahead of the store.
LogOrdered ==
    /\ \A i \in 1..Len(change_log) : change_log[i].revision <= revision
    /\ \A i, j \in 1..Len(change_log) :
          i <= j => change_log[i].revision <= change_log[j].revision

\* The commit points are the revisions after history_floor, without a gap, and
\* history_floor is never behind change_floor.
PointsContiguous ==
    /\ history_floor.revision \in change_floor..revision
    /\ history_floor.commit_time = times[history_floor.revision]
    /\ Len(commit_times) = revision - history_floor.revision
    /\ \A i \in 1..Len(commit_times) :
          /\ commit_times[i].revision = history_floor.revision + i
          /\ commit_times[i].commit_time = times[history_floor.revision + i]

\* Commit times grow, and no document is newer than the commit that left it.
TimesIncrease ==
    /\ times[revision] = last_commit_time
    /\ \A r, s \in 0..revision : r < s => times[r] < times[s]
    /\ \A r \in 0..revision, k \in Keys :
          history[r][k] # Absent => history[r][k].update_time <= times[r]

IInv ==
    /\ TypeOK
    /\ LogOrdered
    /\ PointsContiguous
    /\ TimesIncrease
    /\ history[revision] = documents
    /\ SnapshotsExact
    /\ ChangesComplete
    /\ VersionsIdentified

\* With nothing in the log, the overlay and the replay are the documents.
LEMMA EmptyLog ==
    ASSUME NEW docs \in Documents, NEW r
    PROVE  historical_overlay(<<>>, docs, r) = docs /\ Replayed(<<>>, docs, r) = docs
BY SMTT(60) DEF historical_overlay, Replayed, Newer, Documents

\* A new store satisfies the inductive invariant (State::new).
LEMMA InitInv == Init => IInv
<1> SUFFICES ASSUME Init PROVE IInv
  OBVIOUS
<1>1. documents \in Documents /\ history[0] = documents
  BY SMTT(60) DEF Init, Documents, Maybe
<1>2. TypeOK
  BY SMTT(60), <1>1 DEF Init, TypeOK, CommitPoint, Times
<1>3. LogOrdered /\ PointsContiguous
  BY SMTT(60) DEF Init, LogOrdered, PointsContiguous
<1>4. TimesIncrease
  BY SMTT(60), <1>1 DEF Init, TimesIncrease
<1>5. SnapshotsExact /\ ChangesComplete
  BY ZenonT(60), <1>1, EmptyLog DEF Init, SnapshotsExact, ChangesComplete, snapshot_at_revision
<1>6. VersionsIdentified
  BY ZenonT(60) DEF Init, VersionsIdentified
<1> QED BY ZenonT(60), <1>1, <1>2, <1>3, <1>4, <1>5, <1>6 DEF IInv, Init

\* Reopening keeps the inductive invariant (State::from_persisted).
LEMMA ReopenInv == IInv /\ from_persisted => IInv'
<1> SUFFICES ASSUME IInv, from_persisted PROVE IInv'
  OBVIOUS
<1> USE DEF from_persisted
<1>1. TypeOK'
  BY SMTT(60) DEF IInv, TypeOK, CommitPoint
<1>2. LogOrdered' /\ PointsContiguous'
  BY SMTT(60) DEF IInv, TypeOK, TimesIncrease, LogOrdered, PointsContiguous
<1>3. TimesIncrease' /\ VersionsIdentified' /\ (history[revision] = documents)'
  BY SMTT(60) DEF IInv, TimesIncrease, VersionsIdentified
<1>4. SnapshotsExact' /\ ChangesComplete'
  <2>1. documents \in Documents /\ history[revision] = documents /\ revision \in Nat
    BY ZenonT(60) DEF IInv, TypeOK
  <2>2. change_floor'..revision' = {revision}
    BY SMTT(60), <2>1
  <2> QED BY SMTT(60), <2>1, <2>2, EmptyLog
            DEF SnapshotsExact, ChangesComplete, snapshot_at_revision
<1> QED BY ZenonT(60), <1>1, <1>2, <1>3, <1>4 DEF IInv

\* A commit keeps the inductive invariant, whatever the clock reads and whatever
\* it evicts (Store::commit_from, State::install).
LEMMA CommitInv ==
    ASSUME IInv, NEW batch \in Batches, NEW observed \in Clock, commit_from(batch, observed)
    PROVE  IInv'
<1> DEFINE time == next_commit_time(observed)
           rev == revision + 1
           plan == plan_with_documents(batch, documents, rev, time)
           full == change_log \o plan.changes
           point == [revision |-> rev, commit_time |-> time]
           points == Append(commit_times, point)
<1>1. /\ revision \in Nat /\ rev \in Nat /\ documents \in Documents
      /\ change_log \in Seq(Change) /\ change_floor \in 0..revision
      /\ commit_times \in Seq(CommitPoint) /\ history_floor \in CommitPoint
      /\ history \in [0..revision -> Documents] /\ times \in [0..revision -> Times]
      /\ last_commit_time \in Nat /\ history_floor.revision \in Nat
      /\ change_floor \in Nat
  BY SMTT(60) DEF IInv, TypeOK, CommitPoint, Times
<1>2. time \in Nat /\ time > last_commit_time
  BY SMTT(60), <1>1, ClockAssumption DEF next_commit_time, Times
<1>3. PlanInv(plan, documents, rev, time)
  <2> HIDE DEF time
  <2>1. batch \in Seq(Write)
    BY ZenonT(60), BatchesAssumption
  <2> QED BY ZenonT(60), <1>1, <1>2, <2>1, PlanCorrect DEF Times
<1>4. /\ documents' = plan.documents /\ revision' = rev /\ last_commit_time' = time
      /\ push_change(plan.changes) /\ push_commit_point(point)
      /\ history' = [r \in 0..rev |-> IF r = rev THEN plan.documents ELSE history[r]]
      /\ times' = [r \in 0..rev |-> IF r = rev THEN time ELSE times[r]]
  BY ZenonT(60) DEF commit_from, install
<1>5. PICK d \in 0..Len(full) :
        /\ change_log' = DropFirst(full, d)
        /\ change_floor' = IF d > 0 /\ full[d].revision > change_floor
                           THEN full[d].revision ELSE change_floor
  BY ZenonT(60), <1>4 DEF push_change
<1>6. PICK p \in 0..Len(points) :
        /\ ExpiresPoints(points, change_floor', p)
        /\ commit_times' = DropFirst(points, p)
        /\ history_floor' = IF p = 0 THEN history_floor ELSE points[p]
  BY ZenonT(60), <1>4 DEF push_commit_point
<1> HIDE DEF time, plan
<1>7. /\ plan.documents \in Documents /\ plan.changes \in Seq(Change)
      /\ \A i \in 1..Len(plan.changes) : plan.changes[i].revision = rev
  BY ZenonT(60), <1>3 DEF PlanInv
<1>8. /\ full \in Seq(Change) /\ Len(full) \in Nat
      /\ \A i \in 1..Len(full) : full[i].revision \in Nat /\ full[i].revision <= rev
      /\ \A i, j \in 1..Len(full) : i <= j => full[i].revision <= full[j].revision
  <2> DEFINE n == Len(change_log)
             c == Len(plan.changes)
  <2>1. /\ full \in Seq(Change) /\ Len(full) = n + c /\ n \in Nat /\ c \in Nat
        /\ \A i \in 1..(n + c) :
              full[i] = IF i <= n THEN change_log[i] ELSE plan.changes[i - n]
    BY SMTT(60), <1>1, <1>7, ConcatProperties
  <2>2. \A i \in 1..n : change_log[i].revision \in Nat
    <3> TAKE i \in 1..n
    <3>1. change_log[i] \in Change
      BY ZenonT(60), <1>1, ElementOfSeq
    <3> QED BY ZenonT(60), <3>1 DEF Change
  <2>3. \A i \in 1..n : change_log[i].revision <= revision
    BY ZenonT(60) DEF IInv, LogOrdered
  <2>4. \A i, j \in 1..n : i <= j => change_log[i].revision <= change_log[j].revision
    BY ZenonT(60) DEF IInv, LogOrdered
  <2>5. \A i \in 1..(n + c) : i > n => full[i].revision = rev
    BY SMTT(60), <2>1, <1>7
  <2>6. \A i \in 1..(n + c) : i <= n => full[i] = change_log[i] /\ i \in 1..n
    BY SMTT(60), <2>1
  <2> HIDE DEF full, n, c
  <2>7. \A i \in 1..(n + c) : full[i].revision \in Nat /\ full[i].revision <= rev
    <3> TAKE i \in 1..(n + c)
    <3>1. CASE i <= n
      <4>1. full[i] = change_log[i] /\ i \in 1..n
        BY ZenonT(60), <3>1, <2>6
      <4>2. full[i].revision \in Nat /\ full[i].revision <= revision
        BY ZenonT(60), <4>1, <2>2, <2>3
      <4> QED BY SMTT(60), <4>2, <1>1
    <3>2. CASE i > n
      BY SMTT(60), <3>2, <2>5, <1>1
    <3> QED BY SMTT(60), <3>1, <3>2, <2>1
  <2>8. ASSUME NEW i \in 1..(n + c), NEW j \in 1..(n + c), i <= j
        PROVE  full[i].revision <= full[j].revision
    <3>1. CASE j <= n
      BY SMTT(60), <3>1, <2>8, <2>1, <2>4, <2>6
    <3>2. CASE j > n
      BY ZenonT(60), <3>2, <2>5, <2>7
    <3> QED BY SMTT(60), <3>1, <3>2, <2>1
  <2> QED BY SMTT(60), <2>1, <2>7, <2>8
<1> HIDE DEF full
<1>9. /\ change_log' \in Seq(Change) /\ Len(change_log') = Len(full) - d
      /\ \A j \in 1..(Len(full) - d) : change_log'[j] = full[j + d]
  BY ZenonT(60), <1>5, <1>8, DropFirstOf
<1>10. /\ change_floor' \in 0..rev /\ change_floor' >= change_floor
       /\ \A i \in 1..Len(full) : i <= d => full[i].revision <= change_floor'
  <2>1. CASE d = 0
    BY SMTT(60), <2>1, <1>1, <1>5
  <2>2. CASE d > 0
    <3>1. d \in 1..Len(full)
      BY SMTT(60), <2>2, <1>8
    <3>2. full[d].revision \in Nat /\ full[d].revision <= rev
      BY ZenonT(60), <3>1, <1>8
    <3>3. \A i \in 1..Len(full) : i <= d => full[i].revision \in Nat /\ full[i].revision <= full[d].revision
      BY ZenonT(60), <3>1, <1>8
    <3>4. change_floor' = IF full[d].revision > change_floor THEN full[d].revision ELSE change_floor
      BY ZenonT(60), <2>2, <1>5
    <3>5. change_floor' \in Nat /\ change_floor' <= rev /\ change_floor' >= change_floor
            /\ change_floor' >= full[d].revision
      BY SMTT(60), <3>2, <3>4, <1>1
    <3> QED BY SMTT(60), <3>2, <3>3, <3>5, <1>1
  <2> QED BY SMTT(60), <2>1, <2>2
<1>11. LogOrdered'
  <2> DEFINE m == Len(change_log')
  <2>1. \A i \in 1..m : i + d \in 1..Len(full) /\ change_log'[i] = full[i + d]
    <3> TAKE i \in 1..m
    <3>1. i \in 1..(Len(full) - d) /\ d \in 0..Len(full) /\ Len(full) \in Nat
      BY ZenonT(60), <1>5, <1>8, <1>9
    <3>2. i + d \in 1..Len(full)
      BY SMTT(60), <3>1
    <3> QED BY ZenonT(60), <3>1, <3>2, <1>9
  <2>2. \A i \in 1..m : change_log'[i].revision <= rev
    BY ZenonT(60), <2>1, <1>8
  <2>3. ASSUME NEW i \in 1..m, NEW j \in 1..m, i <= j
        PROVE  change_log'[i].revision <= change_log'[j].revision
    <3>1. i + d \in 1..Len(full) /\ j + d \in 1..Len(full)
      BY ZenonT(60), <2>1
    <3>2. i + d <= j + d
      BY SMTT(60), <2>3, <1>9
    <3>3. full[i + d].revision <= full[j + d].revision
      BY ZenonT(60), <3>1, <3>2, <1>8
    <3> QED BY ZenonT(60), <3>3, <2>1
  <2> QED BY ZenonT(60), <2>2, <2>3, <1>4 DEF LogOrdered
<1>12. /\ history' \in [0..rev -> Documents] /\ times' \in [0..rev -> Times]
       /\ history'[rev] = plan.documents /\ times'[rev] = time
       /\ \A r \in 0..revision : history'[r] = history[r] /\ times'[r] = times[r]
  BY SMTT(60), <1>1, <1>2, <1>4, <1>7 DEF Times
<1>13. SnapshotsExact' /\ ChangesComplete'
  <2> SUFFICES ASSUME NEW r \in change_floor'..rev
               PROVE  /\ historical_overlay(change_log', plan.documents, r) = history'[r]
                      /\ Replayed(change_log', history'[r], r) = plan.documents
    BY ZenonT(60), <1>4 DEF SnapshotsExact, ChangesComplete, snapshot_at_revision
  <2>1. r \in Nat /\ r <= rev /\ r >= change_floor /\ r >= change_floor'
    BY SMTT(60), <1>1, <1>10
  <2>2. CASE r = rev
    <3>1. \A k \in Keys : Newer(change_log', r, k) = {}
      <4>1. \A i \in DOMAIN change_log' : change_log'[i].revision <= rev /\ change_log'[i].revision \in Nat
        <5> TAKE i \in DOMAIN change_log'
        <5>1. i \in 1..Len(change_log') /\ change_log'[i] \in Change
          BY SMTT(60), <1>9
        <5> QED BY ZenonT(60), <5>1, <1>4, <1>11 DEF LogOrdered, Change
      <4> QED BY SMTT(60), <4>1, <2>2, <1>1 DEF Newer
    <3>2. plan.documents \in [Keys -> Maybe] /\ history'[r] = plan.documents
      BY ZenonT(60), <2>2, <1>7, <1>12 DEF Documents
    <3> QED BY ZenonT(60), <3>1, <3>2 DEF historical_overlay, Replayed
  <2>3. CASE r # rev
    <3>1. r \in change_floor..revision /\ r < rev /\ r \in 0..revision
      BY SMTT(60), <2>1, <2>3, <1>1
    <3>2. historical_overlay(change_log, documents, r) = history[r]
      BY ZenonT(60), <3>1 DEF IInv, SnapshotsExact, snapshot_at_revision
    <3>3. Replayed(change_log, history[r], r) = documents
      BY ZenonT(60), <3>1 DEF IInv, ChangesComplete
    <3>4. \A i \in 1..Len(full) : i <= d => full[i].revision <= r
      BY SMTT(60), <2>1, <1>1, <1>8, <1>10
    <3>5. /\ historical_overlay(DropFirst(full, d), plan.documents, r)
               = historical_overlay(change_log, documents, r)
          /\ Replayed(change_log, history[r], r) = documents
               => Replayed(DropFirst(full, d), history[r], r) = plan.documents
      <4> DEFINE log == change_log
                 docs == documents
                 base == history[r]
      <4>1. log \in Seq(Change) /\ docs \in Documents /\ PlanInv(plan, docs, rev, time)
              /\ d \in 0..Len(log \o plan.changes)
              /\ full = log \o plan.changes
        BY ZenonT(60), <1>1, <1>3, <1>5 DEF full
      <4>2. EvictedBy(log, plan.changes, d, r)
        BY ZenonT(60), <3>4, <4>1 DEF EvictedBy
      <4>3. rev \in Nat /\ r \in Nat /\ r < rev
        BY ZenonT(60), <1>1, <2>1, <3>1
      <4> HIDE DEF log, docs, base, rev
      <4>4. Preserves(log, docs, plan, d, r, base)
        BY ZenonT(60), <4>1, <4>2, <4>3, LogStep
      <4> QED BY ZenonT(60), <4>4, <4>1 DEF log, docs, base, Preserves
    <3> QED BY ZenonT(60), <3>1, <3>2, <3>3, <3>5, <1>5, <1>12
  <2> QED BY ZenonT(60), <2>2, <2>3
<1>t. \A r \in 0..revision : times[r] <= last_commit_time /\ times[r] \in Nat
  <2> TAKE r \in 0..revision
  <2>1. times[r] \in Nat /\ times[revision] \in Nat /\ revision \in 0..revision
    BY SMTT(60), <1>1 DEF Times
  <2>2. times[revision] = last_commit_time
    BY ZenonT(60) DEF IInv, TimesIncrease
  <2>3. r < revision => times[r] < times[revision]
    BY ZenonT(60), <2>1 DEF IInv, TimesIncrease
  <2>4. r = revision \/ r < revision
    BY SMTT(60), <1>1
  <2> QED BY SMTT(60), <2>1, <2>2, <2>3, <2>4
<1>14. TimesIncrease'
  <2>2. ASSUME NEW r \in 0..rev, NEW s \in 0..rev, r < s PROVE times'[r] < times'[s]
    <3>1. r \in 0..revision
      BY SMTT(60), <2>2, <1>1
    <3>2. CASE s = rev
      BY SMTT(60), <3>1, <3>2, <1>t, <1>1, <1>2, <1>12
    <3>3. CASE s # rev
      <4>1. s \in 0..revision
        BY SMTT(60), <3>3, <1>1
      <4>2. times[r] < times[s]
        BY ZenonT(60), <2>2, <3>1, <4>1 DEF IInv, TimesIncrease
      <4> QED BY ZenonT(60), <4>1, <4>2, <3>1, <1>12
    <3> QED BY ZenonT(60), <3>2, <3>3
  <2>3. ASSUME NEW r \in 0..rev, NEW k \in Keys, history'[r][k] # Absent
        PROVE  history'[r][k].update_time <= times'[r]
    <3>1. CASE r # rev
      <4>1. r \in 0..revision
        BY SMTT(60), <3>1, <1>1
      <4> QED BY ZenonT(60), <4>1, <2>3, <1>12 DEF IInv, TimesIncrease
    <3>2. CASE r = rev
      <4>1. plan.documents[k] # Absent /\ history'[r][k] = plan.documents[k] /\ times'[r] = time
        BY ZenonT(60), <3>2, <2>3, <1>12
      <4>2. CASE plan.documents[k].update_time = time
        BY SMTT(60), <4>1, <4>2, <1>2
      <4>3. CASE plan.documents[k] = documents[k]
        <5>1. documents[k].update_time <= last_commit_time
          BY SMTT(60), <4>1, <4>3, <1>1 DEF IInv, TimesIncrease
        <5>2. documents[k] \in Document
          BY ZenonT(60), <4>1, <4>3, <1>1 DEF Documents, Maybe
        <5>3. documents[k].update_time \in Nat
          BY ZenonT(60), <5>2 DEF Document, Times
        <5>4. history'[r][k].update_time = documents[k].update_time /\ times'[r] = time
          BY ZenonT(60), <4>1, <4>3
        <5>5. last_commit_time \in Nat /\ time \in Nat /\ last_commit_time < time
          BY ZenonT(60), <1>1, <1>2
        <5> QED BY SMTT(60), <5>1, <5>3, <5>4, <5>5
      <4> QED BY ZenonT(60), <4>1, <4>2, <4>3, <1>3 DEF PlanInv
    <3> QED BY ZenonT(60), <3>1, <3>2
  <2> QED BY ZenonT(60), <2>2, <2>3, <1>4, <1>12 DEF TimesIncrease
<1>15. VersionsIdentified'
  <2>1. Identified(history, revision)
    BY ZenonT(60) DEF IInv, VersionsIdentified, Identified
  <2>2. StampedBy(history, revision, last_commit_time)
    <3> SUFFICES ASSUME NEW r \in 0..revision, NEW k \in Keys, history[r][k] # Absent
                 PROVE  history[r][k].update_time \in Nat
                          /\ history[r][k].update_time <= last_commit_time
      BY ZenonT(60) DEF StampedBy
    <3>1. history[r][k] \in Document
      BY ZenonT(60), <1>1 DEF Documents, Maybe
    <3>2. history[r][k].update_time \in Nat
      BY ZenonT(60), <3>1 DEF Document, Times
    <3>3. history[r][k].update_time <= times[r]
      BY ZenonT(60) DEF IInv, TimesIncrease
    <3>4. times[r] \in Nat /\ times[r] <= last_commit_time
      BY ZenonT(60), <1>t
    <3> QED BY SMTT(60), <3>2, <3>3, <3>4, <1>1
  <2>3. Continues(history', history, revision, time)
    <3>1. \A k \in Keys : \/ plan.documents[k] = documents[k]
                          \/ plan.documents[k] = Absent
                          \/ plan.documents[k].update_time = time
      BY ZenonT(60), <1>3 DEF PlanInv
    <3>2. history[revision] = documents
      BY ZenonT(60) DEF IInv
    <3> QED BY ZenonT(60), <3>1, <3>2, <1>12 DEF Continues
  <2>4. Identified(history', rev)
    BY ZenonT(60), <2>1, <2>2, <2>3, <1>1, <1>2, VersionsStep
  <2> QED BY ZenonT(60), <2>4, <1>4 DEF Identified, VersionsIdentified
<1>16. PointsContiguous' /\ commit_times' \in Seq(CommitPoint) /\ history_floor' \in CommitPoint
  <2> DEFINE h == history_floor.revision
             n == Len(commit_times)
  <2>1. n \in Nat /\ n = revision - h /\ h \in change_floor..revision
    BY SMTT(60), <1>1 DEF IInv, PointsContiguous
  <2>2. point \in CommitPoint /\ point.revision = rev /\ point.commit_time = time
    BY ZenonT(60), <1>1, <1>2 DEF CommitPoint, Times
  <2>3. /\ points \in Seq(CommitPoint) /\ Len(points) = n + 1
        /\ \A i \in 1..n : points[i] = commit_times[i]
        /\ points[n + 1] = point
    BY SMTT(60), <1>1, <2>2
  <2> HIDE DEF points, point, n, h
  <2>4. \A i \in 1..(n + 1) : points[i].revision = h + i /\ points[i].commit_time = times'[h + i]
    <3> TAKE i \in 1..(n + 1)
    <3>1. CASE i \in 1..n
      <4>1. commit_times[i].revision = h + i /\ commit_times[i].commit_time = times[h + i]
        BY ZenonT(60), <3>1 DEF IInv, PointsContiguous, h, n
      <4>2. h + i \in 0..revision
        BY SMTT(60), <3>1, <2>1, <1>1
      <4> QED BY ZenonT(60), <4>1, <4>2, <3>1, <2>3, <1>12
    <3>2. CASE i = n + 1
      <4>1. h + i = rev
        BY SMTT(60), <3>2, <2>1, <1>1
      <4> QED BY ZenonT(60), <4>1, <3>2, <2>2, <2>3, <1>12
    <3> QED BY SMTT(60), <3>1, <3>2, <2>1
  <2>5. /\ commit_times' \in Seq(CommitPoint) /\ Len(commit_times') = n + 1 - p
        /\ \A j \in 1..(n + 1 - p) : commit_times'[j] = points[j + p]
    <3>1. p \in 0..Len(points)
      BY ZenonT(60), <1>6
    <3>2. /\ DropFirst(points, p) \in Seq(CommitPoint)
          /\ Len(DropFirst(points, p)) = Len(points) - p
          /\ \A j \in 1..(Len(points) - p) : DropFirst(points, p)[j] = points[j + p]
      BY ZenonT(60), <3>1, <2>3, DropFirstOf
    <3>3. commit_times' = DropFirst(points, p)
      BY ZenonT(60), <1>6
    <3>4. Len(points) - p = n + 1 - p
      BY SMTT(60), <2>1, <2>3
    <3> QED BY ZenonT(60), <3>2, <3>3, <3>4
  <2>6. /\ history_floor' \in CommitPoint /\ history_floor'.revision = h + p
        /\ history_floor'.commit_time = times'[h + p]
    <3>1. CASE p = 0
      <4>1. history_floor.commit_time = times[h] /\ h \in 0..revision
        BY SMTT(60), <2>1, <1>1 DEF IInv, PointsContiguous, h
      <4> QED BY SMTT(60), <4>1, <3>1, <1>1, <1>6, <1>12 DEF h
    <3>2. CASE p # 0
      <4>1. p \in 1..(n + 1)
        BY SMTT(60), <3>2, <2>1, <2>3, <1>6
      <4>2. points[p] \in CommitPoint
        BY SMTT(60), <4>1, <2>3
      <4> QED BY ZenonT(60), <4>1, <4>2, <3>2, <2>4, <1>6
    <3> QED BY ZenonT(60), <3>1, <3>2
  <2>7. p \in 0..(n + 1)
    BY ZenonT(60), <2>3, <1>6
  <2>8. h + p >= change_floor'
    <3>1. CASE p = n + 1
      BY SMTT(60), <3>1, <2>1, <1>1, <1>10
    <3>2. CASE p < n + 1
      <4>1. points[p + 1].revision > change_floor'
        BY ZenonT(60), <3>2, <2>3, <1>6 DEF ExpiresPoints
      <4>2. p + 1 \in 1..(n + 1)
        BY SMTT(60), <3>2, <2>1, <2>7
      <4>3. h + (p + 1) > change_floor'
        BY ZenonT(60), <4>1, <4>2, <2>4
      <4> QED BY SMTT(60), <4>3, <2>1, <2>7, <1>1, <1>10
    <3> QED BY SMTT(60), <3>1, <3>2, <2>1, <2>7
  <2>9. \A j \in 1..(n + 1 - p) :
          /\ commit_times'[j].revision = h + p + j
          /\ commit_times'[j].commit_time = times'[h + p + j]
    <3> TAKE j \in 1..(n + 1 - p)
    <3>1. j + p \in 1..(n + 1) /\ h + (j + p) = h + p + j
      BY SMTT(60), <2>1, <2>7, <1>1
    <3> QED BY ZenonT(60), <3>1, <2>4, <2>5
  <2>10. h + p \in change_floor'..rev /\ n + 1 - p = rev - (h + p)
    BY SMTT(60), <2>1, <2>7, <2>8, <1>1, <1>10
  <2>11. PointsContiguous'
    BY ZenonT(60), <2>5, <2>6, <2>9, <2>10, <1>4 DEF PointsContiguous
  <2> QED BY ZenonT(60), <2>5, <2>6, <2>11
<1>17. TypeOK'
  BY ZenonT(60), <1>1, <1>2, <1>4, <1>7, <1>9, <1>10, <1>12, <1>16 DEF TypeOK, Times
<1> QED BY ZenonT(60), <1>4, <1>11, <1>12, <1>13, <1>14, <1>15, <1>16, <1>17 DEF IInv

\* The inductive invariant implies that reads by time are exact
\* (State::snapshot_at_time).
LEMMA InvReadTimes == IInv => ReadTimesExact
<1> SUFFICES ASSUME IInv PROVE ReadTimesExact
  OBVIOUS
<1> SUFFICES ASSUME NEW t \in Nat, t >= history_floor.commit_time
             PROVE  LET found == snapshot_at_time(commit_times, history_floor, t)
                    IN  /\ found \in change_floor..revision
                        /\ times[found] <= t
                        /\ \A r \in 0..revision : times[r] <= t => r <= found
  <2>1. {times[r] : r \in 0..revision} \cup {times[r] + 1 : r \in 0..revision} \subseteq Nat
    <3>1. \A r \in 0..revision : times[r] \in Nat
      BY ZenonT(60) DEF IInv, TypeOK, Times
    <3>2. \A r \in 0..revision : times[r] + 1 \in Nat
      BY SMTT(60), <3>1
    <3> QED BY ZenonT(60), <3>1, <3>2
  <2> QED BY ZenonT(60), <2>1 DEF ReadTimesExact
<1> DEFINE h == history_floor.revision
           n == Len(commit_times)
           older == {i \in DOMAIN commit_times : commit_times[i].commit_time <= t}
           found == snapshot_at_time(commit_times, history_floor, t)
<1>1. /\ revision \in Nat /\ change_floor \in Nat /\ h \in change_floor..revision /\ n \in Nat
      /\ n = revision - h /\ DOMAIN commit_times = 1..n
      /\ history_floor.commit_time = times[h]
  BY SMTT(60) DEF IInv, TypeOK, PointsContiguous
<1>2. \A i \in 1..n : commit_times[i].revision = h + i /\ commit_times[i].commit_time = times[h + i]
  BY ZenonT(60) DEF IInv, PointsContiguous
<1>3. \A r \in 0..revision : times[r] \in Nat
  BY ZenonT(60) DEF IInv, TypeOK, Times
<1>4. \A r, s \in 0..revision : r < s => times[r] < times[s]
  BY ZenonT(60) DEF IInv, TimesIncrease
<1>5. CASE older = {}
  <2>1. found = h
    BY ZenonT(60), <1>5 DEF snapshot_at_time
  <2>2. \A i \in 1..n : ~(times[h + i] <= t)
    BY ZenonT(60), <1>5, <1>1, <1>2
  <2>3. ASSUME NEW r \in 0..revision, times[r] <= t PROVE r <= h
    <3>1. SUFFICES ASSUME r > h PROVE FALSE
      BY SMTT(60), <1>1
    <3>2. r - h \in 1..n /\ h + (r - h) = r
      BY SMTT(60), <3>1, <1>1
    <3> QED BY ZenonT(60), <3>2, <2>2, <2>3
  <2> QED BY ZenonT(60), <2>1, <2>3, <1>1
<1>6. CASE older # {}
  <2> DEFINE g == Greatest(older)
  <2>1. g \in older /\ \A j \in older : j <= g
    <3>1. older \subseteq 1..n
      BY ZenonT(60), <1>1
    <3> HIDE DEF older
    <3> QED BY ZenonT(60), <1>1, <1>6, <3>1, GreatestIn
  <2>2. found = commit_times[g].revision
    BY ZenonT(60), <1>6 DEF snapshot_at_time
  <2>3. g \in 1..n /\ found = h + g /\ times[h + g] <= t
    BY ZenonT(60), <2>1, <2>2, <1>1, <1>2
  <2>4. ASSUME NEW r \in 0..revision, times[r] <= t PROVE r <= h + g
    <3>1. SUFFICES ASSUME r > h + g PROVE FALSE
      BY SMTT(60), <1>1, <2>3
    <3>2. r - h \in 1..n /\ h + (r - h) = r
      BY SMTT(60), <3>1, <2>3, <1>1
    <3>3. r - h \in older
      BY ZenonT(60), <3>2, <2>4, <1>1, <1>2
    <3>4. r - h <= g
      BY ZenonT(60), <3>3, <2>1
    <3> QED BY SMTT(60), <3>1, <3>4, <2>3, <1>1
  <2> QED BY SMTT(60), <2>3, <2>4, <1>1
<1> QED BY ZenonT(60), <1>5, <1>6

(***************************************************************************)
(* The theorems.                                                            *)
(***************************************************************************)

\* The inductive invariant holds for ever: State's bounded log, floors and commit
\* points always describe the revisions they still cover.
THEOREM Invariance == Spec => []IInv
<1>1. IInv /\ [Next]_vars => IInv'
  <2> SUFFICES ASSUME IInv, [Next]_vars PROVE IInv'
    OBVIOUS
  <2>1. CASE \E batch \in Batches, observed \in Clock : commit_from(batch, observed)
    BY ZenonT(60), <2>1, CommitInv
  <2>2. CASE from_persisted
    BY ZenonT(60), <2>2, ReopenInv
  <2>3. CASE UNCHANGED vars
    <3> USE <2>3 DEF vars
    <3>1. TypeOK'
      BY ZenonT(60) DEF IInv, TypeOK
    <3>2. LogOrdered' /\ PointsContiguous'
      BY ZenonT(60) DEF IInv, LogOrdered, PointsContiguous
    <3>3. TimesIncrease' /\ (history[revision] = documents)'
      BY ZenonT(60) DEF IInv, TimesIncrease
    <3>4. SnapshotsExact'
      BY ZenonT(60) DEF IInv, SnapshotsExact, snapshot_at_revision
    <3>5. ChangesComplete' /\ VersionsIdentified'
      BY SMTT(60) DEF IInv, ChangesComplete, VersionsIdentified
    <3> QED BY ZenonT(60), <3>1, <3>2, <3>3, <3>4, <3>5 DEF IInv
  <2> QED BY ZenonT(60), <2>1, <2>2, <2>3 DEF Next
<1> QED BY <1>1, InitInv, PTL DEF Spec

\* The state keeps its type; in particular the replay floor never passes the
\* current revision (State::push_change).
THEOREM TypeCorrect == Spec => []TypeOK
BY Invariance, PTL DEF IInv

\* Every retained revision reads back exactly (State::snapshot_at_revision).
THEOREM SnapshotsCorrect == Spec => []SnapshotsExact
BY Invariance, PTL DEF IInv

\* changes_since loses nothing a listener needs (Store::changes_since).
THEOREM ChangesCorrect == Spec => []ChangesComplete
BY Invariance, PTL DEF IInv

\* A read by time inside the window finds the right, retained revision
\* (State::snapshot_at_time).
THEOREM ReadTimesCorrect == Spec => []ReadTimesExact
BY Invariance, InvReadTimes, PTL

\* A key and an update time name one version for ever (State::next_commit_time
\* and apply_write).
THEOREM VersionsCorrect == Spec => []VersionsIdentified
BY Invariance, PTL DEF IInv

(***************************************************************************)
(* The store implements SnapshotStore.                                      *)
(***************************************************************************)

\* The windows of the refinement, in terms of the ghosts: the answer for a
\* retained revision is what it was committed with, its stamp its commit time
\* (State::snapshot_at_revision, State::snapshot_at_time).
Answers == [r \in change_floor..revision |-> snapshot_at_revision(r)]
Stamps == [r \in history_floor.revision..revision |->
             IF r = history_floor.revision THEN history_floor.commit_time
             ELSE commit_times[r - history_floor.revision].commit_time]

ExactWindows ==
    /\ revision \in Nat /\ change_floor \in 0..revision
    /\ history_floor.revision \in change_floor..revision
    /\ Answers = [r \in change_floor..revision |-> history[r]]
    /\ Stamps = [r \in history_floor.revision..revision |-> times[r]]

\* Where a revision is answered, it is answered from the history of commits
\* (State::snapshot_at_revision, State::push_commit_point).
LEMMA WindowsExact == IInv => ExactWindows
<1> SUFFICES ASSUME IInv PROVE ExactWindows
  OBVIOUS
<1> DEFINE h == history_floor.revision
<1>1. /\ revision \in Nat /\ change_floor \in 0..revision /\ h \in change_floor..revision
      /\ history_floor.commit_time = times[h] /\ Len(commit_times) = revision - h
      /\ \A i \in 1..Len(commit_times) : commit_times[i].commit_time = times[h + i]
  BY ZenonT(60) DEF IInv, TypeOK, PointsContiguous
<1>2. Answers = [r \in change_floor..revision |-> history[r]]
  BY ZenonT(60) DEF IInv, SnapshotsExact, Answers
<1>3. ASSUME NEW r \in h..revision, r # h
      PROVE  commit_times[r - h].commit_time = times[r]
  <2>1. r - h \in 1..Len(commit_times) /\ h + (r - h) = r
    BY SMTT(60), <1>1, <1>3
  <2> QED BY ZenonT(60), <2>1, <1>1
<1>4. Stamps = [r \in h..revision |-> times[r]]
  BY ZenonT(60), <1>1, <1>3 DEF Stamps
<1> QED BY ZenonT(60), <1>1, <1>2, <1>4 DEF ExactWindows


\* A commit only moves the floors up, and leaves what earlier revisions were
\* committed with, and when, alone (State::push_change, State::install).
LEMMA CommitSlides ==
    ASSUME IInv, NEW batch \in Batches, NEW observed \in Clock, commit_from(batch, observed)
    PROVE  /\ revision' = revision + 1
           /\ change_floor' >= change_floor
           /\ history_floor'.revision >= history_floor.revision
           /\ \A r \in 0..revision : history'[r] = history[r] /\ times'[r] = times[r]
           /\ times'[revision + 1] > times[revision]
<1> DEFINE time == next_commit_time(observed)
           plan == plan_with_documents(batch, documents, revision + 1, time)
           point == [revision |-> revision + 1, commit_time |-> time]
           points == Append(commit_times, point)
           h == history_floor.revision
<1>1. /\ revision \in Nat /\ change_floor \in 0..revision /\ last_commit_time \in Nat
      /\ times[revision] = last_commit_time /\ h \in change_floor..revision
      /\ commit_times \in Seq(CommitPoint) /\ Len(commit_times) = revision - h
      /\ \A i \in 1..Len(commit_times) : commit_times[i].revision = h + i
  BY ZenonT(60) DEF IInv, TypeOK, TimesIncrease, PointsContiguous, Times
<1>2. time \in Nat /\ time > last_commit_time
  BY SMTT(60), <1>1, ClockAssumption DEF next_commit_time, Times
<1>3. /\ revision' = revision + 1 /\ push_change(plan.changes) /\ push_commit_point(point)
      /\ history' = [r \in 0..(revision + 1) |-> IF r = revision + 1 THEN plan.documents ELSE history[r]]
      /\ times' = [r \in 0..(revision + 1) |-> IF r = revision + 1 THEN time ELSE times[r]]
  BY ZenonT(60) DEF commit_from, install
<1> HIDE DEF time, plan
<1>4. change_floor' >= change_floor
  <2> DEFINE log == change_log \o plan.changes
  <2>1. PICK d \in 0..Len(log) :
          change_floor' = IF d > 0 /\ log[d].revision > change_floor
                          THEN log[d].revision ELSE change_floor
    BY ZenonT(60), <1>3 DEF push_change
  <2>2. change_floor' \in Nat
    BY SMTT(60), CommitInv DEF IInv, TypeOK
  <2> HIDE DEF log
  <2>3. CASE d > 0 /\ log[d].revision > change_floor
    <3>1. change_floor' > change_floor
      BY ZenonT(60), <2>1, <2>3
    <3> QED BY SMTT(60), <3>1, <2>2, <1>1
  <2>4. CASE ~(d > 0 /\ log[d].revision > change_floor)
    BY SMTT(60), <2>1, <2>4, <1>1
  <2> QED BY ZenonT(60), <2>3, <2>4
<1>5. history_floor'.revision >= h
  <2>1. PICK p \in 0..Len(points) : history_floor' = IF p = 0 THEN history_floor ELSE points[p]
    BY ZenonT(60), <1>3 DEF push_commit_point
  <2>2. CASE p = 0
    BY SMTT(60), <2>1, <2>2, <1>1
  <2>3. CASE p # 0
    <3>1. point \in CommitPoint
      BY SMTT(60), <1>1, <1>2 DEF CommitPoint, Times
    <3>2. /\ Len(points) = Len(commit_times) + 1
          /\ \A i \in 1..(Len(commit_times) + 1) :
                points[i] = IF i <= Len(commit_times) THEN commit_times[i] ELSE point
      BY SMTT(60), <1>1, <3>1
    <3>3. p \in 1..(Len(commit_times) + 1)
      BY SMTT(60), <2>3, <3>2, <1>1
    <3>4. points[p].revision >= h
      BY SMTT(60), <1>1, <3>2, <3>3
    <3> QED BY ZenonT(60), <2>1, <2>3, <3>4
  <2> QED BY ZenonT(60), <2>2, <2>3
<1>6. \A r \in 0..revision : history'[r] = history[r] /\ times'[r] = times[r]
  BY SMTT(60), <1>1, <1>3
<1>7. times'[revision + 1] > times[revision]
  BY SMTT(60), <1>1, <1>2, <1>3
<1> QED BY ZenonT(60), <1>3, <1>4, <1>5, <1>6, <1>7

\* A step that only adds revisions and raises floors slides the two windows: what
\* stays in them is answered as it was (ensure_revision_available and
\* snapshot_at_time refuse what falls out).
LEMMA WindowsSlide ==
    ASSUME ExactWindows, ExactWindows', revision' >= revision,
           change_floor' >= change_floor, history_floor'.revision >= history_floor.revision,
           \A r \in 0..revision : history'[r] = history[r] /\ times'[r] = times[r]
    PROVE  /\ \E oldest \in 0..revision' :
                /\ DOMAIN Answers' = oldest..revision'
                /\ \A r \in oldest..revision : r \in DOMAIN Answers /\ Answers'[r] = Answers[r]
           /\ \E oldest \in 0..revision' :
                /\ DOMAIN Stamps' = oldest..revision'
                /\ \A r \in oldest..revision : r \in DOMAIN Stamps /\ Stamps'[r] = Stamps[r]
<1>1. \E oldest \in 0..revision' :
        /\ DOMAIN Answers' = oldest..revision'
        /\ \A r \in oldest..revision : r \in DOMAIN Answers /\ Answers'[r] = Answers[r]
  <2>1. /\ revision \in Nat /\ revision' \in Nat /\ revision' >= revision
        /\ change_floor \in 0..revision /\ change_floor' \in 0..revision' /\ change_floor' >= change_floor
    BY ZenonT(60) DEF ExactWindows
  <2>2. /\ \A r \in 0..revision : history'[r] = history[r]
        /\ Answers = [r \in change_floor..revision |-> history[r]]
        /\ Answers' = [r \in change_floor'..revision' |-> history'[r]]
    BY ZenonT(60) DEF ExactWindows
  <2>3. DOMAIN Answers' = change_floor'..revision'
    BY ZenonT(60), <2>2
  <2>4. \A r \in change_floor'..revision : r \in DOMAIN Answers /\ Answers'[r] = Answers[r]
    BY SMTT(60), <2>1, <2>2
  <2>5. change_floor' \in 0..revision'
    BY ZenonT(60), <2>1
  <2> QED BY ZenonT(60), <2>3, <2>4, <2>5
<1>2. \E oldest \in 0..revision' :
        /\ DOMAIN Stamps' = oldest..revision'
        /\ \A r \in oldest..revision : r \in DOMAIN Stamps /\ Stamps'[r] = Stamps[r]
  <2>1. /\ revision \in Nat /\ revision' \in Nat /\ revision' >= revision
        /\ history_floor.revision \in 0..revision /\ history_floor'.revision \in 0..revision' /\ history_floor'.revision >= history_floor.revision
    BY SMTT(60) DEF ExactWindows
  <2>2. /\ \A r \in 0..revision : times'[r] = times[r]
        /\ Stamps = [r \in history_floor.revision..revision |-> times[r]]
        /\ Stamps' = [r \in history_floor'.revision..revision' |-> times'[r]]
    BY ZenonT(60) DEF ExactWindows
  <2>3. DOMAIN Stamps' = history_floor'.revision..revision'
    BY ZenonT(60), <2>2
  <2>4. \A r \in history_floor'.revision..revision : r \in DOMAIN Stamps /\ Stamps'[r] = Stamps[r]
    BY SMTT(60), <2>1, <2>2
  <2>5. history_floor'.revision \in 0..revision'
    BY ZenonT(60), <2>1
  <2> QED BY ZenonT(60), <2>3, <2>4, <2>5
<1> QED BY ZenonT(60), <1>1, <1>2

\* A commit publishes the next revision (Store::commit_from).
LEMMA CommitPublishes ==
    ASSUME IInv, NEW batch \in Batches, NEW observed \in Clock, commit_from(batch, observed)
    PROVE  Reads!Publish
<1>1. IInv'
  BY ZenonT(60), CommitInv
<1>2. ExactWindows /\ ExactWindows'
  BY <1>1, WindowsExact, PTL
<1>4. /\ revision' = revision + 1 /\ change_floor' >= change_floor
      /\ history_floor'.revision >= history_floor.revision
      /\ \A r \in 0..revision : history'[r] = history[r] /\ times'[r] = times[r]
      /\ times'[revision + 1] > times[revision]
  BY ZenonT(60), CommitSlides
<1>5. /\ \E oldest \in 0..revision' :
           /\ DOMAIN Answers' = oldest..revision'
           /\ \A r \in oldest..revision : r \in DOMAIN Answers /\ Answers'[r] = Answers[r]
      /\ \E oldest \in 0..revision' :
           /\ DOMAIN Stamps' = oldest..revision'
           /\ \A r \in oldest..revision : r \in DOMAIN Stamps /\ Stamps'[r] = Stamps[r]
  <2>1. revision \in Nat /\ revision' >= revision
    BY SMTT(60), <1>2, <1>4 DEF ExactWindows
  <2> QED BY ZenonT(60), <1>2, <1>4, <2>1, WindowsSlide
<1>7. DOMAIN Stamps' \subseteq DOMAIN Answers'
  BY SMTT(60), <1>2, <1>4 DEF ExactWindows
<1>8. history' \in [0..revision' -> Documents]
  BY ZenonT(60), <1>1 DEF IInv, TypeOK
<1>9. Answers'[revision'] \in Documents /\ Stamps'[revision'] > Stamps[revision]
  BY SMTT(60), <1>2, <1>4, <1>8 DEF ExactWindows
<1> QED BY ZenonT(60), <1>4, <1>5, <1>7, <1>9
        DEF Reads!Publish, Reads!Windows, Reads!Slides, Answers, Stamps

\* Reopening a store forgets the revisions before the persisted one
\* (State::from_persisted).
LEMMA ReopenForgets ==
    ASSUME IInv, from_persisted
    PROVE  Reads!Forget
<1>1. IInv'
  BY ZenonT(60), ReopenInv
<1>2. ExactWindows /\ ExactWindows'
  BY <1>1, WindowsExact, PTL
<1>4. /\ revision' = revision /\ change_floor' = revision /\ history_floor'.revision = revision
      /\ history' = history /\ times' = times
  BY ZenonT(60) DEF from_persisted
<1>5. /\ \E oldest \in 0..revision' :
           /\ DOMAIN Answers' = oldest..revision'
           /\ \A r \in oldest..revision : r \in DOMAIN Answers /\ Answers'[r] = Answers[r]
      /\ \E oldest \in 0..revision' :
           /\ DOMAIN Stamps' = oldest..revision'
           /\ \A r \in oldest..revision : r \in DOMAIN Stamps /\ Stamps'[r] = Stamps[r]
  <2>1. revision \in Nat /\ change_floor \in 0..revision /\ history_floor.revision \in 0..revision
    BY SMTT(60), <1>2 DEF ExactWindows
  <2>2. /\ revision' >= revision /\ change_floor' >= change_floor
        /\ history_floor'.revision >= history_floor.revision
        /\ \A r \in 0..revision : history'[r] = history[r] /\ times'[r] = times[r]
    BY SMTT(60), <1>4, <2>1
  <2> QED BY ZenonT(60), <1>2, <2>2, WindowsSlide
<1>7. DOMAIN Stamps' \subseteq DOMAIN Answers'
  BY ZenonT(60), <1>2, <1>4 DEF ExactWindows
<1> QED BY ZenonT(60), <1>4, <1>5, <1>7
        DEF Reads!Forget, Reads!Windows, Reads!Slides, Answers, Stamps

\* The store implements SnapshotStore for every set of keys, every clock and
\* every limit of its logs: a revision or a read time is answered in the same
\* way until it is refused for good (State::install, snapshot_at_revision,
\* snapshot_at_time and from_persisted together).
THEOREM ReadsStay == Spec => ReadsStable
<1>1. Init => Reads!Init
  <2> SUFFICES ASSUME Init PROVE Reads!Init
    OBVIOUS
  <2>1. IInv
    BY ZenonT(60), InitInv
  <2>2. /\ Answers = [r \in change_floor..revision |-> history[r]]
        /\ Stamps = [r \in history_floor.revision..revision |-> times[r]]
    BY ZenonT(60), <2>1, WindowsExact DEF ExactWindows
  <2>3. change_floor..revision = {0} /\ history_floor.revision..revision = {0}
    BY SMTT(60) DEF Init
  <2>4. history[0] = [k \in Keys |-> Absent] /\ times[0] = 0
    BY SMTT(60) DEF Init
  <2>5. Answers = [r \in {0} |-> [k \in Keys |-> Absent]] /\ Stamps = [r \in {0} |-> 0]
    BY ZenonT(60), <2>2, <2>3, <2>4
  <2> QED BY ZenonT(60), <2>5 DEF Reads!Init, Answers, Stamps, Init
<1>2. IInv /\ [Next]_vars => [Reads!Next]_Reads!vars
  <2> SUFFICES ASSUME IInv, [Next]_vars PROVE [Reads!Next]_Reads!vars
    OBVIOUS
  <2>1. CASE \E batch \in Batches, observed \in Clock : commit_from(batch, observed)
    BY ZenonT(60), <2>1, CommitPublishes DEF Reads!Next
  <2>2. CASE from_persisted
    BY ZenonT(60), <2>2, ReopenForgets DEF Reads!Next
  <2>3. CASE UNCHANGED vars
    BY SMTT(60), <2>3 DEF vars, Reads!vars, snapshot_at_revision, historical_overlay, Newer, Least
  <2> QED BY ZenonT(60), <2>1, <2>2, <2>3 DEF Next
<1> QED BY <1>1, <1>2, Invariance, PTL DEF Spec, ReadsStable, Reads!Spec

=============================================================================
