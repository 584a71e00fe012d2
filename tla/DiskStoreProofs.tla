--------------------------- MODULE DiskStoreProofs ---------------------------
(***************************************************************************)
(* What DiskStore promises through crashes, power cuts and failed steps, for *)
(* any keys, values, commits and options: a commit, a crash, a power cut and *)
(* each step of an open keep the invariant, and what follows from it.       *)
(***************************************************************************)
EXTENDS DiskStoreInvariant

\* A commit is planned: what is stored stays of its revision, and the journal, with
\* or without the new frame, continues it.
LEMMA CommitPlanned ==
  ASSUME IInv, pc = "idle", serving, ~requires_restart, NEW m \in Mutations,
         clock' = clock + 1, Attempt(revision + 1, ApplyTo(visible.docs, m))
  PROVE  LET r == NextRecord(m)
             a == Append(journal, r)
         IN  /\ r \in Records /\ r.revision = revision + 1 /\ r.time = clock + 1 /\ r.mutations = m
             /\ history' \in [DOMAIN history' -> Contents] /\ DOMAIN history' \subseteq Nat
             /\ 0..(revision + 1) \subseteq DOMAIN history'
             /\ history'[revision + 1] = ApplyTo(visible.docs, m)
             /\ DbOK(visible, history', clock') /\ DbOK(durable, history', clock')
             /\ \A n \in draft : n.revision \in Nat /\ NoteOf(n, revision, history')
             /\ FilesOK(journal, synced, durable, history', clock')
             /\ Continues(journal, visible, history')
             /\ options.journal => /\ Chain(a, clock') /\ Continues(a, durable, history')
                                   /\ Continues(a, visible, history')
<1> DEFINE r == NextRecord(m)
           a == Append(journal, r)
<1>1. pc \in Up
  BY ZenonT(60) DEF Up
<1>2. /\ TypeOK /\ visible \in Redb /\ durable \in Redb /\ revision \in Nat /\ clock \in Nat
  BY ZenonT(60) DEF IInv, TypeOK
<1>3. /\ visible.revision \in Nat /\ durable.revision \in Nat /\ visible.docs \in Contents
      /\ visible.time \in Nat /\ durable.time \in Nat
  BY ZenonT(60), <1>2 DEF Redb
<1>4. /\ 0..revision \subseteq DOMAIN history /\ visible.revision = revision
      /\ durable.revision <= revision /\ JournalOK /\ Continues(journal, visible, history)
      /\ Settled /\ visible.docs = history[revision]
      /\ visible.time <= clock /\ durable.time <= clock
      /\ DbOK(visible, history, clock) /\ DbOK(durable, history, clock)
  BY ZenonT(60), <1>1 DEF IInv, UpInv, RunningInv, Settled, DbOK, DocsExact
<1>5. /\ Chain(journal, clock) /\ Chain(synced, clock) /\ Continues(journal, durable, history)
      /\ Kept(journal, synced, durable)
  BY ZenonT(60), <1>4 DEF JournalOK, FilesOK
<1>6. r \in Records /\ r.revision = revision + 1 /\ r.time = clock + 1 /\ r.mutations = m
  BY SMTT(60), <1>2 DEF NextRecord, Records
<1>7. ApplyTo(visible.docs, m) \in Contents
  BY ZenonT(60), <1>3, ApplyToType
<1>8. /\ history' \in [DOMAIN history' -> Contents] /\ DOMAIN history' \subseteq Nat
      /\ 0..(revision + 1) \subseteq DOMAIN history'
      /\ history'[revision + 1] = ApplyTo(visible.docs, m)
      /\ \A i \in 0..revision : i \in DOMAIN history' /\ history'[i] = history[i]
  BY ZenonT(60), <1>2, <1>4, <1>7, AttemptFacts
<1>9. PICK d, g : d \in Nat /\ d = clock' /\ g = history' /\ d = clock + 1
  BY SMTT(60), <1>2
<1>10. DbOK(visible, g, d) /\ DbOK(durable, g, d)
  <2>1. /\ \A i \in 0..visible.revision : i \in DOMAIN g /\ g[i] = history[i]
        /\ \A i \in 0..durable.revision : i \in DOMAIN g /\ g[i] = history[i]
    BY SMTT(60), <1>2, <1>3, <1>4, <1>8, <1>9
  <2>2. clock <= d
    BY SMTT(60), <1>2, <1>9
  <2> QED BY ZenonT(60), <1>2, <1>4, <1>9, <2>1, <2>2, HistoryKept
<1>11. \A n \in draft : n.revision \in Nat /\ NoteOf(n, revision, history')
  <2> TAKE n \in draft
  <2>1. n.revision \in Nat /\ NoteOf(n, revision, history)
    BY ZenonT(60), <1>1 DEF IInv, UpInv
  <2>2. n.revision \in 0..revision
    BY SMTT(60), <1>2, <2>1 DEF NoteOf
  <2> QED BY ZenonT(60), <1>8, <2>1, <2>2 DEF NoteOf
<1>12. \A i \in 1..Len(journal) : journal[i].revision <= revision
  <2> TAKE i \in 1..Len(journal)
  <2>1. /\ Len(journal) > 0 /\ journal[i].revision <= journal[Len(journal)].revision
    BY SMTT(60), <1>5, ChainBounds
  <2>2. options.journal
    BY SMTT(60), <1>4, <2>1 DEF JournalOK
  <2>3. journal[Len(journal)].revision = revision
    BY SMTT(60), <1>2, <1>4, <2>1, <2>2 DEF Settled, Following
  <2> QED BY ZenonT(60), <2>1, <2>3
<1>13. Continues(journal, durable, g) /\ Continues(journal, visible, g)
  BY ZenonT(60), <1>2, <1>4, <1>5, <1>8, <1>9, <1>12, ContinuesLater
<1>14. Chain(journal, d) /\ Chain(synced, d)
  <2>1. clock <= d
    BY SMTT(60), <1>2, <1>9
  <2> QED BY ZenonT(60), <1>2, <1>5, <1>9, <2>1, ChainLater
<1>15. FilesOK(journal, synced, durable, g, d)
  BY ZenonT(60), <1>5, <1>13, <1>14 DEF FilesOK
<1>16. ASSUME options.journal
       PROVE  Chain(a, d) /\ Continues(a, durable, g) /\ Continues(a, visible, g)
  <2>1. /\ Len(journal) > 0 => r.revision = journal[Len(journal)].revision + 1
        /\ Len(journal) = 0 => durable.revision = revision
    <3>1. Following = revision /\ Len(journal) \in Nat
      BY SMTT(60), <1>2, <1>5, ChainBounds DEF Following
    <3> QED BY SMTT(60), <1>4, <1>6, <1>16, <3>1 DEF Settled
  <2>2. Chain(a, clock + 1)
    <3> HIDE DEF r
    <3> QED BY ZenonT(60), <1>2, <1>5, <1>6, <2>1, AppendChain
  <2>3. /\ 0..r.revision \subseteq DOMAIN g /\ r.revision > 0
        /\ g[r.revision] = ApplyTo(g[r.revision - 1], r.mutations)
    <3>1. r.revision - 1 = revision /\ revision \in 0..revision
      BY SMTT(60), <1>2, <1>6
    <3>2. g[revision] = visible.docs
      BY ZenonT(60), <1>4, <1>8, <1>9, <3>1
    <3> HIDE DEF r
    <3> QED BY SMTT(60), <1>2, <1>6, <1>8, <1>9, <3>1, <3>2
  <2>4. /\ Len(journal) = 0 => r.revision <= durable.revision + 1
        /\ Len(journal) = 0 => r.revision <= visible.revision + 1
    BY SMTT(60), <1>2, <1>3, <1>4, <1>6, <2>1
  <2> HIDE DEF r
  <2>5. Continues(a, durable, g)
    BY ZenonT(60), <1>2, <1>4, <1>5, <1>6, <1>13, <2>3, <2>4, AppendContinues
  <2>6. Continues(a, visible, g)
    BY ZenonT(60), <1>2, <1>4, <1>5, <1>6, <1>13, <2>3, <2>4, AppendContinues
  <2> QED BY ZenonT(60), <1>9, <2>2, <2>5, <2>6
<1> HIDE DEF r, a
<1> QED BY ZenonT(60), <1>6, <1>8, <1>9, <1>10, <1>11, <1>13, <1>15, <1>16 DEF r, a

\* CommitAppend: the frame is in the journal, redb and memory are as they were.
LEMMA CommitAppendStep ==
  ASSUME IInv, NEW m \in Mutations, CommitAppend(m)
  PROVE  IInv'
<1>1. /\ pc = "idle" /\ serving /\ ~requires_restart /\ ~redb_failed /\ pc' = "append"
      /\ clock' = clock + 1 /\ Attempt(revision + 1, ApplyTo(visible.docs, m))
      /\ UNCHANGED <<memory, flags, visible, durable, index_valid, staged, owed, safe>>
  BY ZenonT(60) DEF CommitAppend, Idle
<1>2. pc \in Up /\ pc' \in Up /\ pc' # "bulk"
  BY ZenonT(60), <1>1 DEF Up
<1>3. PICK r, a, k : /\ r = NextRecord(m) /\ a = Append(journal, r) /\ k = synced'
                     /\ pending' = <<r>>
                     /\ journal' = IF options.journal THEN a ELSE journal
                     /\ k = IF options.journal /\ PerCommit THEN journal' ELSE synced
  BY ZenonT(60) DEF CommitAppend
<1>4. /\ r \in Records /\ r.revision = revision + 1 /\ r.time = clock + 1 /\ r.mutations = m
      /\ history' \in [DOMAIN history' -> Contents] /\ DOMAIN history' \subseteq Nat
      /\ 0..(revision + 1) \subseteq DOMAIN history'
      /\ history'[revision + 1] = ApplyTo(visible.docs, m)
      /\ DbOK(visible, history', clock') /\ DbOK(durable, history', clock')
      /\ \A n \in draft : n.revision \in Nat /\ NoteOf(n, revision, history')
      /\ FilesOK(journal, synced, durable, history', clock')
      /\ Continues(journal, visible, history')
      /\ options.journal => /\ Chain(a, clock') /\ Continues(a, durable, history')
                            /\ Continues(a, visible, history')
  BY ZenonT(60), <1>1, <1>3, CommitPlanned
<1>5. /\ TypeOK /\ journal \in Frames /\ synced \in Frames /\ clock \in Nat /\ revision \in Nat
      /\ owed \in Nat /\ safe \in Nat /\ JournalOK /\ Settled
      /\ owed <= revision /\ safe <= revision /\ durable.revision <= revision
      /\ last_commit_time <= clock /\ last_commit_time \in Nat /\ durable \in Redb
      /\ visible.time = last_commit_time
  BY ZenonT(60), <1>1, <1>2 DEF IInv, TypeOK, UpInv, RunningInv, Settled
<1>6. /\ options.journal => Len(a) = Len(journal) + 1 /\ a[Len(a)] = r /\ Len(a) > 0
      /\ a \in Frames /\ <<r>> \in Frames
  BY SMTT(60), <1>3, <1>4, <1>5 DEF Frames
<1>7. journal' \in Frames /\ k \in Frames
  BY ZenonT(60), <1>3, <1>5, <1>6
<1>8. TypeOK'
  <2>1. clock' \in Nat
    BY SMTT(60), <1>1, <1>5
  <2> QED BY ZenonT(60), <1>1, <1>2, <1>3, <1>4, <1>5, <1>6, <1>7, <2>1 DEF TypeOK, memory, flags
<1>9. JournalOK' /\ Continues(journal', visible', history')
  <2>1. CASE options.journal
    <3>1. journal' = a
      BY ZenonT(60), <1>3, <2>1
    <3>2. Kept(a, k, durable) /\ Chain(k, clock') /\ Reaches(k, durable, safe)
      <4>1. CASE PerCommit
        <5>1. k = a
          BY ZenonT(60), <1>3, <2>1, <3>1, <4>1
        <5>2. Kept(a, a, durable)
          BY ZenonT(60), <1>4, <2>1, SelfKept
        <5>3. safe <= r.revision
          BY SMTT(60), <1>4, <1>5
        <5> QED BY ZenonT(60), <1>4, <1>6, <2>1, <5>1, <5>2, <5>3 DEF Reaches
      <4>2. CASE ~PerCommit
        <5>1. k = synced
          BY ZenonT(60), <1>3, <4>2
        <5>2. Kept(journal, synced, durable) /\ Chain(synced, clock') /\ Reaches(synced, durable, safe)
          BY ZenonT(60), <1>4, <1>5 DEF FilesOK, JournalOK
        <5>3. Kept(a, synced, durable)
          BY ZenonT(60), <1>3, <1>4, <1>5, <5>2, AppendKept DEF JournalOK, FilesOK
        <5> QED BY ZenonT(60), <5>1, <5>2, <5>3
      <4> QED BY ZenonT(60), <4>1, <4>2
    <3>3. Reaches(a, durable, owed)
      <4>1. owed <= r.revision
        BY SMTT(60), <1>4, <1>5
      <4> QED BY ZenonT(60), <1>6, <2>1, <4>1 DEF Reaches
    <3> QED BY ZenonT(60), <1>1, <1>3, <1>4, <2>1, <3>1, <3>2, <3>3 DEF JournalOK, FilesOK, flags
  <2>2. CASE ~options.journal
    BY ZenonT(60), <1>1, <1>3, <1>4, <1>5, <2>2 DEF JournalOK, flags
  <2> QED BY ZenonT(60), <2>1, <2>2
<1>10. UpInv'
  BY ZenonT(60), <1>1, <1>2, <1>4, <1>9 DEF IInv, UpInv, memory, flags
<1>11. Settled'
  <2>1. options.journal => journal'[Len(journal')].revision = Following' /\ Len(journal') > 0
    BY ZenonT(60), <1>1, <1>3, <1>4, <1>6 DEF Following, memory
  <2> QED BY ZenonT(60), <1>1, <1>5, <2>1 DEF Settled, memory, flags
<1>12. RunningInv'
  <2>1. /\ last_commit_time' <= clock' /\ 0..revision' \subseteq DOMAIN history'
    BY SMTT(60), <1>1, <1>4, <1>5 DEF memory
  <2> QED BY ZenonT(60), <1>1, <1>5, <1>11, <2>1 DEF RunningInv, memory, flags
<1>13. AppendInv'
  <2>1. Len(pending') = 1 /\ pending'[1] = r
    BY ZenonT(60), <1>3
  <2>2. r.time <= clock' /\ r.time > visible.time
    BY SMTT(60), <1>1, <1>4, <1>5
  <2>3. options.journal => Len(journal') > 0
    BY ZenonT(60), <1>3, <1>6
  <2> QED BY ZenonT(60), <1>1, <1>4, <2>1, <2>2, <2>3 DEF AppendInv, memory, flags
<1> QED BY ZenonT(60), <1>1, <1>2, <1>4, <1>8, <1>10, <1>12, <1>13, UpStep

\* CommitAppendFails: the store is fenced; a frame that did reach the file will be
\* replayed as the commit it is of.
LEMMA CommitAppendFailsStep ==
  ASSUME IInv, NEW m \in Mutations, CommitAppendFails(m)
  PROVE  IInv'
<1>1. /\ pc = "idle" /\ serving /\ ~requires_restart /\ ~redb_failed /\ requires_restart' = TRUE
      /\ clock' = clock + 1 /\ Attempt(revision + 1, ApplyTo(visible.docs, m)) /\ options.journal
      /\ UNCHANGED <<pc, memory, options, unflushed, redb_failed, serving, draft, visible, durable,
                     synced, pending, index_valid, staged, owed, safe>>
  BY ZenonT(60) DEF CommitAppendFails, Idle
<1>2. pc \in Up /\ pc' \in Up /\ pc' \notin {"append", "bulk"}
  BY ZenonT(60), <1>1 DEF Up
<1>3. PICK r, a : /\ r = NextRecord(m) /\ a = Append(journal, r)
                  /\ journal' = journal \/ journal' = a
  BY ZenonT(60) DEF CommitAppendFails
<1>4. /\ r \in Records /\ r.revision = revision + 1
      /\ history' \in [DOMAIN history' -> Contents] /\ DOMAIN history' \subseteq Nat
      /\ DbOK(visible, history', clock') /\ DbOK(durable, history', clock')
      /\ \A n \in draft : n.revision \in Nat /\ NoteOf(n, revision, history')
      /\ FilesOK(journal, synced, durable, history', clock')
      /\ Continues(journal, visible, history')
      /\ Chain(a, clock') /\ Continues(a, durable, history') /\ Continues(a, visible, history')
  BY ZenonT(60), <1>1, <1>3, CommitPlanned
<1>5. /\ TypeOK /\ journal \in Frames /\ synced \in Frames /\ clock \in Nat /\ revision \in Nat
      /\ owed \in Nat /\ JournalOK /\ owed <= revision /\ durable.revision <= revision
  BY ZenonT(60), <1>1, <1>2 DEF IInv, TypeOK, UpInv, RunningInv
<1>6. Len(a) = Len(journal) + 1 /\ a[Len(a)] = r /\ Len(a) > 0 /\ a \in Frames
  BY SMTT(60), <1>3, <1>4, <1>5 DEF Frames
<1>7. TypeOK'
  <2>1. clock' \in Nat
    BY SMTT(60), <1>1, <1>5
  <2>2. journal' \in Frames
    BY ZenonT(60), <1>3, <1>5, <1>6
  <2> QED BY ZenonT(60), <1>1, <1>4, <1>5, <2>1, <2>2 DEF TypeOK, memory
<1>8. JournalOK' /\ Continues(journal', visible', history')
  <2>1. CASE journal' = journal
    BY ZenonT(60), <1>1, <1>4, <1>5, <2>1 DEF JournalOK
  <2>2. CASE journal' = a
    <3>1. Kept(journal, synced, durable) /\ Chain(synced, clock') /\ Reaches(synced, durable, safe)
      BY ZenonT(60), <1>4, <1>5 DEF FilesOK, JournalOK
    <3>2. Kept(a, synced, durable)
      BY ZenonT(60), <1>3, <1>4, <1>5, <3>1, AppendKept DEF JournalOK, FilesOK
    <3>3. Reaches(a, durable, owed)
      <4>1. owed <= r.revision
        BY SMTT(60), <1>4, <1>5
      <4> QED BY ZenonT(60), <1>6, <4>1 DEF Reaches
    <3> QED BY ZenonT(60), <1>1, <1>4, <2>2, <3>1, <3>2, <3>3 DEF JournalOK, FilesOK
  <2> QED BY ZenonT(60), <1>3, <2>1, <2>2
<1>9. UpInv'
  BY ZenonT(60), <1>1, <1>2, <1>4, <1>8 DEF IInv, UpInv, memory
<1>10. RunningInv'
  BY ZenonT(60), <1>1 DEF RunningInv
<1> QED BY ZenonT(60), <1>1, <1>2, <1>4, <1>7, <1>9, <1>10, UpStep

\* What a commit writes to redb: the documents its revision is to leave, with the
\* index, the figure and the stamps to match, and nothing in the journal is past it.
LEMMA CommitWritten ==
  ASSUME IInv, pc = "append", NEW count, NEW written,
         count = usage_after_record(visible.docs, usage, pending[1].mutations),
         written = persist_record(visible, pending[1], options.field_indexes, count)
  PROVE  /\ written \in Redb /\ written.revision = revision + 1 /\ written.time = pending[1].time
         /\ count \in Int /\ count = Present(written.docs)
         /\ DbOK(written, history, clock)
         /\ options.field_indexes => IndexExact(written)
         /\ Continues(journal, written, history)
         /\ FilesOK(journal, synced, written, history, clock)
         /\ \A x : \A r \in Nat : Reaches(x, durable, r) => Reaches(x, written, r)
<1>1. pc \in Up
  BY ZenonT(60) DEF Up
<1>2. /\ ~requires_restart /\ visible.revision = revision /\ usage = Present(visible.docs)
      /\ durable.revision <= revision /\ JournalOK /\ Settled
  BY ZenonT(60), <1>1 DEF IInv, UpInv, RunningInv, Settled
<1>3. options.field_indexes => IndexExact(visible)
  BY ZenonT(60), <1>1 DEF IInv, UpInv
<1>4. PICK record \in Records :
        /\ record = pending[1] /\ record.revision = revision + 1 /\ record.time <= clock
        /\ 0..(revision + 1) \subseteq DOMAIN history
        /\ history[revision + 1] = ApplyTo(visible.docs, record.mutations)
  BY ZenonT(60) DEF IInv, AppendInv
<1>5. /\ visible \in Redb /\ durable \in Redb /\ revision \in Nat /\ usage \in Int
      /\ options.field_indexes \in BOOLEAN /\ clock \in Nat
  BY ZenonT(60) DEF IInv, TypeOK
<1>6. count \in Int /\ count = Present(ApplyTo(visible.docs, record.mutations))
  BY ZenonT(60), <1>2, <1>4, <1>5, UsageAfter
<1>7. /\ written \in Redb /\ written.revision = record.revision /\ written.time = record.time
      /\ written.docs = ApplyTo(visible.docs, record.mutations)
      /\ DbOK(written, history, clock) /\ (options.field_indexes => IndexExact(written))
  <2>1. DbOK(visible, history, clock) /\ record.revision = visible.revision + 1
    BY ZenonT(60), <1>2, <1>4 DEF IInv
  <2>2. written = persist_record(visible, record, options.field_indexes, count)
    BY ZenonT(60), <1>4
  <2>3. /\ visible \in Redb /\ record \in Records /\ options.field_indexes \in BOOLEAN
        /\ count \in Int /\ clock \in Nat
        /\ DbOK(visible, history, clock) /\ record.revision = visible.revision + 1
        /\ record.time <= clock /\ 0..record.revision \subseteq DOMAIN history
        /\ history[record.revision] = ApplyTo(visible.docs, record.mutations)
        /\ options.field_indexes => IndexExact(visible)
        /\ count = Present(ApplyTo(visible.docs, record.mutations))
    BY ZenonT(60), <1>3, <1>4, <1>5, <1>6, <2>1
  <2> QED BY ONLY SMTT(60), <2>2, <2>3, PersistRecordOK
<1>8. Chain(journal, clock) /\ FilesOK(journal, synced, durable, history, clock)
  BY ZenonT(60), <1>2 DEF JournalOK, FilesOK
<1>9. Stale(journal, written)
  <2> SUFFICES ASSUME NEW i \in 1..Len(journal)
               PROVE  journal[i].revision <= written.revision
    BY ZenonT(60) DEF Stale
  <2>1. /\ Len(journal) > 0 /\ journal[i].revision <= journal[Len(journal)].revision
    BY SMTT(60), <1>8, ChainBounds
  <2>2. options.journal
    BY SMTT(60), <1>2, <2>1 DEF JournalOK
  <2>3. journal[Len(journal)].revision = revision + 1
    BY ZenonT(60), <1>2, <2>1, <2>2 DEF Settled, Following
  <2> QED BY ZenonT(60), <1>4, <1>7, <2>1, <2>3
<1>10. Continues(journal, written, history)
  BY ZenonT(60), <1>7, <1>8, <1>9, StaleOK
<1>11. /\ FilesOK(journal, synced, written, history, clock)
       /\ \A x : \A r \in Nat : Reaches(x, durable, r) => Reaches(x, written, r)
  <2>1. durable.revision <= written.revision
    BY SMTT(60), <1>2, <1>4, <1>5, <1>7 DEF Redb
  <2> QED BY SMTT(60), <1>5, <1>7, <1>8, <1>10, <2>1, FilesOnto
<1> QED BY ZenonT(60), <1>4, <1>6, <1>7, <1>10, <1>11

\* CommitPersist: readers, memory and, per commit, the file move on together.
LEMMA CommitPersistStep == IInv /\ CommitPersist => IInv'
<1> SUFFICES ASSUME IInv, CommitPersist
             PROVE  IInv'
  OBVIOUS
<1>1. PICK count, written :
        /\ count = usage_after_record(visible.docs, usage, pending[1].mutations)
        /\ written = persist_record(visible, pending[1], options.field_indexes, count)
        /\ visible' = written /\ usage' = count
  BY ZenonT(60) DEF CommitPersist
<1>2. /\ pc = "append" /\ durable' = IF PerCommit THEN written ELSE durable
      /\ revision' = pending[1].revision /\ last_commit_time' = pending[1].time
      /\ unflushed' = IF PerCommit THEN unflushed ELSE TRUE
      /\ owed' = IF options.journal \/ PerCommit THEN pending[1].revision ELSE owed
      /\ safe' = IF PerCommit THEN pending[1].revision ELSE safe
      /\ pending' = <<>>
      /\ pc' = IF PerCommit /\ options.journal THEN "percommit" ELSE "idle"
      /\ UNCHANGED <<options, requires_restart, redb_failed, serving, draft, journal, synced,
                     index_valid, staged, clock, history>>
  BY ZenonT(60), <1>1 DEF CommitPersist
<1>3. pc \in Up /\ pc' \in Up /\ pc' \in {"idle", "percommit"} /\ pc' \notin {"append", "bulk"}
  BY ZenonT(60), <1>2 DEF Up
<1>4. /\ written \in Redb /\ written.revision = revision + 1 /\ written.time = pending[1].time
      /\ count \in Int /\ count = Present(written.docs)
      /\ DbOK(written, history, clock)
      /\ options.field_indexes => IndexExact(written)
      /\ Continues(journal, written, history)
      /\ FilesOK(journal, synced, written, history, clock)
      /\ \A x : \A r \in Nat : Reaches(x, durable, r) => Reaches(x, written, r)
  BY ZenonT(60), <1>1, <1>2, CommitWritten
<1>5. /\ pending[1].revision = revision + 1 /\ pending[1].time \in Nat /\ revision \in Nat
      /\ pending[1].time <= clock /\ 0..(revision + 1) \subseteq DOMAIN history
      /\ options.journal => Len(journal) > 0
  BY ZenonT(60), <1>2 DEF IInv, AppendInv, Records, TypeOK
<1>6. /\ ~requires_restart /\ serving /\ ~redb_failed /\ JournalOK /\ Settled
      /\ owed <= revision /\ safe <= revision /\ owed \in Nat /\ safe \in Nat
      /\ durable \in Redb /\ durable.revision <= revision /\ DbOK(durable, history, clock)
      /\ durable.revision \in Nat
  BY ZenonT(60), <1>2, <1>3 DEF IInv, UpInv, RunningInv, TypeOK, Redb
<1>7. /\ durable' \in Redb /\ DbOK(durable', history, clock) /\ durable'.revision <= revision + 1
      /\ FilesOK(journal, synced, durable', history, clock)
      /\ PerCommit => durable'.revision = revision + 1
  <2>1. CASE PerCommit
    BY SMTT(60), <1>2, <1>4, <1>5, <2>1
  <2>2. CASE ~PerCommit
    BY SMTT(60), <1>2, <1>5, <1>6, <2>2 DEF JournalOK
  <2> QED BY ZenonT(60), <2>1, <2>2
<1>8. /\ owed' \in Nat /\ safe' \in Nat /\ owed' <= revision + 1 /\ safe' <= revision + 1
  BY SMTT(60), <1>2, <1>5, <1>6
<1>9. unflushed' \in BOOLEAN
  BY ZenonT(60), <1>2 DEF IInv, TypeOK
<1>10. TypeOK'
  <2>1. <<>> \in Frames
    BY SMTT(60) DEF Frames
  <2>2. revision' \in Nat /\ last_commit_time' \in Nat /\ usage' \in Int /\ visible' \in Redb
    BY SMTT(60), <1>1, <1>2, <1>4, <1>5
  <2> QED BY ZenonT(60), <1>2, <1>3, <1>7, <1>8, <1>9, <2>1, <2>2 DEF IInv, TypeOK
<1>11. JournalOK'
  <2>1. Reaches(synced, durable', safe')
    <3>1. CASE PerCommit
      BY ZenonT(60), <1>2, <1>5, <1>7, <3>1 DEF Reaches
    <3>2. CASE ~PerCommit
      BY ZenonT(60), <1>2, <1>6, <3>2 DEF JournalOK
    <3> QED BY ZenonT(60), <3>1, <3>2
  <2>2. options.journal => Reaches(journal, durable', owed')
    <3> SUFFICES ASSUME options.journal
                 PROVE  Reaches(journal, durable', owed')
      OBVIOUS
    <3>1. Len(journal) > 0 /\ journal[Len(journal)].revision = revision + 1
      BY ZenonT(60), <1>2, <1>5, <1>6 DEF Settled, Following
    <3>2. owed' = revision + 1
      BY ZenonT(60), <1>2, <1>5
    <3> QED BY SMTT(60), <1>5, <3>1, <3>2 DEF Reaches
  <2> QED BY ZenonT(60), <1>2, <1>6, <1>7, <2>1, <2>2 DEF JournalOK
<1>12. revision' = revision + 1
  BY ZenonT(60), <1>2, <1>5
<1>13. \A n \in draft : n.revision \in Nat /\ NoteOf(n, revision + 1, history)
  <2> TAKE n \in draft
  <2>1. n.revision \in Nat /\ NoteOf(n, revision, history)
    BY ZenonT(60), <1>3 DEF IInv, UpInv
  <2> QED BY SMTT(60), <1>5, <2>1 DEF NoteOf
<1>14. UpInv'
  BY ZenonT(60), <1>1, <1>2, <1>3, <1>4, <1>6, <1>7, <1>11, <1>12, <1>13 DEF IInv, UpInv
<1>15. Settled'
  <2>1. options.journal => Len(journal) > 0 /\ journal[Len(journal)].revision = revision + 1
    BY ZenonT(60), <1>2, <1>5, <1>6 DEF Settled, Following
  <2>2. Following' = revision + 1
    BY SMTT(60), <1>2, <1>3, <1>5, <1>12 DEF Following
  <2> QED BY ZenonT(60), <1>1, <1>2, <1>4, <1>12, <2>1, <2>2 DEF Settled
<1>16. RunningInv'
  <2>1. pc' = "percommit" => PerCommit /\ options.journal
    BY ZenonT(60), <1>2
  <2> QED BY ZenonT(60), <1>2, <1>3, <1>5, <1>6, <1>7, <1>8, <1>12, <1>15, <2>1 DEF RunningInv
<1> QED BY ZenonT(60), <1>1, <1>2, <1>3, <1>4, <1>7, <1>10, <1>14, <1>16, UpStep

\* CommitPersistFails: the store is fenced, and a durable write that reached the
\* file is the commit that failed.
LEMMA CommitPersistFailsStep == IInv /\ CommitPersistFails => IInv'
<1> SUFFICES ASSUME IInv, CommitPersistFails
             PROVE  IInv'
  OBVIOUS
<1>1. PICK count, written :
        /\ count = usage_after_record(visible.docs, usage, pending[1].mutations)
        /\ written = persist_record(visible, pending[1], options.field_indexes, count)
        /\ durable' \in {durable} \cup (IF redb_failed' /\ PerCommit THEN {written} ELSE {})
  BY ZenonT(60) DEF CommitPersistFails
<1>2. /\ pc = "append" /\ redb_failed' \in BOOLEAN /\ requires_restart' = TRUE
      /\ pending' = <<>> /\ pc' = "idle"
      /\ UNCHANGED <<memory, options, unflushed, serving, draft, visible, journal, synced,
                     index_valid, staged, clock, ghosts>>
  BY ZenonT(60) DEF CommitPersistFails
<1>3. pc \in Up /\ pc' \in Up /\ pc' \notin {"append", "bulk"}
  BY ZenonT(60), <1>2 DEF Up
<1>4. /\ ~requires_restart /\ serving /\ ~redb_failed /\ JournalOK /\ visible.revision = revision
      /\ owed \in Nat /\ safe \in Nat
      /\ durable \in Redb /\ durable.revision <= revision /\ DbOK(durable, history, clock)
  BY ZenonT(60), <1>2, <1>3 DEF IInv, UpInv, RunningInv, TypeOK
<1>5. /\ durable' \in Redb /\ DbOK(durable', history, clock)
      /\ FilesOK(journal, synced, durable', history, clock)
      /\ \A x : \A r \in Nat : Reaches(x, durable, r) => Reaches(x, durable', r)
      /\ ~redb_failed' => durable' = durable
  <2>1. CASE durable' = durable
    BY ZenonT(60), <1>4, <2>1 DEF JournalOK
  <2>2. CASE redb_failed' /\ durable' = written
    BY ZenonT(60), <1>1, <1>2, <2>2, CommitWritten
  <2> QED BY ZenonT(60), <1>1, <2>1, <2>2
<1>6. TypeOK'
  <2>1. <<>> \in Frames
    BY SMTT(60) DEF Frames
  <2> QED BY ZenonT(60), <1>2, <1>3, <1>5, <2>1 DEF IInv, TypeOK, memory, ghosts
<1>7. JournalOK'
  BY ZenonT(60), <1>2, <1>4, <1>5 DEF JournalOK, ghosts
<1>8. UpInv'
  BY ZenonT(60), <1>2, <1>3, <1>4, <1>5, <1>7 DEF IInv, UpInv, memory, ghosts
<1>9. RunningInv'
  BY ZenonT(60), <1>2 DEF RunningInv
<1> QED BY ZenonT(60), <1>2, <1>3, <1>5, <1>6, <1>8, <1>9, UpStep DEF IInv, ghosts

\* The process is gone: what is left to show is about the journal's file.
LEMMA DiesStep ==
  ASSUME IInv, Dies, journal' \in Frames, synced' \in Frames, owed' \in Nat,
         \/ /\ FilesOK(journal', synced', durable, history, clock)
            /\ options.journal => Reaches(journal', durable, owed')
            /\ Reaches(synced', durable, safe)
            /\ ~options.journal => journal' = <<>> /\ synced' = <<>>
         \/ options.journal /\ synced' = journal' /\ Torn(journal')
  PROVE  IInv'
<1>1. /\ visible' = durable /\ staged' = durable /\ options' = Fresh(options.journal)
      /\ revision' = 0 /\ last_commit_time' = 0 /\ usage' = 0
      /\ requires_restart' = FALSE /\ unflushed' = FALSE /\ redb_failed' = FALSE
      /\ serving' = FALSE /\ draft' = {} /\ index_valid' = FALSE
      /\ pending' = <<>> /\ pc' = "down"
      /\ UNCHANGED <<durable, clock, history, safe>>
  BY ZenonT(60) DEF Dies
<1>2. /\ options'.journal = options.journal
      /\ options' \in [journal : BOOLEAN, durability : {"PerCommit", "WriteBehind"}, field_indexes : BOOLEAN]
  BY ZenonT(60), <1>1 DEF Fresh, IInv, TypeOK
<1>3. TypeOK'
  <2>1. <<>> \in Frames /\ pc' \in Up \cup Opening \cup {"down", "corrupt"}
    BY SMTT(60), <1>1 DEF Frames
  <2>2. /\ requires_restart' \in BOOLEAN /\ unflushed' \in BOOLEAN /\ redb_failed' \in BOOLEAN
        /\ serving' \in BOOLEAN /\ index_valid' \in BOOLEAN /\ draft' \subseteq Notes
    BY ZenonT(60), <1>1
  <2>3. revision' \in Nat /\ last_commit_time' \in Nat /\ usage' \in Int
    BY SMTT(60), <1>1
  <2> QED BY ZenonT(60), <1>1, <1>2, <2>1, <2>2, <2>3 DEF IInv, TypeOK
<1>4. JournalOK' \/ (options'.journal /\ synced' = journal' /\ Torn(journal'))
  BY ZenonT(60), <1>1, <1>2 DEF JournalOK
<1>5. DownInv'
  BY ZenonT(60), <1>1, <1>4 DEF DownInv, Torn
<1> QED BY ZenonT(60), <1>1, <1>3, <1>5, DownStep DEF IInv

\* A process crash, or a close after a flush: the files stay.
LEMMA CrashStep == IInv /\ (Crash \/ close) => IInv'
<1> SUFFICES ASSUME IInv, Crash \/ close
             PROVE  IInv'
  OBVIOUS
<1>1. /\ pc \notin {"down", "corrupt"} /\ Dies /\ UNCHANGED <<journal, synced, owed>>
  BY ZenonT(60) DEF Crash, close, Idle
<1>2. JournalOK
  BY ZenonT(60), <1>1 DEF IInv, TypeOK, UpInv, OpeningInv
<1>3. journal' \in Frames /\ synced' \in Frames /\ owed' \in Nat
  BY ZenonT(60), <1>1 DEF IInv, TypeOK
<1> QED BY ZenonT(60), <1>1, <1>2, <1>3, DiesStep DEF JournalOK

\* A power cut: the file is one of the survivors, and owes what was synced.
LEMMA PowerLossStep == IInv /\ PowerLoss => IInv'
<1> SUFFICES ASSUME IInv, PowerLoss
             PROVE  IInv'
  OBVIOUS
<1>1. /\ pc # "corrupt" /\ Dies /\ journal' \in Survivors /\ synced' = journal' /\ owed' = safe
  BY ZenonT(60) DEF PowerLoss
<1>2. JournalOK \/ (options.journal /\ synced = journal /\ Torn(journal))
  BY ZenonT(60), <1>1 DEF IInv, TypeOK, DownInv, UpInv, OpeningInv
<1>3. TypeOK /\ safe \in Nat /\ journal \in Frames
  BY ZenonT(60) DEF IInv, TypeOK
<1>4. CASE JournalOK
  <2>1. PICK x \in Survivors : x = journal'
    BY ZenonT(60), <1>1
  <2>2. /\ x \in Frames
        /\ \/ Torn(x)
           \/ FilesOK(x, x, durable, history, clock) /\ Reaches(x, durable, safe)
    BY ZenonT(60), <1>3, <1>4, SurvivorOK
  <2>3. CASE options.journal
    BY ZenonT(60), <1>1, <1>3, <2>1, <2>2, <2>3, DiesStep
  <2>4. CASE ~options.journal
    <3>1. journal = <<>> /\ synced = <<>>
      BY ZenonT(60), <1>4, <2>4 DEF JournalOK
    <3>2. Survivors = {<<>>}
      <4>1. IsPrefix(synced, journal) /\ SubSeq(journal, 1, 0) = <<>> /\ Len(synced) = 0 /\ Len(journal) = 0
        BY SMTT(60), <3>1 DEF IsPrefix
      <4>2. {SubSeq(journal, 1, n) : n \in 0..0} = {<<>>}
        <5>1. \A n \in 0..0 : n = 0
          BY SMTT(60)
        <5>2. \A n \in 0..0 : SubSeq(journal, 1, n) = <<>>
          BY ZenonT(60), <4>1, <5>1
        <5>3. 0 \in 0..0
          BY SMTT(60)
        <5> QED BY ZenonT(60), <5>2, <5>3, ZenonT(60)
      <4> QED BY SMTT(60), <3>1, <4>1, <4>2 DEF Survivors
    <3>3. journal' = <<>> /\ synced' = <<>>
      BY ZenonT(60), <1>1, <3>2
    <3>4. /\ FilesOK(<<>>, <<>>, durable, history, clock) /\ <<>> \in Frames
      BY SMTT(60), EmptyJournal DEF FilesOK, Frames
    <3>5. Reaches(<<>>, durable, safe)
      BY ZenonT(60), <1>4, <3>1 DEF JournalOK
    <3> QED BY ZenonT(60), <1>1, <1>3, <2>4, <3>3, <3>4, <3>5, DiesStep
  <2> QED BY ZenonT(60), <2>3, <2>4
<1>5. CASE options.journal /\ synced = journal /\ Torn(journal)
  <2>1. Survivors = {journal}
    <3>1. IsPrefix(synced, journal) /\ Len(journal) \in Nat /\ SubSeq(journal, 1, Len(journal)) = journal
      BY SMTT(60), <1>3, <1>5 DEF IsPrefix, Frames
    <3>2. {SubSeq(journal, 1, n) : n \in Len(synced)..Len(journal)} = {journal}
      BY SMTT(60), <1>5, <3>1
    <3> QED BY SMTT(60), <3>1, <3>2 DEF Survivors
  <2>2. journal' = journal
    BY ZenonT(60), <1>1, <2>1
  <2>3. Torn(journal')
    BY ZenonT(60), <1>5, <2>2
  <2> QED BY ZenonT(60), <1>1, <1>3, <1>5, <2>2, <2>3, DiesStep
<1> QED BY ZenonT(60), <1>2, <1>4, <1>5

(***************************************************************************)
(* The open.                                                                *)
(***************************************************************************)

\* OpenBegin: a journal without torn frames is replayed onto the redb file.
LEMMA OpenBeginStep == IInv /\ Open => IInv'
<1> SUFFICES ASSUME IInv, Open
             PROVE  IInv'
  OBVIOUS
<1>1. PICK o : /\ o \in [journal : BOOLEAN, durability : {"PerCommit", "WriteBehind"}, field_indexes : BOOLEAN]
               /\ o.journal = options.journal /\ OpenBegin(o)
  <2>1. PICK d \in Durabilities, f \in IndexOptions :
          OpenBegin([journal |-> options.journal, durability |-> d, field_indexes |-> f])
    BY ZenonT(60) DEF Open
  <2>2. /\ d \in {"PerCommit", "WriteBehind"} /\ f \in BOOLEAN /\ options.journal \in BOOLEAN
    BY ZenonT(60), OptionsAssumption DEF IInv, TypeOK
  <2> QED BY ZenonT(60), <2>1, <2>2
<1>2. /\ pc = "down" /\ options' = o /\ index_valid' = field_index_valid(visible)
      /\ owed' = IF options.journal THEN owed ELSE safe
      /\ UNCHANGED <<memory, requires_restart, unflushed, redb_failed, serving, draft, files, staged,
                     clock, history, safe>>
  BY ZenonT(60), <1>1 DEF OpenBegin
<1>3. pc \notin Up
  BY ZenonT(60), <1>2 DEF Up
<1>4. /\ visible = durable /\ draft = {} /\ ~serving /\ ~requires_restart /\ ~redb_failed /\ ~unflushed
      /\ JournalOK \/ (options.journal /\ synced = journal /\ Torn(journal))
  BY ZenonT(60), <1>2, <1>3 DEF IInv, DownInv
<1>5. owed' \in Nat /\ index_valid' \in BOOLEAN
  BY ZenonT(60), <1>2 DEF IInv, TypeOK, field_index_valid
<1>6. CASE options.journal /\ Torn(journal)
  <2>1. pc' = "corrupt" /\ pending' = pending /\ TornFrames # {}
    BY ZenonT(60), <1>1, <1>6 DEF OpenBegin, Torn
  <2>2. TypeOK'
    BY ZenonT(60), <1>1, <1>2, <1>5, <2>1 DEF IInv, TypeOK, memory, files
  <2>3. DownInv'
    BY ZenonT(60), <1>2, <1>4, <2>1 DEF DownInv, files
  <2> QED BY ZenonT(60), <1>2, <2>1, <2>2, <2>3, DownStep DEF IInv, files
<1>7. CASE ~(options.journal /\ Torn(journal))
  <2>1. /\ pc' = IF options.journal THEN "replay" ELSE "index"
        /\ pending' = IF options.journal THEN journal ELSE pending
    BY ZenonT(60), <1>1, <1>7 DEF OpenBegin, Torn
  <2>2. pc' \in Opening /\ pc' \in {"replay", "index"} /\ (pc' = "replay" <=> options.journal)
    BY ZenonT(60), <2>1 DEF Opening
  <2>3. TypeOK'
    BY SMTT(60), <1>1, <1>2, <1>5, <2>1, <2>2 DEF IInv, TypeOK, memory, files
  <2>4. JournalOK
    BY ZenonT(60), <1>4, <1>7
  <2>5. JournalOK'
    BY ZenonT(60), <1>1, <1>2, <2>4 DEF JournalOK, files
  <2>6. index_valid' => IndexExact(visible')
    <3>1. visible' = visible /\ (visible.index_revision = visible.revision => IndexExact(visible))
      BY ZenonT(60), <1>2 DEF IInv, DbOK, StampsExact, files
    <3> QED BY ZenonT(60), <1>2, <3>1 DEF field_index_valid
  <2>7. options.journal => Replayed'
    <3> SUFFICES ASSUME options.journal
                 PROVE  Replayed'
      OBVIOUS
    <3>1. pending' = journal /\ journal' = journal /\ Len(journal) \in Nat
      BY SMTT(60), <1>2, <2>1 DEF files, IInv, TypeOK, Frames
    <3> QED BY SMTT(60), <3>1 DEF Replayed
  <2>8. ~options.journal => /\ journal' = <<>> /\ synced' = <<>> /\ owed' <= durable'.revision
                            /\ Stale(synced', durable')
    <3> SUFFICES ASSUME ~options.journal
                 PROVE  /\ journal' = <<>> /\ synced' = <<>> /\ owed' <= durable'.revision
                        /\ Stale(synced', durable')
      OBVIOUS
    <3>1. journal' = <<>> /\ synced' = <<>> /\ owed' = safe /\ Reaches(<<>>, durable, safe) /\ durable' = durable
      BY ZenonT(60), <1>2, <2>4 DEF JournalOK, files
    <3> QED BY SMTT(60), <3>1, EmptyJournal DEF Reaches
  <2>9. OpeningInv'
    BY ZenonT(60), <1>1, <1>2, <2>2, <2>5, <2>6, <2>7, <2>8 DEF OpeningInv
  <2> QED BY ZenonT(60), <1>2, <1>4, <2>2, <2>3, <2>9, OpenStep DEF IInv, files
<1> QED BY ZenonT(60), <1>6, <1>7

\* replay_records: the record is one redb has, or the next one; so the replay never
\* meets a gap.
LEMMA ReplayRecordsStep == IInv /\ replay_records => IInv'
<1> SUFFICES ASSUME IInv, replay_records
             PROVE  IInv'
  OBVIOUS
<1>1. /\ pc = "replay" /\ pending # <<>> /\ pending' = Tail(pending) /\ durable' = visible'
      /\ UNCHANGED <<memory, flags, journal, synced, index_valid, staged, clock, ghosts>>
  BY ZenonT(60) DEF replay_records
<1>2. pc \in Opening /\ pc \notin Up
  BY ZenonT(60), <1>1 DEF Opening, Up
<1>3. /\ JournalOK /\ options.journal /\ Replayed
      /\ options.field_indexes /\ index_valid => IndexExact(visible)
      /\ visible = durable /\ draft = {} /\ ~serving /\ ~requires_restart /\ ~redb_failed /\ ~unflushed
  BY ZenonT(60), <1>1, <1>2 DEF IInv, OpeningInv, DownInv
<1>4. /\ Chain(journal, clock) /\ Continues(journal, durable, history)
      /\ FilesOK(journal, synced, durable, history, clock)
  BY ZenonT(60), <1>3 DEF JournalOK, FilesOK
<1>5. /\ TypeOK /\ durable \in Redb /\ pending \in Frames /\ journal \in Frames /\ clock \in Nat
      /\ options.field_indexes \in BOOLEAN /\ index_valid \in BOOLEAN /\ owed \in Nat /\ safe \in Nat
      /\ DbOK(durable, history, clock) /\ durable.revision \in Nat
  BY ZenonT(60) DEF IInv, TypeOK, Redb
<1>6. /\ Len(pending) \in Nat /\ Len(pending) > 0 /\ Len(journal) \in Nat
      /\ Tail(pending) \in Frames /\ Len(Tail(pending)) = Len(pending) - 1
      /\ \A i \in 1..(Len(pending) - 1) : Tail(pending)[i] = pending[i + 1]
      /\ Head(pending) = pending[1]
  BY SMTT(60), <1>1, <1>5 DEF Frames
<1>7. PICK p \in 1..Len(journal) : p = Len(journal) - Len(pending) + 1
  BY SMTT(60), <1>3, <1>6 DEF Replayed
<1>8. PICK record : /\ record = Head(pending) /\ record = journal[p] /\ record \in Records
  <2>1. 1 \in 1..Len(pending)
    BY SMTT(60), <1>6
  <2>2. pending[1] = journal[Len(journal) - Len(pending) + 1]
    BY ZenonT(60), <1>3, <2>1 DEF Replayed
  <2>3. journal[p] \in Records
    BY ZenonT(60), <1>4, <1>7, ChainBounds
  <2> QED BY ZenonT(60), <1>6, <1>7, <2>2, <2>3
<1>9. record.revision \in Nat /\ record.time \in Nat /\ record.mutations \in Mutations
  BY ZenonT(60), <1>8 DEF Records
<1>10. \A i \in 1..(p - 1) : journal[i].revision <= durable.revision
  BY SMTT(60), <1>3, <1>6, <1>7 DEF Replayed
<1>11. /\ pc' = "replay" /\ visible' \in Redb /\ DbOK(visible', history, clock)
       /\ durable.revision <= visible'.revision /\ record.revision <= visible'.revision
       /\ Continues(journal, visible', history)
       /\ options.field_indexes /\ index_valid => IndexExact(visible')
  <2>1. CASE record.revision <= durable.revision
    <3>1. visible' = visible /\ pc' = "replay"
      BY ZenonT(60), <1>3, <1>8, <2>1 DEF replay_records
    <3> QED BY SMTT(60), <1>3, <1>4, <1>5, <2>1, <3>1
  <2>2. CASE ~(record.revision <= durable.revision)
    <3>1. record.revision = durable.revision + 1 /\ record.time > durable.time
      <4>1. ~(journal[p].revision <= durable.revision)
        BY ZenonT(60), <1>8, <2>2
      <4>2. /\ durable \in Redb /\ p \in 1..Len(journal)
            /\ Chain(journal, clock) /\ Continues(journal, durable, history)
            /\ \A i \in 1..(p - 1) : journal[i].revision <= durable.revision
        BY ZenonT(60), <1>4, <1>5, <1>8, <1>10
      <4>3. journal[p].revision = durable.revision + 1 /\ journal[p].time > durable.time
        BY ONLY ZenonT(60), <4>1, <4>2, ReplayFollows
      <4> QED BY ZenonT(60), <1>8, <4>3
    <3>2. PICK indexed \in BOOLEAN : indexed <=> (options.field_indexes /\ index_valid)
      BY ZenonT(60)
    <3>3. indexed = (options.field_indexes /\ index_valid)
      BY ZenonT(60), <3>2
    <3>4. PICK count, new :
            /\ count = usage_after_record(durable.docs, saved_usage(durable), record.mutations)
            /\ new = persist_record(durable, record, indexed, count)
      OBVIOUS
    <3>5. visible' = new /\ pc' = "replay"
      BY ZenonT(60), <1>3, <1>8, <2>2, <3>1, <3>3, <3>4 DEF replay_records
    <3>6. count \in Int /\ (count = None \/ count = Present(ApplyTo(durable.docs, record.mutations)))
      <4>1. /\ saved_usage(durable) \in Int
            /\ saved_usage(durable) = None \/ saved_usage(durable) = Present(durable.docs)
        BY SMTT(60), <1>5 DEF saved_usage, DbOK, StampsExact, Redb, None
      <4> QED BY ZenonT(60), <3>4, <4>1, UsageAfter
    <3>7. /\ record.time <= clock /\ 0..record.revision \subseteq DOMAIN history
          /\ history[record.revision] = ApplyTo(durable.docs, record.mutations)
      <4>1. journal[p].time <= clock
        BY ZenonT(60), <1>4 DEF Chain
      <4>2. /\ 0..record.revision \subseteq DOMAIN history
            /\ history[record.revision] = ApplyTo(history[record.revision - 1], record.mutations)
        BY SMTT(60), <1>4, <1>5, <1>8, <1>9, <3>1 DEF Continues
      <4>3. record.revision - 1 = durable.revision /\ durable.docs = history[durable.revision]
        BY SMTT(60), <1>5, <3>1 DEF DbOK, DocsExact
      <4> QED BY ZenonT(60), <1>8, <4>1, <4>2, <4>3
    <3>8. indexed => IndexExact(durable)
      BY ZenonT(60), <1>3, <3>2
    <3>9. /\ new \in Redb /\ new.revision = record.revision /\ new.time = record.time
          /\ DbOK(new, history, clock) /\ (indexed => IndexExact(new))
      <4>1. new = persist_record(durable, record, indexed, count)
        BY ZenonT(60), <3>4
      <4>2. /\ durable \in Redb /\ record \in Records /\ indexed \in BOOLEAN
            /\ count \in Int /\ clock \in Nat
            /\ DbOK(durable, history, clock) /\ record.revision = durable.revision + 1
            /\ record.time <= clock /\ 0..record.revision \subseteq DOMAIN history
            /\ history[record.revision] = ApplyTo(durable.docs, record.mutations)
            /\ indexed => IndexExact(durable)
            /\ count = None \/ count = Present(ApplyTo(durable.docs, record.mutations))
        BY ZenonT(60), <1>5, <1>8, <3>1, <3>2, <3>6, <3>7, <3>8
      <4> QED BY ONLY SMTT(60), <4>1, <4>2, PersistRecordOK
    <3>10. Continues(journal, new, history)
      <4>1. journal[p].revision > durable.revision
        BY SMTT(60), <1>5, <1>8, <1>9, <2>2
      <4> QED BY ZenonT(60), <1>4, <1>5, <1>8, <3>9, <4>1, ReplayContinues
    <3>11. durable.revision <= new.revision /\ record.revision <= new.revision
      BY SMTT(60), <1>5, <1>9, <3>1, <3>9
    <3> QED BY ZenonT(60), <3>2, <3>5, <3>9, <3>10, <3>11
  <2> QED BY ZenonT(60), <2>1, <2>2
<1>12. TypeOK'
  BY SMTT(60), <1>1, <1>5, <1>6, <1>11 DEF TypeOK, memory, flags, ghosts
<1>13. JournalOK'
  <2>1. PICK new \in Redb : new = visible'
    BY ZenonT(60), <1>11
  <2>2. /\ FilesOK(journal, synced, new, history, clock)
        /\ \A x : \A r \in Nat : Reaches(x, durable, r) => Reaches(x, new, r)
    BY ZenonT(60), <1>4, <1>5, <1>11, <2>1, FilesOnto
  <2> QED BY ZenonT(60), <1>1, <1>3, <1>5, <2>1, <2>2 DEF JournalOK, flags, ghosts
<1>14. Replayed'
  <2>1. Len(pending') = Len(pending) - 1 /\ journal' = journal
    BY ZenonT(60), <1>1, <1>6
  <2>2. ASSUME NEW i \in 1..Len(pending')
        PROVE  pending'[i] = journal[Len(journal) - Len(pending') + i]
    <3>1. i + 1 \in 1..Len(pending) /\ pending'[i] = pending[i + 1]
      BY SMTT(60), <1>1, <1>6, <2>1
    <3>2. pending[i + 1] = journal[Len(journal) - Len(pending) + (i + 1)]
      BY ZenonT(60), <1>3, <3>1 DEF Replayed
    <3>3. Len(journal) - Len(pending) + (i + 1) = Len(journal) - Len(pending') + i
      BY SMTT(60), <1>6, <2>1
    <3> QED BY ZenonT(60), <3>1, <3>2, <3>3
  <2>3. ASSUME NEW i \in 1..(Len(journal) - Len(pending'))
        PROVE  journal[i].revision <= durable'.revision
    <3>1. i \in 1..p /\ i \in 1..Len(journal)
      BY SMTT(60), <1>6, <1>7, <2>1
    <3>2. CASE i = p
      BY ZenonT(60), <1>1, <1>8, <1>11, <3>2
    <3>3. CASE i # p
      <4>1. i \in 1..(p - 1)
        BY SMTT(60), <1>6, <3>1, <3>3
      <4>2. journal[i].revision \in Nat /\ visible'.revision \in Nat
        BY ZenonT(60), <1>4, <1>11, <3>1, ChainBounds DEF Redb
      <4> QED BY SMTT(60), <1>1, <1>5, <1>10, <1>11, <4>1, <4>2
    <3> QED BY ZenonT(60), <3>2, <3>3
  <2>4. Len(pending') <= Len(journal)
    BY SMTT(60), <1>3, <1>6, <2>1 DEF Replayed
  <2> QED BY ZenonT(60), <2>1, <2>2, <2>3, <2>4 DEF Replayed
<1>15. OpeningInv'
  BY ZenonT(60), <1>1, <1>3, <1>11, <1>13, <1>14 DEF OpeningInv, flags
<1> QED BY ZenonT(60), <1>1, <1>2, <1>3, <1>11, <1>12, <1>15, OpenStep DEF flags, ghosts

\* The replay's checkpoint: redb has every frame.
LEMMA ReplayTruncateStep == IInv /\ ReplayTruncate => IInv'
<1> SUFFICES ASSUME IInv, ReplayTruncate
             PROVE  IInv'
  OBVIOUS
<1>1. /\ pc = "replay" /\ pending = <<>> /\ journal' = <<>> /\ pc' = "truncated"
      /\ UNCHANGED <<memory, flags, visible, durable, synced, pending, index_valid, staged, clock, ghosts>>
  BY ZenonT(60) DEF ReplayTruncate, Truncate
<1>2. pc \in Opening /\ pc \notin Up /\ pc' \in Opening
  BY ZenonT(60), <1>1 DEF Opening, Up
<1>3. /\ JournalOK /\ options.journal /\ Replayed
      /\ visible = durable /\ draft = {} /\ ~serving /\ ~requires_restart /\ ~redb_failed /\ ~unflushed
  BY ZenonT(60), <1>1, <1>2 DEF IInv, OpeningInv, DownInv
<1>4. /\ Chain(journal, clock) /\ Chain(synced, clock) /\ Kept(journal, synced, durable)
      /\ Reaches(journal, durable, owed) /\ Reaches(synced, durable, safe)
  BY ZenonT(60), <1>3 DEF JournalOK, FilesOK
<1>5. durable \in Redb /\ durable.revision \in Nat /\ owed \in Nat /\ safe \in Nat
  BY ZenonT(60) DEF IInv, TypeOK, Redb
<1>6. /\ Len(journal) \in Nat /\ journal \in Seq(Records) /\ synced \in Seq(Records)
      /\ \A i \in 1..Len(journal) : journal[i].revision \in Nat /\ journal[i].revision <= durable.revision
  <2>1. Len(journal) \in Nat /\ journal \in Seq(Records) /\ synced \in Seq(Records)
    BY SMTT(60), <1>4 DEF Chain
  <2>2. Len(journal) - Len(pending) = Len(journal)
    BY SMTT(60), <1>1, <2>1
  <2>3. \A i \in 1..Len(journal) : journal[i].revision \in Nat
    BY ZenonT(60), <1>4, ChainBounds
  <2> QED BY ZenonT(60), <1>3, <2>1, <2>2, <2>3 DEF Replayed
<1>7. owed <= durable.revision
  <2>1. Len(journal) > 0 => Len(journal) \in 1..Len(journal)
    BY SMTT(60), <1>6
  <2> QED BY SMTT(60), <1>4, <1>5, <1>6, <2>1 DEF Reaches
<1>8. Stale(synced, durable)
  <2>1. CASE IsPrefix(synced, journal)
    BY SMTT(60), <1>6, <2>1, PrefixFrames DEF Stale
  <2> QED BY ZenonT(60), <1>4, <2>1 DEF Kept
<1>9. JournalOK'
  <2>1. Chain(<<>>, clock) /\ Continues(<<>>, durable, history)
    BY ZenonT(60), EmptyJournal
  <2>2. FilesOK(<<>>, synced, durable, history, clock)
    BY ZenonT(60), <1>4, <1>8, <2>1 DEF FilesOK, Kept
  <2>3. Reaches(<<>>, durable, owed)
    BY ZenonT(60), <1>7 DEF Reaches
  <2> QED BY ZenonT(60), <1>1, <1>3, <1>4, <2>2, <2>3 DEF JournalOK, flags, ghosts
<1>10. TypeOK'
  <2>1. <<>> \in Frames
    BY SMTT(60) DEF Frames
  <2> QED BY ZenonT(60), <1>1, <1>2, <2>1 DEF IInv, TypeOK, memory, flags, ghosts
<1>11. OpeningInv'
  BY ZenonT(60), <1>1, <1>2, <1>7, <1>8, <1>9 DEF IInv, OpeningInv, flags, ghosts
<1> QED BY ZenonT(60), <1>1, <1>2, <1>3, <1>10, <1>11, OpenStep DEF IInv, flags, ghosts

\* ReplayCheckpointed: the cut is on stable storage.
LEMMA ReplayCheckpointedStep == IInv /\ ReplayCheckpointed => IInv'
<1> SUFFICES ASSUME IInv, ReplayCheckpointed
             PROVE  IInv'
  OBVIOUS
<1>1. /\ pc = "truncated" /\ pc' = "index" /\ synced' = journal
      /\ UNCHANGED <<memory, flags, visible, durable, journal, pending, index_valid, staged, clock, ghosts>>
  BY ZenonT(60) DEF ReplayCheckpointed
<1>2. pc \in Opening /\ pc \notin Up /\ pc' \in Opening
  BY ZenonT(60), <1>1 DEF Opening, Up
<1>3. /\ JournalOK /\ journal = <<>> /\ owed <= durable.revision /\ Stale(synced, durable)
      /\ visible = durable /\ draft = {} /\ ~serving /\ ~requires_restart /\ ~redb_failed /\ ~unflushed
  BY ZenonT(60), <1>1, <1>2 DEF IInv, OpeningInv, DownInv
<1>4. durable \in Redb /\ durable.revision \in Nat /\ safe \in Nat /\ Chain(synced, clock)
  BY ZenonT(60), <1>3 DEF IInv, TypeOK, Redb, JournalOK, FilesOK
<1>5. Reaches(<<>>, durable, safe)
  <2>1. Len(synced) > 0 => synced[Len(synced)].revision \in Nat /\ synced[Len(synced)].revision <= durable.revision
    BY SMTT(60), <1>3, <1>4, ChainBounds DEF Stale
  <2> QED BY SMTT(60), <1>3, <1>4, <2>1 DEF JournalOK, Reaches
<1>6. JournalOK'
  <2>1. FilesOK(<<>>, <<>>, durable, history, clock)
    BY ZenonT(60), EmptyJournal DEF FilesOK
  <2> QED BY ZenonT(60), <1>1, <1>3, <1>5, <2>1 DEF JournalOK, flags, ghosts
<1>7. TypeOK'
  BY ZenonT(60), <1>1, <1>2 DEF IInv, TypeOK, memory, flags, ghosts
<1>8. Stale(<<>>, durable)
  BY ZenonT(60), EmptyJournal
<1>9. OpeningInv'
  BY ZenonT(60), <1>1, <1>2, <1>3, <1>6, <1>8 DEF IInv, OpeningInv, flags, ghosts
<1> QED BY ZenonT(60), <1>1, <1>2, <1>3, <1>7, <1>9, OpenStep DEF IInv, flags, ghosts

\* rebuild_field_index: an index that was not valid before the replay is rebuilt.
LEMMA RebuildStep == IInv /\ rebuild_field_index => IInv'
<1> SUFFICES ASSUME IInv, rebuild_field_index
             PROVE  IInv'
  OBVIOUS
<1>1. /\ pc = "index" /\ pc' = "load" /\ durable' = visible'
      /\ UNCHANGED <<memory, flags, journal, synced, pending, index_valid, staged, clock, ghosts>>
  BY ZenonT(60) DEF rebuild_field_index
<1>2. pc \in Opening /\ pc \notin Up /\ pc' \in Opening
  BY ZenonT(60), <1>1 DEF Opening, Up
<1>3. /\ JournalOK /\ journal = <<>> /\ synced = <<>> /\ owed <= durable.revision
      /\ options.field_indexes /\ index_valid => IndexExact(visible)
      /\ visible = durable /\ draft = {} /\ ~serving /\ ~requires_restart /\ ~redb_failed /\ ~unflushed
  BY ZenonT(60), <1>1, <1>2 DEF IInv, OpeningInv, DownInv
<1>4. /\ visible \in Redb /\ visible.revision \in Nat /\ visible.docs \in Contents
      /\ DbOK(visible, history, clock)
  BY ZenonT(60) DEF IInv, TypeOK, Redb
<1>5. /\ visible' \in Redb /\ visible'.revision = visible.revision
      /\ DbOK(visible', history, clock)
      /\ options.field_indexes => IndexExact(visible')
  <2>1. CASE ~Rebuilds
    <3>1. visible' = visible
      BY ZenonT(60), <2>1 DEF rebuild_field_index
    <3> QED BY ZenonT(60), <1>3, <1>4, <2>1, <3>1 DEF Rebuilds
  <2>2. CASE Rebuilds
    <3> DEFINE ix == [k \in Keys |-> {visible.docs[k]} \ {Absent}]
    <3>1. ix \in [Keys -> SUBSET Values]
      BY ZenonT(60), <1>4 DEF Contents
    <3>2. visible' = [visible EXCEPT !.index = ix, !.index_revision = visible.revision]
      BY ZenonT(60), <2>2 DEF rebuild_field_index
    <3>3. \A k \in Keys : ix[k] = {visible.docs[k]} \ {Absent}
      OBVIOUS
    <3> HIDE DEF ix
    <3>4. /\ visible' \in Redb /\ visible'.revision = visible.revision /\ visible'.time = visible.time
          /\ visible'.docs = visible.docs /\ visible'.index = ix
          /\ visible'.index_revision = visible.revision
          /\ visible'.usage = visible.usage /\ visible'.usage_revision = visible.usage_revision
          /\ visible'.note = visible.note
      <4>1. visible' = [revision |-> visible.revision, time |-> visible.time, docs |-> visible.docs,
                        index |-> ix, index_revision |-> visible.revision, usage |-> visible.usage,
                        usage_revision |-> visible.usage_revision, note |-> visible.note]
        BY ZenonT(60), <1>4, <3>2 DEF Redb
      <4>2. /\ visible.usage \in Int /\ visible.usage_revision \in Int /\ visible.note \in Notes
            /\ visible.time \in Nat
        BY ZenonT(60), <1>4 DEF Redb
      <4>3. visible' \in Redb
        BY SMTT(60), <1>4, <3>1, <4>1, <4>2 DEF Redb
      <4> QED BY ZenonT(60), <4>1, <4>3
    <3>5. IndexExact(visible')
      BY ZenonT(60), <3>3, <3>4 DEF IndexExact
    <3>6. DbOK(visible', history, clock)
      BY SMTT(60), <1>4, <3>4, <3>5 DEF DbOK, DocsExact, StampsExact
    <3> QED BY ZenonT(60), <3>4, <3>5, <3>6
  <2> QED BY ZenonT(60), <2>1, <2>2
<1>6. TypeOK'
  BY ZenonT(60), <1>1, <1>2, <1>5 DEF IInv, TypeOK, memory, flags, ghosts
<1>7. /\ Chain(<<>>, clock) /\ Continues(<<>>, visible', history) /\ Kept(<<>>, <<>>, visible')
      /\ Stale(<<>>, visible')
  BY ZenonT(60), EmptyJournal
<1>8. JournalOK'
  BY ZenonT(60), <1>1, <1>3, <1>5, <1>7 DEF JournalOK, FilesOK, Reaches, flags, ghosts
<1>9. OpeningInv'
  BY ZenonT(60), <1>1, <1>2, <1>3, <1>5, <1>7, <1>8 DEF OpeningInv, flags, ghosts
<1> QED BY ZenonT(60), <1>1, <1>2, <1>3, <1>5, <1>6, <1>9, OpenStep DEF flags, ghosts

\* load_database: memory is what redb holds, and the store may serve.
LEMMA LoadStep == IInv /\ load_database => IInv'
<1> SUFFICES ASSUME IInv, load_database
             PROVE  IInv'
  OBVIOUS
<1>1. /\ pc = "load" /\ pc' = "idle" /\ durable' = visible'
      /\ revision' = visible.revision /\ last_commit_time' = visible.time
      /\ history' = [r \in {i \in DOMAIN history : i <= visible.revision} |-> history[r]]
      /\ owed' = visible.revision /\ safe' = visible.revision
      /\ UNCHANGED <<flags, journal, synced, pending, index_valid, staged, clock>>
  BY ZenonT(60) DEF load_database
<1>2. pc \in Opening /\ pc \notin Up /\ pc' \in Up /\ pc' \notin {"append", "bulk"}
  BY ZenonT(60), <1>1 DEF Opening, Up
<1>3. /\ JournalOK /\ journal = <<>> /\ synced = <<>>
      /\ options.field_indexes => IndexExact(visible)
      /\ visible = durable /\ draft = {} /\ ~serving /\ ~requires_restart /\ ~redb_failed /\ ~unflushed
  BY ZenonT(60), <1>1, <1>2 DEF IInv, OpeningInv, DownInv
<1>4. /\ visible \in Redb /\ visible.revision \in Nat /\ visible.docs \in Contents /\ visible.time \in Nat
      /\ DbOK(visible, history, clock) /\ visible.time <= clock /\ clock \in Nat
      /\ 0..visible.revision \subseteq DOMAIN history
      /\ history \in [DOMAIN history -> Contents] /\ DOMAIN history \subseteq Nat
  BY ZenonT(60) DEF IInv, TypeOK, Redb, DbOK, DocsExact
<1>5. Present(visible.docs) \in Nat
  BY ZenonT(60), PresentNat
<1>6. /\ visible' \in Redb /\ visible'.revision = visible.revision /\ visible'.time = visible.time
      /\ visible'.docs = visible.docs /\ visible'.index = visible.index
      /\ DbOK(visible', history, clock) /\ usage' = Present(visible.docs)
  <2> DEFINE count == Present(visible.docs)
             recounted == Rebuilds \/ saved_usage(visible) = None
  <2>1. CASE recounted
    <3>1. /\ visible' = [visible EXCEPT !.usage = count, !.usage_revision = visible.revision]
          /\ usage' = count
      BY ZenonT(60), <2>1 DEF load_database
    <3> HIDE DEF count
    <3>2. count \in Nat
      BY ZenonT(60), <1>5 DEF count
    <3>3. /\ visible' \in Redb /\ visible'.revision = visible.revision /\ visible'.time = visible.time
          /\ visible'.docs = visible.docs /\ visible'.index = visible.index
          /\ visible'.index_revision = visible.index_revision
          /\ visible'.usage = count /\ visible'.usage_revision = visible.revision
          /\ visible'.note = visible.note
      <4>1. visible' = [revision |-> visible.revision, time |-> visible.time, docs |-> visible.docs,
                        index |-> visible.index, index_revision |-> visible.index_revision,
                        usage |-> count, usage_revision |-> visible.revision, note |-> visible.note]
        BY ZenonT(60), <1>4, <3>1 DEF Redb
      <4>2. /\ visible.index \in [Keys -> SUBSET Values] /\ visible.index_revision \in Int
            /\ visible.note \in Notes
        BY ZenonT(60), <1>4 DEF Redb
      <4>3. visible' \in Redb
        BY SMTT(60), <1>4, <3>2, <4>1, <4>2 DEF Redb
      <4> QED BY ZenonT(60), <4>1, <4>3
    <3>4. IndexExact(visible) => IndexExact(visible')
      BY ZenonT(60), <3>3 DEF IndexExact
    <3>5. DbOK(visible', history, clock)
      BY SMTT(60), <1>4, <3>3, <3>4 DEF DbOK, DocsExact, StampsExact, count
    <3> QED BY ZenonT(60), <3>1, <3>3, <3>5 DEF count
  <2>2. CASE ~recounted
    <3>1. visible' = visible /\ usage' = saved_usage(visible) /\ saved_usage(visible) # None
      BY ZenonT(60), <2>2 DEF load_database
    <3>2. saved_usage(visible) = Present(visible.docs)
      BY ZenonT(60), <1>4, <3>1 DEF saved_usage, DbOK, StampsExact
    <3> QED BY ZenonT(60), <1>4, <3>1, <3>2
  <2> QED BY ZenonT(60), <2>1, <2>2
<1>7. /\ history' \in [DOMAIN history' -> Contents] /\ DOMAIN history' \subseteq Nat
      /\ 0..visible.revision \subseteq DOMAIN history'
      /\ \A r \in 0..visible.revision : r \in DOMAIN history' /\ history'[r] = history[r]
  <2>1. DOMAIN history' = {i \in DOMAIN history : i <= visible.revision}
    BY ZenonT(60), <1>1
  <2>2. \A r \in 0..visible.revision : r \in DOMAIN history /\ r <= visible.revision
    BY SMTT(60), <1>4
  <2>3. \A r \in DOMAIN history' : history'[r] = history[r] /\ r \in DOMAIN history
    BY ZenonT(60), <1>1, <2>1
  <2>4. history' \in [DOMAIN history' -> Contents]
    BY ZenonT(60), <1>1, <1>4, <2>1, <2>3
  <2> QED BY ZenonT(60), <1>4, <2>1, <2>2, <2>3, <2>4
<1>8. DbOK(visible', history', clock)
  <2>1. PICK v, g : v \in Redb /\ v = visible' /\ g = history'
    BY ZenonT(60), <1>6
  <2>2. DbOK(v, history, clock) /\ \A r \in 0..v.revision : r \in DOMAIN g /\ g[r] = history[r]
    BY ZenonT(60), <1>6, <1>7, <2>1
  <2>3. DbOK(v, g, clock)
    BY SMTT(60), <1>4, <2>1, <2>2, HistoryKept
  <2> QED BY ZenonT(60), <2>1, <2>3
<1>9. TypeOK'
  <2>1. /\ revision' \in Nat /\ last_commit_time' \in Nat /\ usage' \in Int
        /\ owed' \in Nat /\ safe' \in Nat
    BY SMTT(60), <1>1, <1>4, <1>5, <1>6
  <2> QED BY ZenonT(60), <1>1, <1>2, <1>6, <1>7, <2>1 DEF IInv, TypeOK, flags
<1>10. JournalOK' /\ Continues(journal', visible', history')
  <2>1. /\ Chain(<<>>, clock) /\ Continues(<<>>, visible', history') /\ Kept(<<>>, <<>>, visible')
    BY ZenonT(60), EmptyJournal
  <2> QED BY SMTT(60), <1>1, <1>3, <1>4, <1>6, <2>1 DEF JournalOK, FilesOK, Reaches, flags
<1>11. UpInv'
  <2>1. IndexExact(visible) => IndexExact(visible')
    BY ZenonT(60), <1>6 DEF IndexExact
  <2> QED BY ZenonT(60), <1>1, <1>2, <1>3, <1>6, <1>10, <2>1 DEF UpInv, flags
<1>12. Settled'
  BY SMTT(60), <1>1, <1>3, <1>6 DEF Settled, flags
<1>13. RunningInv'
  BY SMTT(60), <1>1, <1>3, <1>4, <1>6, <1>7, <1>12 DEF RunningInv, flags
<1> QED BY ZenonT(60), <1>1, <1>2, <1>8, <1>9, <1>11, <1>13, UpStep

\* Every step keeps the invariant.
LEMMA NextInv == IInv /\ [Next]_vars => IInv'
<1> SUFFICES ASSUME IInv, [Next]_vars
             PROVE  IInv'
  OBVIOUS
<1>1. CASE \E m \in Mutations : CommitAppend(m) \/ CommitAppendFails(m) \/ BulkCommit(m)
  BY ZenonT(60), <1>1, CommitAppendStep, CommitAppendFailsStep, BulkCommitStep
<1>2. CASE CommitPersist \/ CommitPersistFails \/ PerCommitTruncate \/ PerCommitCheckpointDone
  BY ZenonT(60), <1>2, CommitPersistStep, CommitPersistFailsStep, TruncateStep, PerCommitCheckpointDoneStep
<1>3. CASE FlushBegin \/ FlushSync \/ FlushPersist \/ FlushTruncate \/ FlushDone \/ FlushFails
  BY ZenonT(60), <1>3, FlushBeginStep, FlushSyncStep, FlushPersistStep, TruncateStep, FlushDoneStep, FlushFailsStep
<1>4. CASE DraftNote \/ save_note \/ begin_bulk_commit \/ BulkFinish \/ BulkAbandon \/ Serve
  BY ZenonT(60), <1>4, DraftNoteStep, SaveNoteStep, StartStep, BulkFinishStep, BulkAbandonStep
<1>5. CASE Crash \/ PowerLoss \/ close
  BY ZenonT(60), <1>5, CrashStep, PowerLossStep
<1>6. CASE Open \/ replay_records \/ ReplayTruncate \/ ReplayCheckpointed
  BY ZenonT(60), <1>6, OpenBeginStep, ReplayRecordsStep, ReplayTruncateStep, ReplayCheckpointedStep
<1>7. CASE rebuild_field_index \/ load_database
  BY ZenonT(60), <1>7, RebuildStep, LoadStep
<1>8. CASE UNCHANGED vars
  <2>1. UNCHANGED <<pc, memory, flags, files, pending, index_valid, staged, clock, ghosts>>
    BY ZenonT(60), <1>8 DEF vars
  <2>2. UNCHANGED <<pc, options, revision, last_commit_time, usage, requires_restart, unflushed,
                    redb_failed, serving, draft, visible, durable, journal, synced, pending,
                    index_valid, staged, clock, history, owed, safe>>
    BY ZenonT(60), <2>1 DEF memory, flags, files, ghosts
  <2>3. TypeOK'
    BY SMTT(60), <2>2 DEF IInv, TypeOK
  <2>4. JournalOK' <=> JournalOK
    BY ZenonT(60), <2>2 DEF JournalOK
  <2>5. DownInv' /\ OpeningInv'
    BY ZenonT(60), <2>2, <2>4 DEF IInv, DownInv, Torn, OpeningInv, Replayed
  <2>6. UpInv' /\ RunningInv'
    BY ZenonT(60), <2>2, <2>4 DEF IInv, UpInv, RunningInv, Settled, Following
  <2>7. AppendInv' /\ BulkInv'
    BY ZenonT(60), <2>2 DEF IInv, AppendInv, BulkInv
  <2> QED BY ZenonT(60), <2>2, <2>3, <2>5, <2>6, <2>7 DEF IInv
<1> QED BY ZenonT(60), <1>1, <1>2, <1>3, <1>4, <1>5, <1>6, <1>7, <1>8 DEF Next

\* The invariant holds in every state of every behaviour of the store.
THEOREM DiskStoreInv == Spec => []IInv
<1>1. Init => IInv
  BY ZenonT(60), InitInv
<1>2. IInv /\ [Next]_vars => IInv'
  BY ZenonT(60), NextInv
<1> QED BY <1>1, <1>2, PTL DEF Spec

(***************************************************************************)
(* What follows.                                                            *)
(***************************************************************************)

\* An open store shows exactly what its revision was to leave, for any keys and
\* commits and through any crashes, power cuts, failed steps and replays, torn
\* frames included (DiskStore's reads after open_watched).
THEOREM ShowsItsRevisionAlways == Spec => []ShowsItsRevision
<1>1. IInv => ShowsItsRevision
  BY SMTT(60) DEF IInv, RunningInv, Settled, DbOK, DocsExact, ShowsItsRevision, Ready, Up, TypeOK
<1> QED BY <1>1, DiskStoreInv, PTL

\* The index, the figure that is never recounted and the notes say what the
\* documents say (persist_state, usage_after_record, save_note).
THEOREM DerivedExactAlways == Spec => []DerivedExact
<1>1. IInv => DerivedExact
  <2> SUFFICES ASSUME IInv
               PROVE  DerivedExact
    OBVIOUS
  <2>1. Ready => pc \in Up /\ ~requires_restart /\ pc # "bulk"
    BY ZenonT(60) DEF Ready, Up
  <2>2. IndexMatches
    BY ZenonT(60), <2>1 DEF IInv, UpInv, IndexExact, IndexMatches
  <2>3. UsageExact
    BY ZenonT(60), <2>1 DEF IInv, RunningInv, Settled, UsageExact
  <2>4. NotesFresh
    <3> SUFFICES ASSUME Ready, NEW d \in note
                 PROVE  d = visible.docs
      BY ZenonT(60) DEF NotesFresh
    <3>1. d = visible.note.docs /\ visible.note.revision = revision
      BY ZenonT(60) DEF note
    <3>2. visible.revision = revision /\ revision \in Nat
      BY ZenonT(60), <2>1 DEF IInv, RunningInv, Settled, TypeOK
    <3> QED BY ZenonT(60), <3>1, <3>2 DEF IInv, DbOK, DocsExact, NoteOf
  <2> QED BY ZenonT(60), <2>2, <2>3, <2>4 DEF DerivedExact
<1> QED BY <1>1, DiskStoreInv, PTL

\* Where a power cut keeps whole frames only, no open fails as corrupt: the journal
\* always continues the redb file (replay_records).
THEOREM NeverCorruptAlways ==
  ASSUME TornFrames = {}
  PROVE  Spec => []NeverCorrupt
<1>1. IInv => NeverCorrupt
  BY ZenonT(60) DEF IInv, DownInv, NeverCorrupt
<1> QED BY <1>1, DiskStoreInv, PTL

\* Opening recovers every revision owed: all acknowledged commits after a process
\* crash with the journal on, all flushed or synced ones after a power cut.
THEOREM RecoversWhatIsOwedAlways == Spec => RecoversWhatIsOwed
<1>1. IInv /\ [Next]_vars => [pc = "load" /\ pc' = "idle" => revision' >= owed]_vars
  <2> SUFFICES ASSUME IInv, Next, pc = "load", pc' = "idle"
               PROVE  revision' >= owed
    OBVIOUS
  <2>1. pc \in Opening /\ pc \notin Up
    BY ZenonT(60) DEF Opening, Up
  <2>2. load_database
    BY ZenonT(60) DEF Next, CommitAppend, CommitAppendFails, BulkCommit, CommitPersist, CommitPersistFails,
           PerCommitTruncate, PerCommitCheckpointDone, Truncate, FlushBegin, FlushSync, FlushPersist,
           FlushTruncate, FlushDone, FlushFails, DraftNote, save_note, begin_bulk_commit, BulkFinish,
           BulkAbandon, Serve, Crash, PowerLoss, close, Dies, Open, OpenBegin, replay_records,
           ReplayTruncate, ReplayCheckpointed, rebuild_field_index, Idle
  <2>3. owed <= durable.revision /\ visible = durable /\ visible.revision \in Nat /\ owed \in Nat
    BY ZenonT(60), <2>1 DEF IInv, OpeningInv, DownInv, TypeOK, Redb
  <2>4. revision' = visible.revision
    BY ZenonT(60), <2>2 DEF load_database
  <2> QED BY ZenonT(60), <2>3, <2>4
<1> QED BY <1>1, DiskStoreInv, PTL DEF Spec, RecoversWhatIsOwed
=============================================================================
