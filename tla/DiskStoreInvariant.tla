------------------------- MODULE DiskStoreInvariant --------------------------
(***************************************************************************)
(* The inductive invariant of DiskStore: what the database file, the journal, *)
(* the memory and the flags hold in each phase of the process, with the facts *)
(* about the store's operators, for any keys, values, commits and options.  *)
(***************************************************************************)
EXTENDS DiskStore, FiniteSetTheorems, TLAPS

Records == [revision : Nat, time : Nat, mutations : Mutations]
Notes == [revision : Int, docs : Contents]
Redb == [revision : Nat, time : Nat, docs : Contents,
         index : [Keys -> SUBSET Values], index_revision : Int,
         usage : Int, usage_revision : Int, note : Notes]
Frames == Seq(Records \cup TornFrames)

Opening == {"replay", "truncated", "index", "load"}
Up == {"idle", "append", "percommit", "percommit_truncated", "flush", "flush_synced",
       "flush_persisted", "flush_truncated", "bulk"}

TypeOK ==
    /\ pc \in Up \cup Opening \cup {"down", "corrupt"}
    /\ options \in [journal : BOOLEAN, durability : {"PerCommit", "WriteBehind"}, field_indexes : BOOLEAN]
    /\ revision \in Nat /\ last_commit_time \in Nat /\ usage \in Int
    /\ requires_restart \in BOOLEAN /\ unflushed \in BOOLEAN /\ redb_failed \in BOOLEAN
    /\ serving \in BOOLEAN /\ index_valid \in BOOLEAN
    /\ draft \subseteq Notes
    /\ visible \in Redb /\ durable \in Redb /\ staged \in Redb
    /\ journal \in Frames /\ synced \in Frames /\ pending \in Frames
    /\ clock \in Nat
    /\ history \in [DOMAIN history -> Contents] /\ DOMAIN history \subseteq Nat
    /\ owed \in Nat /\ safe \in Nat

\* What redb holds is of its revision: the documents (h is the history, c the
\* clock), the index and the figure if they are stamped with it, and the note.
IndexExact(db) == \A k \in Keys : db.index[k] = {db.docs[k]} \ {Absent}
DocsExact(db, h, c) == /\ 0..db.revision \subseteq DOMAIN h
                       /\ db.docs = h[db.revision]
                       /\ db.time <= c
StampsExact(db) ==
    /\ db.index_revision <= db.revision
    /\ db.index_revision = db.revision => IndexExact(db)
    /\ db.usage_revision <= db.revision
    /\ db.usage_revision = db.revision => db.usage = Present(db.docs)
NoteOf(n, rev, h) == n.revision <= rev /\ (n.revision \in Nat => n.docs = h[n.revision])
DbOK(db, h, c) == DocsExact(db, h, c) /\ StampsExact(db) /\ NoteOf(db.note, db.revision, h)

\* The frames of a journal are one commit after another.
Chain(j, c) ==
    /\ j \in Seq(Records)
    /\ \A i \in 1..Len(j) : j[i].revision = j[1].revision + i - 1 /\ j[i].time <= c
    /\ \A i, k \in 1..Len(j) : i < k => j[i].time < j[k].time

\* A journal continues the redb contents it may be replayed onto.
Continues(j, db, h) ==
    /\ Len(j) > 0 => j[1].revision <= db.revision + 1
    /\ \A i \in 1..Len(j) : j[i].revision > db.revision =>
         /\ j[i].time > db.time
         /\ 0..j[i].revision \subseteq DOMAIN h
         /\ h[j[i].revision] = ApplyTo(h[j[i].revision - 1], j[i].mutations)

Stale(j, db) == \A i \in 1..Len(j) : j[i].revision <= db.revision
\* Replaying the journal reaches the revision.
Reaches(j, db, r) == r <= db.revision \/ (Len(j) > 0 /\ r <= j[Len(j)].revision)

\* Both states of the journal's file that a power cut may leave continue the
\* durable contents, and reach what is owed.
Kept(j, s, db) == IsPrefix(s, j) \/ Stale(s, db)
FilesOK(j, s, db, h, c) == Chain(j, c) /\ Continues(j, db, h) /\ Chain(s, c) /\ Kept(j, s, db)
JournalOK ==
    /\ FilesOK(journal, synced, durable, history, clock)
    /\ options.journal => Reaches(journal, durable, owed)
    /\ Reaches(synced, durable, safe)
    /\ ~options.journal => journal = <<>> /\ synced = <<>>

Torn(j) == \E i \in DOMAIN j : j[i] \in TornFrames

\* The process does not run: the files, or a journal that no open will accept.
DownInv ==
    /\ pc = "down" => JournalOK \/ (options.journal /\ synced = journal /\ Torn(journal))
    /\ pc = "corrupt" => TornFrames # {}
    /\ pc \notin Up => /\ visible = durable /\ draft = {} /\ ~serving
                       /\ ~requires_restart /\ ~redb_failed /\ ~unflushed

\* An open in progress: what was replayed is a prefix of the journal, and an index
\* that was found valid is kept so.
Replayed ==
    /\ Len(pending) <= Len(journal)
    /\ \A i \in 1..Len(pending) : pending[i] = journal[Len(journal) - Len(pending) + i]
    /\ \A i \in 1..(Len(journal) - Len(pending)) : journal[i].revision <= durable.revision
OpeningInv ==
    pc \in Opening =>
      /\ JournalOK
      /\ options.field_indexes /\ (index_valid \/ pc = "load") => IndexExact(visible)
      /\ pc = "replay" => options.journal /\ Replayed
      /\ pc # "replay" => journal = <<>> /\ owed <= durable.revision /\ Stale(synced, durable)
      /\ pc \in {"index", "load"} => synced = <<>>

\* The process runs.  What its readers see, and what is in memory.
UpInv ==
    pc \in Up =>
      /\ JournalOK /\ Continues(journal, visible, history)
      /\ options.field_indexes => IndexExact(visible)
      /\ \A n \in draft : n.revision \in Nat /\ NoteOf(n, revision, history)
      /\ draft # {} => serving
      /\ ~serving => journal = <<>> /\ synced = <<>>
      /\ requires_restart => pc = "idle"
      /\ serving => visible.revision = revision
      /\ serving /\ ~redb_failed => durable.revision <= visible.revision

\* The store is not fenced: memory and redb agree, and the journal ends at the
\* revision they are at, or is empty where the file has it all.
Following == revision + IF pc = "append" THEN 1 ELSE 0
Settled ==
    /\ visible.revision = revision /\ visible.time = last_commit_time
    /\ usage = Present(visible.docs)
    /\ options.journal => IF Len(journal) > 0 THEN journal[Len(journal)].revision = Following
                          ELSE durable.revision = revision
RunningInv ==
    pc \in Up /\ ~requires_restart =>
      /\ ~redb_failed
      /\ 0..revision \subseteq DOMAIN history
      /\ owed <= revision /\ safe <= revision
      /\ durable.revision <= revision /\ last_commit_time <= clock
      /\ pc # "bulk" => Settled
      /\ pc \in {"percommit", "percommit_truncated", "flush_persisted", "flush_truncated"} =>
           durable.revision = revision
      /\ pc \in {"percommit", "percommit_truncated", "append"} => serving
      /\ pc \in {"percommit", "percommit_truncated"} => options.journal
      /\ pc \in {"percommit_truncated", "flush_truncated"} => journal = <<>>

\* A commit is between its journal and redb.
AppendInv ==
    pc = "append" =>
      /\ Len(pending) = 1 /\ pending[1] \in Records
      /\ pending[1].revision = revision + 1
      /\ pending[1].time <= clock /\ pending[1].time > visible.time
      /\ 0..(revision + 1) \subseteq DOMAIN history
      /\ history[revision + 1] = ApplyTo(visible.docs, pending[1].mutations)
      /\ options.journal => Len(journal) > 0

\* A bulk load: redb as it was, and the batches so far in a transaction.
BulkInv ==
    pc = "bulk" =>
      /\ ~serving /\ visible.revision <= revision
      /\ options.journal => durable.revision = visible.revision
      /\ staged.revision = visible.revision /\ staged.docs = history[revision]
      /\ usage = Present(staged.docs)
      /\ revision = visible.revision => last_commit_time = visible.time
      /\ options.field_indexes => IndexExact(staged)
      /\ staged.index_revision <= visible.revision
      /\ staged.usage_revision <= visible.revision
      /\ staged.note = visible.note

IInv ==
    /\ TypeOK /\ DbOK(visible, history, clock) /\ DbOK(durable, history, clock)
    /\ DownInv /\ OpeningInv /\ UpInv /\ RunningInv /\ AppendInv /\ BulkInv

(***************************************************************************)
(* The operators of the store.                                              *)
(***************************************************************************)

\* The figure of a document set is a number (usage in disk.rs counts documents).
LEMMA PresentNat == \A docs : Present(docs) \in Nat
<1> TAKE docs
<1>1. {k \in Keys : docs[k] # Absent} \subseteq Keys
  OBVIOUS
<1>2. IsFiniteSet({k \in Keys : docs[k] # Absent})
  BY ZenonT(60), <1>1, KeysAssumption, FS_Subset
<1> QED BY ZenonT(60), <1>2, FS_CardinalityType DEF Present

\* A commit leaves documents (apply_mutations).
LEMMA ApplyToType ==
  ASSUME NEW docs \in Contents, NEW m \in Mutations
  PROVE  ApplyTo(docs, m) \in Contents
BY ZenonT(60), MutationsAssumption DEF ApplyTo, Contents

\* An exact index is exact after a write too: the entries of the replaced document
\* go and the ones of the new document come.
LEMMA IndexAfterExact ==
  ASSUME NEW index \in [Keys -> SUBSET Values], NEW docs \in Contents, NEW m \in Mutations
  PROVE  /\ IndexAfter(index, docs, m) \in [Keys -> SUBSET Values]
         /\ (\A k \in Keys : index[k] = {docs[k]} \ {Absent}) =>
              \A k \in Keys : IndexAfter(index, docs, m)[k] = {ApplyTo(docs, m)[k]} \ {Absent}
BY ZenonT(60), MutationsAssumption, AbsentAssumption DEF IndexAfter, ApplyTo, Contents

\* The figure carried forward over a record is the recount (usage_after_record).
LEMMA UsageAfter ==
  ASSUME NEW docs, NEW m, NEW before \in Int
  PROVE  /\ usage_after_record(docs, before, m) \in Int
         /\ before = None => usage_after_record(docs, before, m) = None
         /\ before = Present(docs) => usage_after_record(docs, before, m) = Present(ApplyTo(docs, m))
BY SMTT(60), PresentNat DEF usage_after_record, None

\* What persist_state leaves in redb.
LEMMA PersistState ==
  ASSUME NEW db \in Redb, NEW rev \in Nat, NEW time \in Nat, NEW indexed,
         NEW count \in Int
  PROVE  LET new == persist_state(db, rev, time, indexed, count)
         IN  /\ new \in Redb /\ new.revision = rev /\ new.time = time
             /\ new.docs = db.docs /\ new.index = db.index /\ new.note = db.note
             /\ new.index_revision = IF indexed THEN rev ELSE db.index_revision
             /\ new.usage = IF count = None THEN db.usage ELSE count
             /\ new.usage_revision = IF count = None THEN db.usage_revision ELSE rev
<1> DEFINE ir == IF indexed THEN rev ELSE db.index_revision
           us == IF count = None THEN db.usage ELSE count
           ur == IF count = None THEN db.usage_revision ELSE rev
<1>1. ir \in Int /\ us \in Int /\ ur \in Int
  BY SMTT(60) DEF Redb
<1>2. persist_state(db, rev, time, indexed, count) =
        [db EXCEPT !.revision = rev, !.time = time, !.index_revision = ir, !.usage = us,
                   !.usage_revision = ur]
  BY ZenonT(60) DEF persist_state
<1>3. db = [revision |-> db.revision, time |-> db.time, docs |-> db.docs, index |-> db.index,
            index_revision |-> db.index_revision, usage |-> db.usage,
            usage_revision |-> db.usage_revision, note |-> db.note]
  BY ZenonT(60) DEF Redb
<1> HIDE DEF ir, us, ur
<1>4. persist_state(db, rev, time, indexed, count) =
        [revision |-> rev, time |-> time, docs |-> db.docs, index |-> db.index,
         index_revision |-> ir, usage |-> us, usage_revision |-> ur, note |-> db.note]
  BY ZenonT(60), <1>2, <1>3
<1>5. persist_state(db, rev, time, indexed, count) \in Redb
  BY SMTT(60), <1>1, <1>4 DEF Redb
<1> QED BY SMTT(60), <1>4, <1>5 DEF ir, us, ur

\* The documents stay and the revision and the time are the ones given.
LEMMA PersistFields ==
  \A db \in Redb, rev \in Nat, time \in Nat, count \in Int : \A indexed :
      /\ persist_state(db, rev, time, indexed, count) \in Redb
      /\ persist_state(db, rev, time, indexed, count).revision = rev
      /\ persist_state(db, rev, time, indexed, count).time = time
      /\ persist_state(db, rev, time, indexed, count).docs = db.docs
<1> TAKE db \in Redb, rev \in Nat, time \in Nat, count \in Int
<1> TAKE indexed
<1> QED BY SMTT(60), PersistState

\* What apply_mutations leaves in redb.
LEMMA ApplyMutations ==
  ASSUME NEW db \in Redb, NEW m \in Mutations, NEW indexed \in BOOLEAN
  PROVE  LET new == apply_mutations(db, m, indexed)
         IN  /\ new \in Redb /\ new.revision = db.revision /\ new.time = db.time
             /\ new.docs = ApplyTo(db.docs, m) /\ new.note = db.note
             /\ new.index_revision = db.index_revision
             /\ new.usage = db.usage /\ new.usage_revision = db.usage_revision
             /\ indexed /\ IndexExact(db) => IndexExact(new)
<1> DEFINE new == apply_mutations(db, m, indexed)
           ix == IF indexed THEN IndexAfter(db.index, db.docs, m) ELSE db.index
<1>1. db.index \in [Keys -> SUBSET Values] /\ db.docs \in Contents
  BY ZenonT(60) DEF Redb
<1>2. ix \in [Keys -> SUBSET Values] /\ ApplyTo(db.docs, m) \in Contents
  BY ZenonT(60), <1>1, IndexAfterExact, ApplyToType
<1>3. /\ new \in Redb /\ new.revision = db.revision /\ new.time = db.time
      /\ new.docs = ApplyTo(db.docs, m) /\ new.note = db.note
      /\ new.index_revision = db.index_revision
      /\ new.usage = db.usage /\ new.usage_revision = db.usage_revision
      /\ new.index = ix
  <2> HIDE DEF ix
  <2>1. new = [db EXCEPT !.docs = ApplyTo(db.docs, m), !.index = ix]
    BY ZenonT(60) DEF apply_mutations, ix
  <2> QED BY ZenonT(60), <2>1, <1>2 DEF Redb
<1>4. indexed /\ IndexExact(db) => IndexExact(new)
  <2> SUFFICES ASSUME indexed, IndexExact(db)
               PROVE  IndexExact(new)
    BY ZenonT(60)
  <2> HIDE DEF new
  <2> QED BY SMTT(60), <1>1, <1>3, IndexAfterExact DEF IndexExact
<1> QED BY ZenonT(60), <1>3, <1>4

\* Redb is of its revision after persist_state, if the documents are of the revision
\* it stores and what it stamps is exact.
LEMMA PersistStateOK ==
  ASSUME NEW db \in Redb, NEW rev \in Nat, NEW time \in Nat, NEW indexed \in BOOLEAN,
         NEW count \in Int, NEW h, NEW c \in Nat,
         0..rev \subseteq DOMAIN h, db.docs = h[rev], time <= c, NoteOf(db.note, rev, h),
         indexed => IndexExact(db),
         ~indexed => db.index_revision <= rev /\ (db.index_revision = rev => IndexExact(db)),
         \/ count = Present(db.docs)
         \/ count = None /\ db.usage_revision < rev
  PROVE  LET new == persist_state(db, rev, time, indexed, count)
         IN  DbOK(new, h, c) /\ (IndexExact(db) => IndexExact(new))
<1> DEFINE new == persist_state(db, rev, time, indexed, count)
<1>1. /\ new \in Redb /\ new.revision = rev /\ new.time = time
      /\ new.docs = db.docs /\ new.index = db.index /\ new.note = db.note
      /\ new.index_revision = IF indexed THEN rev ELSE db.index_revision
      /\ new.usage = IF count = None THEN db.usage ELSE count
      /\ new.usage_revision = IF count = None THEN db.usage_revision ELSE rev
  BY SMTT(60), PersistState
<1> HIDE DEF new
<1>2. IndexExact(db) => IndexExact(new)
  BY ZenonT(60), <1>1 DEF IndexExact
<1>3. Present(db.docs) \in Nat
  BY ZenonT(60), PresentNat
<1>4. StampsExact(new)
  BY SMTT(60), <1>1, <1>2, <1>3 DEF StampsExact, None, Redb
<1>5. DocsExact(new, h, c) /\ NoteOf(new.note, new.revision, h)
  BY ZenonT(60), <1>1 DEF DocsExact
<1> QED BY ZenonT(60), <1>1, <1>2, <1>4, <1>5 DEF DbOK, new

\* A record that follows redb's revision takes it to the next one (persist_record, in a
\* commit and in replay_records).
LEMMA PersistRecordOK ==
  ASSUME NEW db \in Redb, NEW record \in Records, NEW indexed \in BOOLEAN,
         NEW count \in Int, NEW h, NEW c \in Nat,
         DbOK(db, h, c), record.revision = db.revision + 1, record.time <= c,
         0..record.revision \subseteq DOMAIN h,
         h[record.revision] = ApplyTo(db.docs, record.mutations),
         indexed => IndexExact(db),
         count = None \/ count = Present(ApplyTo(db.docs, record.mutations))
  PROVE  LET new == persist_record(db, record, indexed, count)
         IN  /\ new \in Redb /\ new.revision = record.revision /\ new.time = record.time
             /\ new.docs = ApplyTo(db.docs, record.mutations)
             /\ DbOK(new, h, c) /\ (indexed => IndexExact(new))
<1> DEFINE new == persist_record(db, record, indexed, count)
           mid == apply_mutations(db, record.mutations, indexed)
<1>1. record.revision \in Nat /\ record.time \in Nat /\ record.mutations \in Mutations
  BY ZenonT(60) DEF Records
<1>2. /\ mid \in Redb /\ mid.revision = db.revision
      /\ mid.docs = ApplyTo(db.docs, record.mutations) /\ mid.note = db.note
      /\ mid.index_revision = db.index_revision /\ mid.usage_revision = db.usage_revision
      /\ indexed => IndexExact(mid)
  BY ZenonT(60), <1>1, ApplyMutations
<1>3. /\ db.revision \in Nat /\ db.index_revision \in Int /\ db.usage_revision \in Int
      /\ db.index_revision <= db.revision /\ db.usage_revision <= db.revision
      /\ NoteOf(db.note, db.revision, h) /\ db.note.revision \in Int
  BY ZenonT(60) DEF DbOK, StampsExact, Redb, Notes
<1> HIDE DEF mid
<1>4. new = persist_state(mid, record.revision, record.time, indexed, count)
  BY ZenonT(60) DEF persist_record, mid
<1>5. NoteOf(mid.note, record.revision, h)
  BY SMTT(60), <1>1, <1>2, <1>3 DEF NoteOf
<1>6. mid.index_revision < record.revision /\ mid.usage_revision < record.revision
  BY SMTT(60), <1>1, <1>2, <1>3
<1>7. mid.index_revision <= record.revision /\ (mid.index_revision # record.revision)
  BY SMTT(60), <1>1, <1>2, <1>3
<1>8. /\ new \in Redb /\ new.revision = record.revision /\ new.time = record.time
      /\ new.docs = mid.docs
      /\ DbOK(new, h, c) /\ (IndexExact(mid) => IndexExact(new))
  <2> DEFINE end == persist_state(mid, record.revision, record.time, indexed, count)
  <2>1. mid.docs = h[record.revision]
    BY ZenonT(60), <1>2
  <2>2. \/ count = Present(mid.docs)
        \/ count = None /\ mid.usage_revision < record.revision
    BY ZenonT(60), <1>2, <1>6
  <2>3. ~indexed => /\ mid.index_revision <= record.revision
                    /\ mid.index_revision = record.revision => IndexExact(mid)
    BY ZenonT(60), <1>7
  <2>4. DbOK(end, h, c) /\ (IndexExact(mid) => IndexExact(end))
    BY ZenonT(60), <1>1, <1>2, <1>5, <2>1, <2>2, <2>3, PersistStateOK
  <2>5. /\ end \in Redb /\ end.revision = record.revision /\ end.time = record.time
        /\ end.docs = mid.docs
    BY SMTT(60), <1>1, <1>2, PersistFields
  <2> HIDE DEF new, end
  <2> QED BY ZenonT(60), <1>4, <2>4, <2>5 DEF end
<1> QED BY ZenonT(60), <1>2, <1>8

(***************************************************************************)
(* History and the journal.                                                 *)
(***************************************************************************)

\* Redb stays of its revision while the history up to it stays.
LEMMA HistoryKept ==
  ASSUME NEW db \in Redb, NEW h, NEW g, NEW c \in Nat, NEW d \in Nat, DbOK(db, h, c), c <= d,
         \A r \in 0..db.revision : r \in DOMAIN g /\ g[r] = h[r]
  PROVE  DbOK(db, g, d)
BY SMTT(60) DEF DbOK, DocsExact, NoteOf, Redb, Notes

\* An empty journal continues anything.
LEMMA EmptyJournal ==
  \A db, h, c : /\ Chain(<<>>, c) /\ Continues(<<>>, db, h)
                /\ Stale(<<>>, db) /\ Kept(<<>>, <<>>, db)
BY SMTT(60) DEF Chain, Continues, Stale, Kept

\* The frames of a prefix are those of the journal.
LEMMA PrefixFrames ==
  ASSUME NEW S, NEW j \in Seq(S), NEW T, NEW s \in Seq(T), IsPrefix(s, j)
  PROVE  /\ s \in Seq(S) /\ Len(s) <= Len(j)
         /\ \A i \in 1..Len(s) : i \in 1..Len(j) /\ s[i] = j[i]
<1>1. Len(s) <= Len(j) /\ SubSeq(j, 1, Len(s)) = s
  BY ZenonT(60) DEF IsPrefix
<1>2. Len(s) \in Nat /\ Len(j) \in Nat
  BY SMTT(60)
<1> QED BY SMTT(60), <1>1, <1>2

\* A prefix of a journal continues what the journal does.
LEMMA PrefixOK ==
  ASSUME NEW j, NEW T, NEW s \in Seq(T), NEW c, IsPrefix(s, j), Chain(j, c)
  PROVE  /\ Chain(s, c)
         /\ \A db, h : Continues(j, db, h) => Continues(s, db, h)
<1>1. j \in Seq(Records)
  BY ZenonT(60) DEF Chain
<1>2. /\ s \in Seq(Records) /\ Len(s) <= Len(j)
      /\ \A i \in 1..Len(s) : i \in 1..Len(j) /\ s[i] = j[i]
  BY ZenonT(60), <1>1, PrefixFrames
<1>3. Len(s) > 0 => 1 \in 1..Len(s) /\ Len(j) > 0
  BY SMTT(60), <1>1, <1>2
<1>4. Chain(s, c)
  <2>1. ASSUME NEW i \in 1..Len(s)
        PROVE  s[i].revision = s[1].revision + i - 1 /\ s[i].time <= c
    <3>1. i \in 1..Len(j) /\ s[i] = j[i] /\ s[1] = j[1]
      BY SMTT(60), <1>2, <1>3
    <3> QED BY ZenonT(60), <3>1 DEF Chain
  <2>2. ASSUME NEW i \in 1..Len(s), NEW k \in 1..Len(s), i < k
        PROVE  s[i].time < s[k].time
    BY ZenonT(60), <1>2, <2>2 DEF Chain
  <2> QED BY ZenonT(60), <1>2, <2>1, <2>2 DEF Chain
<1>5. ASSUME NEW db, NEW h, Continues(j, db, h)
      PROVE  Continues(s, db, h)
  BY ZenonT(60), <1>2, <1>3, <1>5 DEF Continues
<1> QED BY ZenonT(60), <1>4, <1>5

\* A journal whose frames redb has continues it.
LEMMA StaleOK ==
  ASSUME NEW j, NEW c, NEW db \in Redb, Chain(j, c), Stale(j, db)
  PROVE  \A h : Continues(j, db, h)
<1>1. j \in Seq(Records)
  BY ZenonT(60) DEF Chain
<1>2. \A i \in 1..Len(j) : j[i] \in Records
  BY SMTT(60), <1>1
<1>3. db.revision \in Nat /\ \A i \in 1..Len(j) : j[i].revision \in Nat
  BY ZenonT(60), <1>2 DEF Redb, Records
<1>4. Len(j) > 0 => 1 \in 1..Len(j)
  BY SMTT(60), <1>1
<1> QED BY SMTT(60), <1>3, <1>4 DEF Continues, Stale

\* A frame is never past the last one, nor before the first.
LEMMA ChainBounds ==
  ASSUME NEW j, NEW c, Chain(j, c)
  PROVE  /\ j \in Seq(Records) /\ Len(j) \in Nat
         /\ \A i \in 1..Len(j) : /\ j[i] \in Records /\ j[i].revision \in Nat /\ j[i].time \in Nat
                                 /\ j[i].mutations \in Mutations
                                 /\ j[i].revision <= j[Len(j)].revision
                                 /\ j[1].revision <= j[i].revision
<1>1. j \in Seq(Records) /\ Len(j) \in Nat
  BY SMTT(60) DEF Chain
<1>2. \A i \in 1..Len(j) : j[i] \in Records
  BY SMTT(60), <1>1
<1>3. \A i \in 1..Len(j) : /\ j[i].revision \in Nat /\ j[i].time \in Nat
                           /\ j[i].mutations \in Mutations
  BY ZenonT(60), <1>2 DEF Records
<1>4. ASSUME NEW i \in 1..Len(j)
      PROVE  j[i].revision <= j[Len(j)].revision /\ j[1].revision <= j[i].revision
  <2>1. 1 \in 1..Len(j) /\ Len(j) \in 1..Len(j)
    BY SMTT(60), <1>1
  <2>2. /\ j[i].revision = j[1].revision + i - 1
        /\ j[Len(j)].revision = j[1].revision + Len(j) - 1
    BY ZenonT(60), <2>1 DEF Chain
  <2> QED BY SMTT(60), <1>3, <2>1, <2>2
<1> QED BY ZenonT(60), <1>1, <1>2, <1>3, <1>4

\* A journal is a chain still when time has passed.
LEMMA ChainLater ==
  ASSUME NEW j, NEW c \in Nat, NEW d \in Nat, Chain(j, c), c <= d
  PROVE  Chain(j, d)
<1>1. \A i \in 1..Len(j) : j[i].time \in Nat
  BY ZenonT(60), ChainBounds
<1> QED BY SMTT(60), <1>1 DEF Chain

\* The frame of the next commit makes a longer chain (Journal::append).
LEMMA AppendChain ==
  ASSUME NEW j, NEW c \in Nat, NEW r \in Records, Chain(j, c), r.time = c + 1,
         Len(j) > 0 => r.revision = j[Len(j)].revision + 1
  PROVE  Chain(Append(j, r), c + 1)
<1> DEFINE a == Append(j, r)
<1>1. /\ j \in Seq(Records) /\ Len(j) \in Nat
      /\ \A i \in 1..Len(j) : j[i].revision \in Nat /\ j[i].time \in Nat
  BY ZenonT(60), ChainBounds
<1>2. /\ a \in Seq(Records) /\ Len(a) = Len(j) + 1 /\ a[Len(j) + 1] = r
      /\ \A i \in 1..Len(j) : a[i] = j[i]
  BY SMTT(60), <1>1
<1>3. r.revision \in Nat /\ r.time \in Nat
  BY ZenonT(60) DEF Records
<1> HIDE DEF a
<1>4. ASSUME NEW i \in 1..Len(a)
      PROVE  a[i].revision = a[1].revision + i - 1 /\ a[i].time <= c + 1
  <2>1. CASE i \in 1..Len(j)
    <3>1. 1 \in 1..Len(j)
      BY SMTT(60), <1>1, <2>1
    <3>2. j[i].revision = j[1].revision + i - 1 /\ j[i].time <= c
      BY ZenonT(60), <2>1 DEF Chain
    <3> QED BY SMTT(60), <1>1, <1>2, <2>1, <3>1, <3>2
  <2>2. CASE i = Len(j) + 1 /\ Len(j) > 0
    <3>1. 1 \in 1..Len(j) /\ Len(j) \in 1..Len(j)
      BY SMTT(60), <1>1, <2>2
    <3>2. j[Len(j)].revision = j[1].revision + Len(j) - 1
      BY ZenonT(60), <3>1 DEF Chain
    <3>3. a[i] = r /\ a[1] = j[1]
      BY ZenonT(60), <1>2, <2>2, <3>1
    <3>4. j[1].revision \in Nat /\ j[Len(j)].revision \in Nat
      BY ZenonT(60), <1>1, <3>1
    <3>5. r.revision = j[Len(j)].revision + 1
      BY ZenonT(60), <2>2
    <3>6. r.revision = j[1].revision + (Len(j) + 1) - 1
      <4>1. PICK x \in Nat, y \in Nat, z \in Nat :
               x = j[1].revision /\ y = j[Len(j)].revision /\ z = Len(j)
        BY ZenonT(60), <1>1, <3>4
      <4>2. y = x + z - 1 /\ r.revision = y + 1
        BY ZenonT(60), <3>2, <3>5, <4>1
      <4>3. y + 1 = x + (z + 1) - 1
        BY ONLY SMTT(60), <4>2, x \in Nat, y \in Nat, z \in Nat
      <4> QED BY ZenonT(60), <4>1, <4>2, <4>3
    <3>7. r.time <= c + 1
      BY SMTT(60), <1>3
    <3> QED BY ZenonT(60), <2>2, <3>3, <3>6, <3>7
  <2>3. CASE i = Len(j) + 1 /\ Len(j) = 0
    BY SMTT(60), <1>2, <1>3, <2>3
  <2> QED BY SMTT(60), <1>1, <1>2, <2>1, <2>2, <2>3
<1>5. ASSUME NEW i \in 1..Len(a), NEW k \in 1..Len(a), i < k
      PROVE  a[i].time < a[k].time
  <2>1. i \in 1..Len(j)
    BY SMTT(60), <1>1, <1>2, <1>5
  <2>2. CASE k \in 1..Len(j)
    BY ZenonT(60), <1>2, <1>5, <2>1, <2>2 DEF Chain
  <2>3. CASE k = Len(j) + 1
    <3>1. j[i].time <= c
      BY ZenonT(60), <2>1 DEF Chain
    <3> QED BY SMTT(60), <1>1, <1>2, <2>1, <2>3, <3>1
  <2> QED BY SMTT(60), <1>1, <1>2, <2>2, <2>3
<1> QED BY ZenonT(60), <1>2, <1>4, <1>5 DEF Chain, a

\* A frame that is appended leaves the synced ones a prefix.
LEMMA AppendKept ==
  ASSUME NEW j, NEW s, NEW c, NEW db, NEW r \in Records, Chain(j, c), Chain(s, c), Kept(j, s, db)
  PROVE  Kept(Append(j, r), s, db)
<1>1. j \in Seq(Records) /\ s \in Seq(Records)
  BY ZenonT(60) DEF Chain
<1>2. ASSUME IsPrefix(s, j)
      PROVE  IsPrefix(s, Append(j, r))
  <2>1. Len(s) <= Len(j) /\ SubSeq(j, 1, Len(s)) = s
    BY ZenonT(60), <1>2 DEF IsPrefix
  <2>2. SubSeq(Append(j, r), 1, Len(s)) = SubSeq(j, 1, Len(s))
    BY SMTT(60), <1>1, <2>1
  <2>3. Len(s) <= Len(Append(j, r))
    BY SMTT(60), <1>1, <2>1
  <2> QED BY ZenonT(60), <2>1, <2>2, <2>3 DEF IsPrefix
<1> QED BY ZenonT(60), <1>2 DEF Kept

\* A commit that is planned does not disturb what the journal's frames are to leave.
LEMMA ContinuesLater ==
  ASSUME NEW j, NEW c, NEW db, NEW h, NEW g, NEW n \in Nat, Chain(j, c), Continues(j, db, h),
         \A i \in 1..Len(j) : j[i].revision <= n,
         db \in Redb,
         \A r \in 0..n : r \in DOMAIN g /\ g[r] = h[r]
  PROVE  Continues(j, db, g)
<1>1. \A i \in 1..Len(j) : j[i].revision \in Nat
  BY ZenonT(60), ChainBounds
<1>2. ASSUME NEW i \in 1..Len(j), j[i].revision > db.revision
      PROVE  /\ j[i].time > db.time
             /\ 0..j[i].revision \subseteq DOMAIN g
             /\ g[j[i].revision] = ApplyTo(g[j[i].revision - 1], j[i].mutations)
  <2>1. db.revision \in Nat
    BY ZenonT(60) DEF Redb
  <2>2. j[i].revision \in 0..n /\ j[i].revision - 1 \in 0..n
    BY SMTT(60), <1>1, <1>2, <2>1
  <2>3. /\ j[i].time > db.time
        /\ h[j[i].revision] = ApplyTo(h[j[i].revision - 1], j[i].mutations)
    BY ZenonT(60), <1>2 DEF Continues
  <2> QED BY SMTT(60), <1>1, <2>2, <2>3
<1> QED BY ZenonT(60), <1>2 DEF Continues

\* The frame of the next commit continues redb as the earlier frames do.
LEMMA AppendContinues ==
  ASSUME NEW j, NEW c \in Nat, NEW db \in Redb, NEW h, NEW r \in Records,
         Chain(j, c), Continues(j, db, h), db.time <= c, r.time = c + 1,
         0..r.revision \subseteq DOMAIN h, r.revision > 0,
         h[r.revision] = ApplyTo(h[r.revision - 1], r.mutations),
         Len(j) = 0 => r.revision <= db.revision + 1
  PROVE  Continues(Append(j, r), db, h)
<1> DEFINE a == Append(j, r)
<1>1. /\ j \in Seq(Records) /\ Len(j) \in Nat
      /\ \A i \in 1..Len(j) : j[i].revision \in Nat /\ j[i].time \in Nat
  BY ZenonT(60), ChainBounds
<1>2. /\ Len(a) = Len(j) + 1 /\ a[Len(j) + 1] = r
      /\ \A i \in 1..Len(j) : a[i] = j[i]
  BY SMTT(60), <1>1
<1>3. r.revision \in Nat /\ r.time \in Nat /\ db.time \in Nat /\ db.revision \in Nat
  BY ZenonT(60) DEF Records, Redb
<1> HIDE DEF a
<1>4. a[1].revision <= db.revision + 1
  BY SMTT(60), <1>1, <1>2 DEF Continues
<1>5. ASSUME NEW i \in 1..Len(a), a[i].revision > db.revision
      PROVE  /\ a[i].time > db.time
             /\ 0..a[i].revision \subseteq DOMAIN h
             /\ h[a[i].revision] = ApplyTo(h[a[i].revision - 1], a[i].mutations)
  <2>1. CASE i \in 1..Len(j)
    BY ZenonT(60), <1>2, <1>5, <2>1 DEF Continues
  <2>2. CASE i = Len(j) + 1
    BY SMTT(60), <1>2, <1>3, <2>2
  <2> QED BY SMTT(60), <1>1, <1>2, <2>1, <2>2
<1> QED BY ZenonT(60), <1>4, <1>5 DEF Continues, a

\* Redb contents that are ahead and that the journal still continues may take the
\* place of the ones the files were for: a durable write, or a replayed record.
LEMMA FilesOnto ==
  ASSUME NEW j, NEW s, NEW db \in Redb, NEW new \in Redb, NEW h, NEW c,
         FilesOK(j, s, db, h, c), Continues(j, new, h), db.revision <= new.revision
  PROVE  /\ FilesOK(j, s, new, h, c)
         /\ \A x : \A r \in Nat : Reaches(x, db, r) => Reaches(x, new, r)
<1>1. Chain(j, c) /\ Chain(s, c) /\ Kept(j, s, db)
  BY ZenonT(60) DEF FilesOK
<1>2. \A i \in 1..Len(s) : s[i].revision \in Nat
  BY ZenonT(60), <1>1, ChainBounds
<1>3. db.revision \in Nat /\ new.revision \in Nat
  BY ZenonT(60) DEF Redb
<1>4. Stale(s, db) => Stale(s, new)
  BY SMTT(60), <1>2, <1>3 DEF Stale
<1>5. \A x : \A r \in Nat : Reaches(x, db, r) => Reaches(x, new, r)
  BY SMTT(60), <1>3 DEF Reaches
<1> QED BY ZenonT(60), <1>1, <1>4, <1>5 DEF FilesOK, Kept

\* A record that has been replayed: the journal continues what it left.
LEMMA ReplayContinues ==
  ASSUME NEW j, NEW db \in Redb, NEW new \in Redb, NEW h, NEW c, NEW p \in 1..Len(j),
         Chain(j, c), Continues(j, db, h), j[p].revision > db.revision,
         new.revision = j[p].revision, new.time = j[p].time
  PROVE  Continues(j, new, h)
<1>1. /\ j \in Seq(Records) /\ Len(j) \in Nat
      /\ \A i \in 1..Len(j) : j[i].revision \in Nat /\ j[i].time \in Nat /\ j[1].revision <= j[i].revision
  BY ZenonT(60), ChainBounds
<1>2. db.revision \in Nat
  BY ZenonT(60) DEF Redb
<1>3. 1 \in 1..Len(j)
  BY SMTT(60), <1>1
<1>4. j[1].revision <= new.revision + 1
  <2>1. j[1].revision <= j[p].revision /\ j[1].revision \in Nat /\ j[p].revision \in Nat
    BY ZenonT(60), <1>1, <1>3
  <2> QED BY SMTT(60), <2>1
<1>5. ASSUME NEW i \in 1..Len(j), j[i].revision > new.revision
      PROVE  /\ j[i].time > new.time
             /\ 0..j[i].revision \subseteq DOMAIN h
             /\ h[j[i].revision] = ApplyTo(h[j[i].revision - 1], j[i].mutations)
  <2>1. PICK x \in Nat : x = j[1].revision
    BY ZenonT(60), <1>1, <1>3
  <2>2. j[i].revision = x + i - 1 /\ j[p].revision = x + p - 1
    BY ZenonT(60), <2>1 DEF Chain
  <2>3. p < i
    BY SMTT(60), <1>1, <1>5, <2>2
  <2>4. j[p].time < j[i].time
    BY ZenonT(60), <2>3 DEF Chain
  <2>5. j[i].revision > db.revision
    BY SMTT(60), <1>1, <1>2, <1>5
  <2> QED BY ZenonT(60), <1>1, <2>4, <2>5 DEF Continues
<1> QED BY ZenonT(60), <1>4, <1>5 DEF Continues

\* The frame replay comes to is the next one after redb's revision, or one it has.
LEMMA ReplayFollows ==
  ASSUME NEW j, NEW db \in Redb, NEW h, NEW c, NEW p \in 1..Len(j),
         Chain(j, c), Continues(j, db, h),
         \A i \in 1..(p - 1) : j[i].revision <= db.revision,
         ~ j[p].revision <= db.revision
  PROVE  j[p].revision = db.revision + 1 /\ j[p].time > db.time
<1>1. /\ Len(j) \in Nat
      /\ \A i \in 1..Len(j) : j[i].revision \in Nat /\ j[i].time \in Nat
  BY ZenonT(60), ChainBounds
<1>2. db.revision \in Nat
  BY ZenonT(60) DEF Redb
<1>3. j[p].revision > db.revision
  BY SMTT(60), <1>1, <1>2
<1>4. j[p].revision <= db.revision + 1
  <2>1. CASE p = 1
    BY SMTT(60), <1>1, <2>1 DEF Continues
  <2>2. CASE p > 1
    <3>1. p - 1 \in 1..Len(j) /\ p - 1 \in 1..(p - 1) /\ 1 \in 1..Len(j)
      BY SMTT(60), <1>1, <2>2
    <3>2. PICK x \in Nat : x = j[1].revision
      BY ZenonT(60), <1>1, <3>1
    <3>3. PICK q \in 1..Len(j) : q = p - 1
      BY ZenonT(60), <3>1
    <3>4. j[q].revision = x + q - 1 /\ j[p].revision = x + p - 1
      BY ZenonT(60), <3>2 DEF Chain
    <3>5. j[q].revision <= db.revision
      BY ZenonT(60), <3>1, <3>3
    <3> QED BY SMTT(60), <1>1, <1>2, <3>3, <3>4, <3>5
  <2> QED BY SMTT(60), <1>1, <2>1, <2>2
<1> QED BY SMTT(60), <1>1, <1>2, <1>3, <1>4 DEF Continues

\* What a power cut may leave of the journal reaches what was synced, and continues
\* the redb file; or it ends in a torn frame.
LEMMA SurvivorOK ==
  ASSUME TypeOK, JournalOK, NEW x \in Survivors
  PROVE  /\ x \in Frames
         /\ \/ Torn(x)
            \/ /\ FilesOK(x, x, durable, history, clock)
               /\ Reaches(x, durable, safe)
<1>1. /\ Chain(journal, clock) /\ Continues(journal, durable, history) /\ Chain(synced, clock)
      /\ Kept(journal, synced, durable) /\ Reaches(synced, durable, safe)
  BY ZenonT(60) DEF JournalOK, FilesOK
<1>2. journal \in Seq(Records) /\ synced \in Seq(Records) /\ Len(journal) \in Nat /\ Len(synced) \in Nat
  BY SMTT(60), <1>1 DEF Chain
<1>3. durable \in Redb /\ journal \in Frames /\ synced \in Frames /\ safe \in Nat
  BY ZenonT(60) DEF TypeOK
<1>4. ASSUME NEW y \in Seq(Records)
      PROVE  y \in Frames /\ IsPrefix(y, y)
  BY SMTT(60) DEF Frames, IsPrefix
<1>5. CASE IsPrefix(synced, journal)
  <2> DEFINE kept == {SubSeq(journal, 1, n) : n \in Len(synced)..Len(journal)}
  <2>1. ASSUME NEW n \in Len(synced)..Len(journal), NEW y, y = SubSeq(journal, 1, n)
        PROVE  /\ y \in Seq(Records) /\ IsPrefix(y, journal) /\ y \in Frames
               /\ FilesOK(y, y, durable, history, clock)
               /\ Reaches(y, durable, safe)
    <3>1. n \in 0..Len(journal)
      BY SMTT(60), <1>2
    <3>2. /\ y \in Seq(Records) /\ Len(y) = n
          /\ \A i \in 1..n : i \in 1..Len(journal) /\ y[i] = journal[i]
      BY SMTT(60), <1>2, <2>1, <3>1
    <3>3. IsPrefix(y, journal)
      BY SMTT(60), <2>1, <3>1, <3>2 DEF IsPrefix
    <3>4. Chain(y, clock) /\ Continues(y, durable, history)
      BY ZenonT(60), <1>1, <3>2, <3>3, PrefixOK
    <3>5. FilesOK(y, y, durable, history, clock) /\ y \in Frames
      BY ZenonT(60), <1>4, <3>2, <3>4 DEF FilesOK, Kept
    <3>6. Reaches(y, durable, safe)
      <4>1. CASE safe <= durable.revision
        BY ZenonT(60), <4>1 DEF Reaches
      <4>2. CASE Len(synced) > 0 /\ safe <= synced[Len(synced)].revision
        <5>1. /\ Len(synced) \in 1..Len(journal) /\ synced[Len(synced)] = journal[Len(synced)]
              /\ n \in 1..Len(journal) /\ 1 \in 1..Len(journal)
          BY SMTT(60), <1>2, <1>5, <4>2, PrefixFrames
        <5>2. PICK v \in Nat : v = journal[1].revision
          BY ZenonT(60), <1>1, <5>1, ChainBounds
        <5>3. PICK l \in 1..Len(journal) : l = Len(synced)
          BY ZenonT(60), <5>1
        <5>4. journal[l].revision = v + l - 1 /\ journal[n].revision = v + n - 1
          BY ZenonT(60), <1>1, <5>1, <5>2 DEF Chain
        <5>5. l <= n /\ Len(y) > 0 /\ y[Len(y)] = journal[n]
          BY SMTT(60), <1>2, <3>2, <5>1, <5>3
        <5>6. safe <= v + l - 1
          BY ZenonT(60), <4>2, <5>1, <5>3, <5>4
        <5>7. safe <= journal[n].revision
          BY SMTT(60), <1>2, <1>3, <5>1, <5>3, <5>4, <5>5, <5>6
        <5> QED BY ZenonT(60), <5>5, <5>7 DEF Reaches
      <4> QED BY ZenonT(60), <1>1, <4>1, <4>2 DEF Reaches
    <3> QED BY ZenonT(60), <3>2, <3>3, <3>5, <3>6
  <2>2. CASE x \in kept
    <3>1. PICK n \in Len(synced)..Len(journal) : x = SubSeq(journal, 1, n)
      BY ZenonT(60), <2>2
    <3> QED BY ZenonT(60), <2>1, <3>1
  <2>3. ASSUME NEW k \in kept \ {journal}, NEW torn \in TornFrames, x = Append(k, torn)
        PROVE  x \in Frames /\ Torn(x)
    <3>1. PICK n \in Len(synced)..Len(journal) : k = SubSeq(journal, 1, n)
      OBVIOUS
    <3>2. k \in Frames
      BY ZenonT(60), <2>1, <3>1
    <3>3. /\ x \in Frames /\ Len(k) + 1 \in DOMAIN x /\ x[Len(k) + 1] = torn
      BY SMTT(60), <2>3, <3>2 DEF Frames
    <3> QED BY ZenonT(60), <3>3 DEF Torn
  <2>4. x \in kept \/ \E k \in kept \ {journal}, torn \in TornFrames : x = Append(k, torn)
    BY SMTT(60), <1>5 DEF Survivors
  <2> HIDE DEF kept
  <2> QED BY ZenonT(60), <2>2, <2>3, <2>4
<1>6. CASE ~IsPrefix(synced, journal)
  <2>1. Stale(synced, durable)
    BY ZenonT(60), <1>1, <1>6 DEF Kept
  <2>2. x = journal \/ x = synced
    BY SMTT(60), <1>6 DEF Survivors
  <2>3. Continues(synced, durable, history)
    BY ZenonT(60), <1>1, <1>3, <2>1, StaleOK
  <2>4. safe <= durable.revision
    <3>1. Len(synced) > 0 => /\ synced[Len(synced)].revision \in Nat
                             /\ synced[Len(synced)].revision <= durable.revision
      BY SMTT(60), <1>1, <1>2, <2>1, ChainBounds DEF Stale
    <3>2. durable.revision \in Nat
      BY ZenonT(60), <1>3 DEF Redb
    <3> QED BY SMTT(60), <1>1, <1>3, <3>1, <3>2 DEF Reaches
  <2>5. FilesOK(x, x, durable, history, clock) /\ x \in Frames
    BY ZenonT(60), <1>1, <1>2, <1>4, <2>2, <2>3 DEF FilesOK, Kept
  <2> QED BY ZenonT(60), <2>4, <2>5 DEF Reaches
<1> QED BY ZenonT(60), <1>5, <1>6

(***************************************************************************)
(* The invariant holds of an empty directory.                               *)
(***************************************************************************)

\* DiskStore::open on an empty directory: revision 0, no document, no journal.
LEMMA InitInv == Init => IInv
<1> SUFFICES ASSUME Init
             PROVE  IInv
  OBVIOUS
<1>1. NoDocuments \in Contents
  BY ZenonT(60) DEF NoDocuments, Contents
<1>2. /\ EmptyRedb \in Redb /\ EmptyRedb.revision = 0 /\ EmptyRedb.time = 0
      /\ EmptyRedb.docs = NoDocuments /\ EmptyRedb.index_revision = -1
      /\ EmptyRedb.usage_revision = -1 /\ EmptyRedb.note.revision = -1
  BY SMTT(60), <1>1 DEF EmptyRedb, Redb, Notes, None
<1>3. /\ history = [r \in {0} |-> NoDocuments] /\ clock = 0 /\ owed = 0 /\ safe = 0
      /\ visible = EmptyRedb /\ durable = EmptyRedb /\ staged = EmptyRedb
      /\ journal = <<>> /\ synced = <<>> /\ pending = <<>> /\ pc = "down"
  BY ZenonT(60) DEF Init
<1>4. DbOK(EmptyRedb, history, clock)
  BY SMTT(60), <1>2, <1>3 DEF DbOK, DocsExact, StampsExact, NoteOf
<1>5. TypeOK
  <2>1. options \in [journal : BOOLEAN, durability : {"PerCommit", "WriteBehind"}, field_indexes : BOOLEAN]
    BY SMTT(60), OptionsAssumption DEF Init, Fresh
  <2>2. /\ history \in [DOMAIN history -> Contents] /\ DOMAIN history \subseteq Nat
    BY SMTT(60), <1>1, <1>3
  <2>3. <<>> \in Frames
    BY SMTT(60) DEF Frames
  <2>4. pc \in Up \cup Opening \cup {"down", "corrupt"}
    BY ZenonT(60), <1>3
  <2>5. /\ requires_restart \in BOOLEAN /\ unflushed \in BOOLEAN /\ redb_failed \in BOOLEAN
        /\ serving \in BOOLEAN /\ index_valid \in BOOLEAN /\ draft \subseteq Notes
    BY ZenonT(60) DEF Init
  <2>6. revision \in Nat /\ last_commit_time \in Nat /\ usage \in Int
    BY SMTT(60) DEF Init
  <2> QED BY ZenonT(60), <1>2, <1>3, <2>1, <2>2, <2>3, <2>4, <2>5, <2>6 DEF TypeOK
<1>6. JournalOK
  BY SMTT(60), <1>2, <1>3, EmptyJournal DEF JournalOK, FilesOK, Reaches
<1>7. pc \notin Up /\ pc \notin Opening /\ pc \notin {"corrupt", "append", "bulk"}
  BY ZenonT(60), <1>3 DEF Up, Opening
<1>8. DownInv
  BY ZenonT(60), <1>3, <1>6 DEF DownInv, Init
<1>9. OpeningInv /\ UpInv /\ RunningInv /\ AppendInv /\ BulkInv
  BY ZenonT(60), <1>7 DEF OpeningInv, UpInv, RunningInv, AppendInv, BulkInv
<1> QED BY ZenonT(60), <1>3, <1>4, <1>5, <1>8, <1>9 DEF IInv

(***************************************************************************)
(* What is left to show of a step.                                          *)
(***************************************************************************)

\* What remains to be shown of a step of the running process.
LEMMA UpStep ==
  ASSUME pc' \in Up, TypeOK', DbOK(visible', history', clock'), DbOK(durable', history', clock'),
         UpInv', RunningInv', pc' # "append" \/ AppendInv', pc' # "bulk" \/ BulkInv'
  PROVE  IInv'
<1>1. pc' \notin Opening /\ pc' \notin {"down", "corrupt"}
  BY ZenonT(60) DEF Up, Opening
<1> QED BY ZenonT(60), <1>1 DEF IInv, DownInv, OpeningInv, AppendInv, BulkInv

\* What remains to be shown of a step of an open.
LEMMA OpenStep ==
  ASSUME pc' \in Opening, TypeOK', DbOK(durable', history', clock'), OpeningInv',
         visible' = durable', draft' = {}, ~serving', ~requires_restart', ~redb_failed', ~unflushed'
  PROVE  IInv'
<1>1. pc' \notin Up /\ pc' \notin {"down", "corrupt", "append", "bulk"}
  BY ZenonT(60) DEF Up, Opening
<1> QED BY ZenonT(60), <1>1 DEF IInv, DownInv, UpInv, RunningInv, AppendInv, BulkInv

\* What remains to be shown of a step that leaves the process dead.
LEMMA DownStep ==
  ASSUME pc' \in {"down", "corrupt"}, TypeOK', DbOK(durable', history', clock'), DownInv'
  PROVE  IInv'
<1>1. pc' \notin Up /\ pc' \notin Opening /\ pc' \notin {"append", "bulk"}
  BY ZenonT(60) DEF Up, Opening
<1> QED BY ZenonT(60), <1>1 DEF IInv, DownInv, OpeningInv, UpInv, RunningInv, AppendInv, BulkInv

(***************************************************************************)
(* The steps of a running process other than a commit: the flusher, the     *)
(* checkpoints, notes and bulk loads.                                       *)
(***************************************************************************)


\* FlushBegin: the flusher has the mutex.
LEMMA FlushBeginStep == IInv /\ FlushBegin => IInv'
<1> SUFFICES ASSUME IInv, FlushBegin
             PROVE  IInv'
  OBVIOUS
<1>1. /\ pc = "idle" /\ pc' = "flush" /\ ~requires_restart
      /\ UNCHANGED <<memory, flags, files, pending, index_valid, staged, clock, ghosts>>
  BY ZenonT(60) DEF FlushBegin, Idle
<1>2. pc \in Up /\ pc' \in Up
  BY ZenonT(60), <1>1 DEF Up
<1>3. TypeOK'
  BY ZenonT(60), <1>1, <1>2 DEF IInv, TypeOK, memory, flags, files, ghosts
<1>4. UpInv'
  BY ZenonT(60), <1>1, <1>2 DEF IInv, UpInv, JournalOK, memory, flags, files, ghosts
<1>5. RunningInv'
  BY ZenonT(60), <1>1, <1>2 DEF IInv, RunningInv, Settled, Following, memory, flags, files, ghosts
<1> QED BY ZenonT(60), <1>1, <1>2, <1>3, <1>4, <1>5, UpStep DEF IInv, memory, flags, files, ghosts

\* A synced journal is a prefix of itself.
LEMMA SelfKept ==
  ASSUME NEW j, NEW c, Chain(j, c)
  PROVE  \A db : Kept(j, j, db)
<1>1. j \in Seq(Records)
  BY ZenonT(60) DEF Chain
<1>2. IsPrefix(j, j)
  BY SMTT(60), <1>1 DEF IsPrefix
<1> QED BY ZenonT(60), <1>2 DEF Kept

\* While the store is not fenced the journal reaches the revision in memory.
LEMMA RunningReaches ==
  ASSUME TypeOK, Settled, options.journal, NEW r \in Nat, r <= revision
  PROVE  Reaches(journal, durable, r)
<1>1. revision \in Nat /\ durable.revision \in Nat /\ Following \in Nat /\ Following >= revision
  BY SMTT(60) DEF TypeOK, Redb, Following
<1>2. CASE Len(journal) > 0
  BY SMTT(60), <1>1, <1>2 DEF Reaches, Settled
<1>3. CASE ~(Len(journal) > 0)
  BY ZenonT(60), <1>1, <1>3 DEF Reaches, Settled
<1> QED BY ZenonT(60), <1>2, <1>3

\* FlushSync: every frame written is on stable storage.
LEMMA FlushSyncStep == IInv /\ FlushSync => IInv'
<1> SUFFICES ASSUME IInv, FlushSync
             PROVE  IInv'
  OBVIOUS
<1>1. /\ pc = "flush" /\ pc' = "flush_synced"
      /\ synced' = IF options.journal THEN journal ELSE synced
      /\ UNCHANGED <<memory, flags, visible, durable, journal, pending, index_valid, staged, clock, ghosts>>
  BY ZenonT(60) DEF FlushSync
<1>2. pc \in Up /\ pc' \in Up
  BY ZenonT(60), <1>1 DEF Up
<1>3. TypeOK'
  BY ZenonT(60), <1>1, <1>2 DEF IInv, TypeOK, memory, flags, ghosts
<1>4. JournalOK' /\ (journal = <<>> /\ synced = <<>> => synced' = <<>>)
  <2>1. JournalOK /\ ~requires_restart /\ Settled /\ safe <= revision /\ safe \in Nat /\ TypeOK
    BY ZenonT(60), <1>1, <1>2 DEF IInv, UpInv, RunningInv, TypeOK
  <2>2. CASE options.journal
    <3>1. Reaches(journal, durable, safe)
      BY ZenonT(60), <2>1, <2>2, RunningReaches
    <3>2. Kept(journal, journal, durable)
      BY ZenonT(60), <2>1, SelfKept DEF JournalOK, FilesOK
    <3> QED BY ZenonT(60), <1>1, <2>1, <2>2, <3>1, <3>2 DEF JournalOK, FilesOK, flags, ghosts
  <2>3. CASE ~options.journal
    BY ZenonT(60), <1>1, <2>1, <2>3 DEF JournalOK, flags, ghosts
  <2> QED BY ZenonT(60), <2>2, <2>3
<1>5. UpInv'
  BY ZenonT(60), <1>1, <1>2, <1>4 DEF IInv, UpInv, memory, flags, ghosts
<1>6. RunningInv'
  BY ZenonT(60), <1>1, <1>2 DEF IInv, RunningInv, Settled, Following, memory, flags, ghosts
<1> QED BY ZenonT(60), <1>1, <1>2, <1>3, <1>5, <1>6, UpStep DEF IInv, memory, flags, ghosts

\* Journal::checkpoint in the running store: redb has every frame that goes.
LEMMA CheckpointStep ==
  ASSUME IInv, NEW at \in {"percommit", "flush_persisted"}, NEW next, Truncate(at, next),
         options.journal,
         next = IF at = "percommit" THEN "percommit_truncated" ELSE "flush_truncated"
  PROVE  IInv'
<1>1. /\ pc = at /\ journal' = <<>> /\ pc' = next
      /\ UNCHANGED <<memory, flags, visible, durable, synced, pending, index_valid, staged, clock, ghosts>>
  BY ZenonT(60) DEF Truncate
<1>2. pc \in Up /\ pc' \in Up /\ pc' \notin {"append", "bulk"}
  BY ZenonT(60), <1>1 DEF Up
<1>3. TypeOK'
  <2>1. <<>> \in Frames
    BY SMTT(60) DEF Frames
  <2> QED BY ZenonT(60), <1>1, <1>2, <2>1 DEF IInv, TypeOK, memory, flags, ghosts
<1>4. /\ JournalOK /\ ~requires_restart /\ Settled /\ safe <= revision /\ owed <= revision
      /\ durable.revision = revision /\ Chain(journal, clock) /\ durable \in Redb
      /\ revision \in Nat /\ Chain(synced, clock) /\ TypeOK
  BY ZenonT(60), <1>1, <1>2 DEF IInv, UpInv, RunningInv, JournalOK, FilesOK, TypeOK
<1>5. Stale(synced, durable)
  <2>1. CASE IsPrefix(synced, journal)
    <3>1. /\ Len(synced) <= Len(journal) /\ journal \in Seq(Records) /\ synced \in Seq(Records)
          /\ \A i \in 1..Len(synced) : i \in 1..Len(journal) /\ synced[i] = journal[i]
      BY SMTT(60), <1>4, <2>1, PrefixFrames DEF Chain
    <3>2. Following = revision
      BY SMTT(60), <1>1, <1>4 DEF Following
    <3>3. \A i \in 1..Len(journal) : journal[i].revision <= journal[Len(journal)].revision
      BY ZenonT(60), <1>4, ChainBounds
    <3>4. ASSUME NEW i \in 1..Len(synced)
          PROVE  synced[i].revision <= durable.revision
      <4>1. Len(journal) > 0
        BY SMTT(60), <3>1
      <4>2. journal[Len(journal)].revision = revision
        BY ZenonT(60), <1>4, <3>2, <4>1 DEF Settled
      <4> QED BY ZenonT(60), <1>4, <3>1, <3>3, <4>2
    <3> QED BY ZenonT(60), <3>4 DEF Stale
  <2>2. CASE Stale(synced, durable)
    BY ZenonT(60), <2>2
  <2> QED BY ZenonT(60), <1>4, <2>1, <2>2 DEF JournalOK, FilesOK, Kept
<1>6. JournalOK'
  <2>1. Chain(<<>>, clock) /\ Continues(<<>>, durable, history)
    BY ZenonT(60), EmptyJournal
  <2>2. FilesOK(<<>>, synced, durable, history, clock)
    BY ZenonT(60), <1>4, <1>5, <2>1 DEF FilesOK, Kept
  <2>3. Reaches(<<>>, durable, owed)
    BY ZenonT(60), <1>4 DEF Reaches
  <2> QED BY ZenonT(60), <1>1, <1>4, <2>2, <2>3 DEF JournalOK, flags, ghosts
<1>7. Continues(<<>>, visible, history)
  BY ZenonT(60), EmptyJournal
<1>8. UpInv'
  BY ZenonT(60), <1>1, <1>2, <1>4, <1>6, <1>7 DEF IInv, UpInv, memory, flags, ghosts
<1>9. Settled'
  BY SMTT(60), <1>1, <1>4 DEF Settled, Following, memory, flags, ghosts
<1>10. RunningInv'
  BY ZenonT(60), <1>1, <1>2, <1>4, <1>9 DEF IInv, RunningInv, memory, flags, ghosts
<1> QED BY ZenonT(60), <1>1, <1>2, <1>3, <1>8, <1>10, UpStep DEF IInv, memory, flags, ghosts

\* The checkpoints of a commit and of a flush.
LEMMA TruncateStep == IInv /\ (PerCommitTruncate \/ FlushTruncate) => IInv'
<1> SUFFICES ASSUME IInv, PerCommitTruncate \/ FlushTruncate
             PROVE  IInv'
  OBVIOUS
<1>1. CASE PerCommitTruncate
  <2>1. pc = "percommit" /\ Truncate("percommit", "percommit_truncated")
    BY ZenonT(60), <1>1 DEF PerCommitTruncate, Truncate
  <2>2. pc \in Up /\ ~requires_restart /\ options.journal
    BY ZenonT(60), <2>1 DEF IInv, UpInv, RunningInv, Up
  <2> QED BY ZenonT(60), <2>1, <2>2, CheckpointStep
<1>2. CASE FlushTruncate
  BY ZenonT(60), <1>2, CheckpointStep DEF FlushTruncate
<1> QED BY ZenonT(60), <1>1, <1>2

\* The checkpoint after a commit is over, or has failed: a journal that was not cut
\* still continues redb, which has all of it.
LEMMA PerCommitCheckpointDoneStep == IInv /\ PerCommitCheckpointDone => IInv'
<1> SUFFICES ASSUME IInv, PerCommitCheckpointDone
             PROVE  IInv'
  OBVIOUS
<1>1. /\ pc \in {"percommit", "percommit_truncated"} /\ pc' = "idle"
      /\ synced' = IF pc = "percommit" THEN synced ELSE journal
      /\ UNCHANGED <<memory, flags, visible, durable, journal, pending, index_valid, staged, clock, ghosts>>
  BY ZenonT(60) DEF PerCommitCheckpointDone
<1>2. pc \in Up /\ pc' \in Up /\ pc' \notin {"append", "bulk"}
  BY ZenonT(60), <1>1 DEF Up
<1>3. TypeOK'
  BY ZenonT(60), <1>1, <1>2 DEF IInv, TypeOK, memory, flags, ghosts
<1>4. /\ JournalOK /\ ~requires_restart /\ Settled /\ safe <= revision
      /\ durable.revision = revision /\ serving /\ options.journal
      /\ pc # "percommit" => journal = <<>>
  BY ZenonT(60), <1>1, <1>2 DEF IInv, UpInv, RunningInv
<1>5. JournalOK'
  <2>1. CASE pc = "percommit"
    BY ZenonT(60), <1>1, <1>4, <2>1 DEF JournalOK, flags, ghosts
  <2>2. CASE pc # "percommit"
    <3>1. journal = <<>> /\ synced' = <<>>
      BY ZenonT(60), <1>1, <1>4, <2>2
    <3>2. FilesOK(<<>>, <<>>, durable, history, clock)
      BY ZenonT(60), EmptyJournal DEF FilesOK
    <3>3. Reaches(<<>>, durable, safe)
      BY ZenonT(60), <1>4 DEF Reaches
    <3> QED BY ZenonT(60), <1>1, <1>4, <3>1, <3>2, <3>3 DEF JournalOK, flags, ghosts
  <2> QED BY ZenonT(60), <2>1, <2>2
<1>6. UpInv'
  BY ZenonT(60), <1>1, <1>2, <1>4, <1>5 DEF IInv, UpInv, memory, flags, ghosts
<1>7. RunningInv'
  BY ZenonT(60), <1>1, <1>2 DEF IInv, RunningInv, Settled, Following, memory, flags, ghosts
<1> QED BY ZenonT(60), <1>1, <1>2, <1>3, <1>6, <1>7, UpStep DEF IInv, memory, flags, ghosts

\* FlushDone: the journal is empty or off, and redb has every commit.
LEMMA FlushDoneStep == IInv /\ FlushDone => IInv'
<1> SUFFICES ASSUME IInv, FlushDone
             PROVE  IInv'
  OBVIOUS
<1>1. /\ pc = IF options.journal THEN "flush_truncated" ELSE "flush_persisted"
      /\ synced' = IF options.journal THEN journal ELSE synced
      /\ unflushed' = FALSE /\ owed' = revision /\ safe' = revision /\ pc' = "idle"
      /\ UNCHANGED <<memory, options, requires_restart, redb_failed, serving, draft, visible, durable,
                     journal, pending, index_valid, staged, clock, history>>
  BY ZenonT(60) DEF FlushDone
<1>2. pc \in Up /\ pc' \in Up /\ pc' \notin {"append", "bulk"} /\ pc # "idle"
  BY ZenonT(60), <1>1 DEF Up
<1>3. TypeOK'
  BY ZenonT(60), <1>1, <1>2 DEF IInv, TypeOK, memory
<1>4. /\ JournalOK /\ ~requires_restart /\ Settled /\ durable.revision = revision
      /\ revision \in Nat
      /\ options.journal => journal = <<>>
      /\ ~options.journal => journal = <<>> /\ synced = <<>>
  BY ZenonT(60), <1>1, <1>2 DEF IInv, UpInv, RunningInv, JournalOK, TypeOK
<1>5. journal = <<>> /\ synced' = <<>>
  BY ZenonT(60), <1>1, <1>4
<1>6. JournalOK'
  <2>1. FilesOK(<<>>, <<>>, durable, history, clock)
    BY ZenonT(60), EmptyJournal DEF FilesOK
  <2>2. Reaches(<<>>, durable, revision)
    BY SMTT(60), <1>4 DEF Reaches
  <2> QED BY ZenonT(60), <1>1, <1>4, <1>5, <2>1, <2>2 DEF JournalOK
<1>7. UpInv'
  BY ZenonT(60), <1>1, <1>2, <1>4, <1>5, <1>6 DEF IInv, UpInv, memory
<1>8. RunningInv'
  BY ZenonT(60), <1>1, <1>2, <1>4 DEF IInv, RunningInv, Settled, Following, memory
<1> QED BY ZenonT(60), <1>1, <1>2, <1>3, <1>7, <1>8, UpStep DEF IInv

\* Serve and begin_bulk_commit change nothing that is stored.
LEMMA StartStep == IInv /\ (Serve \/ begin_bulk_commit) => IInv'
<1> SUFFICES ASSUME IInv, Serve \/ begin_bulk_commit
             PROVE  IInv'
  OBVIOUS
<1>1. pc = "idle" /\ pc \in Up /\ ~requires_restart /\ ~serving
  BY ZenonT(60) DEF Serve, begin_bulk_commit, Idle, Up
<1>2. CASE Serve
  <2>1. /\ serving' = TRUE
        /\ UNCHANGED <<pc, memory, options, requires_restart, unflushed, redb_failed, draft, files,
                       pending, index_valid, staged, clock, ghosts>>
    BY ZenonT(60), <1>2 DEF Serve
  <2>2. pc' \in Up /\ pc' \notin {"append", "bulk"}
    BY ZenonT(60), <1>1, <2>1
  <2>3. TypeOK'
    BY ZenonT(60), <2>1 DEF IInv, TypeOK, memory, files, ghosts
  <2>4. RunningInv'
    BY ZenonT(60), <1>1, <2>1 DEF IInv, RunningInv, Settled, Following, memory, files, ghosts
  <2>5. UpInv'
    <3>1. visible.revision = revision /\ durable.revision <= revision
      BY ZenonT(60), <1>1 DEF IInv, RunningInv, Settled
    <3> QED BY ZenonT(60), <1>1, <2>1, <3>1 DEF IInv, UpInv, JournalOK, memory, files, ghosts
  <2> QED BY ZenonT(60), <2>1, <2>2, <2>3, <2>4, <2>5, UpStep DEF IInv, memory, files, ghosts
<1>3. CASE begin_bulk_commit
  <2>1. /\ staged' = visible /\ pc' = "bulk"
        /\ UNCHANGED <<memory, flags, files, pending, index_valid, clock, ghosts>>
    BY ZenonT(60), <1>3 DEF begin_bulk_commit
  <2>2. pc' \in Up /\ pc' # "append"
    BY ZenonT(60), <2>1 DEF Up
  <2>3. TypeOK'
    BY ZenonT(60), <2>1, <2>2 DEF IInv, TypeOK, memory, flags, files, ghosts
  <2>4. RunningInv'
    BY ZenonT(60), <1>1, <2>1 DEF IInv, RunningInv, memory, flags, files, ghosts
  <2>5. UpInv'
    BY ZenonT(60), <1>1, <2>1 DEF IInv, UpInv, JournalOK, memory, flags, files, ghosts
  <2>6. BulkInv'
    <3>1. /\ visible.revision = revision /\ visible.time = last_commit_time
          /\ usage = Present(visible.docs) /\ journal = <<>>
          /\ options.journal /\ Len(journal) = 0 => durable.revision = revision
          /\ options.field_indexes => IndexExact(visible)
          /\ revision \in Nat
      BY SMTT(60), <1>1 DEF IInv, RunningInv, Settled, UpInv, TypeOK
    <3>2. /\ visible.docs = history[revision] /\ visible.index_revision <= visible.revision
          /\ visible.usage_revision <= visible.revision
      BY ZenonT(60), <3>1 DEF IInv, DbOK, DocsExact, StampsExact
    <3> QED BY SMTT(60), <1>1, <2>1, <3>1, <3>2 DEF BulkInv, memory, flags, files, ghosts
  <2> QED BY ZenonT(60), <2>1, <2>2, <2>3, <2>4, <2>5, <2>6, UpStep DEF IInv, memory, flags, files, ghosts
<1> QED BY ZenonT(60), <1>2, <1>3

\* DraftNote: the note is of the revision in memory, which is the one redb shows.
LEMMA DraftNoteStep == IInv /\ DraftNote => IInv'
<1> SUFFICES ASSUME IInv, DraftNote
             PROVE  IInv'
  OBVIOUS
<1> DEFINE n == [revision |-> revision, docs |-> visible.docs]
<1>1. /\ pc = "idle" /\ serving /\ draft' = {n}
      /\ UNCHANGED <<pc, memory, options, requires_restart, unflushed, redb_failed, serving,
                     files, pending, index_valid, staged, clock, ghosts>>
  BY ZenonT(60) DEF DraftNote, Idle
<1>2. pc \in Up /\ pc' \in Up /\ pc' \notin {"append", "bulk"}
  BY ZenonT(60), <1>1 DEF Up
<1>3. /\ visible.revision = revision /\ revision \in Nat /\ visible.docs \in Contents
      /\ visible.docs = history[revision]
  BY ZenonT(60), <1>1, <1>2 DEF IInv, UpInv, TypeOK, Redb, DbOK, DocsExact
<1>4. n \in Notes /\ n.revision \in Nat /\ NoteOf(n, revision, history)
  BY SMTT(60), <1>3 DEF Notes, NoteOf
<1> HIDE DEF n
<1>5. TypeOK'
  BY ZenonT(60), <1>1, <1>4 DEF IInv, TypeOK, memory, files, ghosts
<1>6. UpInv'
  BY ZenonT(60), <1>1, <1>2, <1>4 DEF IInv, UpInv, JournalOK, memory, files, ghosts
<1>7. RunningInv'
  BY ZenonT(60), <1>1, <1>2 DEF IInv, RunningInv, Settled, Following, memory, files, ghosts
<1> QED BY ZenonT(60), <1>1, <1>2, <1>5, <1>6, <1>7, UpStep DEF IInv, memory, files, ghosts

\* What the flush writes is what readers see, stamped with its revision, and the
\* journal still continues it.
LEMMA FlushWritten ==
  ASSUME IInv, pc = "flush_synced", NEW written,
         written = persist_state(visible, revision, last_commit_time, options.field_indexes, usage)
  PROVE  /\ written \in Redb /\ written.revision = revision /\ written.time = last_commit_time
         /\ written.docs = visible.docs /\ DbOK(written, history, clock)
         /\ options.field_indexes => IndexExact(written)
         /\ Continues(journal, written, history)
         /\ FilesOK(journal, synced, written, history, clock)
         /\ \A x : \A r \in Nat : Reaches(x, durable, r) => Reaches(x, written, r)
<1>1. pc \in Up
  BY ZenonT(60) DEF Up
<1>2. /\ ~requires_restart /\ visible.revision = revision /\ visible.time = last_commit_time
      /\ usage = Present(visible.docs) /\ durable.revision <= revision
      /\ last_commit_time <= clock /\ 0..revision \subseteq DOMAIN history
      /\ JournalOK /\ Continues(journal, visible, history)
  BY ZenonT(60), <1>1 DEF IInv, UpInv, RunningInv, Settled
<1>3. options.field_indexes => IndexExact(visible)
  BY ZenonT(60), <1>1 DEF IInv, UpInv
<1>4. /\ visible \in Redb /\ durable \in Redb /\ revision \in Nat /\ last_commit_time \in Nat
      /\ usage \in Int /\ options.field_indexes \in BOOLEAN /\ clock \in Nat
  BY ZenonT(60) DEF IInv, TypeOK
<1>5. /\ written \in Redb /\ written.revision = revision /\ written.time = last_commit_time
      /\ written.docs = visible.docs
  BY SMTT(60), <1>4, PersistFields
<1>6. /\ visible.docs = history[revision] /\ NoteOf(visible.note, revision, history)
      /\ visible.index_revision <= revision
      /\ visible.index_revision = revision => IndexExact(visible)
  BY ZenonT(60), <1>2 DEF IInv, DbOK, DocsExact, StampsExact
<1>7. DbOK(written, history, clock) /\ (IndexExact(visible) => IndexExact(written))
  BY ZenonT(60), <1>2, <1>3, <1>4, <1>6, PersistStateOK
<1>8. Continues(journal, written, history)
  BY ZenonT(60), <1>2, <1>5 DEF Continues
<1>9. FilesOK(journal, synced, durable, history, clock)
  BY ZenonT(60), <1>2 DEF JournalOK
<1>10. /\ FilesOK(journal, synced, written, history, clock)
       /\ \A x : \A r \in Nat : Reaches(x, durable, r) => Reaches(x, written, r)
  <2>1. durable.revision <= written.revision
    BY ZenonT(60), <1>2, <1>5
  <2> QED BY SMTT(60), <1>4, <1>5, <1>8, <1>9, <2>1, FilesOnto
<1> QED BY ZenonT(60), <1>3, <1>5, <1>7, <1>8, <1>10

\* FlushPersist: an empty durable commit.
LEMMA FlushPersistStep == IInv /\ FlushPersist => IInv'
<1> SUFFICES ASSUME IInv, FlushPersist
             PROVE  IInv'
  OBVIOUS
<1>1. /\ pc = "flush_synced" /\ pc' = "flush_persisted" /\ durable' = visible'
      /\ UNCHANGED <<memory, flags, journal, synced, pending, index_valid, staged, clock, ghosts>>
  BY ZenonT(60) DEF FlushPersist
<1>2. pc \in Up /\ pc' \in Up /\ pc' \notin {"append", "bulk"}
  BY ZenonT(60), <1>1 DEF Up
<1>3. PICK written : /\ written = persist_state(visible, revision, last_commit_time, options.field_indexes, usage)
                     /\ visible' = written
  BY ZenonT(60) DEF FlushPersist
<1>4. /\ written \in Redb /\ written.revision = revision /\ written.time = last_commit_time
      /\ written.docs = visible.docs /\ DbOK(written, history, clock)
      /\ options.field_indexes => IndexExact(written)
      /\ Continues(journal, written, history)
      /\ FilesOK(journal, synced, written, history, clock)
      /\ \A x : \A r \in Nat : Reaches(x, durable, r) => Reaches(x, written, r)
  BY ZenonT(60), <1>1, <1>3, FlushWritten
<1>5. TypeOK'
  BY ZenonT(60), <1>1, <1>2, <1>3, <1>4 DEF IInv, TypeOK, memory, flags, ghosts
<1>6. JournalOK'
  <2>1. JournalOK /\ owed \in Nat /\ safe \in Nat
    BY ZenonT(60), <1>2 DEF IInv, UpInv, TypeOK
  <2> QED BY ZenonT(60), <1>1, <1>3, <1>4, <2>1 DEF JournalOK, flags, ghosts
<1>7. revision \in Nat /\ ~requires_restart /\ Settled
  BY ZenonT(60), <1>1, <1>2 DEF IInv, RunningInv, UpInv, TypeOK
<1>8. UpInv'
  BY SMTT(60), <1>1, <1>2, <1>3, <1>4, <1>6, <1>7 DEF IInv, UpInv, memory, flags, ghosts
<1>9. Settled'
  BY ZenonT(60), <1>1, <1>3, <1>4, <1>7 DEF Settled, Following, memory, flags, ghosts
<1>10. RunningInv'
  BY SMTT(60), <1>1, <1>2, <1>3, <1>4, <1>7, <1>9 DEF IInv, RunningInv, memory, flags, ghosts
<1> QED BY ZenonT(60), <1>1, <1>2, <1>3, <1>4, <1>5, <1>8, <1>10, UpStep DEF memory, flags, ghosts

\* FlushFails: whichever step failed, the store is fenced and what is on disk
\* can be opened.
LEMMA FlushFailsStep == IInv /\ FlushFails => IInv'
<1> SUFFICES ASSUME IInv, FlushFails
             PROVE  IInv'
  OBVIOUS
<1>1. /\ pc \in {"flush", "flush_synced", "flush_persisted", "flush_truncated"} /\ pc' = "idle"
      /\ requires_restart' = TRUE
      /\ UNCHANGED <<memory, options, unflushed, serving, draft, visible, journal, synced,
                     pending, index_valid, staged, clock, ghosts>>
  BY ZenonT(60) DEF FlushFails
<1>2. pc \in Up /\ pc' \in Up /\ pc' \notin {"append", "bulk"}
  BY ZenonT(60), <1>1 DEF Up
<1>3. redb_failed' \in BOOLEAN /\ (redb_failed' => pc = "flush_synced")
  BY ZenonT(60) DEF FlushFails
<1>4. PICK written : written = persist_state(visible, revision, last_commit_time, options.field_indexes, usage)
  OBVIOUS
<1>5. durable' = durable \/ (redb_failed' /\ durable' = written)
  BY ZenonT(60), <1>4 DEF FlushFails
<1>6. /\ ~requires_restart /\ ~redb_failed /\ visible.revision = revision /\ durable.revision <= revision
      /\ JournalOK /\ owed \in Nat /\ safe \in Nat
  BY ZenonT(60), <1>1, <1>2 DEF IInv, RunningInv, Settled, UpInv, TypeOK
<1>7. /\ durable' \in Redb /\ DbOK(durable', history, clock) /\ durable'.revision <= revision
      /\ FilesOK(journal, synced, durable', history, clock)
      /\ \A x : \A r \in Nat : Reaches(x, durable, r) => Reaches(x, durable', r)
  <2>1. CASE durable' = durable
    BY ZenonT(60), <1>6, <2>1 DEF IInv, TypeOK, JournalOK
  <2>2. CASE redb_failed' /\ durable' = written
    <3>1. /\ written \in Redb /\ written.revision = revision /\ DbOK(written, history, clock)
          /\ FilesOK(journal, synced, written, history, clock)
          /\ \A x : \A r \in Nat : Reaches(x, durable, r) => Reaches(x, written, r)
      BY ZenonT(60), <1>3, <1>4, <2>2, FlushWritten
    <3>2. revision \in Nat
      BY ZenonT(60) DEF IInv, TypeOK
    <3> QED BY SMTT(60), <2>2, <3>1, <3>2
  <2> QED BY ZenonT(60), <1>5, <2>1, <2>2
<1>8. TypeOK'
  BY ZenonT(60), <1>1, <1>2, <1>3, <1>7 DEF IInv, TypeOK, memory, ghosts
<1>9. JournalOK'
  BY ZenonT(60), <1>1, <1>6, <1>7 DEF JournalOK, ghosts
<1>10. UpInv'
  BY ZenonT(60), <1>1, <1>2, <1>6, <1>7, <1>9 DEF IInv, UpInv, memory, ghosts
<1>11. RunningInv'
  BY ZenonT(60), <1>1 DEF RunningInv
<1> QED BY ZenonT(60), <1>1, <1>2, <1>7, <1>8, <1>10, <1>11, UpStep DEF IInv, ghosts

\* save_note: a note is saved only if it is of the revision readers see.
LEMMA SaveNoteStep == IInv /\ save_note => IInv'
<1> SUFFICES ASSUME IInv, save_note
             PROVE  IInv'
  OBVIOUS
<1>1. PICK n \in draft :
        /\ pc = "idle" /\ ~redb_failed
        /\ visible' = IF n.revision # revision THEN visible ELSE [visible EXCEPT !.note = n]
        /\ durable' = IF n.revision # revision THEN durable ELSE visible'
        /\ draft' = {}
        /\ UNCHANGED <<pc, memory, options, requires_restart, unflushed, redb_failed, serving,
                       journal, synced, pending, index_valid, staged, clock, ghosts>>
  BY ZenonT(60) DEF save_note, Idle
<1>2. pc \in Up /\ pc' \in Up /\ pc' \notin {"append", "bulk"}
  BY ZenonT(60), <1>1 DEF Up
<1>3. /\ n \in Notes /\ n.revision \in Nat /\ NoteOf(n, revision, history) /\ serving
      /\ visible.revision = revision /\ durable.revision <= visible.revision
      /\ JournalOK /\ Continues(journal, visible, history)
      /\ options.field_indexes => IndexExact(visible)
  BY ZenonT(60), <1>1, <1>2 DEF IInv, UpInv, TypeOK
<1>4. visible \in Redb /\ durable \in Redb /\ owed \in Nat /\ safe \in Nat
  BY ZenonT(60) DEF IInv, TypeOK
<1>5. /\ visible' \in Redb /\ visible'.revision = visible.revision /\ visible'.time = visible.time
      /\ visible'.docs = visible.docs /\ visible'.index = visible.index
      /\ visible'.index_revision = visible.index_revision
      /\ visible'.usage = visible.usage /\ visible'.usage_revision = visible.usage_revision
      /\ visible'.note = IF n.revision # revision THEN visible.note ELSE n
  BY ZenonT(60), <1>1, <1>3, <1>4 DEF Redb
<1>6. DbOK(visible', history, clock) /\ Continues(journal, visible', history)
  <2>1. NoteOf(visible'.note, visible'.revision, history)
    BY ZenonT(60), <1>3, <1>5 DEF IInv, DbOK
  <2>2. IndexExact(visible) => IndexExact(visible')
    BY ZenonT(60), <1>5 DEF IndexExact
  <2>3. StampsExact(visible') /\ DocsExact(visible', history, clock)
    BY ZenonT(60), <1>5, <2>2 DEF IInv, DbOK, StampsExact, DocsExact
  <2> QED BY ZenonT(60), <1>3, <1>5, <2>1, <2>3 DEF DbOK, Continues
<1>7. /\ durable' \in Redb /\ DbOK(durable', history, clock) /\ durable'.revision <= visible'.revision
      /\ FilesOK(journal, synced, durable', history, clock)
      /\ \A x : \A r \in Nat : Reaches(x, durable, r) => Reaches(x, durable', r)
      /\ durable'.revision = durable.revision \/ durable'.revision = revision
  <2>1. CASE n.revision # revision
    BY ZenonT(60), <1>1, <1>3, <1>4, <1>5, <2>1 DEF IInv, JournalOK
  <2>2. CASE n.revision = revision
    <3>1. durable' = visible' /\ durable.revision <= visible'.revision
      BY ZenonT(60), <1>1, <1>3, <1>5, <2>2
    <3>2. FilesOK(journal, synced, durable, history, clock)
      BY ZenonT(60), <1>3 DEF JournalOK
    <3>3. PICK v \in Redb : v = visible'
      BY ZenonT(60), <1>5
    <3>4. /\ FilesOK(journal, synced, v, history, clock)
          /\ \A x : \A r \in Nat : Reaches(x, durable, r) => Reaches(x, v, r)
      BY ZenonT(60), <1>4, <1>6, <3>1, <3>2, <3>3, FilesOnto
    <3>5. durable' = v /\ DbOK(durable', history, clock) /\ durable' \in Redb
      BY ZenonT(60), <1>6, <3>1, <3>3
    <3>6. durable'.revision \in Nat /\ durable'.revision = visible'.revision
      BY ZenonT(60), <1>5, <3>1 DEF Redb
    <3>7. durable'.revision <= visible'.revision /\ durable'.revision = revision
      BY SMTT(60), <1>3, <1>5, <3>6
    <3>8. /\ FilesOK(journal, synced, durable', history, clock)
          /\ \A x : \A r \in Nat : Reaches(x, durable, r) => Reaches(x, durable', r)
      BY ZenonT(60), <3>4, <3>5, ZenonT(60)
    <3> QED BY ZenonT(60), <3>5, <3>7, <3>8
  <2> QED BY ZenonT(60), <2>1, <2>2
<1>8. TypeOK'
  BY ZenonT(60), <1>1, <1>5, <1>7 DEF IInv, TypeOK, memory, ghosts
<1>9. JournalOK'
  BY ZenonT(60), <1>1, <1>3, <1>4, <1>7 DEF JournalOK, ghosts
<1>10. UpInv'
  <2>1. IndexExact(visible) => IndexExact(visible')
    BY ZenonT(60), <1>5 DEF IndexExact
  <2> QED BY ZenonT(60), <1>1, <1>2, <1>3, <1>5, <1>6, <1>7, <1>9, <2>1 DEF IInv, UpInv, memory, ghosts
<1>11. RunningInv'
  <2> SUFFICES ASSUME ~requires_restart
               PROVE  RunningInv'
    BY ZenonT(60), <1>1 DEF RunningInv
  <2>1. Settled /\ revision \in Nat /\ durable.revision <= revision
    BY ZenonT(60), <1>1, <1>2 DEF IInv, RunningInv, TypeOK
  <2>2. Settled'
    BY ZenonT(60), <1>1, <1>5, <1>7, <2>1 DEF Settled, Following, memory
  <2>3. durable'.revision <= revision
    BY SMTT(60), <1>7, <2>1
  <2> QED BY ZenonT(60), <1>1, <1>2, <2>2, <2>3 DEF IInv, RunningInv, memory, ghosts
<1> QED BY ZenonT(60), <1>1, <1>2, <1>6, <1>7, <1>8, <1>10, <1>11, UpStep DEF ghosts

\* What a commit that is planned puts into the history.
LEMMA AttemptFacts ==
  ASSUME TypeOK, 0..revision \subseteq DOMAIN history, NEW docs \in Contents,
         Attempt(revision + 1, docs)
  PROVE  /\ history' \in [DOMAIN history' -> Contents] /\ DOMAIN history' \subseteq Nat
         /\ 0..(revision + 1) \subseteq DOMAIN history' /\ history'[revision + 1] = docs
         /\ \A r \in 0..revision : r \in DOMAIN history' /\ history'[r] = history[r]
<1>1. revision \in Nat /\ history \in [DOMAIN history -> Contents]
  BY ZenonT(60) DEF TypeOK
<1>2. history' = [r \in 0..(revision + 1) |-> IF r = revision + 1 THEN docs ELSE history[r]]
  BY ZenonT(60) DEF Attempt
<1>3. DOMAIN history' = 0..(revision + 1) /\ history'[revision + 1] = docs
  BY SMTT(60), <1>1, <1>2
<1>4. \A r \in 0..revision : r \in 0..(revision + 1) /\ r # revision + 1
  BY SMTT(60), <1>1
<1>5. \A r \in 0..revision : r \in DOMAIN history' /\ history'[r] = history[r]
  BY ZenonT(60), <1>2, <1>4
<1>6. \A r \in 0..(revision + 1) : history'[r] \in Contents
  <2> TAKE r \in 0..(revision + 1)
  <2>1. r = revision + 1 \/ r \in 0..revision
    BY SMTT(60), <1>1
  <2> QED BY ZenonT(60), <1>1, <1>3, <1>5, <2>1
<1>7. history' \in [DOMAIN history' -> Contents]
  BY ZenonT(60), <1>2, <1>3, <1>6
<1>8. DOMAIN history' \subseteq Nat
  BY SMTT(60), <1>1, <1>3
<1> QED BY ZenonT(60), <1>3, <1>5, <1>7, <1>8

\* BulkCommit: the batch is in the transaction, and its revision in memory.
LEMMA BulkCommitStep ==
  ASSUME IInv, NEW m \in Mutations, BulkCommit(m)
  PROVE  IInv'
<1>1. /\ pc = "bulk" /\ pc' = "bulk" /\ clock' = clock + 1
      /\ staged' = apply_mutations(staged, m, options.field_indexes)
      /\ revision' = revision + 1 /\ last_commit_time' = clock + 1
      /\ usage' = usage_after_record(staged.docs, usage, m)
      /\ Attempt(revision + 1, ApplyTo(staged.docs, m))
      /\ UNCHANGED <<flags, files, pending, index_valid, owed, safe>>
  BY ZenonT(60) DEF BulkCommit
<1>2. pc \in Up /\ pc' \in Up /\ pc' # "append"
  BY ZenonT(60), <1>1 DEF Up
<1>3. /\ ~requires_restart /\ ~serving /\ visible.revision <= revision
      /\ staged.docs = history[revision] /\ usage = Present(staged.docs)
      /\ 0..revision \subseteq DOMAIN history /\ durable.revision <= revision
      /\ journal = <<>> /\ synced = <<>> /\ draft = {} /\ JournalOK
  BY ZenonT(60), <1>1, <1>2 DEF IInv, UpInv, RunningInv, BulkInv
<1>4. /\ TypeOK /\ staged \in Redb /\ visible \in Redb /\ durable \in Redb /\ revision \in Nat
      /\ clock \in Nat /\ usage \in Int /\ options.field_indexes \in BOOLEAN
  BY ZenonT(60) DEF IInv, TypeOK
<1>5. staged.docs \in Contents /\ visible.revision \in Nat /\ durable.revision \in Nat
  BY ZenonT(60), <1>4 DEF Redb
<1>6. ApplyTo(staged.docs, m) \in Contents
  BY ZenonT(60), <1>5, ApplyToType
<1>7. /\ history' \in [DOMAIN history' -> Contents] /\ DOMAIN history' \subseteq Nat
      /\ 0..(revision + 1) \subseteq DOMAIN history'
      /\ history'[revision + 1] = ApplyTo(staged.docs, m)
      /\ \A r \in 0..revision : r \in DOMAIN history' /\ history'[r] = history[r]
  BY ZenonT(60), <1>1, <1>3, <1>4, <1>6, AttemptFacts
<1>8. /\ usage' \in Int /\ usage' = Present(ApplyTo(staged.docs, m))
  BY ZenonT(60), <1>1, <1>3, <1>4, UsageAfter
<1>9. /\ staged' \in Redb /\ staged'.revision = staged.revision
      /\ staged'.docs = ApplyTo(staged.docs, m) /\ staged'.note = staged.note
      /\ staged'.index_revision = staged.index_revision
      /\ staged'.usage_revision = staged.usage_revision
      /\ options.field_indexes /\ IndexExact(staged) => IndexExact(staged')
  BY ZenonT(60), <1>1, <1>4, ApplyMutations
<1>10. TypeOK'
  BY SMTT(60), <1>1, <1>4, <1>7, <1>8, <1>9 DEF TypeOK, flags, files
<1>11. DbOK(visible, history', clock') /\ DbOK(durable, history', clock')
  <2>1. /\ \A r \in 0..visible.revision : r \in DOMAIN history' /\ history'[r] = history[r]
        /\ \A r \in 0..durable.revision : r \in DOMAIN history' /\ history'[r] = history[r]
    BY SMTT(60), <1>3, <1>4, <1>5, <1>7
  <2>2. clock' \in Nat /\ clock <= clock'
    BY SMTT(60), <1>1, <1>4
  <2>3. DbOK(visible, history, clock) /\ DbOK(durable, history, clock)
    BY ZenonT(60) DEF IInv
  <2>4. PICK d, g : d \in Nat /\ d = clock' /\ g = history'
    BY ZenonT(60), <2>2
  <2>5. DbOK(visible, g, d) /\ DbOK(durable, g, d)
    BY ZenonT(60), <1>4, <2>1, <2>2, <2>3, <2>4, HistoryKept
  <2> QED BY ZenonT(60), <2>4, <2>5
<1>12. JournalOK' /\ Continues(journal', visible', history')
  <2>1. /\ Chain(<<>>, clock') /\ Continues(<<>>, durable, history') /\ Kept(<<>>, <<>>, durable)
        /\ Continues(<<>>, visible, history')
    BY ZenonT(60), EmptyJournal
  <2> QED BY ZenonT(60), <1>1, <1>3, <2>1 DEF JournalOK, FilesOK, flags, files
<1>13. UpInv'
  BY ZenonT(60), <1>1, <1>2, <1>3, <1>12 DEF IInv, UpInv, flags, files
<1>14. RunningInv'
  <2>1. owed \in Nat /\ safe \in Nat /\ owed <= revision /\ safe <= revision
    BY ZenonT(60), <1>2, <1>3 DEF IInv, RunningInv, TypeOK
  <2>2. /\ owed' <= revision' /\ safe' <= revision' /\ durable'.revision <= revision'
        /\ last_commit_time' <= clock' /\ 0..revision' \subseteq DOMAIN history'
    BY SMTT(60), <1>1, <1>3, <1>4, <1>5, <1>7, <2>1 DEF files
  <2>3. ~redb_failed'
    BY ZenonT(60), <1>1, <1>2, <1>3 DEF IInv, RunningInv, flags
  <2> QED BY ZenonT(60), <1>1, <2>2, <2>3 DEF RunningInv
<1>15. BulkInv'
  <2>1. /\ visible.revision \in Nat /\ revision \in Nat /\ visible.revision <= revision
        /\ revision' = revision + 1
    BY ZenonT(60), <1>1, <1>3, <1>4, <1>5
  <2>2. revision' # visible.revision /\ visible.revision <= revision'
    BY SMTT(60), <2>1
  <2> QED BY ZenonT(60), <1>1, <1>7, <1>8, <1>9, <2>2 DEF IInv, BulkInv, flags, files
<1> QED BY ZenonT(60), <1>1, <1>2, <1>10, <1>11, <1>13, <1>14, <1>15, UpStep DEF files

\* What the last commit of a bulk load writes.
LEMMA BulkWritten ==
  ASSUME IInv, pc = "bulk", revision # visible.revision, NEW written,
         written = persist_state(staged, revision, last_commit_time, options.field_indexes, usage)
  PROVE  /\ written \in Redb /\ written.revision = revision /\ written.time = last_commit_time
         /\ written.docs = staged.docs /\ DbOK(written, history, clock)
         /\ options.field_indexes => IndexExact(written)
<1>1. pc \in Up
  BY ZenonT(60) DEF Up
<1>2. /\ ~requires_restart /\ visible.revision <= revision
      /\ staged.docs = history[revision] /\ usage = Present(staged.docs)
      /\ 0..revision \subseteq DOMAIN history /\ last_commit_time <= clock
      /\ staged.index_revision <= visible.revision /\ staged.note = visible.note
  BY ZenonT(60), <1>1 DEF IInv, UpInv, RunningInv, BulkInv
<1>3. options.field_indexes => IndexExact(staged)
  BY ZenonT(60) DEF IInv, BulkInv
<1>4. /\ staged \in Redb /\ visible \in Redb /\ revision \in Nat /\ last_commit_time \in Nat
      /\ clock \in Nat /\ usage \in Int /\ options.field_indexes \in BOOLEAN
  BY ZenonT(60) DEF IInv, TypeOK
<1>5. visible.revision \in Nat /\ staged.index_revision \in Int /\ visible.note.revision \in Int
  BY ZenonT(60), <1>4 DEF Redb, Notes
<1>6. /\ written \in Redb /\ written.revision = revision /\ written.time = last_commit_time
      /\ written.docs = staged.docs
  BY SMTT(60), <1>4, PersistFields
<1>7. NoteOf(staged.note, revision, history)
  BY SMTT(60), <1>2, <1>4, <1>5 DEF IInv, DbOK, NoteOf
<1>8. staged.index_revision <= revision /\ staged.index_revision # revision
  BY SMTT(60), <1>2, <1>4, <1>5
<1>9. DbOK(written, history, clock) /\ (IndexExact(staged) => IndexExact(written))
  BY ZenonT(60), <1>2, <1>3, <1>4, <1>7, <1>8, PersistStateOK
<1> QED BY ZenonT(60), <1>3, <1>6, <1>9

\* BulkFinish: the batches become visible and durable together.
LEMMA BulkFinishStep == IInv /\ BulkFinish => IInv'
<1> SUFFICES ASSUME IInv, BulkFinish
             PROVE  IInv'
  OBVIOUS
<1>1. /\ pc = "bulk" /\ pc' = "idle"
      /\ UNCHANGED <<memory, flags, journal, synced, pending, index_valid, staged, clock, history>>
  BY ZenonT(60) DEF BulkFinish
<1>2. pc \in Up /\ pc' \in Up /\ pc' \notin {"append", "bulk"}
  BY ZenonT(60), <1>1 DEF Up
<1>3. /\ ~requires_restart /\ ~serving /\ visible.revision <= revision /\ ~redb_failed
      /\ staged.docs = history[revision] /\ usage = Present(staged.docs)
      /\ revision = visible.revision => last_commit_time = visible.time
      /\ options.journal => durable.revision = visible.revision
      /\ journal = <<>> /\ synced = <<>> /\ JournalOK
      /\ 0..revision \subseteq DOMAIN history /\ last_commit_time <= clock
      /\ durable.revision <= revision /\ owed <= revision /\ safe <= revision
  BY ZenonT(60), <1>1, <1>2 DEF IInv, UpInv, RunningInv, BulkInv
<1>4. visible \in Redb /\ durable \in Redb /\ revision \in Nat /\ owed \in Nat /\ safe \in Nat
  BY ZenonT(60) DEF IInv, TypeOK
<1>5. visible.revision \in Nat /\ durable.revision \in Nat
  BY ZenonT(60), <1>4 DEF Redb
<1>6. /\ visible' \in Redb /\ durable' \in Redb
      /\ DbOK(visible', history, clock) /\ DbOK(durable', history, clock)
      /\ visible'.revision = revision /\ visible'.time = last_commit_time
      /\ visible'.docs = staged.docs /\ durable'.revision <= revision
      /\ options.journal => durable'.revision = revision
      /\ options.field_indexes => IndexExact(visible')
      /\ owed' \in Nat /\ safe' \in Nat /\ owed' <= revision /\ safe' <= revision
      /\ options.journal => Reaches(<<>>, durable', owed')
      /\ Reaches(<<>>, durable', safe')
  <2>1. CASE revision = visible.revision
    <3>1. visible' = visible /\ durable' = durable /\ owed' = owed /\ safe' = safe
      BY SMTT(60), <1>4, <2>1 DEF BulkFinish
    <3>2. visible.docs = history[revision] /\ DbOK(visible, history, clock) /\ DbOK(durable, history, clock)
      BY ZenonT(60), <2>1 DEF IInv, DbOK, DocsExact
    <3>3. options.field_indexes => IndexExact(visible)
      BY ZenonT(60), <1>2 DEF IInv, UpInv
    <3>4. (options.journal => Reaches(<<>>, durable, owed)) /\ Reaches(<<>>, durable, safe)
      BY ZenonT(60), <1>3 DEF JournalOK
    <3> QED BY ZenonT(60), <1>3, <1>4, <2>1, <3>1, <3>2, <3>3, <3>4
  <2>2. CASE revision # visible.revision
    <3>1. PICK written : written = persist_state(staged, revision, last_commit_time, options.field_indexes, usage)
      OBVIOUS
    <3>2. revision - visible.revision # 0
      BY SMTT(60), <1>4, <1>5, <2>2
    <3>3. visible' = written /\ durable' = written /\ owed' = revision /\ safe' = revision
      BY ZenonT(60), <3>1, <3>2 DEF BulkFinish
    <3>4. /\ written \in Redb /\ written.revision = revision /\ written.time = last_commit_time
          /\ written.docs = staged.docs /\ DbOK(written, history, clock)
          /\ options.field_indexes => IndexExact(written)
      BY ZenonT(60), <1>1, <2>2, <3>1, BulkWritten
    <3> QED BY SMTT(60), <1>4, <3>3, <3>4 DEF Reaches
  <2> QED BY ZenonT(60), <2>1, <2>2
<1>7. TypeOK'
  BY ZenonT(60), <1>1, <1>2, <1>6 DEF IInv, TypeOK, memory, flags
<1>8. JournalOK' /\ Continues(journal', visible', history')
  <2>1. /\ Chain(<<>>, clock) /\ Continues(<<>>, durable', history) /\ Kept(<<>>, <<>>, durable')
        /\ Continues(<<>>, visible', history)
    BY ZenonT(60), EmptyJournal
  <2> QED BY ZenonT(60), <1>1, <1>3, <1>6, <2>1 DEF JournalOK, FilesOK, flags
<1>9. UpInv'
  BY ZenonT(60), <1>1, <1>2, <1>3, <1>6, <1>8 DEF IInv, UpInv, memory, flags
<1>10. Settled'
  BY SMTT(60), <1>1, <1>3, <1>6 DEF Settled, memory, flags
<1>11. RunningInv'
  BY ZenonT(60), <1>1, <1>3, <1>6, <1>10 DEF RunningInv, memory, flags
<1> QED BY ZenonT(60), <1>1, <1>2, <1>6, <1>7, <1>9, <1>11, UpStep

\* BulkAbandon: nothing of the load is visible, and all of it or nothing is on disk.
LEMMA BulkAbandonStep == IInv /\ BulkAbandon => IInv'
<1> SUFFICES ASSUME IInv, BulkAbandon
             PROVE  IInv'
  OBVIOUS
<1>1. /\ pc = "bulk" /\ pc' = "idle"
      /\ requires_restart' = (requires_restart \/ revision - visible.revision > 0)
      /\ UNCHANGED <<memory, options, unflushed, redb_failed, serving, draft, visible, journal,
                     synced, pending, index_valid, staged, clock, ghosts>>
  BY ZenonT(60) DEF BulkAbandon
<1>2. pc \in Up /\ pc' \in Up /\ pc' \notin {"append", "bulk"}
  BY ZenonT(60), <1>1 DEF Up
<1>3. /\ ~requires_restart /\ ~serving /\ visible.revision <= revision /\ ~redb_failed
      /\ staged.docs = history[revision] /\ usage = Present(staged.docs)
      /\ revision = visible.revision => last_commit_time = visible.time
      /\ options.journal => durable.revision = visible.revision
      /\ journal = <<>> /\ synced = <<>> /\ JournalOK
      /\ durable.revision <= revision
      /\ Continues(journal, visible, history)
  BY ZenonT(60), <1>1, <1>2 DEF IInv, UpInv, RunningInv, BulkInv
<1>4. visible \in Redb /\ durable \in Redb /\ revision \in Nat /\ owed \in Nat /\ safe \in Nat
  BY ZenonT(60) DEF IInv, TypeOK
<1>5. visible.revision \in Nat /\ durable.revision \in Nat
  BY ZenonT(60), <1>4 DEF Redb
<1>6. /\ requires_restart' \in BOOLEAN
      /\ requires_restart' <=> revision # visible.revision
  <2>1. (revision - visible.revision > 0) <=> (revision # visible.revision)
    BY SMTT(60), <1>3, <1>4, <1>5
  <2>2. CASE revision = visible.revision
    <3>1. requires_restart' = FALSE
      BY ZenonT(60), <1>1, <1>3, <2>1, <2>2
    <3> QED BY ZenonT(60), <2>2, <3>1
  <2>3. CASE revision # visible.revision
    <3>1. requires_restart' = TRUE
      BY ZenonT(60), <1>1, <2>1, <2>3
    <3> QED BY ZenonT(60), <2>3, <3>1
  <2> QED BY ZenonT(60), <2>2, <2>3
<1>7. /\ durable' \in Redb /\ DbOK(durable', history, clock) /\ durable.revision <= durable'.revision
      /\ revision = visible.revision => durable' = durable
  <2>1. CASE durable' = durable
    BY SMTT(60), <1>4, <1>5, <2>1 DEF IInv
  <2>2. CASE durable' # durable
    <3>1. PICK written : written = persist_state(staged, revision, last_commit_time, options.field_indexes, usage)
      OBVIOUS
    <3>2. revision # visible.revision /\ durable' = written
      BY SMTT(60), <1>4, <2>2, <3>1 DEF BulkAbandon
    <3>3. written \in Redb /\ written.revision = revision /\ DbOK(written, history, clock)
      BY ZenonT(60), <1>1, <3>1, <3>2, BulkWritten
    <3> QED BY ZenonT(60), <1>3, <3>2, <3>3
  <2> QED BY ZenonT(60), <2>1, <2>2
<1>8. TypeOK'
  BY ZenonT(60), <1>1, <1>2, <1>6, <1>7 DEF IInv, TypeOK, memory, ghosts
<1>9. JournalOK'
  <2>1. /\ Chain(<<>>, clock) /\ Continues(<<>>, durable', history) /\ Kept(<<>>, <<>>, durable')
    BY ZenonT(60), EmptyJournal
  <2>2. durable'.revision \in Nat
    BY ZenonT(60), <1>7 DEF Redb
  <2>3. /\ options.journal => Reaches(<<>>, durable', owed)
        /\ Reaches(<<>>, durable', safe)
    BY SMTT(60), <1>3, <1>4, <1>5, <1>7, <2>2 DEF JournalOK, Reaches
  <2> QED BY ZenonT(60), <1>1, <1>3, <2>1, <2>3 DEF JournalOK, FilesOK, ghosts
<1>10. UpInv'
  BY ZenonT(60), <1>1, <1>2, <1>3, <1>9 DEF IInv, UpInv, memory, ghosts
<1>11. RunningInv'
  <2> SUFFICES ASSUME revision = visible.revision
               PROVE  RunningInv'
    BY ZenonT(60), <1>6 DEF RunningInv
  <2>1. durable' = durable /\ visible.docs = staged.docs
    BY ZenonT(60), <1>3, <1>7 DEF IInv, DbOK, DocsExact
  <2>2. Settled'
    BY SMTT(60), <1>1, <1>3, <2>1 DEF Settled, memory
  <2> QED BY ZenonT(60), <1>1, <1>2, <1>3, <2>1, <2>2 DEF IInv, RunningInv, memory, ghosts
<1> QED BY ZenonT(60), <1>1, <1>2, <1>7, <1>8, <1>10, <1>11, UpStep DEF IInv, ghosts
=============================================================================
