------------------------- MODULE ListenClientProofs -------------------------
(***************************************************************************)
(* The steps of the stream that send views keep the conversations, and      *)
(* what follows: a resume token certifies what the client holds, whatever   *)
(* is still in the channel and however commits, reconnects, resets and      *)
(* siblings interleave.                                                     *)
(***************************************************************************)
EXTENDS ListenProofs, ListenConversation

(***************************************************************************)
(* The outcomes of a refresh.                                               *)
(***************************************************************************)

\* What is sent for one target, and the loop over the targets as a function of
\* the ones it has passed.
SentFor(u, denied) ==
    IF u \in denied THEN <<TargetChange("Rejected", u, Absent)>>
    ELSE DocumentChanges(u, Refreshed(u).changes)

Sends(f, denied) ==
    f = [s \in SUBSET DOMAIN targets |->
           IF s = {} THEN <<>> ELSE f[s \ {Max(s)}] \o SentFor(Max(s), denied)]

\* Outcomes is the end of that loop.
LEMMA OutcomesLoop ==
    ASSUME NEW denied
    PROVE  Outcomes(denied) = (CHOOSE f : Sends(f, denied))[DOMAIN targets]
BY ZenonT(60) DEF Outcomes, MapThenFoldSet, Sends, SentFor

\* Every target is at the snapshot after a refresh, and its changes lead there.
LEMMA RefreshedFacts ==
    ASSUME ListenInv, TaskInv, job.stage = "Evaluate", NEW u \in DOMAIN targets
    PROVE  /\ Refreshed(u).target = Target(SpecOf[u], contents[job.snapshot + 1], job.snapshot)
           /\ Refreshed(u).changes \in Seq(Change)
           /\ Leads(Refreshed(u).changes, targets[u].documents, View(u, job.snapshot, contents))
           /\ u \in Targets
<1> DEFINE s == job.snapshot
           r == targets[u].revision
<1>1. u \in Targets /\ Shows(targets[u], SpecOf[u], contents)
  BY ZenonT(60) DEF ListenInv, TargetsInv
<1>2. r \in Nat /\ s \in Nat /\ r <= s
  <2>1. r <= s
    BY ZenonT(60) DEF TaskInv
  <2>2. s \in Nat
    BY SMTT(60) DEF ListenInv, JobInv
  <2>3. r \in Nat
    BY SMTT(60), <1>1 DEF Shows
  <2> QED BY ZenonT(60), <2>1, <2>2, <2>3
<1>3. targets[u] = Target(SpecOf[u], contents[r + 1], r)
  BY ZenonT(60), <1>1 DEF Shows
<1>4. CASE r >= s
  <2>1. r = s /\ Refreshed(u) = [target |-> targets[u], changes |-> <<>>]
    BY SMTT(60), <1>2, <1>4 DEF Refreshed
  <2>2. Refreshed(u).target = targets[u] /\ Refreshed(u).changes = <<>>
    BY SMTT(60), <2>1
  <2>3. targets[u].documents = View(u, s, contents)
    <3> HIDE DEF r, s
    <3> QED BY SMTT(60), <1>3, <2>1 DEF Target, View
  <2> QED BY ZenonT(60), <1>1, <1>3, <2>1, <2>2, <2>3, LeadsNowhere
<1>5. CASE ~(r >= s)
  <2>1. r < s
    BY SMTT(60), <1>2, <1>5
  <2>2. Refreshes(Refreshed(u), SpecOf[u], targets[u].documents, At(s))
    BY ZenonT(60), <2>1, RefreshedShows
  <2>3. At(s).documents = contents[s + 1] /\ At(s).revision = s
    BY ZenonT(60) DEF At
  <2> HIDE DEF s
  <2> QED BY ZenonT(60), <1>1, <2>2, <2>3 DEF Refreshes, View, s
<1> QED BY ZenonT(60), <1>4, <1>5

\* Where a client target is after the outcomes.
After(x, t, denied) ==
    IF x.state # "on" THEN x
    ELSE IF t \in denied THEN Client("off", x.once, <<>>, <<>>, Absent)
    ELSE Client("on", x.once, x.held, View(t, job.snapshot, contents), x.token)

\* What is sent for a target takes that one to the snapshot, and no other.
LEMMA TalkSent ==
    ASSUME ListenInv, TaskInv, job.stage = "Evaluate", NEW denied, NEW u \in DOMAIN targets,
           NEW t \in Targets, NEW x, Certified(x, t, contents),
           t = u => /\ x.state \in {"on", "removing"}
                    /\ x.state = "on" => x.pending = targets[t].documents
    PROVE  /\ SentFor(u, denied) \in Seq(Message)
           /\ Talk(SentFor(u, denied), t, x, IF t = u THEN After(x, t, denied) ELSE x, contents)
<1> DEFINE ms == SentFor(u, denied)
           rejected == TargetChange("Rejected", u, Absent)
<1>1. /\ Refreshed(u).changes \in Seq(Change) /\ u \in Targets
      /\ Leads(Refreshed(u).changes, targets[u].documents, View(u, job.snapshot, contents))
  BY ZenonT(60), RefreshedFacts
<1>2. rejected \in Message /\ rejected.kind = "Rejected" /\ rejected.target = u
  BY ZenonT(60), <1>1 DEF TargetChange, Message
<1>3. /\ ms \in Seq(Message)
      /\ \A i \in 1..Len(ms) : ms[i].target = u /\ ms[i].kind \notin {"NoChange", "Removed"}
  <2>1. CASE u \in denied
    <3>1. ms = <<rejected>>
      BY ZenonT(60), <2>1 DEF SentFor
    <3> HIDE DEF ms, rejected
    <3> QED BY SMTT(60), <1>2, <3>1
  <2>2. CASE u \notin denied
    <3>1. ms = DocumentChanges(u, Refreshed(u).changes)
      BY ZenonT(60), <2>2 DEF SentFor
    <3> HIDE DEF ms
    <3> QED BY SMTT(60), <1>1, <3>1, DocumentFacts
  <2> QED BY ZenonT(60), <2>1, <2>2
<1>4. CASE t # u \/ x.state = "removing"
  <2>1. Talk(ms, t, x, x, contents)
    <3> HIDE DEF ms
    <3> QED BY ZenonT(60), <1>3, <1>4, TalkOpeningQuiet
  <2>2. (IF t = u THEN After(x, t, denied) ELSE x) = x
    BY ZenonT(60), <1>4 DEF After
  <2> QED BY ZenonT(60), <1>3, <2>1, <2>2
<1>5. CASE t = u /\ x.state = "on" /\ u \in denied
  <2>1. ms = <<rejected>>
    BY ZenonT(60), <1>5 DEF SentFor
  <2> HIDE DEF rejected
  <2>2. Understood(x, t, rejected) = After(x, t, denied)
    BY ZenonT(60), <1>2, <1>5, UnderstoodEnd DEF After, Certified
  <2>3. Certified(After(x, t, denied), t, contents)
    <3>1. PICK y : y = Client("off", x.once, <<>>, <<>>, Absent)
      OBVIOUS
    <3>2. Certified(y, t, contents)
      BY ZenonT(60), <3>1 DEF Certified, Client
    <3> QED BY ZenonT(60), <1>5, <3>1, <3>2 DEF After
  <2>4. Fits(x, t, rejected)
    BY ZenonT(60), <1>2, <1>5 DEF Fits, Concerns
  <2>5. Talk(<<rejected>>, t, x, After(x, t, denied), contents)
    BY ZenonT(60), <2>2, <2>3, <2>4, TalkOne
  <2> QED BY ZenonT(60), <1>3, <1>5, <2>1, <2>5
<1>6. CASE t = u /\ x.state = "on" /\ u \notin denied
  <2>1. ms = DocumentChanges(t, Refreshed(t).changes)
    BY ZenonT(60), <1>6 DEF SentFor
  <2>2. After(x, t, denied) = Client("on", x.once, x.held, View(t, job.snapshot, contents), x.token)
    BY ZenonT(60), <1>6 DEF After
  <2>3. Refreshed(t).changes \in Seq(Change)
        /\ Leads(Refreshed(t).changes, x.pending, View(t, job.snapshot, contents))
    BY ZenonT(60), <1>1, <1>6
  <2>4. Talk(DocumentChanges(t, Refreshed(t).changes), t, x,
             Client("on", x.once, x.held, View(t, job.snapshot, contents), x.token), contents)
    BY ZenonT(60), <1>6, <2>3, TalkDocuments
  <2> QED BY ZenonT(60), <1>3, <1>6, <2>1, <2>2, <2>4
<1> QED BY ZenonT(60), <1>4, <1>5, <1>6

\* The loop over the targets is there.
LEMMA SendsExists ==
    ASSUME ListenInv, TaskInv, job.stage = "Evaluate", NEW denied
    PROVE  \E f : Sends(f, denied)
<1> DEFINE D == DOMAIN targets
           step == [p \in D \X Seq(Message) |-> p[2] \o SentFor(p[1], denied)]
<1>1. D \subseteq Nat /\ IsFiniteSet(D) /\ D \subseteq Targets
  <2>1. D \subseteq Targets
    BY ZenonT(60) DEF ListenInv, TargetsInv
  <2> QED BY ZenonT(60), <2>1, TargetsAssumption, FS_Subset
<1>2. ASSUME NEW u \in D
      PROVE  SentFor(u, denied) \in Seq(Message)
  <2>1. Refreshed(u).changes \in Seq(Change) /\ u \in Targets
    BY ZenonT(60), RefreshedFacts
  <2>2. TargetChange("Rejected", u, Absent) \in Message
    BY ZenonT(60), <2>1 DEF TargetChange, Message
  <2>3. DocumentChanges(u, Refreshed(u).changes) \in Seq(Message)
    BY ZenonT(60), <2>1, DocumentFacts
  <2> QED BY SMTT(60), <2>2, <2>3 DEF SentFor
<1>3. \A u \in D : \A m \in Seq(Message) :
        m \o SentFor(u, denied) \in Seq(Message) /\ step[<<u, m>>] = m \o SentFor(u, denied)
  <2> SUFFICES ASSUME NEW u \in D, NEW m \in Seq(Message)
               PROVE  m \o SentFor(u, denied) \in Seq(Message) /\ step[<<u, m>>] = m \o SentFor(u, denied)
    BY ZenonT(60)
  <2>1. m \o SentFor(u, denied) \in Seq(Message)
    BY SMTT(60), <1>2
  <2> QED BY ZenonT(60), <2>1
<1>4. step \in [D \X Seq(Message) -> Seq(Message)]
  BY ZenonT(60), <1>3
<1>5. <<>> \in Seq(Message)
  BY SMTT(60)
<1>6. PICK f : Folded(f, Seq(Message), <<>>, D, step)
  <2> HIDE DEF step, D
  <2> QED BY ZenonT(60), <1>1, <1>4, <1>5, FoldExists
<1>7. ASSUME NEW s \in SUBSET D
      PROVE  f[s] = IF s = {} THEN <<>> ELSE f[s \ {Max(s)}] \o SentFor(Max(s), denied)
  <2>1. f \in [SUBSET D -> Seq(Message)] /\ f[s] = IF s = {} THEN <<>> ELSE step[<<Max(s), f[s \ {Max(s)}]>>]
    <3> HIDE DEF step, D
    <3> QED BY ZenonT(60), <1>6 DEF Folded
  <2>2. CASE s # {}
    <3>1. Max(s) \in s
      BY ZenonT(60), <1>1, <2>2, FS_Subset, LastKey
    <3>2. Max(s) \in D /\ f[s \ {Max(s)}] \in Seq(Message)
      BY ZenonT(60), <2>1, <3>1
    <3> HIDE DEF step, D
    <3> QED BY ZenonT(60), <1>3, <2>1, <2>2, <3>2
  <2>3. CASE s = {}
    BY ZenonT(60), <2>1, <2>3
  <2> QED BY ZenonT(60), <2>2, <2>3
<1>8. f = [s \in SUBSET D |-> f[s]]
  BY ZenonT(60), <1>6 DEF Folded
<1>9. Sends(f, denied)
  <2> DEFINE g == [s \in SUBSET D |-> IF s = {} THEN <<>> ELSE f[s \ {Max(s)}] \o SentFor(Max(s), denied)]
  <2>1. f = g
    <3> HIDE DEF D
    <3> QED BY ZenonT(60), <1>7, <1>8
  <2> QED BY ZenonT(60), <2>1 DEF Sends
<1> QED BY ZenonT(60), <1>9

\* The outcomes take every client target that listens to the snapshot, or end it.
LEMMA TalkOutcomes ==
    ASSUME ListenInv, TaskInv, job.stage = "Evaluate", NEW denied,
           NEW t \in Targets, NEW x, Certified(x, t, contents),
           t \in DOMAIN targets => x.state \in {"on", "removing"},
           x.state = "on" => t \in DOMAIN targets /\ x.pending = targets[t].documents
    PROVE  /\ Outcomes(denied) \in Seq(Message)
           /\ Talk(Outcomes(denied), t, x, After(x, t, denied), contents)
<1> DEFINE D == DOMAIN targets
           f == CHOOSE f : Sends(f, denied)
           Mid(s) == IF t \in s THEN After(x, t, denied) ELSE x
           P == {s \in SUBSET D : f[s] \in Seq(Message) /\ Talk(f[s], t, x, Mid(s), contents)}
<1>1. D \subseteq Nat /\ IsFiniteSet(D) /\ D \subseteq Targets
  <2>1. D \subseteq Targets
    BY ZenonT(60) DEF ListenInv, TargetsInv
  <2> QED BY ZenonT(60), <2>1, TargetsAssumption, FS_Subset
<1>2. Sends(f, denied) /\ Outcomes(denied) = f[D]
  BY ZenonT(60), SendsExists, OutcomesLoop
<1> HIDE DEF f
<1>3. \A s \in SUBSET D : f[s] = IF s = {} THEN <<>> ELSE f[s \ {Max(s)}] \o SentFor(Max(s), denied)
  BY ZenonT(60), <1>2 DEF Sends
<1>4. {} \in P
  <2>1. f[{}] = <<>> /\ <<>> \in Seq(Message)
    <3>1. {} \in SUBSET D
      OBVIOUS
    <3>2. f[{}] = <<>>
      BY ZenonT(60), <1>3, <3>1
    <3> QED BY SMTT(60), <3>2
  <2>2. Talk(<<>>, t, x, x, contents)
    BY ZenonT(60), TalkNothing
  <2> QED BY ZenonT(60), <2>1, <2>2
<1>5. ASSUME NEW s \in SUBSET D, s # {}, s \ {Max(s)} \in P
      PROVE  s \in P
  <2> DEFINE k == Max(s)
             r == s \ {k}
  <2>1. k \in s /\ k \in D
    <3>1. Max(s) \in s
      BY ZenonT(60), <1>1, <1>5, FS_Subset, LastKey
    <3> QED BY ZenonT(60), <3>1
  <2>2. f[r] \in Seq(Message) /\ Talk(f[r], t, x, Mid(r), contents) /\ f[s] = f[r] \o SentFor(k, denied)
    BY ZenonT(60), <1>3, <1>5
  <2> HIDE DEF k, Mid
  <2>3. Certified(Mid(r), t, contents)
    BY ZenonT(60), <2>2, TalkEnds
  <2>4. t = k => Mid(r) = x
    BY ZenonT(60) DEF Mid
  <2>5. /\ SentFor(k, denied) \in Seq(Message)
        /\ Talk(SentFor(k, denied), t, Mid(r), IF t = k THEN After(Mid(r), t, denied) ELSE Mid(r), contents)
    BY ZenonT(60), <2>1, <2>3, <2>4, TalkSent
  <2>6. (IF t = k THEN After(Mid(r), t, denied) ELSE Mid(r)) = Mid(s)
    BY ZenonT(60), <2>1 DEF Mid
  <2>7. Talk(SentFor(k, denied), t, Mid(r), Mid(s), contents)
    BY ZenonT(60), <2>5, <2>6
  <2> HIDE DEF r
  <2>8. Talk(f[r] \o SentFor(k, denied), t, x, Mid(s), contents)
    BY ZenonT(60), <2>2, <2>5, <2>7, TalkJoin
  <2>9. f[r] \o SentFor(k, denied) \in Seq(Message)
    BY SMTT(60), <2>2, <2>5
  <2> QED BY ZenonT(60), <2>2, <2>8, <2>9
<1>6. D \in P
  <2> HIDE DEF P, D
  <2> QED BY ZenonT(60), <1>1, <1>4, <1>5, KeyInduction
<1>7. Mid(D) = After(x, t, denied)
  BY ZenonT(60) DEF After
<1> QED BY ZenonT(60), <1>2, <1>6, <1>7

\* After the refresh every target shows the snapshot.
LEMMA RefreshedView ==
    ASSUME ClientInv, job.stage = "Evaluate", NEW t \in DOMAIN targets
    PROVE  /\ Refreshed(t).target.documents = View(t, job.snapshot, contents)
           /\ Refreshed(t).target.revision = job.snapshot
<1>1. Refreshed(t).target = Target(SpecOf[t], contents[job.snapshot + 1], job.snapshot)
  BY ZenonT(60), RefreshedFacts DEF ClientInv
<1> QED BY SMTT(60), <1>1 DEF Target, View

\* A target that listened shows the snapshot, or is told of an error.
Heard(a, e, t, denied) ==
    /\ Certified(a, t, contents)
    /\ e.state # "on" => a = e
    /\ e.state = "on" /\ t \in denied => a.state = "off"
    /\ e.state = "on" /\ t \notin denied =>
         /\ a.state = "on" /\ a.once = e.once /\ ~e.once
         /\ a.pending = View(t, job.snapshot, contents)
         /\ a.token # Absent => a.token <= job.snapshot

\* The outcomes of a refresh in the conversation of one client target.
LEMMA OutcomesHeard ==
    ASSUME ClientInv, job.stage = "Evaluate", NEW denied \in SUBSET DOMAIN targets, NEW t \in Targets,
           NEW e, Talk(channel, t, client[t], e, contents), Agrees(Waiting, InHand, targets, t, e)
    PROVE  /\ channel \o Outcomes(denied) \in Seq(Message)
           /\ Talk(channel \o Outcomes(denied), t, client[t], After(e, t, denied), contents)
           /\ Heard(After(e, t, denied), e, t, denied)
<1> DEFINE a == After(e, t, denied)
<1>1. channel \in Seq(Message) /\ ListenInv /\ TaskInv
  BY ZenonT(60), EvaluateFacts
<1>2. Certified(e, t, contents)
  BY ZenonT(60), <1>1, TalkEnds
<1>3. /\ t \in DOMAIN targets => e.state \in {"on", "removing"}
      /\ e.state = "on" => /\ t \in DOMAIN targets /\ e.pending = targets[t].documents /\ ~e.once
                           /\ e.token # Absent => e.token <= targets[t].revision
  BY ZenonT(60), <1>2 DEF Agrees, Certified
<1>4. Outcomes(denied) \in Seq(Message) /\ Talk(Outcomes(denied), t, e, a, contents)
  BY ZenonT(60), <1>1, <1>2, <1>3, TalkOutcomes
<1>5. channel \o Outcomes(denied) \in Seq(Message)
  BY SMTT(60), <1>1, <1>4
<1> HIDE DEF a
<1>6. Talk(channel \o Outcomes(denied), t, client[t], a, contents) /\ Certified(a, t, contents)
  BY ZenonT(60), <1>1, <1>4, TalkJoin, TalkEnds
<1>7. e.state # "on" => a = e
  BY ZenonT(60) DEF a, After
<1>8. e.state = "on" /\ t \in denied => a.state = "off"
  BY ZenonT(60) DEF a, After, Client
<1>9. ASSUME e.state = "on", t \notin denied
      PROVE  /\ a.state = "on" /\ a.once = e.once /\ ~e.once /\ a.pending = View(t, job.snapshot, contents)
             /\ a.token # Absent => a.token <= job.snapshot
  <2>1. /\ a.state = "on" /\ a.once = e.once /\ a.pending = View(t, job.snapshot, contents)
        /\ a.token = e.token
    BY ZenonT(60), <1>9 DEF a, After, Client
  <2>2. targets[t].revision \in Nat /\ targets[t].revision <= job.snapshot /\ job.snapshot \in Nat
    BY ZenonT(60), <1>3, <1>9, EvaluateFacts
  <2>3. e.token # Absent => e.token \in Nat
    BY SMTT(60), <1>2 DEF Certified
  <2> QED BY SMTT(60), <1>3, <1>9, <2>1, <2>2, <2>3
<1>10. Heard(a, e, t, denied)
  BY ZenonT(60), <1>6, <1>7, <1>8, <1>9 DEF Heard
<1> QED BY ZenonT(60), <1>5, <1>6, <1>10 DEF a

\* A checkpoint after the outcomes or none: a target that is not in hand agrees.
LEMMA OutcomesAgree ==
    ASSUME ClientInv, job.stage = "Evaluate", NEW denied \in SUBSET DOMAIN targets, NEW t \in Targets,
           NEW e, Talk(channel, t, client[t], e, contents), Agrees(Waiting, InHand, targets, t, e),
           ~Adds(InHand, t), NEW U,
           t \in DOMAIN U <=> t \in DOMAIN targets \ denied,
           t \in DOMAIN U => U[t] = Refreshed(t).target
    PROVE  LET a == After(e, t, denied)
           IN  /\ Agrees(Waiting, Absent, U, t, a)
               /\ Agrees(Waiting, Absent, U, t, Checked(a, job.snapshot))
               /\ Talk(<<TargetChange("NoChange", Absent, job.snapshot)>>, t, a,
                       Checked(a, job.snapshot), contents)
<1> DEFINE a == After(e, t, denied)
           b == Checked(a, job.snapshot)
<1>1. /\ job.snapshot \in 0..Len(contents) - 1 /\ Len(contents) \in Nat /\ job.snapshot \in Nat
      /\ t \in DOMAIN targets => /\ Refreshed(t).target.documents = View(t, job.snapshot, contents)
                                 /\ Refreshed(t).target.revision = job.snapshot
  BY ZenonT(60), EvaluateFacts, RefreshedView
<1>2. Heard(a, e, t, denied)
  BY ZenonT(60), OutcomesHeard
<1>3. e.state = "on" => t \in DOMAIN targets
  BY ZenonT(60) DEF Agrees
<1> HIDE DEF a, b
<1>4. a.state = "on" => a.pending = View(t, job.snapshot, contents) /\ (a.token # Absent => a.token <= job.snapshot)
  BY ZenonT(60), <1>2 DEF Heard
<1>5. Talk(<<TargetChange("NoChange", Absent, job.snapshot)>>, t, a, b, contents)
  BY ZenonT(60), <1>1, <1>2, <1>4, TalkCheckpoint DEF b, Heard
<1>6. /\ a.state # "on" => b = a
      /\ a.state = "on" /\ ~a.once => /\ b.state = "on" /\ b.once = a.once /\ b.pending = a.pending
                                      /\ b.token = job.snapshot
  BY ZenonT(60) DEF b, Checked, Client
<1>7. e.state = "on" => \/ a.state = "off" /\ t \notin DOMAIN U
                        \/ /\ a.state = "on" /\ a.once = e.once /\ t \in DOMAIN U
                           /\ a.pending = U[t].documents
                           /\ a.token # Absent => a.token <= U[t].revision
  BY ZenonT(60), <1>1, <1>2, <1>3 DEF Heard
<1>8. e.state = "on" => \/ b.state = "off" /\ t \notin DOMAIN U
                        \/ /\ b.state = "on" /\ b.once = e.once /\ t \in DOMAIN U
                           /\ b.pending = U[t].documents
                           /\ b.token # Absent => b.token <= U[t].revision
  BY SMTT(60), <1>1, <1>2, <1>3, <1>6 DEF Heard
<1>9. e.state # "on" => a = e /\ b = e
  BY ZenonT(60), <1>2, <1>6 DEF Heard
<1>10. Agrees(Waiting, Absent, U, t, a)
  BY ZenonT(60), <1>7, <1>9, AgreesRefreshed
<1>11. Agrees(Waiting, Absent, U, t, b)
  BY ZenonT(60), <1>8, <1>9, AgreesRefreshed
<1> QED BY ZenonT(60), <1>5, <1>10, <1>11 DEF a, b

\* A refresh ends with its outcomes, and with a checkpoint or an answer.
LEMMA EvaluateRest == ClientInv /\ Evaluate => RestInv'
<1> SUFFICES ASSUME ClientInv, Evaluate PROVE RestInv'
  OBVIOUS
<1> DEFINE s == job.snapshot
           u == job.request.target
           last == TargetChange("NoChange", Absent, s)
           kept(denied) == [t \in DOMAIN targets \ denied |-> Refreshed(t).target]
<1>1. /\ job.stage = "Evaluate" /\ job' = Idle /\ UNCHANGED <<contents, requests, client>>
  BY ZenonT(60) DEF Evaluate, store
<1>2. PICK denied \in SUBSET DOMAIN targets :
        \/ /\ job.request = Absent /\ targets' = kept(denied)
           /\ channel' = (channel \o Outcomes(denied)) \o Checkpoint(denied)
        \/ /\ job.request # Absent
           /\ targets' = IF job.request.once THEN kept(denied)
                         ELSE With(kept(denied), u, job.initial.watch)
           /\ channel' = (channel \o Outcomes(denied)) \o send_initial_target(job.request, job.initial)
  BY ZenonT(60) DEF Evaluate, Lagging
<1> DEFINE told == channel \o Outcomes(denied)
<1>3. Waiting' = Waiting /\ InHand' = Absent /\ TaskInv' /\ QueueInv'
  <2>1. job'.stage = "Idle"
    BY ZenonT(60), <1>1 DEF Idle
  <2> QED BY ZenonT(60), <1>1, <2>1 DEF Waiting, InHand, TaskInv, ClientInv, QueueInv
<1>4. DOMAIN kept(denied) = DOMAIN targets \ denied /\ \A t \in DOMAIN targets \ denied : kept(denied)[t] = Refreshed(t).target
  OBVIOUS
<1>5. InHand = job.request /\ s \in Nat
  BY ZenonT(60), <1>1, EvaluateFacts
<1>6. last \in Message
  BY ZenonT(60), <1>5 DEF TargetChange, Message
<1> HIDE DEF s, u, last, kept
<1>7. ASSUME NEW t \in Targets
      PROVE  /\ channel' \in Seq(Message)
             /\ \E f : Talk(channel', t, client[t], f, contents) /\ Agrees(Waiting, Absent, targets', t, f)
  <2>1. PICK e : Talk(channel, t, client[t], e, contents) /\ Agrees(Waiting, InHand, targets, t, e)
    BY ZenonT(60) DEF ClientInv, ConversationInv
  <2>2. PICK a : a = After(e, t, denied)
    OBVIOUS
  <2>3. told \in Seq(Message) /\ Talk(told, t, client[t], a, contents) /\ Heard(a, e, t, denied)
    BY ZenonT(60), <1>1, <2>1, <2>2, OutcomesHeard
  <2> HIDE DEF told
  <2>4. PICK U : U = targets'
    OBVIOUS
  <2>5. ASSUME ~Adds(InHand, t), t \in DOMAIN U <=> t \in DOMAIN targets \ denied,
               t \in DOMAIN U => U[t] = Refreshed(t).target
        PROVE  /\ Agrees(Waiting, Absent, U, t, a) /\ Agrees(Waiting, Absent, U, t, Checked(a, s))
               /\ Talk(<<last>>, t, a, Checked(a, s), contents)
    BY ZenonT(60), <1>1, <2>1, <2>2, <2>5, OutcomesAgree DEF s, last
  <2>6. CASE /\ job.request = Absent /\ targets' = kept(denied)
             /\ channel' = told \o Checkpoint(denied)
    <3>1. ~Adds(InHand, t)
      BY ZenonT(60), <1>5, <2>6 DEF Adds
    <3>2. (t \in DOMAIN U <=> t \in DOMAIN targets \ denied) /\ (t \in DOMAIN U => U[t] = Refreshed(t).target)
      BY ZenonT(60), <1>4, <2>4, <2>6
    <3>3. /\ Agrees(Waiting, Absent, U, t, a) /\ Agrees(Waiting, Absent, U, t, Checked(a, s))
          /\ Talk(<<last>>, t, a, Checked(a, s), contents)
      BY ZenonT(60), <2>5, <3>1, <3>2
    <3>4. CASE Checkpoint(denied) = <<last>>
      <4>1. told \o <<last>> \in Seq(Message) /\ <<last>> \in Seq(Message)
        BY SMTT(60), <1>6, <2>3
      <4>2. Talk(told \o <<last>>, t, client[t], Checked(a, s), contents)
        BY ZenonT(60), <2>3, <3>3, <4>1, TalkJoin
      <4> QED BY ZenonT(60), <2>4, <2>6, <3>3, <3>4, <4>1, <4>2
    <3>5. CASE Checkpoint(denied) = <<>>
      <4>1. told \o <<>> = told
        BY SMTT(60), <2>3
      <4> QED BY ZenonT(60), <2>3, <2>4, <2>6, <3>3, <3>5, <4>1
    <3>6. Checkpoint(denied) = <<last>> \/ Checkpoint(denied) = <<>>
      BY ZenonT(60) DEF Checkpoint, last, s
    <3> QED BY ZenonT(60), <3>4, <3>5, <3>6
  <2>7. CASE /\ job.request # Absent
             /\ targets' = IF job.request.once THEN kept(denied)
                           ELSE With(kept(denied), u, job.initial.watch)
             /\ channel' = told \o send_initial_target(job.request, job.initial)
    <3> DEFINE ms == Opening(u, s, job.initial)
               answer == send_initial_target(job.request, job.initial)
    <3>1. /\ u \in Targets /\ u \notin DOMAIN targets /\ answer = ms \o <<last>>
          /\ ms \in Seq(Message)
          /\ \A i \in 1..Len(ms) : ms[i].target = u /\ ms[i].kind \notin {"NoChange", "Removed"}
      BY ZenonT(60), <1>1, <2>7, InHandFacts DEF u, s, last
    <3> HIDE DEF ms, answer
    <3>2. answer \in Seq(Message) /\ <<last>> \in Seq(Message) /\ told \o answer \in Seq(Message)
      <4>1. <<last>> \in Seq(Message)
        BY SMTT(60), <1>6
      <4>2. ms \o <<last>> \in Seq(Message)
        BY SMTT(60), <3>1, <4>1
      <4> QED BY SMTT(60), <2>3, <3>1, <4>1, <4>2
    <3>3. \E f : Talk(answer, t, a, f, contents) /\ Agrees(Waiting, Absent, U, t, f)
      <4>1. CASE t # u
        <5>1. ~Adds(InHand, t)
          BY ZenonT(60), <1>5, <4>1 DEF Adds, u
        <5>2. (t \in DOMAIN U <=> t \in DOMAIN targets \ denied) /\ (t \in DOMAIN U => U[t] = Refreshed(t).target)
          BY ZenonT(60), <1>4, <2>4, <2>7, <4>1 DEF With
        <5>3. /\ Agrees(Waiting, Absent, U, t, Checked(a, s))
              /\ Talk(<<last>>, t, a, Checked(a, s), contents)
          BY ZenonT(60), <2>5, <5>1, <5>2
        <5>4. Talk(ms, t, a, a, contents)
          BY ZenonT(60), <2>3, <3>1, <4>1, TalkOpeningQuiet DEF Heard
        <5>5. Talk(ms \o <<last>>, t, a, Checked(a, s), contents)
          BY ZenonT(60), <3>1, <3>2, <5>3, <5>4, TalkJoin
        <5> QED BY ZenonT(60), <3>1, <5>3, <5>5
      <4>2. CASE t = u
        <5>1. e.state # "on"
          BY ZenonT(60), <2>1, <3>1, <4>2 DEF Agrees
        <5>2. a = e /\ Certified(e, t, contents)
          BY ZenonT(60), <2>3, <5>1 DEF Heard
        <5>3. /\ job.request.once => u \notin DOMAIN U
              /\ ~job.request.once => u \in DOMAIN U /\ U[u] = job.initial.watch
          BY ZenonT(60), <1>4, <2>4, <2>7, <3>1 DEF With
        <5>4. \E f : Talk(answer, u, e, f, contents) /\ Agrees(Waiting, Absent, U, u, f)
          BY ZenonT(60), <1>1, <2>1, <2>7, <4>2, <5>2, <5>3, InHandAnswered DEF u, answer
        <5> QED BY ZenonT(60), <4>2, <5>2, <5>4
      <4> QED BY ZenonT(60), <4>1, <4>2
    <3>4. PICK f : Talk(answer, t, a, f, contents) /\ Agrees(Waiting, Absent, U, t, f)
      BY ZenonT(60), <3>3
    <3>5. Talk(told \o answer, t, client[t], f, contents)
      BY ZenonT(60), <2>3, <3>2, <3>4, TalkJoin
    <3> QED BY ZenonT(60), <2>4, <2>7, <3>2, <3>4, <3>5 DEF answer
  <2> QED BY ZenonT(60), <1>2, <2>6, <2>7 DEF told
<1>8. channel' \in Seq(Message)
  <2>1. CASE Targets # {}
    BY ZenonT(60), <1>7, <2>1
  <2>2. CASE Targets = {}
    <3>1. ListenInv /\ TaskInv /\ channel \in Seq(Message) /\ DOMAIN targets = {}
      BY ZenonT(60), <1>1, <2>2, EvaluateFacts DEF ListenInv, TargetsInv
    <3>2. Outcomes(denied) = <<>>
      <4>1. PICK f : Sends(f, denied) /\ Outcomes(denied) = f[DOMAIN targets]
        BY ZenonT(60), <1>1, <3>1, SendsExists, OutcomesLoop
      <4> QED BY ZenonT(60), <3>1, <4>1 DEF Sends
    <3>3. job.request = Absent
      BY ZenonT(60), <1>1, <2>2, InHandFacts
    <3>4. Checkpoint(denied) \in Seq(Message)
      BY SMTT(60), <1>6 DEF Checkpoint, last, s
    <3>5. channel' = (channel \o <<>>) \o Checkpoint(denied)
      BY ZenonT(60), <1>2, <3>2, <3>3
    <3>6. channel \o <<>> \in Seq(Message)
      BY SMTT(60), <3>1
    <3> QED BY SMTT(60), <3>4, <3>5, <3>6
  <2> QED BY ZenonT(60), <2>1, <2>2
<1>9. ConversationInv'
  BY ZenonT(60), <1>1, <1>3, <1>7, <1>8 DEF ClientInv, ConversationInv
<1> QED BY ZenonT(60), <1>3, <1>9 DEF RestInv

(***************************************************************************)
(* The steps of the task.                                                   *)
(***************************************************************************)

\* initialize_target: what it sends takes a client from what it has, or from
\* nothing after a reset, to the snapshot; and the count the client expects is the
\* one it is compared with, so no filter is sent.
LEMMA InitialPrepared ==
    ASSUME StoreInv, NEW request \in AddRequest, Expects(request, contents), NEW s \in 0..revision
    PROVE  Prepared(initialize_target(request, s), request, s, contents)
<1> DEFINE u == request.target
           spec == SpecOf[u]
           initial == initialize(spec, At(s))
           afresh == [watch |-> initial.target, changes |-> initial.changes,
                      mode |-> "Normal", filter |-> FALSE]
<1>1. /\ u \in Targets /\ spec \in TargetSpec /\ contents \in Seq(Documents) /\ s \in Nat
      /\ s + 1 \in 1..Len(contents) /\ contents[s + 1] \in Documents
  BY SMTT(60), SpecOfAssumption DEF AddRequest, StoreInv, revision
<1>2. At(s).documents = contents[s + 1] /\ At(s).revision = s
  BY ZenonT(60) DEF At
<1>3. initial.changes \in Seq(Change) /\ Leads(initial.changes, <<>>, View(u, s, contents))
  <2>1. Refreshes(initial, spec, <<>>, At(s))
    BY ZenonT(60), <1>1, <1>2, InitializeExact
  <2> HIDE DEF initial
  <2> QED BY ZenonT(60), <1>2, <2>1 DEF Refreshes, View
<1>4. /\ afresh.changes = initial.changes /\ afresh.filter = FALSE
      /\ [afresh EXCEPT !.mode = "Reset"].changes = initial.changes
      /\ [afresh EXCEPT !.mode = "Reset"].filter = FALSE
      /\ [afresh EXCEPT !.mode = "Reset"].mode = "Reset"
  <2> HIDE DEF initial
  <2> QED OBVIOUS
<1>5. CASE request.token = Absent
  <2>1. initialize_target(request, s) = afresh
    BY ZenonT(60), <1>5 DEF initialize_target
  <2> HIDE DEF afresh, initial
  <2> QED BY ZenonT(60), <1>3, <1>4, <1>5, <2>1 DEF Prepared
<1>6. CASE request.token # Absent /\ request.token >= change_floor
  <2> DEFINE r == request.token
             baseline == initialize(spec, At(r))
             replay == refresh(baseline.target, At(s))
             resumed == resumed_target(spec, request, s)
             counts == request.expected > 0
                       /\ request.expected # Cardinality(DOMAIN baseline.target.documents)
  <2>1. initialize_target(request, s) = resumed
    BY ZenonT(60), <1>6 DEF initialize_target
  <2>2. r \in 0..Len(contents) - 1 /\ request.expected = Cardinality(DOMAIN View(u, r, contents))
    BY ZenonT(60), <1>6 DEF Expects
  <2>3. r + 1 \in 1..Len(contents) /\ contents[r + 1] \in Documents
    BY SMTT(60), <1>1, <2>2
  <2>4. baseline.target = Target(spec, contents[r + 1], r)
    BY ZenonT(60) DEF initialize, Target, At
  <2>5. baseline.target.documents = View(u, r, contents)
    <3> HIDE DEF baseline, r
    <3> QED BY SMTT(60), <2>4 DEF Target, View
  <2>6. resumed = [watch |-> replay.target, changes |-> replay.changes, mode |-> "Normal", filter |-> counts]
    BY ZenonT(60) DEF resumed_target
  <2>7. counts = FALSE
    <3> HIDE DEF baseline, r
    <3> QED BY ZenonT(60), <2>2, <2>5
  <2>8. Refreshes(replay, spec, View(u, r, contents), At(s))
    <3>1. Refreshes(refresh(Target(spec, contents[r + 1], r), At(s)), spec,
                    evaluate(spec, contents[r + 1]).documents, At(s))
      <4> HIDE DEF r, spec
      <4> QED BY ZenonT(60), <1>1, <1>2, <2>3, RefreshExact
    <3>2. replay = refresh(Target(spec, contents[r + 1], r), At(s))
      <4> HIDE DEF baseline, r
      <4> QED BY ZenonT(60), <2>4
    <3> HIDE DEF replay, r
    <3> QED BY ZenonT(60), <3>1, <3>2 DEF View
  <2>9. replay.changes \in Seq(Change) /\ Leads(replay.changes, View(u, r, contents), View(u, s, contents))
    <3> HIDE DEF replay, r
    <3> QED BY ZenonT(60), <1>2, <2>8 DEF Refreshes, View
  <2>10. resumed.changes = replay.changes /\ resumed.mode = "Normal" /\ resumed.filter = FALSE
    <3> HIDE DEF counts, replay, resumed
    <3> QED BY ZenonT(60), <2>6, <2>7
  <2> HIDE DEF resumed, replay
  <2> QED BY ZenonT(60), <1>6, <2>1, <2>9, <2>10 DEF Prepared
<1>7. CASE request.token # Absent /\ ~(request.token >= change_floor)
  <2>1. initialize_target(request, s) = [afresh EXCEPT !.mode = "Reset"]
    BY ZenonT(60), <1>7 DEF initialize_target
  <2>2. PICK i : i = [afresh EXCEPT !.mode = "Reset"]
    BY ZenonT(60)
  <2>3. i.changes = initial.changes /\ i.filter = FALSE /\ i.mode = "Reset"
    BY ZenonT(60), <1>4, <2>2
  <2> HIDE DEF afresh, initial
  <2> QED BY ZenonT(60), <1>3, <2>1, <2>2, <2>3 DEF Prepared
<1> QED BY ZenonT(60), <1>5, <1>6, <1>7

\* Steps of the task between its first read and its last.
LEMMA TaskRest == ClientInv /\ (Wake \/ Initialize \/ ReadHistory) => RestInv'
<1> SUFFICES ASSUME ClientInv, Wake \/ Initialize \/ ReadHistory PROVE RestInv'
  OBVIOUS
<1>1. UNCHANGED <<contents, requests, channel, targets, client>>
  BY ZenonT(60) DEF Wake, Initialize, ReadHistory, store
<1>2. QueueInv'
  BY ZenonT(60), <1>1 DEF ClientInv, QueueInv
<1>3. InHand' = InHand /\ TaskInv'
  <2>1. CASE Wake
    <3>1. /\ job = Idle /\ job'.stage = "History" /\ job'.request = Absent /\ job'.snapshot = revision
      BY ZenonT(60), <2>1 DEF Wake
    <3>2. \A t \in DOMAIN targets : targets[t].revision <= revision
      BY SMTT(60) DEF ClientInv, ListenInv, StoreInv, TargetsInv, Shows, revision
    <3> QED BY ZenonT(60), <1>1, <3>1, <3>2 DEF TaskInv, InHand, Idle
  <2>2. CASE Initialize
    <3>1. /\ job.stage = "Initialize" /\ job'.stage = "History" /\ job'.request = job.request
          /\ job'.snapshot = job.snapshot
          /\ job'.initial = initialize_target(job.request, job.snapshot)
      BY ZenonT(60), <2>2 DEF Initialize
    <3>2. job.request # Absent =>
            Prepared(initialize_target(job.request, job.snapshot), job.request, job.snapshot, contents)
      <4>1. job.snapshot \in 0..revision /\ StoreInv
        BY ZenonT(60), <3>1 DEF ClientInv, ListenInv, JobInv
      <4>2. job.request # Absent => job.request \in AddRequest /\ Expects(job.request, contents)
        BY ZenonT(60), <3>1 DEF ClientInv, TaskInv
      <4> QED BY ZenonT(60), <4>1, <4>2, InitialPrepared
    <3> QED BY ZenonT(60), <1>1, <3>1, <3>2 DEF ClientInv, TaskInv, InHand
  <2>3. CASE ReadHistory
    <3>1. /\ job.stage = "History" /\ job'.stage = "Evaluate" /\ job'.request = job.request
          /\ job'.snapshot = job.snapshot /\ (job.request # Absent => job'.initial = job.initial)
      BY ZenonT(60), <2>3 DEF ReadHistory
    <3> QED BY ZenonT(60), <1>1, <3>1 DEF ClientInv, TaskInv, InHand
  <2> QED BY ZenonT(60), <2>1, <2>2, <2>3
<1>4. ConversationInv'
  <2>1. Waiting' = Waiting
    BY ZenonT(60), <1>1 DEF Waiting
  <2>2. ASSUME NEW t \in Targets, NEW e, Agrees(Waiting, InHand, targets, t, e)
        PROVE  Agrees(Waiting, InHand, targets, t, e)'
    BY ZenonT(60), <1>1, <1>3, <2>1, <2>2
  <2> QED BY ZenonT(60), <1>1, <2>2, ConversationKept DEF ClientInv
<1> QED BY ZenonT(60), <1>2, <1>3, <1>4 DEF RestInv

(***************************************************************************)
(* What a client holds.                                                     *)
(***************************************************************************)

\* Every step keeps the invariant.
LEMMA ClientNext == ClientInv /\ [Next]_vars => ClientInv'
<1> SUFFICES ASSUME ClientInv, [Next]_vars PROVE ClientInv'
  OBVIOUS
<1>1. ListenInv'
  BY ZenonT(60), ListenNext DEF ClientInv
<1>2. RestInv'
  <2>1. CASE UNCHANGED vars
    <3>1. UNCHANGED <<contents, requests, channel, targets, job, client>>
      BY ZenonT(60), <2>1 DEF vars
    <3>2. Waiting' = Waiting /\ InHand' = InHand /\ QueueInv' /\ TaskInv'
      BY ZenonT(60), <3>1 DEF Waiting, InHand, ClientInv, QueueInv, TaskInv
    <3>3. ConversationInv'
      BY ZenonT(60), <3>1, <3>2 DEF ClientInv, ConversationInv
    <3> QED BY ZenonT(60), <3>2, <3>3 DEF RestInv
  <2>2. ASSUME NEW t \in Targets, StartListening(t) \/ Reconnect(t) \/ StopListening(t)
        PROVE  RestInv'
    <3>1. CASE StartListening(t)
      <4>1. PICK once \in BOOLEAN : Ask(t, once)
        BY ZenonT(60), <3>1 DEF StartListening
      <4>2. client[t].state \in {"off", "lost"}
        BY ZenonT(60), <3>1 DEF StartListening
      <4> QED BY ZenonT(60), <4>1, <4>2, AskRest
    <3>2. CASE Reconnect(t)
      <4>1. channel \in Seq(Message) /\ \E e : Talk(channel, t, client[t], e, contents)
        BY ZenonT(60) DEF ClientInv, ConversationInv
      <4>2. Certified(client[t], t, contents)
        BY ZenonT(60), <4>1, TalkEnds
      <4>3. client[t].once \in BOOLEAN
        BY ZenonT(60), <4>2 DEF Certified
      <4>4. client[t].state \in {"off", "lost"} /\ Ask(t, client[t].once)
        BY ZenonT(60), <3>2 DEF Reconnect
      <4> QED BY ZenonT(60), <4>3, <4>4, AskRest
    <3>3. CASE StopListening(t)
      BY ZenonT(60), <3>3, StopRest
    <3> QED BY ZenonT(60), <2>2, <3>1, <3>2, <3>3
  <2>3. CASE Next
    BY ZenonT(60), <1>1, <2>2, <2>3, CommitRest, StartAddRest, HandleRemoveRest, TaskRest, EvaluateRest,
       ReceiveRest,
       DisconnectRest DEF Next
  <2> QED BY ZenonT(60), <2>1, <2>3
<1> QED BY ZenonT(60), <1>1, <1>2 DEF ClientInv, RestInv

\* The inductive invariant: what is on its way between the stream and its client,
\* in both directions, ends with both agreeing on every target.
THEOREM ClientInvariant == Spec => []ClientInv
<1>1. Init => ClientInv
  BY ZenonT(60), ListenInit, ClientInit DEF ClientInv, RestInv
<1>2. ClientInv /\ [Next]_vars => ClientInv'
  BY ZenonT(60), ClientNext
<1> QED BY <1>1, <1>2, PTL DEF Spec

\* A target of the client is certified.
LEMMA ClientCertified ==
    ASSUME ClientInv, NEW t \in Targets
    PROVE  Certified(client[t], t, contents)
<1>1. channel \in Seq(Message) /\ \E e : Talk(channel, t, client[t], e, contents)
  BY ZenonT(60) DEF ClientInv, ConversationInv
<1> QED BY ZenonT(60), <1>1, TalkEnds

\* A resume token certifies what the client holds: whatever commits, reconnects,
\* resets, removals and refreshes of siblings interleave, and however far behind
\* the client reads, the documents it has applied at a checkpoint are the target's
\* documents at the revision of the token.
THEOREM CheckpointExactAlways == Spec => []CheckpointExact
<1>1. ClientInv => CheckpointExact
  <2> SUFFICES ASSUME ClientInv, NEW t \in Targets, client[t].token # Absent
               PROVE  client[t].held = evaluate(SpecOf[t], At(client[t].token).documents).documents
    BY ZenonT(60) DEF CheckpointExact
  <2>1. client[t].held = View(t, client[t].token, contents)
    BY ZenonT(60), ClientCertified DEF Certified
  <2> QED BY ZenonT(60), <2>1 DEF View, At
<1> QED BY <1>1, ClientInvariant, PTL

\* No existence filter is sent to a client that holds what its tokens certify:
\* resumed_target compares the count with the view at the token, before the replay.
THEOREM NoFalseFilterAlways == Spec => []NoFalseFilter
<1>1. ClientInv => NoFalseFilter
  <2> SUFFICES ASSUME ClientInv, NEW n \in 1..Len(channel)
               PROVE  channel[n].kind # "Filter"
    BY ZenonT(60) DEF NoFalseFilter
  <2>1. channel[n] \in Message
    BY SMTT(60) DEF ClientInv, ConversationInv
  <2> QED BY ZenonT(60), <2>1 DEF Message
<1> QED BY <1>1, ClientInvariant, PTL

\* Both of the above: what a token of Checkpoint certifies is what the client holds.
THEOREM TokensCertifyAlways == Spec => []TokensCertify
BY CheckpointExactAlways, NoFalseFilterAlways, PTL DEF TokensCertify

\* A target's token never goes back while it has one, across reconnects and resets.
THEOREM TokensAdvanceAlways == Spec => TokensAdvance
<1>1. ASSUME ClientInv, Next
      PROVE  TokensStay
  <2> SUFFICES ASSUME NEW t \in Targets, client[t].token # Absent, client'[t].token # Absent
               PROVE  client'[t].token >= client[t].token
    BY ZenonT(60) DEF TokensStay
  <2>1. client[t].token \in Nat /\ Certified(client[t], t, contents)
    BY SMTT(60), <1>1, ClientCertified DEF Certified
  <2>2. CASE client'[t].token = client[t].token
    BY SMTT(60), <2>1, <2>2
  <2>3. CASE Receive
    <3> DEFINE x == client[t]
               m == Head(channel)
    <3>1. channel # <<>> /\ channel \in Seq(Message) /\ \E e : Talk(channel, t, x, e, contents)
      BY ZenonT(60), <1>1, <2>3 DEF ClientInv, ConversationInv, Receive
    <3>2. Fits(x, t, m) /\ Certified(Understood(x, t, m), t, contents)
      BY ZenonT(60), <3>1, TalkOn
    <3>3. client'[t] = Understood(x, t, m)
      BY ZenonT(60), <2>3 DEF Receive
    <3>4. Understood(x, t, m).token \in Nat
      BY SMTT(60), <3>2, <3>3 DEF Certified
    <3> HIDE DEF x, m
    <3>5. CASE m.kind = "NoChange" /\ x.state = "on"
      <4>1. Understood(x, t, m) =
              Client(IF x.once THEN "off" ELSE "on", x.once, x.pending, x.pending, m.token)
        BY SMTT(60), <2>1, <3>5, UnderstoodNoChange DEF Certified, x
      <4>2. Understood(x, t, m).token = m.token
        BY SMTT(60), <4>1 DEF Client
      <4>3. x.token <= m.token
        BY ZenonT(60), <3>2, <3>5 DEF Fits, x
      <4> QED BY ZenonT(60), <2>1, <3>3, <3>4, <4>2, <4>3 DEF x
    <3>6. CASE ~(m.kind = "NoChange" /\ x.state = "on")
      <4>1. PICK a, b, h, p, k : x = Client(a, b, h, p, k)
        BY ZenonT(60), <2>1 DEF Certified, x
      <4>2. Understood(x, t, m).token \in {x.token, Absent}
        BY ZenonT(60), <3>6, <4>1 DEF Understood, Client
      <4> QED BY SMTT(60), <2>1, <3>3, <4>2 DEF x
    <3> QED BY ZenonT(60), <3>5, <3>6
  <2>4. CASE ~Receive
    <3>1. client = [u \in Targets |-> client[u]]
      BY ZenonT(60), <1>1 DEF ClientInv, ConversationInv
    <3>2. PICK a, b, h, p, k : client[t] = Client(a, b, h, p, k)
      BY ZenonT(60), <2>1 DEF Certified
    <3>3. client'[t].token = client[t].token
      <4>1. CASE UNCHANGED client
        BY ZenonT(60), <4>1
      <4>2. CASE Disconnect
        BY ZenonT(60), <3>1, <3>2, <4>2 DEF Disconnect, Client
      <4>3. ASSUME NEW u \in Targets, NEW once, Ask(u, once)
            PROVE  client'[t].token = client[t].token
        BY SMTT(60), <3>1, <3>2, <4>3 DEF Ask, Client
      <4>4. ASSUME NEW u \in Targets, StopListening(u)
            PROVE  client'[t].token = client[t].token
        BY SMTT(60), <3>1, <3>2, <4>4 DEF StopListening, Client
      <4>5. \/ UNCHANGED client \/ Disconnect
            \/ \E u \in Targets : StopListening(u) \/ \E once : Ask(u, once)
        BY ZenonT(60), <1>1, <2>4 DEF Next, Commit, StartAdd, HandleRemove, Wake, Initialize, ReadHistory,
           Evaluate,
                          StartListening, Reconnect
      <4> QED BY ZenonT(60), <4>1, <4>2, <4>3, <4>4, <4>5
    <3> QED BY SMTT(60), <2>1, <3>3
  <2> QED BY ZenonT(60), <2>3, <2>4
<1>2. ClientInv /\ [Next]_vars => [TokensStay]_vars
  BY ZenonT(60), <1>1
<1> QED BY <1>2, ClientInvariant, PTL DEF Spec, TokensAdvance
=============================================================================
