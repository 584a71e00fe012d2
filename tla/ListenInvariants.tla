-------------------------- MODULE ListenInvariants --------------------------
(***************************************************************************)
(* The inductive invariants of Listen.  ListenInv is about the targets of   *)
(* the stream and what its task holds between its awaits; ClientInv adds    *)
(* what is in the channel: the responses there take each client target      *)
(* from where it is to where the stream believes it to be (Talk), and       *)
(* there it agrees with the requests on their way, the one in hand and the  *)
(* targets (Agrees).                                                        *)
(***************************************************************************)
EXTENDS Listen

(***************************************************************************)
(* The targets of a stream.                                                 *)
(***************************************************************************)

\* A target that shows a content at a revision.
Target(spec, docs, r) ==
    [spec |-> spec, documents |-> evaluate(spec, docs).documents,
     order_keys |-> evaluate(spec, docs).order_keys, revision |-> r]

\* A refresh ends at the snapshot, and its changes take a client there.
Refreshes(result, spec, from, snapshot) ==
    /\ result.target = Target(spec, snapshot.documents, snapshot.revision)
    /\ result.changes \in Seq(Change)
    /\ Leads(result.changes, from, evaluate(spec, snapshot.documents).documents)
    /\ Reports(result.changes, snapshot.documents)

\* A target shows a content of the store, the one of its revision.
Shows(target, spec, c) ==
    /\ target.revision \in 0..Len(c) - 1
    /\ target = Target(spec, c[target.revision + 1], target.revision)

\* A history names every key that changed between two revisions.
Names(history, from, to, c) ==
    history.retained =>
        \A r \in from + 1..to, k \in Keys :
            c[r + 1][k] # c[r][k] => [key |-> k, revision |-> r] \in history.changes

StoreInv == contents \in Seq(Documents) /\ Len(contents) >= 1
RequestsInv == \E S : requests \in Seq(S) /\ \A q \in S : q.target \in Targets
TargetsInv == \A t \in DOMAIN targets : t \in Targets /\ Shows(targets[t], SpecOf[t], contents)

\* What the task holds across its awaits stays good while commits go on.
JobInv ==
    /\ job.stage # "Idle" =>
         /\ job.snapshot \in 0..revision
         /\ job.request # Absent => job.request.target \in Targets
    /\ job.stage \in {"History", "Evaluate"} /\ job.request # Absent =>
         job.initial.watch =
             Target(SpecOf[job.request.target], contents[job.snapshot + 1], job.snapshot)
    /\ job.stage = "Evaluate" =>
         \A t \in Lagging(job.snapshot) :
             Names(job.history, targets[t].revision, job.snapshot, contents)

ListenInv == StoreInv /\ RequestsInv /\ TargetsInv /\ JobInv

(***************************************************************************)
(* The conversation of a client target with the stream.                     *)
(***************************************************************************)

\* What a target shows at a revision.
View(t, r, c) == evaluate(SpecOf[t], c[r + 1]).documents

Client(state, once, held, pending, token) ==
    [state |-> state, once |-> once, held |-> held, pending |-> pending, token |-> token]

\* A client target's token certifies what it holds.
Certified(x, t, c) ==
    /\ x = Client(x.state, x.once, x.held, x.pending, x.token)
    /\ x.state \in {"off", "asked", "on", "removing", "lost"} /\ x.once \in BOOLEAN
    /\ x.token = Absent => x.held = <<>>
    /\ x.token # Absent => x.token \in 0..Len(c) - 1 /\ x.held = View(t, x.token, c)

Message ==
    [kind : {"Add", "Reset", "Rejected", "Removed", "Current", "NoChange"},
     target : Targets \cup {Absent}, token : Nat \cup {Absent}]
    \cup [kind : {"Document"}, target : Targets, change : Change]

\* The responses that move one target.
Concerns(m, t) == m.kind \in {"Add", "Reset", "Document", "Rejected", "Removed"} /\ m.target = t

\* A response comes when the client expects it, and takes no token back.
Fits(x, t, m) ==
    /\ Concerns(m, t) => x.state \in {"asked", "on", "removing"}
    /\ Concerns(m, t) /\ m.kind = "Removed" => x.state = "removing"
    /\ m.kind = "NoChange" /\ x.state = "on" /\ x.token # Absent => x.token <= m.token

\* The responses take a client target from one state to another, and at every
\* point on the way its token certifies what it holds.
Talk(ms, t, x, e, c) ==
    \E h : /\ h[0] = x /\ h[Len(ms)] = e
           /\ \A i \in 0..Len(ms) : Certified(h[i], t, c)
           /\ \A i \in 1..Len(ms) :
                h[i] = Understood(h[i - 1], t, ms[i]) /\ Fits(h[i - 1], t, ms[i])

(***************************************************************************)
(* What the requests, the task and the conversations keep to.               *)
(***************************************************************************)

\* A resumed target expects as many documents as its token certifies.
Expects(q, c) ==
    q.token # Absent =>
        /\ q.token \in 0..Len(c) - 1
        /\ q.expected = Cardinality(DOMAIN View(q.target, q.token, c))

\* Two requests for one target are an addition and its removal.
Ordered(q) ==
    \A i, j \in 1..Len(q) :
        i < j /\ q[i].target = q[j].target => q[i].kind = "AddTarget" /\ q[j].kind = "RemoveTarget"

Elements(q) == {q[i] : i \in 1..Len(q)}
Request == AddRequest \cup [kind : {"RemoveTarget"}, target : Targets]

QueueInv ==
    /\ requests \in Seq(Request)
    /\ Ordered(requests)
    /\ \A r \in Elements(requests) : r.kind = "AddTarget" => Expects(r, contents)

\* The requests on their way, and the one in hand.
Waiting == Elements(requests)
InHand == IF job.stage = "Idle" THEN Absent ELSE job.request
Asks(r, t) == r.kind = "AddTarget" /\ r.target = t
Asking(W, t) == \E r \in W : Asks(r, t)
Leaving(W, t) == \E r \in W : r.kind = "RemoveTarget" /\ r.target = t
Adds(q, t) == q # Absent /\ q.target = t

\* Where a client target will be when it has read every response on its way:
\* what the requests W, the request q in hand and the stream's targets T say.
Agrees(W, q, T, t, e) ==
    /\ e.state \in {"off", "lost"} => ~Asking(W, t) /\ ~Adds(q, t) /\ t \notin DOMAIN T
    /\ e.state = "asked" =>
         /\ Asking(W, t) \/ Adds(q, t)
         /\ e.pending = e.held
         /\ \A r \in W : Asks(r, t) => r.token = e.token /\ r.once = e.once
         /\ Adds(q, t) => q.token = e.token /\ q.once = e.once
    /\ e.state = "on" =>
         /\ t \in DOMAIN T /\ ~e.once
         /\ e.pending = T[t].documents
         /\ e.token # Absent => e.token <= T[t].revision
    /\ e.state = "removing" <=> Leaving(W, t)
    /\ Asking(W, t) \/ Adds(q, t) => t \notin DOMAIN T /\ e.state \in {"asked", "removing"}
    /\ ~(Asking(W, t) /\ Adds(q, t))

\* What the task has prepared for a target that is being added.
Prepared(initial, q, s, c) ==
    /\ initial.changes \in Seq(Change) /\ initial.filter = FALSE
    /\ Leads(initial.changes,
             IF initial.mode = "Reset" \/ q.token = Absent THEN <<>> ELSE View(q.target, q.token, c),
             View(q.target, s, c))

TaskInv ==
    job.stage # "Idle" =>
        /\ \A t \in DOMAIN targets : targets[t].revision <= job.snapshot
        /\ job.request # Absent =>
             /\ job.request \in AddRequest /\ Expects(job.request, contents)
             /\ job.request.token # Absent => job.request.token <= job.snapshot
             /\ job.stage # "Initialize" =>
                  Prepared(job.initial, job.request, job.snapshot, contents)

ConversationInv ==
    /\ channel \in Seq(Message)
    /\ client = [t \in Targets |-> client[t]]
    /\ \A t \in Targets :
         \E e : Talk(channel, t, client[t], e, contents) /\ Agrees(Waiting, InHand, targets, t, e)

ClientInv == ListenInv /\ QueueInv /\ TaskInv /\ ConversationInv

\* The rest of the invariant, when the steps of the targets are known.
RestInv == QueueInv /\ TaskInv /\ ConversationInv
=============================================================================
