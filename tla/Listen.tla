------------------------------- MODULE Listen -------------------------------
(***************************************************************************)
(* A Listen stream with its targets, over a store that commits meanwhile     *)
(* (crates/grpc-front/src/listen.rs), and the client at its other end.       *)
(*                                                                          *)
(* The stream task handles one request or refresh at a time, but reads the    *)
(* store several times while it does: the snapshot first, then the baseline   *)
(* of a resumed target, then the change history, and each await lets commits   *)
(* in between.  The store is abstracted to what its own module shows: every    *)
(* snapshot and every change above change_floor is exact.                     *)
(*                                                                          *)
(* The client is external: it keeps what a target's documents were at the      *)
(* last stream-wide checkpoint and resumes from that checkpoint's token.       *)
(***************************************************************************)
EXTENDS WatchTarget

CONSTANTS
    Targets,         \* target IDs, all chosen by the client
    SpecOf,          \* what each of them listens to
    Shapes,          \* the documents that commits write, but for their update time
    ResponseBuffer,  \* RESPONSE_BUFFER
    MaxRevision, MaxListens, MaxDisconnects

ASSUME TargetsAssumption == Targets \subseteq Nat \ {0} /\ IsFiniteSet(Targets)
ASSUME SpecOfAssumption == SpecOf \in [Targets -> TargetSpec]
ASSUME ShapesAssumption == Shapes \subseteq [match : BOOLEAN, order : Orders]
ASSUME BoundsAssumption == {ResponseBuffer, MaxRevision, MaxListens, MaxDisconnects} \subseteq Nat

\* No token and no request is the value that stands for a missing one.
AddRequest ==
    [kind : {"AddTarget"}, target : Targets, once : BOOLEAN,
     token : Nat \cup {Absent}, expected : Nat]
ASSUME SentinelAssumption == Absent \notin Nat \cup AddRequest

VARIABLES
    contents,      \* the documents at revision r are contents[r + 1]
    change_floor,  \* the oldest revision snapshots and changes are retained from
    requests,      \* requests on their way to the stream
    channel,       \* responses on their way to the client
    targets,       \* the stream's active targets
    job,           \* what the stream task is in the middle of
    client,        \* the client's targets
    listens, disconnects

store == <<contents, change_floor>>
vars == <<contents, change_floor, requests, channel, targets, job, client, listens, disconnects>>

revision == Len(contents) - 1
At(r) == [documents |-> contents[r + 1], revision |-> r]

Idle == [stage |-> "Idle"]

\* Responses, reduced to what a client acts on.
TargetChange(kind, t, token) == [kind |-> kind, target |-> t, token |-> token]
DocumentChanges(t, changes) ==
    [n \in 1..Len(changes) |-> [kind |-> "Document", target |-> t, change |-> changes[n]]]

Init ==
    /\ contents = <<[k \in Keys |-> Absent]>>
    /\ change_floor = 0
    /\ requests = <<>> /\ channel = <<>>
    /\ targets = <<>>
    /\ job = Idle
    /\ client = [t \in Targets |-> [state |-> "off", once |-> FALSE, held |-> <<>>,
                                    pending |-> <<>>, token |-> Absent]]
    /\ listens = 0 /\ disconnects = 0

(***************************************************************************)
(* The store: a commit, and how far its eviction moves the floor.           *)
(***************************************************************************)

Commit ==
    /\ revision < MaxRevision
    /\ \E k \in Keys,
          d \in {[match |-> shape.match, order |-> shape.order, update_time |-> revision + 1] :
                    shape \in Shapes} \cup {Absent} :
        contents' = Append(contents, [contents[revision + 1] EXCEPT ![k] = d])
    /\ change_floor' \in change_floor..revision + 1
    /\ UNCHANGED <<requests, channel, targets, job, client, listens, disconnects>>

ChangedBy(r) == {k \in Keys : contents[r + 1][k] # contents[r][k]}

changes_since(after) ==
    [retained |-> after >= change_floor,
     changes |-> UNION {{[key |-> k, revision |-> r] : k \in ChangedBy(r)} : r \in after + 1..revision}]

(***************************************************************************)
(* The stream task.                                                         *)
(***************************************************************************)

\* Sends wait for room, so the task goes on when all but a full buffer is taken.
Free == Len(channel) <= ResponseBuffer

NextRequest(kind) == Free /\ job = Idle /\ requests # <<>> /\ Head(requests).kind = kind

\* add_target up to the read pool: an active ID and rules that deny are answered
\* with an error, else the snapshot is captured.
StartAdd ==
    /\ NextRequest("AddTarget")
    /\ requests' = Tail(requests)
    /\ LET request == Head(requests) IN
        \/ /\ channel' = Append(channel, TargetChange("Rejected", request.target, Absent))
           /\ UNCHANGED job
        \/ /\ request.target \notin DOMAIN targets
           /\ job' = [stage |-> "Initialize", request |-> request, snapshot |-> revision]
           /\ UNCHANGED channel
    /\ UNCHANGED <<store, targets, client, listens, disconnects>>

HandleRemove ==
    /\ NextRequest("RemoveTarget")
    /\ requests' = Tail(requests)
    /\ targets' = Without(targets, Head(requests).target)
    /\ channel' = Append(channel, TargetChange("Removed", Head(requests).target, Absent))
    /\ UNCHANGED <<store, job, client, listens, disconnects>>

\* A mutant: the count a client expects is compared after the replay.
ResumedCountsLate(spec, request, snapshot) ==
    LET baseline == initialize(spec, At(request.token))
        replay == refresh(baseline.target, At(snapshot))
    IN  [watch |-> replay.target, changes |-> replay.changes, mode |-> "Normal",
         filter |-> request.expected > 0
                    /\ request.expected # Cardinality(DOMAIN replay.target.documents)]

\* The view at the token's revision, and the transitions from it to the snapshot.
resumed_target(spec, request, snapshot) ==
    LET baseline == initialize(spec, At(request.token))
        replay == refresh(baseline.target, At(snapshot))
    IN  [watch |-> replay.target, changes |-> replay.changes, mode |-> "Normal",
         filter |-> request.expected > 0
                    /\ request.expected # Cardinality(DOMAIN baseline.target.documents)]

\* A token below the floor resets the target.
initialize_target(request, snapshot) ==
    LET spec == SpecOf[request.target]
        initial == initialize(spec, At(snapshot))
        afresh == [watch |-> initial.target, changes |-> initial.changes,
                   mode |-> "Normal", filter |-> FALSE]
    IN  CASE request.token = Absent -> afresh
          [] request.token # Absent /\ request.token >= change_floor ->
                resumed_target(spec, request, snapshot)
          [] OTHER -> [afresh EXCEPT !.mode = "Reset"]

Initialize ==
    /\ job.stage = "Initialize"
    /\ job' = [stage |-> "History", request |-> job.request, snapshot |-> job.snapshot,
               initial |-> initialize_target(job.request, job.snapshot)]
    /\ UNCHANGED <<store, requests, channel, targets, client, listens, disconnects>>

Lagging(snapshot) == {t \in DOMAIN targets : targets[t].revision < snapshot}

\* A commit notification or the poll: refresh_targets captures the snapshot.  It
\* returns at once when no target is behind.
Wake ==
    /\ Free /\ job = Idle
    /\ Lagging(revision) # {}
    /\ job' = [stage |-> "History", request |-> Absent, snapshot |-> revision]
    /\ UNCHANGED <<store, requests, channel, targets, client, listens, disconnects>>

\* A mutant: an expired history is taken for a complete one.
HistoryGuessed == [changes_since(Min({targets[t].revision : t \in DOMAIN targets}))
                   EXCEPT !.retained = TRUE, !.changes = {c \in @ : c.revision > change_floor}]

\* One history for all targets, from the oldest view on.
History == changes_since(Min({targets[t].revision : t \in DOMAIN targets}))

ReadHistory ==
    /\ job.stage = "History"
    /\ job' = [stage |-> "Evaluate", request |-> job.request, snapshot |-> job.snapshot,
               initial |-> IF job.request = Absent THEN Absent ELSE job.initial,
               history |-> IF Lagging(job.snapshot) = {} THEN Absent ELSE History]
    /\ UNCHANGED <<store, requests, channel, targets, client, listens, disconnects>>

\* A mutant: a target that is being added leaves its siblings where they are.
RefreshedAlone(t) ==
    IF job.request # Absent \/ targets[t].revision >= job.snapshot
    THEN [target |-> targets[t], changes |-> <<>>]
    ELSE refresh_with_changes(targets[t], At(job.snapshot), job.history)

\* A target and its changes at the captured snapshot.
Refreshed(t) ==
    IF targets[t].revision >= job.snapshot THEN [target |-> targets[t], changes |-> <<>>]
    ELSE refresh_with_changes(targets[t], At(job.snapshot), job.history)

\* The outcomes in target order: a rules error removes the target, else its
\* changes are sent.
Outcomes(denied) ==
    LET Send(t, sent) ==
            sent \o IF t \in denied THEN <<TargetChange("Rejected", t, Absent)>>
                    ELSE DocumentChanges(t, Refreshed(t).changes)
    IN  MapThenFoldSet(Send, <<>>, LAMBDA t : t, Max, DOMAIN targets)

\* A mutant: the checkpoint of an added target names the baseline it resumed from.
InitialWithOldToken(request, initial) ==
    LET token == IF request.token = Absent THEN initial.watch.revision ELSE request.token
    IN  <<TargetChange("Add", request.target, Absent)>>
        \o (IF initial.mode = "Reset"
            THEN <<TargetChange("Reset", request.target, initial.watch.revision)>> ELSE <<>>)
        \o DocumentChanges(request.target, initial.changes)
        \o (IF initial.filter THEN <<TargetChange("Filter", request.target, Absent)>> ELSE <<>>)
        \o <<TargetChange("Current", request.target, token),
             TargetChange("NoChange", Absent, token)>>

send_initial_target(request, initial) ==
    LET token == initial.watch.revision
    IN  <<TargetChange("Add", request.target, Absent)>>
        \o (IF initial.mode = "Reset"
            THEN <<TargetChange("Reset", request.target, token)>> ELSE <<>>)
        \o DocumentChanges(request.target, initial.changes)
        \o (IF initial.filter THEN <<TargetChange("Filter", request.target, Absent)>> ELSE <<>>)
        \o <<TargetChange("Current", request.target, token),
             TargetChange("NoChange", Absent, token)>>

\* A mutant: a refresh leaves the checkpoint to the next added target.
NoCheckpoint(denied) == <<>>

\* refresh_targets closes a refresh that sent a document with a checkpoint.
Checkpoint(denied) ==
    IF \E t \in DOMAIN targets \ denied : Refreshed(t).changes # <<>>
    THEN <<TargetChange("NoChange", Absent, job.snapshot)>> ELSE <<>>

\* The end of refresh_targets_at_snapshot and what its callers do after it.
Evaluate ==
    /\ job.stage = "Evaluate"
    /\ \E denied \in SUBSET Lagging(job.snapshot) :
        LET kept == [t \in DOMAIN targets \ denied |-> Refreshed(t).target]
        IN  \/ /\ job.request = Absent
               /\ targets' = kept
               /\ channel' = channel \o Outcomes(denied) \o Checkpoint(denied)
            \/ /\ job.request # Absent
               /\ targets' = IF job.request.once THEN kept
                             ELSE With(kept, job.request.target, job.initial.watch)
               /\ channel' = channel \o Outcomes(denied)
                                     \o send_initial_target(job.request, job.initial)
    /\ job' = Idle
    /\ UNCHANGED <<store, requests, client, listens, disconnects>>

(***************************************************************************)
(* The client, and the connection that may break at any point.              *)
(***************************************************************************)

\* A target is asked for with the token and the count of what the client holds.
AddTarget(t, once) ==
    [kind |-> "AddTarget", target |-> t, once |-> once, token |-> client[t].token,
     expected |-> Cardinality(DOMAIN client[t].held)]

Ask(t, once) ==
    /\ requests' = Append(requests, AddTarget(t, once))
    /\ client' = [client EXCEPT ![t].state = "asked", ![t].once = once,
                                ![t].pending = client[t].held]
    /\ UNCHANGED <<store, channel, targets, job, disconnects>>

StartListening(t) ==
    /\ client[t].state = "off" /\ listens < MaxListens
    /\ listens' = listens + 1
    /\ \E once \in BOOLEAN : Ask(t, once)

Reconnect(t) ==
    /\ client[t].state = "lost"
    /\ Ask(t, client[t].once)
    /\ UNCHANGED listens

StopListening(t) ==
    /\ client[t].state \in {"asked", "on"}
    /\ requests' = Append(requests, [kind |-> "RemoveTarget", target |-> t])
    /\ client' = [client EXCEPT ![t].state = "removing"]
    /\ UNCHANGED <<store, channel, targets, job, listens, disconnects>>

\* What one client target makes of a response.
Understood(c, t, m) ==
    CASE m.kind = "NoChange" /\ c.state = "on" ->
            [c EXCEPT !.held = c.pending, !.token = m.token,
                      !.state = IF c.once THEN "off" ELSE "on"]
      [] m.kind = "Add" /\ m.target = t /\ c.state = "asked" -> [c EXCEPT !.state = "on"]
      [] m.kind = "Reset" /\ m.target = t /\ c.state = "on" -> [c EXCEPT !.pending = <<>>]
      [] m.kind = "Document" /\ m.target = t /\ c.state = "on" ->
            [c EXCEPT !.pending = IF m.change.kind = "Upsert"
                                  THEN With(@, m.change.key, m.change.document)
                                  ELSE Without(@, m.change.key)]
      [] m.kind = "Removed" /\ m.target = t /\ c.state = "removing" -> [c EXCEPT !.state = "off"]
      [] m.kind = "Rejected" /\ m.target = t /\ c.state \in {"asked", "on"} ->
            [c EXCEPT !.state = "off", !.held = <<>>, !.pending = <<>>, !.token = Absent]
      [] OTHER -> c

Receive ==
    /\ channel # <<>>
    /\ channel' = Tail(channel)
    /\ client' = [t \in Targets |-> Understood(client[t], t, Head(channel))]
    /\ UNCHANGED <<store, requests, targets, job, listens, disconnects>>

\* The stream ends: its task stops wherever it is, what was in flight is lost,
\* and the client falls back to the last checkpoint.
Disconnect ==
    /\ disconnects < MaxDisconnects
    /\ disconnects' = disconnects + 1
    /\ requests' = <<>> /\ channel' = <<>>
    /\ targets' = <<>> /\ job' = Idle
    /\ client' = [t \in Targets |->
            [client[t] EXCEPT !.pending = client[t].held,
                              !.state = CASE @ \in {"asked", "on", "lost"} -> "lost"
                                          [] OTHER -> "off"]]
    /\ UNCHANGED <<store, listens>>

Server == StartAdd \/ HandleRemove \/ Wake \/ Initialize \/ ReadHistory \/ Evaluate

Next ==
    \/ Commit
    \/ StartAdd \/ HandleRemove \/ Wake \/ Initialize \/ ReadHistory \/ Evaluate
    \/ Receive \/ Disconnect
    \/ \E t \in Targets : StartListening(t) \/ Reconnect(t) \/ StopListening(t)

Spec == Init /\ [][Next]_vars

\* The stream task keeps running and its one-second poll needs no notification;
\* a client reads its responses and asks again for what it lost.
Fairness ==
    /\ WF_vars(Server)
    /\ WF_vars(Receive)
    /\ \A t \in Targets : WF_vars(Reconnect(t))

FairSpec == Spec /\ Fairness

(***************************************************************************)
(* Properties.                                                              *)
(***************************************************************************)

\* Every active target shows exactly the evaluation of its specification at the
\* revision it claims, although the history it was refreshed from was read after
\* the snapshot and may reach past it or have expired.
ViewsExact ==
    \A t \in DOMAIN targets :
        targets[t].documents = evaluate(SpecOf[t], At(targets[t].revision).documents).documents

\* A resume token certifies what the client holds: at every checkpoint, for
\* every target, the documents the client has applied are the target's documents
\* at the token's revision.  Adding a sibling, resuming, a reset and a broken
\* stream all keep it.
CheckpointExact ==
    \A t \in Targets :
        client[t].token # Absent =>
            client[t].held = evaluate(SpecOf[t], At(client[t].token).documents).documents

\* The existence filter of a resumed target is never sent to a client that holds
\* what its token certifies, so none is sent to this one.
NoFalseFilter == \A n \in 1..Len(channel) : channel[n].kind # "Filter"

\* Tokens certify: CheckpointExact, and therefore NoFalseFilter.
TokensCertify == CheckpointExact /\ NoFalseFilter

\* Step: a target's token never names an older revision than before, whatever
\* reconnects and resets come between, until the target is rejected.
TokensStay ==
    \A t \in Targets :
        client[t].token # Absent /\ client'[t].token # Absent =>
            client'[t].token >= client[t].token
TokensAdvance == [][TokensStay]_vars

\* Once the commits and the disconnects stop, every target the client still
\* listens to is answered and shows the store's latest documents for good: the
\* poll leaves no change undelivered and no request unanswered.
Settles ==
    \A t \in Targets :
        <>[](/\ client[t].state \in {"on", "off"}
             /\ client[t].state = "on" =>
                    client[t].held = evaluate(SpecOf[t], At(revision).documents).documents)
=============================================================================
