------------------------------ MODULE Counters ------------------------------
(***************************************************************************)
(* A list whose rows carry counters (Cloud Tasks' queues, Pub/Sub's topics *)
(* and subscriptions) kept current in one tab of the console: the list is  *)
(* read as of a revision, the live topic's frames carry what changed after *)
(* the subscriber's revision, a log keeps the last frames so that a list   *)
(* read meanwhile can catch up, and one engine subscription is shared by   *)
(* the browser's tabs (console/src/messaging/frames.ts, tasks and pubsub   *)
(* counters.ts and live.ts, lib/live/channel.ts).                          *)
(*                                                                         *)
(* The counters of a row are represented by the revision they last changed *)
(* at, so that a greater one is a newer one.                               *)
(***************************************************************************)
EXTENDS Integers, Sequences, SequencesExt, FiniteSets, TLC

CONSTANTS Rows, Limit, MaxRevision, MaxMoves

VARIABLES was,     \* the engine: was[r + 1] is every row's counters at revision r
          sub,     \* the shared engine subscription: [on, cursor]
          last,    \* the last frame the leader relayed, or None
          others,  \* another tab of the browser holds the topic
          joined,  \* this tab does
          mine,    \* this tab's cursor, or None
          wire,    \* relayed to this tab and not delivered yet
          log,     \* the frame log
          list,    \* the cached list: [revision, items, since] or None
          read,    \* the read of the list that is out
          moves,   \* tabs coming and going so far (bounded)
          missed   \* history: up to which revision frames passed the tab by

vars == <<was, sub, last, others, joined, mine, wire, log, list, read, moves, missed>>

None == [none |-> TRUE]
Asked == [asked |-> TRUE]
Reset == [reset |-> TRUE]
Absent == -1
Revision == Len(was) - 1
At(r) == was[r + 1]
Present(c) == {k \in DOMAIN c : c[k] # Absent}
Frame(from, rows) == [from |-> from, revision |-> Revision,
                      rows |-> [k \in rows |-> At(Revision)[k]]]

Init == /\ was = <<[k \in Rows |-> IF k = CHOOSE j \in Rows : TRUE THEN 0 ELSE Absent]>>
        /\ others \in BOOLEAN
        /\ sub = [on |-> others, cursor |-> 0]
        /\ last = IF others THEN Frame(-1, Present(At(0))) ELSE None
        /\ joined = FALSE /\ mine = None /\ wire = <<>>
        /\ log = <<>> /\ list = None /\ read = Asked
        /\ moves = 0 /\ missed = [join |-> 0, overrun |-> 0]

Move == moves < MaxMoves /\ moves' = moves + 1
Relay(e) == wire' = IF joined THEN Append(wire, e) ELSE wire

\* A row's counters change, or a row registers.
Change(k) ==
    /\ Revision < MaxRevision
    /\ was' = Append(was, [At(Revision) EXCEPT ![k] = Revision + 1])
    /\ UNCHANGED <<sub, last, others, joined, mine, wire, log, list, read, moves, missed>>

\* The engine's next frame: the rows that changed since the cursor.
SendFrame ==
    LET frame == Frame(sub.cursor, {k \in Rows : At(Revision)[k] > sub.cursor}) IN
    /\ sub.on /\ sub.cursor < Revision
    /\ sub' = [sub EXCEPT !.cursor = Revision]
    /\ last' = frame /\ Relay(frame)
    /\ UNCHANGED <<was, others, joined, mine, log, list, read, moves, missed>>

\* Too much changed for a frame: the subscribers are told to read again.
Lag == /\ sub.on /\ sub.cursor < Revision /\ Move
       /\ sub' = [sub EXCEPT !.cursor = Revision]
       /\ Relay(Reset)
       /\ UNCHANGED <<was, last, others, joined, mine, log, list, read, missed>>

(***************************************************************************)
(* This tab's subscription.  With no other tab holding the topic, the      *)
(* engine opens one: without a cursor it sends the state, with one nothing *)
(* when it is current and a reset otherwise.  With another tab holding it, *)
(* the tab joins that one and is sent the last frame.  A page that is      *)
(* mounted again reads a list that has gone stale.                         *)
(***************************************************************************)
Mounted == read' \in IF mine = None /\ list # None /\ read = None THEN {None, Asked} ELSE {read}

Open == /\ ~joined /\ ~sub.on
        /\ joined' = TRUE
        /\ sub' = [on |-> TRUE, cursor |-> Revision]
        /\ IF mine = None
           THEN /\ last' = Frame(-1, Present(At(Revision)))
                /\ wire' = <<Frame(-1, Present(At(Revision)))>>
           ELSE /\ wire' = IF mine.at = Revision THEN <<>> ELSE <<Reset>>
                /\ UNCHANGED last
        /\ Mounted
        /\ UNCHANGED <<was, others, mine, log, list, moves, missed>>

leaderAdd ==
    /\ ~joined /\ sub.on
    /\ joined' = TRUE
    /\ wire' = IF last = None THEN <<>> ELSE <<last>>
    /\ missed' = [missed EXCEPT !.join = sub.cursor]
    /\ Mounted
    /\ UNCHANGED <<was, sub, last, others, mine, log, list, moves>>

Drop(held) == IF held THEN UNCHANGED <<sub, last>>
              ELSE sub' = [on |-> FALSE, cursor |-> 0] /\ last' = None

\* Hidden for 20 s, the tab gives its subscription back and keeps its
\* cursor; a page that is left forgets the cursor as well.
release == /\ joined /\ Move
           /\ joined' = FALSE /\ wire' = <<>>
           /\ mine' \in {mine, None}
           /\ Drop(others)
           /\ UNCHANGED <<was, others, log, list, read, missed>>

OtherTab == /\ Move
            /\ others' = ~others
            /\ IF others THEN Drop(joined)
               ELSE IF sub.on THEN UNCHANGED <<sub, last>>
               ELSE sub' = [on |-> TRUE, cursor |-> Revision]
                    /\ last' = Frame(-1, Present(At(Revision)))
            /\ UNCHANGED <<was, joined, mine, wire, log, list, read, missed>>

-----------------------------------------------------------------------------
\* createFrameLog: record keeps the newest Limit frames.
record(frame) == LET kept == Append(log, frame)
                 IN IF Len(kept) > Limit THEN SubSeq(kept, Len(kept) - Limit + 1, Len(kept))
                    ELSE kept
newerThan(r) == SelectSeq(log, LAMBDA f : f.revision > r)

\* Mutant: a frame is applied whatever its revision.
apply_(l, f) ==
    [l EXCEPT !.revision = f.revision,
              !.items = [k \in DOMAIN @ |-> IF k \in DOMAIN f.rows THEN f.rows[k] ELSE @[k]]]
\* applyQueueCounters and applyCountersFrame.
apply(l, f) ==
    IF f.revision <= l.revision THEN l
    ELSE [l EXCEPT !.revision = f.revision,
                   !.items = [k \in DOMAIN @ |-> IF k \in DOMAIN f.rows THEN f.rows[k] ELSE @[k]]]
unknown(l, f) == f.revision > l.revision /\ ~(DOMAIN f.rows \subseteq DOMAIN l.items)
\* Mutant: an answer is taken as it is.
catchUp_(l, frames) == l
catchUp(l, frames) == FoldLeft(apply, l, frames)

\* invalidateQueries: a read that is out is dropped, and the list read again.
onCounters(frame) ==
    /\ log' = record(frame)
    /\ mine' = [at |-> frame.revision]
    /\ missed' = IF Len(log) = Limit /\ read # None
                 THEN [missed EXCEPT !.overrun = Head(log).revision] ELSE missed
    /\ list' = IF list = None THEN None ELSE apply(list, frame)
    /\ read' = IF list # None /\ unknown(list, frame) THEN Asked ELSE read

onReset == /\ log' = <<>> /\ read' = Asked /\ UNCHANGED <<mine, list, missed>>

Deliver == /\ wire # <<>> /\ wire' = Tail(wire)
           /\ IF Head(wire) = Reset THEN onReset ELSE onCounters(Head(wire))
           /\ UNCHANGED <<was, sub, last, others, joined, moves>>

\* The log's age limit, longer than any read of a list takes.
Age == /\ log # <<>> /\ read = None
       /\ log' = Tail(log)
       /\ UNCHANGED <<was, sub, last, others, joined, mine, wire, list, read, moves, missed>>

\* The read: the engine answers as of its revision, and the answer catches
\* up with the frames that arrived while it was out.
Answer == /\ read = Asked
          /\ read' = [revision |-> Revision, since |-> Revision,
                      items |-> [k \in Present(At(Revision)) |-> At(Revision)[k]]]
          /\ UNCHANGED <<was, sub, last, others, joined, mine, wire, log, list, moves, missed>>

queryFn == /\ read \notin {None, Asked}
           /\ list' = catchUp(read, newerThan(read.revision))
           /\ read' = None
           /\ UNCHANGED <<was, sub, last, others, joined, mine, wire, log, moves, missed>>

\* A control's answer is the row as it is now (pause, hold).
putQueue(k) == /\ list # None /\ k \in DOMAIN list.items
               /\ list.items[k] # At(Revision)[k]
               /\ Move
               /\ list' = [list EXCEPT !.items[k] = At(Revision)[k]]
               /\ UNCHANGED <<was, sub, last, others, joined, mine, wire, log, read, missed>>

Next == \/ SendFrame \/ Lag \/ Open \/ leaderAdd \/ release \/ OtherTab
        \/ Deliver \/ Age \/ Answer \/ queryFn
        \/ \E k \in Rows : Change(k) \/ putQueue(k)

Spec == Init /\ [][Next]_vars

-----------------------------------------------------------------------------
Current == \A k \in DOMAIN list.items : list.items[k] >= At(list.revision)[k]

(***************************************************************************)
(* While no read is out, every row of a list shows counters at least as    *)
(* new as the revision the list says it is at, however reads, frames,      *)
(* resets and controls' answers crossed: "nothing on screen goes back in   *)
(* time" (frames.ts:7).  A list that claims a revision it does not show is *)
(* not repaired by later frames, which name only what changes after them.  *)
(* Two cases are left out: a list read while more than Limit frames        *)
(* arrived, and one older than a frame that passed the tab by before it    *)
(* joined another tab's subscription.                                      *)
(***************************************************************************)
ListIsAsNewAsItSays ==
    list # None /\ read = None /\ list.since >= missed.join /\ list.since >= missed.overrun => Current

=============================================================================
