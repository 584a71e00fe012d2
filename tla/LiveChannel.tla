---------------------------- MODULE LiveChannel ----------------------------
(***************************************************************************)
(* The browser console's live channel: several tabs, one leader that owns  *)
(* the browser's only EventSource, a relay between the tabs, and the       *)
(* engine's hub behind it (console/src/lib/live/channel.ts, leader.ts,     *)
(* topics.ts; the engine's side is crates/console-front/src/live).         *)
(*                                                                         *)
(* One topic with one set of parameters is modelled; `kind` says how it    *)
(* resumes.  "replay" is a feed with a cursor per event.  "compare" sends  *)
(* its state with a state token.  "token" and "silent" are the two sorts   *)
(* of invalidation topic (`none`): with a token in every event, and with   *)
(* no cursor at all.  A state or an event is a number: `version` is what   *)
(* the engine holds, and a page's `at` is what that page shows.            *)
(***************************************************************************)
EXTENDS Naturals, Sequences, FiniteSets, FiniteSetsExt

CONSTANTS
  Tabs,        \* the browser's tabs
  Subs,        \* the pages' subscriptions
  TabOf,       \* the tab of each subscription
  EngineIds,   \* ids of engine subscriptions, reused once nothing names one
  Kinds,       \* how the topic may resume
  Ring,        \* entries the engine's ring keeps
  MaxVersion,  \* the newest version, for each kind
  MaxOf,       \* how often each fault may happen, for each kind
  MaxFaults,   \* how many faults may happen together
  MaxWire,     \* engine messages under way at once
  None

Faults == {"hide", "drop", "restart", "close", "lose", "end", "refuse", "leave"}

ASSUME ChannelAssumption ==
  /\ TabOf \in [Subs -> Tabs]
  /\ MaxOf \in [Kinds -> [Faults -> Nat]]
  /\ Ring \in Nat \ {0}
  /\ None \notin Tabs

VARIABLES
  kind,        \* how the topic resumes, fixed at the start
  \* the engine
  instance, version, base, opened, source, wire,
  \* every tab
  alive, visible, engaged, inst, local, relay, lockq, post,
  \* the leader
  leader, subs, eng, removes, connected, flushRetry,
  \* ids already used, and what went wrong so far
  used, spent

engineVars == <<instance, version, base, opened>>

leadVars   == <<subs, eng, removes, connected>>
tabVars    == <<alive, visible, engaged, lockq, leader>>
vars == <<kind, instance, version, base, opened, source, wire, alive, visible,
          engaged, inst, local, relay, lockq, post, leader, subs, eng,
          removes, connected, flushRetry, used, spent>>

Cursor(n) == [i |-> instance, n |-> n]
Invalidates == kind \in {"token", "silent"}

\* A fault uses up some of its budget.
Spend(f) ==
  /\ spent[f] < MaxOf[kind][f]
  /\ MapThenSumSet(LAMBDA x : spent[x], Faults) < MaxFaults
  /\ spent' = [spent EXCEPT ![f] = @ + 1]

-----------------------------------------------------------------------------
(* One page's subscription in its tab (`LocalSub`), and what its listener   *)
(* makes of each call.  `gap` is a feed that knows it has a gap.            *)

Mine(t, ls) == {s \in Subs : TabOf[s] = t /\ ls[s] # None}

\* Told to read its data again, the page does: what it then shows is the
\* engine's state (the read is served now, the oldest answer it can have).  A
\* feed marks the gap instead.
Told(l) ==
  IF Invalidates THEN [l EXCEPT !.at = version]
  ELSE [l EXCEPT !.gap = kind = "replay"]

\* Mutant: a subscription that becomes active has nothing read again.
Activate_(l) == [l EXCEPT !.state = "active", !.resync = FALSE]

Activate(l) ==
  LET a == [l EXCEPT !.state = "active", !.resync = FALSE]
      missed == l.resync /\ l.cursor = None /\ kind # "compare"
      taken  == l.state # "active" /\ Invalidates
  IN  IF missed \/ taken THEN Told(a) ELSE a

Shows(l, n) ==
  CASE kind = "replay"  -> [l EXCEPT !.at = n, !.gap = FALSE]
    [] kind = "compare" -> [l EXCEPT !.at = n]
    [] OTHER            -> Told(l)

DeliverLocal(l, m) ==
  LET moved == IF m.cursor = None THEN Activate(l)
               ELSE [Activate(l) EXCEPT !.cursor = m.cursor]
      over(to) == IF Invalidates THEN [Told(l) EXCEPT !.state = to]
                  ELSE [l EXCEPT !.state = to]
  IN  CASE m.e = "ev"    -> Shows(moved, m.n)
        [] m.e = "tick"  -> moved
        [] m.e = "reset" -> Told(l)
        [] m.e = "end"   -> [over("ended") EXCEPT !.resync = @ \/ l.cursor = None]
        [] m.e = "done"  -> over("finished")

AcceptLocal(l) ==
  IF l.state = "pending" \/ l.resync THEN Activate(l) ELSE l

RefuseLocal(l) == [l EXCEPT !.state = "refused"]

\* f on the subscriptions of `ss` this tab still holds.
Each(ls, ss, f(_)) ==
  [s \in Subs |-> IF s \in ss /\ ls[s] # None THEN f(ls[s]) ELSE ls[s]]

-----------------------------------------------------------------------------
(* What one handler of tab `t` changes, collected in a record: the page     *)
(* subscriptions, the leader's tables, whether a flush was asked for, and   *)
(* the messages for the relay, in order.                                    *)

Now == [local |-> local, subs |-> subs, eng |-> eng, removes |-> removes,
        flush |-> FALSE, out |-> << >>, up |-> connected]

Say(S, m) == [S EXCEPT !.out = Append(@, m)]

SeeRestart(S, t) ==
  [S EXCEPT !.local = Each(@, Mine(t, @), LAMBDA l : Told([l EXCEPT !.cursor = None]))]

\* Ids nothing in the browser, on the wire or in the engine names.
FreshId(S) ==
  CHOOSE e \in EngineIds :
    /\ S.eng[e] = None /\ eng[e] = None /\ e \notin S.removes /\ opened[e] = None
    /\ \A k \in 1..Len(wire) : wire[k].id # e
    /\ \A t \in Tabs : post[t] # None =>
         e \notin {a.id : a \in post[t].adds} \cup post[t].remove

AnnounceAccepted(S, t, ss) ==
  LET mine == {s \in ss : TabOf[s] = t}
      told == [S EXCEPT !.local = Each(@, mine, AcceptLocal)]
  IN  IF ss = mine THEN told
      ELSE Say(told, [t |-> "accepted", subs |-> ss \ mine])

Route(S, t, ss, m) ==
  LET mine == {s \in ss : TabOf[s] = t}
      told == [S EXCEPT !.local = Each(@, mine, LAMBDA l : DeliverLocal(l, m))]
  IN  IF ss = mine THEN told
      ELSE Say(told, [t |-> "ev", subs |-> ss \ mine, m |-> m])

LeaderAdd(S, t, s, after) ==
  LET held   == {e \in EngineIds : S.eng[e] # None /\ kind # "replay"}
      e      == CHOOSE x \in held : TRUE
      joined == [S EXCEPT !.subs = @ \cup {s}, !.eng[e].members = @ \cup {s}]
      known  == AnnounceAccepted(joined, t, {s})
      f      == FreshId(S)
      sub    == [members |-> {s}, cursor |-> after, last |-> None,
                 sent |-> FALSE, accepted |-> FALSE]
  IN  IF s \in S.subs THEN S
      ELSE IF held = {}
           THEN [S EXCEPT !.subs = @ \cup {s}, !.eng[f] = sub, !.flush = TRUE]
      ELSE IF ~S.eng[e].accepted THEN joined
      ELSE IF kind = "compare" /\ S.eng[e].last # None
           THEN Route(known, t, {s}, S.eng[e].last)
      ELSE known

\* Mutant: the engine is not told.
DropEngine_(S, e, tell) == [S EXCEPT !.eng[e] = None]

DropEngine(S, e, tell) ==
  [S EXCEPT !.eng[e] = None,
            !.removes = IF tell /\ S.eng[e].sent THEN @ \cup {e} ELSE @,
            !.flush   = @ \/ (tell /\ S.eng[e].sent)]

LeaderRemove(S, s) ==
  LET es   == {e \in EngineIds : S.eng[e] # None /\ s \in S.eng[e].members}
      e    == CHOOSE x \in es : TRUE
      gone == [S EXCEPT !.subs = @ \ {s}]
  IN  IF s \notin S.subs THEN S
      ELSE IF es = {} THEN gone
      ELSE IF S.eng[e].members = {s} THEN DropEngine(gone, e, TRUE)
      ELSE [gone EXCEPT !.eng[e].members = @ \ {s}]

RefuseEngine(S, t, e) ==
  LET ss   == S.eng[e].members \cap S.subs
      mine == {s \in ss : TabOf[s] = t}
      told == [DropEngine(S, e, FALSE) EXCEPT
                 !.subs = @ \ ss, !.local = Each(@, mine, RefuseLocal)]
  IN  IF ss = mine THEN told
      ELSE Say(told, [t |-> "refused", subs |-> ss \ mine])

Offer(S, t, s) ==
  IF leader = t THEN LeaderAdd(S, t, s, S.local[s].cursor)
  ELSE Say(S, [t |-> "sub", sub |-> s, after |-> S.local[s].cursor])

\* A subscription the engine refused is offered again only when asked.
OfferAll(S, t, includeRefused) ==
  LET ss == {s \in Mine(t, S.local) :
               /\ S.local[s].state # "finished"
               /\ includeRefused \/ S.local[s].state # "refused"}
      ready == [S EXCEPT !.local = Each(@, ss, LAMBDA l :
                 IF l.state = "refused" THEN [l EXCEPT !.state = "pending"] ELSE l)]
  IN  FoldSet(LAMBDA s, acc : Offer(acc, t, s), ready, ss)

-----------------------------------------------------------------------------
(* Ending a handler: the relay carries what it said to every other tab, and *)
(* the microtask it queued sends one POST (`flush`), unless one is already  *)
(* under way or the connection is not open.                                 *)

Broadcast(t, ms) ==
  relay' = [u \in Tabs |-> IF u # t /\ alive[u] THEN relay[u] \o ms ELSE relay[u]]

\* `posts` is what is under way as the microtask runs; the leader is `t`.
Flush(S, t, posts) ==
  LET adds == {e \in EngineIds : S.eng[e] # None /\ ~S.eng[e].sent}
      ask  == [adds   |-> {[id |-> e, after |-> S.eng[e].cursor] : e \in adds},
               remove |-> S.removes, gen |-> TRUE, conn |-> TRUE, answer |-> "none"]
      sends == /\ S.flush /\ posts[t] = None /\ S.up
               /\ adds # {} \/ S.removes # {}
  IN  IF sends
      THEN /\ post' = [posts EXCEPT ![t] = ask]
           /\ eng' = [e \in EngineIds |->
                        IF e \in adds THEN [S.eng[e] EXCEPT !.sent = TRUE] ELSE S.eng[e]]
           /\ removes' = {}
      ELSE post' = posts /\ eng' = S.eng /\ removes' = S.removes

\* The end of a handler in which tab t leads.
LeaderDone(S, t, posts) ==
  /\ local' = S.local /\ subs' = S.subs /\ connected' = S.up
  /\ Flush(S, t, posts)
  /\ Broadcast(t, S.out)

\* The end of a handler of a tab that does not lead.
FollowerDone(S, t) ==
  /\ local' = S.local
  /\ Broadcast(t, S.out)
  /\ UNCHANGED <<post, leadVars>>

Done(S, t) == IF leader = t THEN LeaderDone(S, t, post) ELSE FollowerDone(S, t)

\* A POST whose connection, or whose leadership, is over.
Outdated(t, gen) ==
  IF t = None \/ post[t] = None THEN post
  ELSE [post EXCEPT ![t] = [@ EXCEPT !.conn = FALSE, !.gen = @ /\ ~gen]]
-----------------------------------------------------------------------------
(* The tab: shown, hidden, closed; pages come and go.                       *)

Want(t) == IF t = leader \/ \E k \in 1..Len(lockq) : lockq[k] = t
           THEN lockq ELSE Append(lockq, t)
NotWaiting(t) == SelectSeq(lockq, LAMBDA u : u # t)

\* Shown: the tab gives its subscriptions to the leader, or asks to lead.
Engage(t) ==
  LET S == OfferAll(Say(Now, [t |-> "who"]), t, TRUE)
  IN  /\ alive[t] /\ ~visible[t]
      /\ visible' = [visible EXCEPT ![t] = TRUE]
      /\ engaged' = [engaged EXCEPT ![t] = TRUE]
      /\ IF engaged[t]
         THEN UNCHANGED <<local, relay, post, leadVars, lockq>>
         ELSE /\ FollowerDone(S, t)
              /\ lockq' = IF Mine(t, local) # {} THEN Want(t) ELSE lockq
      /\ UNCHANGED <<kind, used, engineVars, source, wire, alive, inst, leader,
                     flushRetry, spent>>

Hide(t) ==
  /\ alive[t] /\ visible[t] /\ Spend("hide")
  /\ visible' = [visible EXCEPT ![t] = FALSE]
  /\ UNCHANGED <<kind, used, engineVars, source, wire, alive, engaged, inst, local,
                 relay, lockq, post, leader, leadVars, flushRetry>>

\* The leader lets go: its tables are emptied and the lock is free.
StopLeading ==
  /\ leader' = None /\ source' = "closed" /\ wire' = << >> /\ connected' = FALSE
  /\ opened' = [e \in EngineIds |-> None]
  /\ subs' = {} /\ eng' = [e \in EngineIds |-> None] /\ removes' = {}
  /\ flushRetry' = FALSE
  /\ post' = Outdated(leader, TRUE)

NotLeading == UNCHANGED <<leader, source, wire, opened, post, leadVars, flushRetry>>

\* Hidden for releaseMs, frozen, or put away: what has no cursor cannot be
\* replayed when the tab is shown again.
Release(t) ==
  LET mine   == Mine(t, local)
      unsubs == FoldSet(LAMBDA s, acc : Append(acc, [t |-> "unsub", sub |-> s]), << >>, mine)
  IN  /\ alive[t] /\ engaged[t] /\ ~visible[t]
      /\ local' = Each(local, mine, LAMBDA l : [l EXCEPT !.resync = @ \/ l.cursor = None])
      /\ IF leader = t
         THEN StopLeading /\ UNCHANGED relay
         ELSE NotLeading /\ Broadcast(t, unsubs)
      /\ engaged' = [engaged EXCEPT ![t] = FALSE]
      /\ lockq' = NotWaiting(t)
      /\ UNCHANGED <<kind, used, instance, version, base, alive, visible, inst, spent>>

\* A tab closed or crashed: its locks come free with it.
Close(t) ==
  /\ alive[t] /\ Spend("close")
  /\ alive' = [alive EXCEPT ![t] = FALSE]
  /\ visible' = [visible EXCEPT ![t] = FALSE]
  /\ engaged' = [engaged EXCEPT ![t] = FALSE]
  /\ local' = [s \in Subs |-> IF TabOf[s] = t THEN None ELSE local[s]]
  /\ relay' = [relay EXCEPT ![t] = << >>]
  /\ lockq' = NotWaiting(t)
  /\ IF leader = t THEN StopLeading ELSE NotLeading
  /\ UNCHANGED <<kind, used, instance, version, base, inst>>

\* The leader holds a watch on every tab it has a subscription of.
TabGone(t) ==
  /\ leader # None /\ ~alive[t] /\ \E s \in subs : TabOf[s] = t
  /\ LeaderDone(FoldSet(LAMBDA s, acc : LeaderRemove(acc, s), Now,
                        {s \in subs : TabOf[s] = t}), leader, post)
  /\ UNCHANGED <<kind, used, engineVars, source, wire, tabVars, inst, flushRetry, spent>>

\* A page mounts.  It read its data just before, with the cursor of that read
\* or without one; a page of a compare topic may have read nothing.
Subscribe(s) ==
  LET t == TabOf[s] IN
  \E after \in {None, Cursor(version)} :
    LET new == [state |-> "pending", cursor |-> after,
                resync |-> ~visible[t] /\ after = None,
                at |-> IF Invalidates \/ after # None THEN version ELSE 0,
                gap |-> kind = "replay" /\ after = None]
        S == [Now EXCEPT !.local[s] = new]
    IN  /\ alive[t] /\ s \notin used
        /\ used' = used \cup {s}
        /\ after # None => kind = "replay"
        /\ IF engaged[t]
           THEN Done(Offer(S, t, s), t) /\ lockq' = Want(t)
           ELSE local' = S.local /\ UNCHANGED <<relay, post, leadVars, lockq>>
        /\ UNCHANGED <<kind, engineVars, source, wire, alive, visible, engaged, inst,
                       leader, flushRetry, spent>>

\* A page unmounts.
Unsubscribe(s) ==
  LET t == TabOf[s]
      S == [Now EXCEPT !.local[s] = None]
      W == IF local[s].state \in {"refused", "finished"} \/ ~engaged[t] THEN S
           ELSE IF leader = t THEN LeaderRemove(S, s)
           ELSE Say(S, [t |-> "unsub", sub |-> s])
  IN  /\ local[s] # None /\ Spend("leave")
      /\ Done(W, t)
      /\ lockq' = IF Mine(t, S.local) = {} /\ leader # t THEN NotWaiting(t) ELSE lockq
      /\ UNCHANGED <<kind, used, engineVars, source, wire, alive, visible, engaged, inst,
                     leader, flushRetry>>

\* An ended subscription comes back by itself (`scheduleResubscribe`), a
\* refused one when the page asks (`retry`).
Resubscribe(s) ==
  LET t == TabOf[s]
      S == [Now EXCEPT !.local[s].state = "pending"]
  IN  /\ local[s] # None /\ local[s].state \in {"ended", "refused"}
      /\ Done(IF engaged[t] THEN Offer(S, t, s) ELSE S, t)
      /\ UNCHANGED <<kind, used, engineVars, source, wire, tabVars, inst, flushRetry, spent>>

-----------------------------------------------------------------------------
(* The relay: a tab handles the next message other tabs sent.               *)

\* Another tab's message as the leader reads it.
LeaderHears(t, m) ==
  LET S == CASE m.t = "sub"   -> LeaderAdd(Now, t, m.sub, m.after)
             [] m.t = "unsub" -> LeaderRemove(Now, m.sub)
             [] m.t = "who"   ->
                  IF connected THEN Say(Now, [t |-> "hello", inst |-> inst[t]]) ELSE Now
             [] OTHER         -> Now
  IN  /\ local' = S.local /\ subs' = S.subs /\ connected' = S.up
      /\ Flush(S, t, post)
      /\ relay' = [u \in Tabs |-> IF u = t THEN Tail(relay[u])
                                  ELSE IF alive[u] THEN relay[u] \o S.out ELSE relay[u]]
      /\ UNCHANGED inst

\* The leader's message as a follower reads it.
FollowerHears(t, m) ==
  LET restarted == inst[t] # None /\ m.inst # inst[t]
      greeted == OfferAll(IF restarted THEN SeeRestart(Now, t) ELSE Now, t, restarted)
      mine == m.subs \cap Mine(t, local)
      S == CASE m.t = "hello" /\ engaged[t] -> greeted
             [] m.t = "ev"       -> [Now EXCEPT !.local =
                                       Each(@, mine, LAMBDA l : DeliverLocal(l, m.m))]
             [] m.t = "accepted" -> [Now EXCEPT !.local = Each(@, mine, AcceptLocal)]
             [] m.t = "refused"  -> [Now EXCEPT !.local = Each(@, mine, RefuseLocal)]
             [] OTHER            -> Now
  IN  /\ local' = S.local
      /\ relay' = [u \in Tabs |-> IF u = t THEN Tail(relay[u])
                                  ELSE IF alive[u] THEN relay[u] \o S.out ELSE relay[u]]
      /\ inst' = [inst EXCEPT ![t] = IF m.t = "hello" /\ engaged[t] THEN m.inst ELSE @]
      /\ UNCHANGED <<post, leadVars>>

OnMessage(t) ==
  /\ alive[t] /\ relay[t] # << >>
  /\ IF leader = t THEN LeaderHears(t, Head(relay[t])) ELSE FollowerHears(t, Head(relay[t]))
  /\ UNCHANGED <<kind, used, engineVars, source, wire, tabVars, flushRetry, spent>>

-----------------------------------------------------------------------------
(* Leading.                                                                 *)

\* The lock is granted to the first tab in its queue, which opens a stream.
OnLead ==
  LET t == Head(lockq)
      empty == [Now EXCEPT !.subs = {}, !.eng = [e \in EngineIds |-> None],
                           !.removes = {}, !.up = FALSE]
      ss == {s \in Mine(t, local) : local[s].state \notin {"refused", "finished"}}
      S == FoldSet(LAMBDA s, acc : LeaderAdd(acc, t, s, local[s].cursor),
                   empty, ss)
  IN  /\ leader = None /\ lockq # << >>
      /\ lockq' = Tail(lockq)
      /\ IF engaged[t]
         THEN /\ leader' = t /\ source' = "opening"
              /\ LeaderDone(S, t, post)
         ELSE UNCHANGED <<leader, source, local, relay, post, leadVars>>
      /\ UNCHANGED <<kind, used, engineVars, wire, alive, visible, engaged, inst, flushRetry, spent>>

\* The last subscriber of the browser went idleMs ago.
IdleStop ==
  /\ leader # None /\ subs = {} /\ Mine(leader, local) = {}
  /\ StopLeading
  /\ UNCHANGED <<kind, used, instance, version, base, alive, visible, engaged, inst, local,
                 relay, lockq, spent>>

\* The engine takes the stream and says hello.
OpenLive ==
  /\ source = "opening"
  /\ source' = "open"
  /\ wire' = <<[e |-> "hello", id |-> None, inst |-> instance]>>
  /\ UNCHANGED <<kind, used, engineVars, tabVars, inst, local, relay, post, leadVars,
                 flushRetry, spent>>

\* Mutant: what was sent on the last connection counts as sent on this one.
Unsent_(x) == IF x = None THEN None ELSE [x EXCEPT !.accepted = FALSE]

Unsent(x) == IF x = None THEN None ELSE [x EXCEPT !.sent = FALSE, !.accepted = FALSE]

\* A new connection holds nothing: everything is asked for again, from its
\* last cursor, and from none when the engine is another run.
OnHello(m) ==
  LET t == leader
      restarted == inst[t] # None /\ m.inst # inst[t]
      forget(x) == IF x = None THEN None
                   ELSE [x EXCEPT !.cursor = None, !.last = None]
      again == OfferAll([SeeRestart(Now, t) EXCEPT !.eng = [e \in EngineIds |-> forget(@[e])]],
                        t, TRUE)
      S == IF restarted THEN again ELSE Now
      asks == [S EXCEPT !.removes = {}, !.eng = [e \in EngineIds |-> Unsent(@[e])],
                        !.up = TRUE, !.flush = TRUE]
  IN  /\ LeaderDone(Say(asks, [t |-> "hello", inst |-> m.inst]), t, Outdated(t, FALSE))
      /\ inst' = [inst EXCEPT ![t] = m.inst]
      /\ UNCHANGED source

\* One message of the engine for one engine subscription.
OnEngineMessage(m) ==
  LET t == leader
      held == eng[m.id]
      moved == [held EXCEPT !.cursor = IF m.e \in {"ev", "tick"} /\ m.cursor # None
                                       THEN m.cursor ELSE @,
                            !.last = IF kind = "compare" /\ m.e = "ev" THEN m ELSE @]
      ss == held.members \cap subs
      over == [DropEngine(Now, m.id, FALSE) EXCEPT !.subs = @ \ ss]
      S == IF held = None THEN Now
           ELSE IF m.e \in {"end", "done"} THEN Route(over, t, ss, m)
           ELSE Route([Now EXCEPT !.eng[m.id] = moved], t, ss, m)
  IN  LeaderDone(S, t, post) /\ UNCHANGED <<inst, source>>

\* The stream is over: the engine said it is stopping, or it broke and the
\* leader notices.  It is opened again, by the browser or on the channel's own
\* schedule (LiveStream has the timers).
LostStream ==
  /\ LeaderDone([Now EXCEPT !.up = FALSE], leader, Outdated(leader, FALSE))
  /\ source' = "opening" /\ wire' = << >>
  /\ UNCHANGED inst

OnStream ==
  /\ leader # None /\ source = "open" /\ wire # << >>
  /\ LET m == Head(wire) IN
     \/ m.e = "hello" /\ OnHello(m) /\ wire' = Tail(wire)
     \/ m.e = "stopping" /\ LostStream
     \/ /\ m.e \notin {"hello", "stopping"}
        /\ OnEngineMessage(m) /\ wire' = Tail(wire)
  /\ UNCHANGED <<kind, used, engineVars, tabVars, flushRetry, spent>>

OnError ==
  /\ leader # None /\ source = "broken"
  /\ LostStream
  /\ UNCHANGED <<kind, used, engineVars, tabVars, flushRetry, spent>>

-----------------------------------------------------------------------------
(* The engine's hub.                                                        *)

Oldest == Max({base, IF version > Ring THEN version - Ring ELSE 0}) + 1

Ev(e, n) == [e |-> "ev", id |-> e, n |-> n,
             cursor |-> IF kind = "silent" THEN None ELSE Cursor(n)]
ResetOf(e) == [e |-> "reset", id |-> e]
TickOf(e)  == [e |-> "tick", id |-> e, cursor |-> Cursor(version)]

\* Mutant: a cursor the ring no longer covers resumes without a word.
OpenTopic_(e, after) ==
  LET from == IF after = None \/ after.n + 1 < Oldest THEN Oldest - 1 ELSE after.n
  IN  IF kind = "replay" THEN [at |-> from, say |-> IF from = version THEN <<TickOf(e)>> ELSE << >>]
      ELSE [at |-> version, say |-> IF kind = "compare" THEN <<Ev(e, version)>> ELSE << >>]

\* Where the topic stands for a new subscription that resumes from `after`,
\* and what it says at once.
OpenTopic(e, after) ==
  LET gap == after # None /\ (after.i # instance \/ after.n + 1 < Oldest)
      from == IF after = None \/ gap THEN Oldest - 1 ELSE after.n
      other == after # None /\ after # Cursor(version)
  IN  CASE kind = "replay" ->
             [at |-> from, say |-> (IF gap THEN <<ResetOf(e)>> ELSE << >>)
                                   \o (IF from = version THEN <<TickOf(e)>> ELSE << >>)]
        [] kind = "compare" ->
             [at |-> version, say |-> IF after = Cursor(version) THEN << >>
                                      ELSE <<Ev(e, version)>>]
        [] kind = "token" ->
             [at |-> version, say |-> IF other THEN <<ResetOf(e)>> ELSE << >>]
        [] OTHER -> [at |-> version, say |-> << >>]

\* The engine answers a POST: 404 when it does not hold the connection, 400
\* for the whole request when an id is already taken, else each topic opens.
Subscriptions(t) ==
  LET p == post[t]
      ids == {a.id : a \in p.adds}
      here == p.conn /\ source = "open" /\ wire # <<[e |-> "stopping", id |-> None]>>
      says == FoldSet(LAMBDA a, acc : acc \o OpenTopic(a.id, a.after).say, << >>, p.adds)
      opens == [e \in EngineIds |->
                  IF e \in p.remove THEN None
                  ELSE IF e \in ids
                       THEN OpenTopic(e, (CHOOSE a \in p.adds : a.id = e).after).at
                  ELSE opened[e]]
  IN  /\ p # None /\ p.answer = "none"
      /\ \/ /\ ~here
            /\ post' = [post EXCEPT ![t].answer = "404"]
            /\ UNCHANGED <<opened, wire, spent>>
         \/ /\ here /\ \E e \in ids : opened[e] # None
            /\ post' = [post EXCEPT ![t].answer = "400"]
            /\ UNCHANGED <<opened, wire, spent>>
         \/ /\ here /\ \A e \in ids : opened[e] = None
            /\ post' = [post EXCEPT ![t].answer = "ok"]
            /\ opened' = opens /\ wire' = wire \o says
            /\ UNCHANGED spent
         \/ /\ here /\ ids # {} /\ \A e \in ids : opened[e] = None
            /\ Spend("refuse")
            /\ post' = [post EXCEPT ![t].answer = "refused"]
            /\ opened' = [e \in EngineIds |-> IF e \in p.remove THEN None ELSE opened[e]]
            /\ UNCHANGED wire
      /\ UNCHANGED <<kind, used, instance, version, base, source, tabVars, inst, local,
                     relay, leadVars, flushRetry>>

\* The request, or its answer, is lost on the way.
LosePost(t) ==
  /\ post[t] # None /\ post[t].answer \in {"none", "ok"} /\ Spend("lose")
  /\ post' = [post EXCEPT ![t].answer = "lost"]
  /\ UNCHANGED <<kind, used, engineVars, source, wire, tabVars, inst, local, relay,
                 leadVars, flushRetry>>

\* What one engine subscription has to say next.
Publish(e) ==
  /\ source = "open" /\ opened[e] # None /\ opened[e] < version /\ Len(wire) < MaxWire
  /\ LET n == IF kind = "replay" THEN opened[e] + 1 ELSE version
         lagged == kind = "replay" /\ n < Oldest
     IN  /\ wire' = Append(wire, IF lagged THEN ResetOf(e) ELSE Ev(e, n))
         /\ opened' = [opened EXCEPT ![e] = IF lagged THEN Oldest - 1 ELSE n]
  /\ UNCHANGED <<kind, used, instance, version, base, source, tabVars, inst, local, relay,
                 post, leadVars, flushRetry, spent>>

\* The topic's source went away, or it has said all it had to say.
EndTopic(e) ==
  /\ opened[e] # None /\ source = "open" /\ Spend("end")
  /\ opened' = [opened EXCEPT ![e] = None]
  /\ \E how \in {"end", "done"} : wire' = Append(wire, [e |-> how, id |-> e])
  /\ UNCHANGED <<kind, used, instance, version, base, source, tabVars, inst, local, relay,
                 post, leadVars, flushRetry>>

Change ==
  /\ version < MaxVersion[kind]
  /\ version' = version + 1
  /\ UNCHANGED <<kind, used, instance, base, opened, source, wire, tabVars, inst, local,
                 relay, post, leadVars, flushRetry, spent>>

Drop ==
  /\ source = "open" /\ Spend("drop")
  /\ source' = "broken" /\ wire' = << >>
  /\ opened' = [e \in EngineIds |-> None]
  /\ UNCHANGED <<kind, used, instance, version, base, tabVars, inst, local, relay, post,
                 leadVars, flushRetry>>

\* The engine restarts, with the word "stopping" on its streams or without.
Restart ==
  /\ Spend("restart")
  /\ instance' = instance + 1 /\ base' = version
  /\ opened' = [e \in EngineIds |-> None]
  /\ \/ /\ source = "open"
        /\ wire' = Append(wire, [e |-> "stopping", id |-> None]) /\ UNCHANGED source
     \/ /\ source' = IF source = "open" THEN "broken" ELSE source
        /\ wire' = << >>
  /\ UNCHANGED <<kind, used, version, tabVars, inst, local, relay, post, leadVars,
                 flushRetry>>

-----------------------------------------------------------------------------
(* The answer of a POST reaches the tab that sent it.  An answer of another *)
(* connection, or of an earlier time as leader, changes nothing but that    *)
(* the tab may post again; only an answer of this time as leader asks for   *)
(* the next flush.                                                          *)

Answered(t) ==
  LET p == post[t]
      ids == {a.id : a \in p.adds}
      held == {e \in ids : eng[e] # None}
      accept(S, e) == AnnounceAccepted([S EXCEPT !.eng[e].accepted = TRUE], t,
                                       S.eng[e].members \cap S.subs)
      back(x) == IF x = None THEN None ELSE [x EXCEPT !.sent = FALSE]
      S == CASE ~p.gen \/ ~p.conn -> Now
             [] p.answer = "ok"   -> FoldSet(LAMBDA e, acc : accept(acc, e), Now, held)
             [] p.answer = "404"  -> [Now EXCEPT !.up = FALSE]
             [] p.answer = "lost" ->
                  [Now EXCEPT !.removes = @ \cup p.remove,
                              !.eng = [e \in EngineIds |-> IF e \in ids THEN back(@[e]) ELSE @[e]]]
             [] OTHER -> FoldSet(LAMBDA e, acc : RefuseEngine(acc, t, e), Now, held)
      again == p.answer = "lost" /\ p.gen /\ p.conn
      posts == [post EXCEPT ![t] = None]
  IN  /\ alive[t] /\ p # None /\ p.answer # "none"
      /\ flushRetry' = (flushRetry \/ again)
      /\ IF leader = t
         THEN LeaderDone([S EXCEPT !.flush = p.gen /\ ~(flushRetry \/ again)], t, posts)
         ELSE post' = posts /\ UNCHANGED <<local, relay, leadVars>>
      /\ UNCHANGED <<kind, used, engineVars, source, wire, tabVars, inst, spent>>

\* A second after a POST did not get through.
RetryFlush ==
  /\ leader # None /\ flushRetry
  /\ flushRetry' = FALSE
  /\ LeaderDone([Now EXCEPT !.flush = TRUE], leader, post)
  /\ UNCHANGED <<kind, used, engineVars, source, wire, tabVars, inst, spent>>

-----------------------------------------------------------------------------
Init ==
  /\ kind \in Kinds
  /\ instance = 1 /\ version = 1 /\ base = 0
  /\ opened = [e \in EngineIds |-> None] /\ source = "closed" /\ wire = << >>
  /\ alive = [t \in Tabs |-> TRUE] /\ visible = [t \in Tabs |-> FALSE]
  /\ engaged = [t \in Tabs |-> FALSE] /\ inst = [t \in Tabs |-> None]
  /\ local = [s \in Subs |-> None] /\ relay = [t \in Tabs |-> << >>]
  /\ lockq = << >> /\ post = [t \in Tabs |-> None]
  /\ leader = None /\ subs = {} /\ eng = [e \in EngineIds |-> None] /\ removes = {}
  /\ connected = FALSE /\ flushRetry = FALSE
  /\ used = {} /\ spent = [f \in Faults |-> 0]

TabStep ==
  \/ \E t \in Tabs : Engage(t) \/ Hide(t) \/ Release(t) \/ Close(t) \/ TabGone(t) \/ OnMessage(t)
  \/ \E s \in Subs : Subscribe(s) \/ Unsubscribe(s) \/ Resubscribe(s)

LeaderStep ==
  \/ OnLead \/ IdleStop \/ OnStream \/ OnError \/ RetryFlush
  \/ \E t \in Tabs : Answered(t)

EngineStep ==
  \/ OpenLive \/ Change \/ Drop \/ Restart
  \/ \E t \in Tabs : Subscriptions(t) \/ LosePost(t)
  \/ \E e \in EngineIds : Publish(e) \/ EndTopic(e)

Next == TabStep \/ LeaderStep \/ EngineStep

Spec == Init /\ [][Next]_vars

-----------------------------------------------------------------------------
(* Properties.                                                              *)

\* Nothing is under way: every message, request, timer and lock has been
\* dealt with, and the engine has said all it has to say.
Settled ==
  /\ leader # None /\ source = "open" /\ connected /\ wire = << >> /\ ~flushRetry
  /\ \A t \in Tabs : relay[t] = << >> /\ post[t] = None
  /\ \A e \in EngineIds : opened[e] # None => opened[e] = version
  /\ \A s \in subs : alive[TabOf[s]]

\* A page somebody is looking at.
Watched(s) == local[s] # None /\ visible[TabOf[s]]

\* None of the faults of fs has happened.
Without(fs) == \A f \in fs : spent[f] = 0

\* A feed never skips an entry, and never shows one twice, without the page
\* having been told of a gap: whatever connection, leader or ring eviction the
\* entries came through, each is the successor of the last (`deliverLocal`,
\* the leader's `engine.cursor` on each new connection, ReplayRing::follow).
FeedHasNoHiddenGap ==
  [][\A s \in Subs :
       /\ kind = "replay" /\ local[s] # None /\ local'[s] # None
       /\ local'[s].at # local[s].at
       => local[s].gap \/ local'[s].at = local[s].at + 1]_vars

\* When everything has settled no visible page is still waiting for its
\* subscription: across a dropped stream, a restarted engine and a leader that
\* closed, `onHello`, `offerAll` and `flush` have had it taken.  (A tab hidden
\* or a page left while a POST is out, a lost answer, an ended or refused topic
\* can strand one: see the README.)
SettledMeansTaken ==
  Settled /\ Without({"hide", "leave", "end", "lose", "refuse"}) =>
    \A s \in Subs : Watched(s) => local[s].state # "pending"

\* When everything has settled, a visible page whose subscription is active
\* shows what the engine holds, or knows that it does not: a feed is at the
\* newest entry or marks its gap; a page of a compare topic shows the newest
\* state or none at all; a page of an invalidation topic has read its data
\* again, as long as no connection, leader or hidden spell came between.  (A tab
\* hidden and shown again while its POST is out stalls the next flush, so the
\* state of a compare topic is not claimed then.)
SettledShowsState ==
  Settled => \A s \in Subs : Watched(s) /\ local[s].state = "active" =>
    CASE kind = "replay"  -> local[s].gap \/ local[s].at = version
      [] kind = "compare" -> Without({"end", "lose", "hide"}) => local[s].at \in {0, version}
      [] OTHER -> Without({"drop", "restart", "close", "hide", "leave"}) => local[s].at = version

\* When everything has settled the engine serves no subscription the leader
\* does not hold for a page of an engaged tab: `dropEngine` has told it of
\* every one dropped, and `tabGone` of the ones of a tab that closed.
EngineHoldsWhatIsWatched ==
  Settled /\ Without({"lose", "leave", "hide"}) =>
    \A e \in EngineIds : opened[e] # None =>
      /\ eng[e] # None
      /\ \A s \in eng[e].members : local[s] # None /\ engaged[TabOf[s]]

=============================================================================
