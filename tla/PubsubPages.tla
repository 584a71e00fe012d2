---------------------------- MODULE PubsubPages ----------------------------
(***************************************************************************)
(* The Pub/Sub topics page.  Everything it shows is in the address: the    *)
(* scope (a topic, a subscription of it, or neither), the view inside the  *)
(* scope, the open message, the filters, the composer and the dialogs.     *)
(* Every handler patches the address; a patch pushes a history entry       *)
(* unless it replaces one.  Filters are written to it by a timer that runs *)
(* behind the typing, and the answers of create and delete requests        *)
(* navigate whenever they arrive.                                          *)
(*                                                                         *)
(* A message and a filter are represented by the topic and the list they   *)
(* were chosen in; `only` is the backlog's state and the push feed's       *)
(* pause, which one view each reads.  Left out: the inspector's tab, the   *)
(* project's id, the tree's folding.  The router is external.              *)
(***************************************************************************)
EXTENDS Naturals

CONSTANTS None,
          Topics, Subscriptions,
          TopicOf,        \* [Subscriptions -> Topics \cup {None}], None: its topic was deleted
          DeadTopicOf,    \* [Subscriptions -> Topics \cup {None}]
          MaxPushes       \* bound: entries pushed by the page's handlers

VARIABLES url,            \* the page's search parameters
          past,           \* the entry Back shows: parameters, or None
          timer,          \* a filter on its way to the address: None, or what it is for
          policy,         \* subscriptions whose dead-letter policy is in place
          asked,          \* create and delete requests on their way
          shut,           \* the dialogs closed since the last push
          stacked,        \* a palette command was run over an open dialog
          pushes          \* how many entries were pushed

vars == <<url, past, timer, policy, asked, shut, stacked, pushes>>

\* topics-page.tsx SCOPED: every parameter that belongs to a scope, cleared.
SCOPED == [topic |-> None, subscription |-> None, view |-> None, message |-> None, q |-> None,
           expr |-> None, only |-> None, prefill |-> None, new |-> None,
           dialog |-> None]

----------------------------------------------------------------------------
(* What the parameters show.                                               *)

TopicViews == {"messages", "subscriptions", "settings"}

\* topicView: the view a parameter names, or the first.
topicView(u) == IF u.view \in TopicViews THEN u.view ELSE "messages"

\* subscriptionViews: Push only when it pushes, Dead letters only with a policy.
subscriptionViews(s) == {"backlog", "push", "settings"} \cup {v \in {"dead-letters"} : s \in policy}

resolveSubscriptionView(u) ==
  IF u.view \in subscriptionViews(u.subscription) THEN u.view ELSE "backlog"

\* The body TopicsPage draws for the parameters.
Body(u) == CASE u.subscription # None -> resolveSubscriptionView(u)
             [] u.subscription = None /\ u.topic # None -> topicView(u)
             [] OTHER -> "landing"

\* The topic whose messages the body lists, or opens in its inspector.
Listed(u) == CASE Body(u) \in {"backlog", "push"} -> TopicOf[u.subscription]
               [] Body(u) = "dead-letters" -> DeadTopicOf[u.subscription]
               [] Body(u) = "messages" -> u.topic
               [] OTHER -> None

\* The mount of a MessagesView (it is keyed by its topic), or None.
ListKey(u) == IF Body(u) \in {"messages", "dead-letters"} THEN <<Body(u), Listed(u)>> ELSE None

\* The dialogs the page draws over the body.
Dialogs(u) == ({u.new} \cap {"topic", "subscription"}) \cup ({u.dialog} \cap {"setup", "export"})

----------------------------------------------------------------------------
Init ==
  /\ url \in {SCOPED} \cup {[SCOPED EXCEPT !.topic = t] : t \in Topics}
             \cup {[SCOPED EXCEPT !.subscription = s] : s \in Subscriptions}
  /\ past = None /\ timer = None /\ asked = {} /\ shut = {} /\ stacked = FALSE /\ pushes = 0
  /\ policy = {s \in Subscriptions : DeadTopicOf[s] # None}


\* A list that goes away clears the timer of its filter.
Mounted(u) == timer' = IF ListKey(u) = ListKey(url) THEN timer ELSE None

\* update(patch): a new entry (none for the same address), or the same one
\* replaced.
Push(u) ==
  /\ pushes < MaxPushes /\ pushes' = pushes + 1
  /\ url' = u /\ past' = IF u = url THEN past ELSE url
  /\ Mounted(u) /\ UNCHANGED policy
  /\ shut' = IF u = url THEN shut ELSE {}
Replace(u) == url' = u /\ UNCHANGED past /\ Mounted(u) /\ UNCHANGED <<shut, policy, pushes>>

\* The page's own controls are under the scrim of an open dialog; the palette
\* is not.
Still == Dialogs(url) = {} /\ UNCHANGED <<asked, stacked>>
Palette == stacked' = (stacked \/ Dialogs(url) # {}) /\ UNCHANGED asked

----------------------------------------------------------------------------
(* TopicsPage.                                                             *)

Scope(t, s) == [SCOPED EXCEPT !.topic = t, !.subscription = s]

\* goTo: another scope starts with nothing of the last one.
goTo(t, s) == Push(Scope(t, s))

\* Mutant: the topic in the address is kept.
openSubscription_(s) == goTo(url.topic, s)

openSubscription(s) == goTo(TopicOf[s], s)

\* A row of the tree, a crumb, a landing card, a completion of the path field.
openTarget == Still /\ ((\E t \in Topics : goTo(t, None)) \/ (\E s \in Subscriptions : openSubscription(s)))

\* Another project, or back to the landing.
switchProject == Still /\ goTo(None, None)

\* A subscription link does not say its topic: the index does.
SubscriptionSaysItsTopic ==
  /\ url.subscription # None /\ url.topic = None /\ TopicOf[url.subscription] # None
  /\ Replace([url EXCEPT !.topic = TopicOf[url.subscription]]) /\ UNCHANGED <<asked, stacked>>

\* Mutant: what filled the composer stays.
createTopic_ ==
  \/ Push([url EXCEPT !.new = "topic"]) /\ Palette
  \/ Push([url EXCEPT !.new = "topic", !.prefill = "id"]) /\ Still

\* New topic, its id taken from the path field or a missing topic's page.
createTopic ==
  \/ Push([url EXCEPT !.new = "topic", !.prefill = None]) /\ Palette
  \/ Push([url EXCEPT !.new = "topic", !.prefill = "id"]) /\ Still

\* New subscription: drawn only with a topic in the address.
createSubscription == url.topic # None /\ Push([url EXCEPT !.new = "subscription"]) /\ Palette

\* Publish: the composer is the Messages view's inspector, so it opens there.
compose ==
  /\ url.topic # None /\ url.subscription = None
  /\ Push([url EXCEPT !.new = "message", !.prefill = None, !.message = None, !.view = None]) /\ Palette

openSetup == Push([url EXCEPT !.dialog = "setup", !.prefill = None]) /\ Palette

\* Mutant: dismissing adds an entry.
Close_(d) ==
  /\ d \in Dialogs(url) /\ d = url.new
  /\ url' = [url EXCEPT !.new = None] /\ past' = url /\ shut' = shut \cup {d}
  /\ UNCHANGED <<timer, policy, asked, stacked, pushes>>

\* A dialog is dismissed: the entry that showed it is replaced.
Close(d) ==
  /\ d \in Dialogs(url)
  /\ url' = [url EXCEPT !.new = IF d = @ THEN None ELSE @,
                        !.prefill = IF d = "topic" THEN None ELSE @,
                        !.dialog = IF d = @ THEN None ELSE @]
  /\ shut' = shut \cup {d}
  /\ UNCHANGED <<past, timer, policy, asked, stacked, pushes>>

\* A dialog asks the engine to create, or a page to delete what it shows.
Ask ==
  /\ asked = {}
  /\ \/ url.new = "topic" /\ \E t \in Topics : asked' = {<<"topic", t, None>>}
     \/ url.new = "subscription" /\ \E s \in Subscriptions : TopicOf[s] = url.topic
                                     /\ asked' = {<<"subscription", url.topic, s>>}
     \/ Body(url) = "settings" /\ asked' = {<<"deleted", IF url.subscription = None THEN None ELSE url.topic, None>>}
  /\ UNCHANGED <<url, past, timer, policy, shut, stacked, pushes>>

\* The answer navigates, whatever the page shows by then: closing the dialog
\* replaces the entry, then goTo pushes its own.
Answered(a) ==
  /\ a \in asked /\ asked' = {}
  /\ url' = Scope(a[2], a[3])
  /\ past' = IF a[1] = "deleted" THEN url
             ELSE [url EXCEPT !.new = None, !.prefill = IF a[1] = "topic" THEN None ELSE @]
  /\ Mounted(Scope(a[2], a[3])) /\ shut' = {} /\ UNCHANGED <<policy, stacked, pushes>>

Failed(a) == a \in asked /\ asked' = {} /\ UNCHANGED <<url, past, timer, policy, shut, stacked, pushes>>

----------------------------------------------------------------------------
(* TopicView and its messages.                                             *)

\* Mutant: the open message stays.
TopicTab_(v) ==
  /\ url.subscription = None /\ url.topic # None
  /\ Push([url EXCEPT !.view = IF v = "messages" THEN None ELSE v]) /\ Still

\* Another tab of a topic: the open message belonged to the last one.
TopicTab(v) ==
  /\ url.subscription = None /\ url.topic # None
  /\ Push([url EXCEPT !.view = IF v = "messages" THEN None ELSE v, !.message = None]) /\ Still

\* Publishing again, edited first: the composer filled with the message.
editAgain ==
  /\ Body(url) = "messages"
  /\ Push([url EXCEPT !.new = "message", !.prefill = url.topic, !.message = None]) /\ Still

CloseComposer ==
  /\ Body(url) = "messages" /\ url.new = "message"
  /\ \E m \in {None, url.topic} : Push([url EXCEPT !.new = None, !.prefill = None, !.message = IF m = None THEN @ ELSE m])
  /\ Still

OpenExport == Body(url) = "messages" /\ Push([url EXCEPT !.dialog = "export"]) /\ Still

\* A row is opened: over an open one it replaces the entry.
OpenMessage ==
  /\ Listed(url) # None /\ url.message = None
  /\ Push([url EXCEPT !.message = Listed(url)]) /\ Still
CloseMessage == url.message # None /\ Listed(url) # None /\ Push([url EXCEPT !.message = None]) /\ Still

\* Typing in a filter arms its timer; the timer writes it to the address.
writeQ == ListKey(url) # None /\ timer' = [of |-> ListKey(url), is |-> "q"]
          /\ UNCHANGED <<url, past, policy, asked, shut, stacked, pushes>>
writeExpr == Body(url) = "messages" /\ timer' = [of |-> ListKey(url), is |-> "expr"]
             /\ UNCHANGED <<url, past, policy, asked, shut, stacked, pushes>>
TimerFires ==
  /\ timer # None /\ timer' = None
  /\ url' = IF timer.is = "q" THEN [url EXCEPT !.q = timer.of] ELSE [url EXCEPT !.expr = timer.of]
  /\ UNCHANGED <<past, policy, asked, shut, stacked, pushes>>

----------------------------------------------------------------------------
(* SubscriptionPage.                                                       *)

\* Another tab of a subscription: what the last one showed goes.
onView(v) ==
  /\ url.subscription # None /\ v \in subscriptionViews(url.subscription)
  /\ Push([url EXCEPT !.view = IF v = "backlog" THEN None ELSE v, !.message = None,
                      !.only = None, !.q = None])
  /\ Still

\* The backlog's states, and the push feed's pause.
onState == Body(url) = "backlog" /\ Still
           /\ \E w \in {"acked", None} : Replace([url EXCEPT !.only = w, !.message = None])
onPaused == Body(url) = "push" /\ Still
            /\ \E w \in {"paused", None} : Replace([url EXCEPT !.only = w])

\* A dead letter is published again to its source, from the composer there.
onPublishToSource ==
  /\ Body(url) = "dead-letters" /\ TopicOf[url.subscription] # None
  /\ Push([Scope(TopicOf[url.subscription], None) EXCEPT !.new = "message", !.prefill = DeadTopicOf[url.subscription]])
  /\ Still

\* Another client takes a subscription's dead-letter policy away.
PolicyGoes ==
  /\ \E s \in policy : policy' = policy \ {s}
  /\ UNCHANGED <<url, past, timer, asked, shut, stacked, pushes>>

\* The browser's Back.
Back == past # None /\ url' = past /\ past' = None /\ Mounted(past) /\ UNCHANGED <<policy, asked, shut, stacked, pushes>>

Next ==
  \/ openTarget \/ switchProject \/ SubscriptionSaysItsTopic
  \/ createTopic \/ createSubscription \/ compose \/ openSetup
  \/ \E d \in {"topic", "subscription", "setup", "export"} : Close(d)
  \/ Ask \/ (\E a \in asked : Answered(a) \/ Failed(a))
  \/ \E v \in TopicViews : TopicTab(v)
  \/ editAgain \/ CloseComposer \/ OpenExport \/ OpenMessage \/ CloseMessage
  \/ writeQ \/ writeExpr \/ TimerFires
  \/ \E v \in {"backlog", "push", "dead-letters", "settings"} : onView(v)
  \/ onState \/ onPaused \/ onPublishToSource \/ PolicyGoes \/ Back

Spec == Init /\ [][Next]_vars

----------------------------------------------------------------------------
Params == [topic : Topics \cup {None}, subscription : Subscriptions \cup {None},
           view : TopicViews \cup {"push", "dead-letters", None}, message : Topics \cup {None},
           q : {None} \cup ({"messages", "dead-letters"} \X Topics),
           expr : {None} \cup ({"messages"} \X Topics), only : {None, "acked", "paused"},
           prefill : Topics \cup {"id", None}, new : {None, "topic", "subscription", "message"},
           dialog : {None, "setup", "export"}]

\* The open message is one of the topic whose messages the body lists:
\* changing scope or tab never leaves another topic's message open.  (A
\* dead-letter policy removed elsewhere turns the tab under an open dead
\* letter into the backlog; that case is left out.)
OpenMessageIsListed ==
  (policy = {s \in Subscriptions : DeadTopicOf[s] # None}) /\ url.message # None
    => url.message = Listed(url)

\* A filter narrows only the list it was typed over: the timer of a list that
\* went away never writes its text over the next one, and a filter goes with
\* its scope.
FiltersStayWithTheirList ==
  (policy = {s \in Subscriptions : DeadTopicOf[s] # None}) =>
  /\ url.q # None => url.q[2] \in {url.topic, IF url.subscription = None THEN None ELSE DeadTopicOf[url.subscription]}
                     /\ (ListKey(url) # None => url.q = ListKey(url))
  /\ url.expr # None => url.expr[2] = url.topic

\* A subscription in the address and its topic agree, whichever handler,
\* effect, late answer or Back wrote them.
ScopeAgrees == url.subscription # None /\ url.topic # None => url.topic = TopicOf[url.subscription]

\* What fills the composer is a message: of its own topic, or of a dead-letter
\* topic whose subscription has it as source; an id fills only New topic.
PrefillFits ==
  url.prefill # None =>
    /\ url.new = "topic" => url.prefill = "id"
    /\ url.new = "message" =>
         \/ url.prefill = url.topic
         \/ \E s \in Subscriptions : TopicOf[s] = url.topic /\ DeadTopicOf[s] = url.prefill

\* Back never shows a dialog that was dismissed: dismissing replaces the
\* entry that opened it.  (A palette command run over an open dialog pushes a
\* second entry that shows it.)
BackReopensNothing == ~stacked /\ past # None => Dialogs(past) \cap shut = {}
=============================================================================
