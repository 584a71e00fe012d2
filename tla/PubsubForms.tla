---------------------------- MODULE PubsubForms ----------------------------
(***************************************************************************)
(* Pub/Sub's forms: the subscription's and the topic's settings, which     *)
(* send a mask of the fields that differ from what the page last read, and *)
(* the two create dialogs.  What is typed is a number, Blank or Word; what *)
(* the engine stores is checked and completed by the broker.               *)
(*                                                                         *)
(* Abstracted: labels, the filter's text (its check is a Boolean), the     *)
(* endpoint's characters (a valid URL or not), fractions of a second.      *)
(***************************************************************************)
EXTENDS Integers, Sequences, FiniteSets

CONSTANTS Typed,          \* what may be typed in a number field
          Seconds,        \* retentions a client of the engine may store
          Lengths,        \* lengths of an id
          MaxEdits,       \* bound: edits of the form
          MaxMoves        \* bound: changes made elsewhere

\* An empty field, and a text that is not a number.
Blank == -2
Word == -1

\* JavaScript's Number(): an empty text is 0.
Number(t) == IF t = Blank THEN 0 ELSE t

Off == -3           \* a number that is not set

----------------------------------------------------------------------------
(* retention-field.tsx, and the bounds of subscription-settings.tsx.       *)

UnitSeconds == [minutes |-> 60, hours |-> 3600, days |-> 86400]
RetentionMin == 600
RetentionMax == 7 * 86400

splitDuration(s) ==
  CASE s % 86400 = 0 -> [amount |-> s \div 86400, unit |-> "days"]
    [] s % 86400 # 0 /\ s % 3600 = 0 -> [amount |-> s \div 3600, unit |-> "hours"]
    [] OTHER -> [amount |-> (s + 30) \div 60, unit |-> "minutes"]

\* The seconds typed; 0 stands for undefined (not a positive number).
durationSeconds(amount, unit) ==
  IF Number(amount) <= 0 THEN 0 ELSE Number(amount) * UnitSeconds[unit]

retentionProblem(s) == s < RetentionMin \/ s > RetentionMax
ackDeadlineProblem(t) == Number(t) < 10 \/ Number(t) > 600
\* Mutant: the broker's lower bound is forgotten.
maxDeliveriesProblem_(t) == Number(t) < 1 \/ Number(t) > 100
maxDeliveriesProblem(t) == Number(t) < 5 \/ Number(t) > 100
backoffProblem(low, high) ==
  \/ Word \in {low, high}
  \/ Number(low) > 600 \/ Number(high) > 600
  \/ Number(high) < Number(low)

\* names.ts: the first thing wrong with an id, given its length, its first
\* characters and whether it holds a character no id may hold.
Ids == [len : Lengths, start : {"letter", "digit", "goog"}, bad : BOOLEAN]
idProblem(id) == id.bad \/ id.start = "digit" \/ id.len < 3 \/ id.len > 255 \/ id.start = "goog"

----------------------------------------------------------------------------
(* The engine: names.rs, broker.rs and the console's handlers.             *)

valid_id(id) == id.len \in 3 .. 255 /\ id.start # "digit" /\ id.start # "goog" /\ ~id.bad

\* Defaults and bounds of a subscription about to be stored.
Completed(c) == [c EXCEPT !.ack = IF @ = 0 THEN 10 ELSE @,
                          !.retention = IF @ = Off THEN RetentionMax ELSE @]

validated_subscription(c, deadTopicExists) ==
  LET d == Completed(c) IN
  /\ d.ack \in 0 .. 600
  /\ d.retention \in RetentionMin .. RetentionMax
  /\ d.dead # Off => deadTopicExists /\ d.dead \in 5 .. 100
  /\ d.retry # <<>> => d.retry[1] <= d.retry[2]

\* The console's handler refuses a backoff outside its bounds first.
retry_policy(r) == r # <<>> => r[1] \in 0 .. 600 /\ r[2] \in 0 .. 600

\* Mutant: the retention is left as it was.
update_subscription_(c, mask, body) ==
  Completed([f \in DOMAIN c |-> IF f \in mask \ {"retention"} THEN body[f] ELSE c[f]])

\* The named fields of the body replace the stored ones.
update_subscription(c, mask, body) == Completed([f \in DOMAIN c |-> IF f \in mask THEN body[f] ELSE c[f]])

----------------------------------------------------------------------------
(* The settings form of a subscription.                                    *)

Fields == {"ack", "push", "retain", "retention", "dead", "retry", "once"}

\* Mutant: an unset policy fills the form with values of its own.
FormOf_(c) ==
  [ack |-> c.ack, push |-> c.push, endpoint |-> c.push, retain |-> c.retain,
   amount |-> splitDuration(c.retention).amount, unit |-> splitDuration(c.retention).unit,
   dead |-> TRUE, deadTopic |-> TRUE, max |-> IF c.dead = Off THEN 5 ELSE c.dead,
   backoff |-> c.retry # <<>>, low |-> IF c.retry = <<>> THEN 10 ELSE c.retry[1],
   high |-> IF c.retry = <<>> THEN 600 ELSE c.retry[2], once |-> c.once]

\* What each field of the form starts from.
FormOf(c) ==
  [ack |-> c.ack, push |-> c.push, endpoint |-> c.push,
   retain |-> c.retain,
   amount |-> splitDuration(c.retention).amount, unit |-> splitDuration(c.retention).unit,
   dead |-> c.dead # Off, deadTopic |-> c.dead # Off, max |-> IF c.dead = Off THEN 5 ELSE c.dead,
   backoff |-> c.retry # <<>>, low |-> IF c.retry = <<>> THEN 10 ELSE c.retry[1],
   high |-> IF c.retry = <<>> THEN 600 ELSE c.retry[2], once |-> c.once]

Problems(f) ==
  \/ ackDeadlineProblem(f.ack)
  \/ f.push /\ ~f.endpoint
  \/ retentionProblem(durationSeconds(f.amount, f.unit))
  \/ f.dead /\ (~f.deadTopic \/ maxDeliveriesProblem(f.max))
  \/ f.backoff /\ backoffProblem(f.low, f.high)

\* What the form asks for, field by field, as the body writes it.
Asked(f) ==
  [ack |-> Number(f.ack), push |-> f.push, retain |-> f.retain,
   retention |-> durationSeconds(f.amount, f.unit),
   dead |-> IF f.dead THEN Number(f.max) ELSE Off,
   retry |-> IF f.backoff THEN <<Number(f.low), Number(f.high)>> ELSE <<>>, once |-> f.once]

\* The fields that differ from what the page last read.
Mask(f, c) == {x \in Fields : Asked(f)[x] # c[x]}

----------------------------------------------------------------------------
(* The create forms.                                                       *)

\* create-topic-dialog.tsx: the id, its default subscription, the retention.
TopicForms == [id : Ids, withSubscription : BOOLEAN, keep : BOOLEAN, amount : Typed]

\* The id of the default subscription: `<id>-sub`.
SubscriptionId(id) == [id EXCEPT !.len = @ + 4]


CreateTopicValid(f) ==
  /\ ~idProblem(f.id)
  /\ f.keep => ~retentionProblem(durationSeconds(f.amount, "days"))
  /\ f.withSubscription => ~idProblem(SubscriptionId(f.id))

\* The broker's create_topic, then create_subscription for the default one.
create_topic(f) ==
  /\ valid_id(f.id)
  /\ f.keep => durationSeconds(f.amount, "days") \in RetentionMin .. RetentionMax
  /\ f.withSubscription => valid_id(SubscriptionId(f.id))

----------------------------------------------------------------------------
(* The life of a subscription's settings page.                             *)

VARIABLES stored,         \* the subscription in the engine
          deadTopics,     \* its dead-letter topic exists
          seen,           \* the subscription as the page last read it
          form,           \* the form's fields
          edited,         \* the fields the user changed in it
          moved,          \* the fields that changed elsewhere since it was mounted
          saving,         \* the request on its way: <<>> or <<mask, body>>
          saved,          \* nothing was edited or moved since the last save
          refused,        \* the latest save was refused
          edits, moves    \* counters

vars == <<stored, deadTopics, seen, form, edited, moved, saving, saved, refused, edits, moves>>

\* What a client may have stored: anything the broker takes.
Stored(ack, retention, dead, retry) ==
  [ack |-> ack, push |-> FALSE, retain |-> FALSE, retention |-> retention,
   dead |-> dead, retry |-> retry, once |-> FALSE]

Stores == {c \in {Stored(a, s, d, r) : a \in {20}, s \in Seconds, d \in {Off, 5}, r \in {<<>>, <<10, 20>>}} :
             validated_subscription(c, TRUE)}

Init ==
  /\ stored \in Stores /\ seen = stored /\ form = FormOf(stored)
  /\ deadTopics = TRUE /\ edited = {} /\ moved = {} /\ saving = <<>>
  /\ saved = FALSE /\ refused = FALSE /\ edits = 0 /\ moves = 0

\* A field of the form changes under the user's hand.
Edit(x, f) ==
  /\ edits < MaxEdits /\ edits' = edits + 1
  /\ f # form /\ form' = f
  /\ edited' = edited \cup {x} /\ saved' = FALSE
  /\ UNCHANGED <<stored, deadTopics, seen, moved, saving, refused, moves>>

EditSettings ==
  \/ \E t \in Typed : Edit("ack", [form EXCEPT !.ack = t])
  \/ \E b \in BOOLEAN : Edit("push", [form EXCEPT !.push = b])
  \/ form.push /\ \E b \in BOOLEAN : Edit("push", [form EXCEPT !.endpoint = b])
  \/ \E b \in BOOLEAN : Edit("retain", [form EXCEPT !.retain = b])
  \/ \E t \in Typed, u \in DOMAIN UnitSeconds : Edit("retention", [form EXCEPT !.amount = t, !.unit = u])
  \/ \E b \in BOOLEAN : Edit("dead", [form EXCEPT !.dead = b])
  \/ form.dead /\ Edit("dead", [form EXCEPT !.deadTopic = TRUE])
  \/ form.dead /\ \E t \in Typed : Edit("dead", [form EXCEPT !.max = t])
  \/ \E b \in BOOLEAN : Edit("retry", [form EXCEPT !.backoff = b])
  \/ form.backoff /\ \E t \in Typed : Edit("retry", [form EXCEPT !.low = t]) \/ Edit("retry", [form EXCEPT !.high = t])
  \/ \E b \in BOOLEAN : Edit("once", [form EXCEPT !.once = b])

\* Save sends the masked fields; its button is off while one is pending.
Save ==
  /\ saving = <<>>
  /\ Mask(form, seen) # {} /\ ~Problems(form)
  /\ saving' = <<Mask(form, seen), Asked(form)>>
  /\ refused' = FALSE
  /\ UNCHANGED <<stored, deadTopics, seen, form, edited, moved, saved, edits, moves>>

\* The engine answers; success reads the subscription again.
Answer ==
  /\ saving # <<>> /\ saving' = <<>>
  /\ LET c == update_subscription(stored, saving[1], saving[2])
         ok == retry_policy(saving[2].retry) /\ validated_subscription(c, deadTopics)
     IN /\ stored' = IF ok THEN c ELSE stored
        /\ seen' = IF ok THEN c ELSE seen
        /\ refused' = ~ok
        /\ saved' = (ok /\ Asked(form) = saving[2])
        /\ edited' = IF ok /\ Asked(form) = saving[2] THEN {} ELSE edited
  /\ UNCHANGED <<deadTopics, form, moved, edits, moves>>

\* Another client changes the subscription; the live topic has it read again.
Elsewhere ==
  /\ moves < MaxMoves /\ moves' = moves + 1
  /\ \E x \in {"ack", "push", "retry"} :
       LET c == [stored EXCEPT ![x] = CASE x = "ack" -> 30 [] x = "push" -> ~@ [] OTHER -> <<5, 600>>]
       IN stored' = c /\ moved' = moved \cup {x}
  /\ saved' = FALSE
  /\ UNCHANGED <<deadTopics, seen, form, edited, saving, refused, edits>>

Reread == seen # stored /\ seen' = stored
          /\ UNCHANGED <<stored, deadTopics, form, edited, moved, saving, saved, refused, edits, moves>>

\* The dead-letter topic is deleted.
DeadTopicGone ==
  /\ deadTopics /\ moves < MaxMoves /\ moves' = moves + 1 /\ deadTopics' = FALSE
  /\ UNCHANGED <<stored, seen, form, edited, moved, saving, saved, refused, edits>>

Next == EditSettings \/ Save \/ Answer \/ Elsewhere \/ Reread \/ DeadTopicGone

Spec == Init /\ [][Next]_vars

----------------------------------------------------------------------------
\* Save with a mask leaves the form and the engine in agreement: once a save
\* succeeded and nothing was edited since, only what others changed differs
\* from the form (what the engine completed or normalised reads back as
\* what the form asked for).
SavedMeansNothingLeft == saved /\ seen = stored => Mask(form, seen) \subseteq moved

\* The console's checks are at least the engine's: a save its form allowed
\* is refused only when the dead-letter topic it names is gone.
AllowedIsTaken == refused => ~deadTopics

\* A topic the create dialog's form allows, its default subscription with it,
\* is one the broker creates: neither half is refused for its name or bounds.
CreatedWhole == edits + moves = 0 => \A f \in TopicForms : CreateTopicValid(f) => create_topic(f)

\* The mask names what the user edited, what changed elsewhere since the
\* page was opened, and a retention that is not whole minutes: a field
\* nobody touched is never written back.
MaskIsWhatDiffers ==
  Mask(form, seen) \subseteq
    edited \cup moved \cup {x \in {"retention"} : seen.retention % 60 # 0}

=============================================================================
