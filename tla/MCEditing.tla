----------------------------- MODULE MCEditing -----------------------------
(***************************************************************************)
(* The console's editors and forms, one at a time: the first state chooses *)
(* the one whose behaviour is followed.  Its variables stand in v1, v2,    *)
(* ... in the order its module declares them, and the rest stay Unused.    *)
(***************************************************************************)
EXTENDS Integers, TLC

CONSTANTS Nil, Unused, t1, t2, s1

VARIABLES part, v1, v2, v3, v4, v5, v6, v7, v8, v9, v10, v11, v12, v13, v14, v15, v16

vars == <<part, v1, v2, v3, v4, v5, v6, v7, v8, v9, v10, v11, v12, v13, v14, v15, v16>>

\* The variables that a part of so many leaves alone, and that they are Unused.
Above8 == <<v9, v10, v11, v12, v13, v14, v15, v16>>
Above11 == <<v12, v13, v14, v15, v16>>
Above12 == <<v13, v14, v15, v16>>
Unused12 == v13 = Unused /\ v14 = Unused /\ v15 = Unused /\ v16 = Unused
Unused11 == v12 = Unused /\ Unused12
Unused8 == v9 = Unused /\ v10 = Unused /\ v11 = Unused /\ Unused11

User == INSTANCE AuthUser WITH
    None <- Nil, Kinds <- {"text", "email", "flag", "time", "claims"}, Factors <- {"x", "y"},
    MaxEdits <- 2, MaxSends <- 2, MaxElsewhere <- 1, kind <- v1, engine <- v2, shown <- v3,
    draft <- v4, reading <- v5, named <- v6, asked <- v7, refused <- v8, crossed <- v9,
    edits <- v10, sends <- v11, elsewhere <- v12
Create == INSTANCE AuthCreate WITH
    None <- Nil, Files <- {"f1", "f2"}, IsExport <- {"f1"}, MaxEdits <- 2, MaxSends <- 2,
    MaxOpens <- 2, dialog <- v1, kind <- v2, form <- v3, error <- v4, asked <- v5, made <- v6,
    file <- v7, recognition <- v8, uploaded <- v9, mode <- v10, reviewed <- v11, job <- v12,
    kept <- v13, edits <- v14, sends <- v15, opens <- v16
Rules == INSTANCE RulesDraft WITH
    Scopes <- {"a", "b"}, Versions <- {0, 1, 2}, Broken <- {2}, MaxActs <- 4, MaxPuts <- 1,
    force <- v1, cache <- v2, open <- v3, stored <- v4, kept <- v5, rejected <- v6,
    settled <- v7, puts <- v8, acts <- v9, made <- v10, lost <- v11
Forms == INSTANCE PubsubForms WITH
    Typed <- {-2, -1, 4, 10, 601}, Seconds <- {600, 630, 7200},
    Lengths <- {2, 3, 251, 252, 255, 256}, MaxEdits <- 2, MaxMoves <- 1, stored <- v1,
    deadTopics <- v2, seen <- v3, form <- v4, edited <- v5, moved <- v6, saving <- v7,
    saved <- v8, refused <- v9, edits <- v10, moves <- v11
Pages == INSTANCE PubsubPages WITH
    None <- Nil, Topics <- {t1, t2}, Subscriptions <- {s1}, TopicOf <- s1 :> t1,
    DeadTopicOf <- s1 :> t2, MaxPushes <- 3, url <- v1, past <- v2, timer <- v3, policy <- v4,
    asked <- v5, shut <- v6, stacked <- v7, pushes <- v8

Init ==
  \/ part = "user" /\ User!Init /\ Unused12
  \/ part = "create" /\ Create!Init
  \/ part = "rules" /\ Rules!Init /\ Unused11
  \/ part = "forms" /\ Forms!Init /\ Unused11
  \/ part = "pages" /\ Pages!Init /\ Unused8

Next ==
  \/ part = "user" /\ User!Next /\ UNCHANGED <<part, Above12>>
  \/ part = "create" /\ Create!Next /\ UNCHANGED part
  \/ part = "rules" /\ Rules!Next /\ UNCHANGED <<part, Above11>>
  \/ part = "forms" /\ Forms!Next /\ UNCHANGED <<part, Above11>>
  \/ part = "pages" /\ Pages!Next /\ UNCHANGED <<part, Above8>>

Spec == Init /\ [][Next]_vars

----------------------------------------------------------------------------
\* What is sent to the engine is what the form showed when it was sent: an
\* account's edits over the values seen, a new account whole, an import as it
\* was previewed; and once nothing is in flight the inspector shows the account
\* (SavesOverWhatWasSeen, SettledShowsAccount, CreatedAsShown, ImportIsPreviewed).
AccountsAreAsShown ==
  /\ part = "user" => User!SavesOverWhatWasSeen /\ User!SettledShowsAccount
  /\ part = "create" => Create!CreatedAsShown /\ Create!ImportIsPreviewed
=============================================================================
