---------------------------- MODULE SnapshotStore ----------------------------
(***************************************************************************)
(* What the core store promises its readers, whatever it keeps to do it: a *)
(* window of revisions, each answered with the documents it was published  *)
(* with for as long as it is answered at all, and a window inside it of    *)
(* the revisions a read time can name, whose times go up.  MvccStore is    *)
(* shown to implement it.                                                  *)
(***************************************************************************)
EXTENDS Naturals

CONSTANTS Contents,     \* the documents of a revision
          Empty         \* those of a new store

VARIABLES newest,       \* the newest revision
          answers,      \* what a reader of each revision of the window is answered
          stamps        \* when each revision a read time can name was committed

vars == <<newest, answers, stamps>>

Init ==
    /\ newest = 0
    /\ answers = [r \in {0} |-> Empty]
    /\ stamps = [r \in {0} |-> 0]

\* A window ends at the newest revision and may lose its oldest ones; what it
\* says of the others stays.
Slides(old, new) ==
    \E oldest \in 0..newest' :
        /\ DOMAIN new = oldest..newest'
        /\ \A r \in oldest..newest : r \in DOMAIN old /\ new[r] = old[r]

Windows ==
    /\ Slides(answers, answers')
    /\ Slides(stamps, stamps')
    /\ DOMAIN stamps' \subseteq DOMAIN answers'

\* One more revision is published, later than any before.
Publish ==
    /\ newest' = newest + 1
    /\ Windows
    /\ answers'[newest'] \in Contents
    /\ stamps'[newest'] > stamps[newest]

\* Old revisions are no longer answered.
Forget ==
    /\ newest' = newest
    /\ Windows

Next == Publish \/ Forget

Spec == Init /\ [][Next]_vars
=============================================================================
