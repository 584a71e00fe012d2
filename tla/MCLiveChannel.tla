--------------------------- MODULE MCLiveChannel ---------------------------
EXTENDS LiveChannel, TLC

CONSTANTS t1, t2, s1, s2

MCTabOf == s1 :> t1 @@ s2 :> t2

\* Each fault for the topics whose way to resume it puts to the test.
MCMaxOf ==
  LET of == [replay  |-> {"drop", "close"},
             compare |-> {"drop", "restart", "close", "refuse", "leave"},
             token   |-> {"drop", "restart", "lose", "end"},
             silent  |-> {"hide", "close", "refuse"}]
  IN  [k \in Kinds |-> [f \in Faults |-> IF f \in of[k] THEN 1 ELSE 0]]

\* A feed needs a third entry to lose one from its ring.
MCMaxVersion == [k \in Kinds |-> IF k = "replay" THEN 3 ELSE 2]

\* A feed's subscriptions share nothing in the engine: one page is enough to
\* follow one across a dropped stream, and two entries two pages across a
\* change of leader.
DroppedFeedAlone ==
  kind = "replay" /\ Cardinality(used) > 1 => spent["drop"] = 0 /\ version <= 2

\* The two tabs, each with its page, are interchangeable.
Symmetry == {[x \in {t1, t2, s1, s2} |-> x],
             t1 :> t2 @@ t2 :> t1 @@ s1 :> s2 @@ s2 :> s1}
=============================================================================
