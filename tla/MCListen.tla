------------------------------ MODULE MCListen ------------------------------
(***************************************************************************)
(* A stream with a limited query and a document target over the same keys.    *)
(***************************************************************************)
EXTENDS Listen

MCSpecOf ==
    <<[kind |-> "Query", keys |-> Keys, limit |-> "First", size |-> 1, offset |-> 0],
      [kind |-> "Documents", keys |-> {Max(Keys)}, limit |-> "None", size |-> 0, offset |-> 0]>>
MCShapes == {[match |-> TRUE, order |-> 1]}
=============================================================================
