---------------------------- MODULE MCCursorRows ----------------------------
(* A list of up to five rows read one row to a page in a window of two       *)
(* pages: pages are dropped at either end, gain rows and lose them.          *)
EXTENDS CursorRows
=============================================================================
