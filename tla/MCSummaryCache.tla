--------------------------- MODULE MCSummaryCache ---------------------------
(* Two records over one shared key; what a row holds is one of three contents. *)
EXTENDS SummaryCache

MCContents ==
    {[flag |-> TRUE,  key |-> "k",  to |-> 1],
     [flag |-> TRUE,  key |-> Null, to |-> 2],
     [flag |-> FALSE, key |-> "k",  to |-> 1]}
=============================================================================
