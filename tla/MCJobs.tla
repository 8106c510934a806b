------------------------------- MODULE MCJobs -------------------------------
(* Two measurements, of which one early cancellation is remembered, each of *)
(* one row or two; or one measurement and a report or a comparison, beside  *)
(* the crawl, the merges and Quit; or the explanations of a report of two   *)
(* findings, beside Quit or the death of the process.                       *)
EXTENDS ReportAi

TwoFindings == <<"f", "g">>
Sizes == [f |-> 1, g |-> 2, overview |-> 1]
TightAndWide == {[requests |-> 1, chars |-> 2], [requests |-> 3, chars |-> 5]}

Kinds ==
  {{"m1", "m2", "rows", "quit"}, {"crawl", "m1", "report", "quit"},
   {"crawl", "m1", "comparison", "quit"},
   {"ai", "quit"}, {"ai", "crash"}}
=============================================================================
