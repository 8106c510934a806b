----------------------------- MODULE CrawlLedger -----------------------------
(***************************************************************************)
(* What the saved frontier of a crawl promises, whatever the scheduler,    *)
(* the workers and crashes do: a set of known URLs, some of them pending.  *)
(* A known URL stops being pending only when it is settled, a settled URL  *)
(* is never pending again, and the books are closed only when nothing is   *)
(* pending.  CrawlScheduler is shown to implement this specification.      *)
(***************************************************************************)
CONSTANT Urls

VARIABLES
  pending,   \* URLs a resumed crawl has to fetch
  known      \* every URL the crawl has admitted so far

vars == <<pending, known>>

Settled == known \ pending

Init ==
  /\ pending = {}
  /\ known = {}

(* The first checkpoint of a new crawl. *)
Seed(S) ==
  /\ known = {}
  /\ pending' = S
  /\ known' = S

(* One pending URL is finished; what its page led to becomes pending with  *)
(* it, in one step.                                                        *)
Settle(u, new) ==
  /\ u \in pending
  /\ new \cap known = {}
  /\ pending' = (pending \ {u}) \cup new
  /\ known' = known \cup new

(* A stop in the middle of a page keeps what was found; the page itself    *)
(* stays pending.                                                          *)
Grow(new) ==
  /\ pending # {}
  /\ new \cap known = {}
  /\ pending' = pending \cup new
  /\ known' = known \cup new

(* A resume under a narrower scope forgets pending URLs outside it.        *)
Narrow(drop) ==
  /\ drop \subseteq pending
  /\ pending' = pending \ drop
  /\ known' = known \ drop

Close ==
  /\ pending = {}
  /\ known' = {}
  /\ UNCHANGED pending

Next ==
  \/ \E S \in SUBSET Urls : Seed(S)
  \/ \E u \in pending, new \in SUBSET Urls : Settle(u, new)
  \/ \E new \in SUBSET Urls : Grow(new)
  \/ \E drop \in SUBSET pending : Narrow(drop)
  \/ Close

Spec == Init /\ [][Next]_vars
=============================================================================
