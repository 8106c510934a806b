-------------------------- MODULE MCRequestPolicy --------------------------
(* Three workers that share one origin, whose robots.txt asks for twice    *)
(* the configured delay; or two workers on two origins where the           *)
(* robots.txt of p redirects to q.                                         *)
EXTENDS RequestPolicy, TLC

CONSTANTS w1, w2, w3, p, q

TwoWorkers == {w1, w2}
ThreeWorkers == {w1, w2, w3}
OneOrigin == {p}
TwoOrigins == {p, q}
Redirected == (p :> <<p, q>>) @@ (q :> <<q>>)
NoPath == p :> <<>>
SlowOrigin == p :> 2
\* Three workers that differ in nothing.
Symmetric == Permutations(ThreeWorkers)
Quick == [o \in TwoOrigins |-> 0]
=============================================================================
