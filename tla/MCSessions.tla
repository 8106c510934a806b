----------------------------- MODULE MCSessions -----------------------------
(* A library of two crawls. *)
EXTENDS Sessions

CONSTANTS c1, c2

TwoCrawls == {c1, c2}
=============================================================================
