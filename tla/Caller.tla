------------------------------- MODULE Caller -------------------------------
(* The context a caller passes down: it may end at any moment (a deadline  *)
(* or a cancellation) and never comes back.                                *)
VARIABLE ctx

ContextInit == ctx = "live"

ContextTypeOK == ctx \in {"live", "over"}

ContextOver == ctx = "over"

ContextEnds == ctx = "live" /\ ctx' = "over"
=============================================================================
