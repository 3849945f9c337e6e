--------------------------- MODULE MCHostBoundary ---------------------------
(* HostBoundary for TLC: one client with a media thread, one with a control thread. *)
EXTENDS HostBoundary, TLC
CONSTANTS a, b
MCKinds == (a :> {"video"}) @@ (b :> {"control"})
=============================================================================
