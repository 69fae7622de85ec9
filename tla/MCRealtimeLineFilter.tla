------------------------ MODULE MCRealtimeLineFilter ------------------------
(* TLC instance of RealtimeLineFilter: contexts on both sides of the clamp *)
(* at 0 and smaller and larger than the gap between two matches.           *)
EXTENDS RealtimeLineFilter

MCRequestedContexts == {-1, 0, 1, 2, 3, 21}
=============================================================================
