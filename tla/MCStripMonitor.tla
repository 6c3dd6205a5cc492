---------------------------- MODULE MCStripMonitor ----------------------------
(* A small instance of StripMonitor for TLC: two outlets, each on its own strip. *)
EXTENDS StripMonitor, TLC

CONSTANTS o9, o18, s2, s3
StripOfOutlet == o9 :> s2 @@ o18 :> s3
=============================================================================
