---------------------------- MODULE MCCaptureHash ----------------------------
(* CaptureHash for TLC. *)
EXTENDS CaptureHash, TLC

MCStreamOf == [s \in Stations |-> 1]

==============================================================================
