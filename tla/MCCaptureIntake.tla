---------------------------- MODULE MCCaptureIntake ---------------------------
(***************************************************************************)
(* Small instances of CaptureIntake: two events, one of which is also sent  *)
(* in a form that validate() refuses.                                       *)
(***************************************************************************)
EXTENDS CaptureIntake

MCEvents == {"soar", "soc"}

MCPayloads == [event : MCEvents, valid : {TRUE}] \cup {[event |-> "soar", valid |-> FALSE]}
===============================================================================
