------------------------ MODULE MCConversionRecovery ------------------------
(* Instances of ConversionRecovery for TLC.                                *)
EXTENDS ConversionRecovery

(* Two interrupted tasks.  Every mode is applicable to some scene, to two  *)
(* of them more than one; the last one leaves a task without any blocker.  *)
TwoTaskScenes ==
    {[built |-> "failed", kept |-> "passed", armed |-> TRUE, journal |-> "prepared"],
     [built |-> "failed", kept |-> "failed", armed |-> FALSE, journal |-> "prepared"],
     [built |-> "passed", kept |-> "none", armed |-> TRUE, journal |-> "none"],
     [built |-> "passed", kept |-> "passed", armed |-> FALSE, journal |-> "adopted"],
     [built |-> "passed", kept |-> "none", armed |-> FALSE, journal |-> "none"]}
=============================================================================
