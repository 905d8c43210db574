---------------------------- MODULE MCEventQueue ----------------------------
(* Instances of EventQueue.                                                  *)
EXTENDS EventQueue, TLC
=============================================================================
