---------------------------- MODULE MCLocalRuntime ----------------------------
(* Instances of LocalRuntime for TLC.                                        *)
EXTENDS LocalRuntime
===============================================================================
