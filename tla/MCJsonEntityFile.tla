--------------------------- MODULE MCJsonEntityFile ---------------------------
(* Instances of JsonEntityFile for TLC.                                        *)
EXTENDS JsonEntityFile
===============================================================================
