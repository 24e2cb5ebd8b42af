------------------------------ MODULE MCRecording ------------------------------
(* Recording for TLC: enough starts that one fails, one wedges or ends, and one  *)
(* follows it.                                                                   *)
EXTENDS Recording
================================================================================
