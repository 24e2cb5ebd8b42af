-------------------------------- MODULE MCUpload --------------------------------
(* Upload for TLC: a careful client beside one that sends anything, on two files. *)
EXTENDS Upload
================================================================================
