---------------------------- MODULE MCLoaderProcess ----------------------------
(* LoaderProcess for TLC: one call of each kind on Linux, where the signals are  *)
(* the matter, and on Windows two updates, or one beside another call.           *)
EXTENDS LoaderProcess

MCCallers ==
    [linux |-> {"c1"} \X {"UpdateLoader", "FormatDisks", "PowerCtl"},
     windows |-> ({"c1", "c2"} \X {"UpdateLoader"}) \cup ({"c2"} \X {"FormatDisks", "PowerCtl"})]
================================================================================
