---------------------------- MODULE MCLoaderNetwork ----------------------------
(* LoaderNetwork for TLC: the cfg files give one or two interfaces and addresses *)
(* and bound the changes of the interface table.                                 *)
EXTENDS LoaderNetwork
================================================================================
