------------------------------ MODULE MCServer ------------------------------
(* Server with three clients; its constants are given in the cfg files.    *)
EXTENDS Server
=============================================================================
