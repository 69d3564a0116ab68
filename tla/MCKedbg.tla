------------------------------ MODULE MCKedbg ------------------------------
(* Instances of Kedbg: every set of commands that a server may support *)
EXTENDS Kedbg

AllServers == SUBSET Cmds
============================================================================
