----------------------------- MODULE MCGdbWrap -----------------------------
(* Instances of GdbWrap *)
EXTENDS GdbWrap
=============================================================================
