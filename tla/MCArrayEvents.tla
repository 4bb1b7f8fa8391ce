---------------------------- MODULE MCArrayEvents ----------------------------
(* Which commands Array.events leaves out.                                 *)
EXTENDS Arrays
=============================================================================
