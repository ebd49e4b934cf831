------------------------------- MODULE MCResults -------------------------------
(***************************************************************************)
(* Results of a few nodes, with a buffer that fills before the timeout.    *)
(***************************************************************************)
EXTENDS Results
===============================================================================
