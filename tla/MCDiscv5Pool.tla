----------------------------- MODULE MCDiscv5Pool -----------------------------
(***************************************************************************)
(* Discv5Pool with two borrowers, two goroutines that close the pool, as   *)
(* Boot and daemon both do, and one socket more than the pool has room     *)
(* for, so that a Get finds the channel empty and a put finds it full.     *)
(***************************************************************************)
EXTENDS Discv5Pool
===============================================================================
