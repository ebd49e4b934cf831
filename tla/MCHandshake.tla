----------------------------- MODULE MCHandshake ------------------------------
(***************************************************************************)
(* Handshake with two goroutines and peers that offer a version we speak   *)
(* by negotiateEthProtocol and one we only list in our hello.              *)
(***************************************************************************)
EXTENDS Handshake
===============================================================================
