-------------------------------- MODULE MCZeus --------------------------------
(***************************************************************************)
(* Zeus with identifiers of two bytes of two bits, so that a split falls   *)
(* within the first byte, within the second and between the two.           *)
(***************************************************************************)
EXTENDS Zeus

\* The identifier a number stands for, and those of the instance.
Number(k) == [i \in Index |-> (k \div 2^(Bits - 1 - i)) % 2]
MCDest  == Number(6)
MCTable == {Number(k) : k \in {0, 3, 5, 9, 14}}
===============================================================================
