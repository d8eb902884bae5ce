------------------------------ MODULE MCTailnet ------------------------------
(* Instances of Tailnet for TLC. *)
EXTENDS Tailnet, TLC

\* Keys are handed out in no particular order.
KeySymmetry == Permutations(Keys)
=============================================================================
