----------------------------- MODULE MCPodDevice -----------------------------
(* Instances of PodDevice for TLC. *)
EXTENDS PodDevice, TLC

CONSTANTS p1, p2

OwnHosts  == [p \in Pods |-> IF p = p1 THEN "web-0" ELSE "web-1"]
SameHosts == [p \in Pods |-> "web-0"]
=============================================================================
