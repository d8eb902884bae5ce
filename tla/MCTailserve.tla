----------------------------- MODULE MCTailserve -----------------------------
(* Instances of Tailserve for TLC. *)
EXTENDS Tailserve, TLC

CONSTANTS t1, a, b, d, e, n1, n2

\* Specs a and b differ in their handlers, d names the service otherwise, and e
\* refers to another Tailnet.
MCName == [t \in Tailserves |-> [s \in Specs |->
              IF s = d THEN "long" ELSE "web"]]

MCRef == [s \in Specs |-> IF s = e THEN n2 ELSE n1]

\* The other Tailnet stands for another network, where there is one.
NewTailnets ==
    [n \in Tailnets |-> IF n = n1 THEN NewTailnet
                        ELSE [NewTailnet EXCEPT
                                 !.network = CHOOSE w \in Networks : w # AnyNetwork]]

Sound == {NewTailnets}
AnyState == {[NewTailnets EXCEPT ![n1].state = s] : s \in {t.state : t \in Tailnet}}
=============================================================================
