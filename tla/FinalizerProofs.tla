--------------------------- MODULE FinalizerProofs ---------------------------
(***************************************************************************)
(* That the finalizer protocol keeps its promise.  The reconcilers, which  *)
(* are shown to implement the protocol, make the same promise of each of   *)
(* the resources that stand for `resource' there.                          *)
(***************************************************************************)
EXTENDS FinalizerProtocol, TLAPS

\* Every variable stays within its type, whatever the owner and its resource.
THEOREM TypeCorrect == Spec => []TypeOK
<1>1. Init => TypeOK
  BY DEF Init, TypeOK
<1>2. TypeOK /\ [Next]_vars => TypeOK'
  BY DEF TypeOK, Next, Create, Vanish, Hold, Acquire, Lose, Release, vars
<1> QED
  BY <1>1, <1>2, PTL DEF Spec

\* A resource is there only under the finalizer of its owner: the finalizer
\* is taken before it, and let go after it.
THEOREM Promise == Spec => []NoOrphan
<1>1. Init => NoOrphan
  BY DEF Init, NoOrphan
<1>2. NoOrphan /\ [Next]_vars => NoOrphan'
  BY DEF NoOrphan, Next, Create, Vanish, Hold, Acquire, Lose, Release, vars
<1> QED
  BY <1>1, <1>2, PTL DEF Spec
=============================================================================
