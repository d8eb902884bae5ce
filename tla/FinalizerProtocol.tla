-------------------------- MODULE FinalizerProtocol --------------------------
(***************************************************************************)
(* What a finalizer is for.  An owner object holds on to something outside *)
(* itself; it takes its finalizer before it acquires that resource, and it *)
(* is let go only once the resource is gone.  The modules of the           *)
(* reconcilers are shown to implement this specification.                  *)
(***************************************************************************)
VARIABLES owner,      \* "absent", "unheld" (no finalizer) or "held"
          resource    \* does the resource exist?

vars == <<owner, resource>>

TypeOK == owner \in {"absent", "unheld", "held"} /\ resource \in BOOLEAN

Init == owner \in {"absent", "unheld"} /\ resource = FALSE

Create == owner = "absent" /\ owner' = "unheld" /\ UNCHANGED resource

\* Without a finalizer the owner disappears as soon as it is deleted.
Vanish == owner = "unheld" /\ owner' = "absent" /\ UNCHANGED resource

Hold == owner = "unheld" /\ owner' = "held" /\ UNCHANGED resource

Acquire == owner = "held" /\ resource' = TRUE /\ UNCHANGED owner

\* The owner gives the resource up, or somebody else destroys it.
Lose == resource /\ resource' = FALSE /\ UNCHANGED owner

Release == owner = "held" /\ ~resource /\ owner' = "absent" /\ UNCHANGED resource

Next == Create \/ Vanish \/ Hold \/ Acquire \/ Lose \/ Release

Spec == Init /\ [][Next]_vars

\* The promise: the resource exists only under a finalizer.
NoOrphan == resource => owner = "held"
=============================================================================
