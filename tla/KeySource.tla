------------------------------ MODULE KeySource ------------------------------
(***************************************************************************)
(* What the TailnetReconciler promises to those who copy from the Secret   *)
(* of an auth key: it stores no key twice, and never a key that was passed *)
(* over for a newer one (Tailnet).  The webhook, which copies the Secret   *)
(* into the namespaces of the pods, keeps to that only while the Secret is *)
(* there; where copy and Secret are one object, a request that finds it    *)
(* removed may bring back an older key (Admission).                        *)
(***************************************************************************)
CONSTANTS Keys, NoKey

VARIABLES secret,   \* the key in the Secret, or NoKey
          fresh     \* the keys it may still receive

vars == <<secret, fresh>>

Init == secret = NoKey /\ fresh = Keys

Store(k) == k \in fresh /\ secret' = k /\ fresh' = fresh \ {k}

Remove == secret' = NoKey /\ UNCHANGED fresh

\* A key that was made, and lost before it was stored.
Waste(k) == k \in fresh /\ fresh' = fresh \ {k} /\ UNCHANGED secret

Next == Remove \/ \E k \in fresh : Store(k) \/ Waste(k)

Spec == Init /\ [][Next]_vars
=============================================================================
