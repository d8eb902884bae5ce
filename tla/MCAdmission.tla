----------------------------- MODULE MCAdmission -----------------------------
(* An instance of Admission: two pods of a namespace whose labels ask for  *)
(* the sidecar; one pod says so itself.  One of them wants a serve config. *)
EXTENDS Admission

CONSTANTS p1, p2

MCAsks ==
    (p1 :> [inject |-> "none", tailnet |-> FALSE, serve |-> FALSE, sidecar |-> FALSE])
 @@ (p2 :> [inject |-> "true", tailnet |-> TRUE, serve |-> TRUE, sidecar |-> FALSE])

MCLabels == [inject |-> "enabled", tailnet |-> TRUE]
=============================================================================
