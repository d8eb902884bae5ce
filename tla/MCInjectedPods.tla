---------------------------- MODULE MCInjectedPods ----------------------------
(* An instance of InjectedPods for TLC. *)
EXTENDS InjectedPods
=============================================================================
