------------------------------- MODULE Rotation -------------------------------
(***************************************************************************)
(* The recorded auth key of a Tailnet against the clock.                   *)
(*                                                                         *)
(* A key lives for Life; a pass replaces one that has no more than         *)
(* Threshold left and asks for the next pass after Requeue.  Nothing ties  *)
(* these three to each other: the timer alone looks at the key after       *)
(* 67.5 and after 135 days of its 90.  What does is the informer's resync, *)
(* which the code never mentions.                                          *)
(*                                                                         *)
(* Tailnet has the calls of a pass and everything but the time.  Here a    *)
(* pass is one step, and all that keeps it from being done (the manager is *)
(* down, Tailscale away, writes refused) is a delay, of MaxDelay in all    *)
(* from the moment the pass is due.                                        *)
(***************************************************************************)
EXTENDS Integers

CONSTANTS
    Life,       \* of a new key
    Threshold,  \* a key with no more than that left is replaced
    Requeue,    \* from a pass to the one that it asks for
    Resync,     \* the informer's period
    MaxDelay    \* bound: of a pass that is due

ASSUME TimesAssumption ==
    /\ Life \in Nat /\ Threshold \in Nat /\ Threshold < Life
    /\ Requeue \in Nat /\ Requeue > 0
    /\ Resync \in Nat /\ Resync > 0
    /\ MaxDelay \in Nat

\* What the operator of the cluster has to see to.
ASSUME DelayAssumption == Resync + MaxDelay <= Threshold

VARIABLES
    left,       \* the time that the recorded key has left
    timer,      \* the time to the pass that was asked for; 0 if there is none
    resync,     \* the time to the next resync
    due, late   \* is a pass due, and for how long?

vars == <<left, timer, resync, due, late>>

TypeOK ==
    /\ left \in 0 .. Life
    /\ timer \in 0 .. Requeue
    /\ resync \in 1 .. Resync
    /\ due \in BOOLEAN
    /\ late \in 0 .. MaxDelay

Init ==
    /\ left = Life /\ timer = Requeue /\ resync = Resync
    /\ due = FALSE /\ late = 0

-----------------------------------------------------------------------------
\* ensureAuthKey: what the recorded key has left after the pass.
Renewed == IF left > Threshold THEN left ELSE Life

\* The queue keeps the earlier of the pass that it waits for and the new one.
Requeued == IF timer = 0 THEN Requeue ELSE timer

\* A Ready pass.  If Tailscale does not answer for the key, it makes another.
Pass ==
    /\ due /\ due' = FALSE /\ late' = 0
    /\ left' \in {Renewed, Life}
    /\ timer' = Requeued
    /\ UNCHANGED resync

\* An event of the Tailnet.
Event ==
    /\ ~due /\ due' = TRUE
    /\ UNCHANGED <<left, timer, resync, late>>

\* The manager stops.  Its timers are gone, and its first informer lists
\* every Tailnet when it is back.
Crash ==
    /\ due' = TRUE /\ timer' = 0 /\ resync' = Resync
    /\ UNCHANGED <<left, late>>

Less(n) == IF n = 0 THEN 0 ELSE n - 1

\* Mutant of Rings: the informer does not resync.
RingsByTimer == timer = 1

\* The timer or the resync is about to queue the Tailnet.
Rings == timer = 1 \/ resync = 1

\* A unit of time.
Tick ==
    /\ due => late < MaxDelay
    /\ left' = Less(left)
    /\ timer' = Less(timer)
    /\ resync' = IF resync = 1 THEN Resync ELSE resync - 1
    /\ due' = (due \/ Rings)
    /\ late' = IF due THEN late + 1 ELSE 0

Next == Pass \/ Event \/ Crash \/ Tick

Spec == Init /\ [][Next]_vars

-----------------------------------------------------------------------------
\* The key in the status has not expired: the pods that are admitted with it
\* can register.  The pass does not see to it by itself, since the next one
\* may come after the end of a key that it left alone.
RecordedKeyLives == left > 0

\* Since the last pass, which left more than Threshold, time has taken what
\* the resync counted and then the delay.
EnoughBefore == left + (Resync - resync) > Threshold /\ late = 0

EnoughWhenDue == left + Resync + late > Threshold

LeftIsEnough == IF due THEN EnoughWhenDue ELSE EnoughBefore
=============================================================================
