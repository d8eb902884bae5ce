--------------------------- MODULE PodDeviceProofs ---------------------------
(***************************************************************************)
(* Theorems about PodDevice, for any number of pods and disturbances.      *)
(*                                                                         *)
(* The argument: phases only move forward, so a copy that says "deleting"  *)
(* is about a pod that is deleting or gone, however old it is; annotations *)
(* come from the device list, so they name a device of the pod's own name; *)
(* and the rv of the update that removes the finalizer vouches that the    *)
(* annotation the pass cleaned up after is the pod's.                      *)
(***************************************************************************)
EXTENDS PodDevice, TLAPS

Leaving == {"deleting", "gone"}

\* Version v of pod p is annotated with a device that registered as p.
Named(v, p) ==
    v.device # NoDevice =>
        HostOf[v.device] = HostOf[p] /\ device[v.device].state # "none"

\* What an old version v still tells of the pod p.
Tells(v, p) ==
    /\ v.rv <= pod[p].rv
    /\ v.phase \in Leaving => pod[p].phase \in Leaving
    /\ Named(v, p)

CacheOK ==
    \A p \in Pods : /\ Named(pod[p], p) /\ Tells(cached[p], p)
                    /\ cached[p].rv = pod[p].rv => cached[p] = pod[p]

\* While its rv is current, the copy of the pass is the pod, up to the
\* annotation it is about to write.
CopyOK ==
    pc # "idle" =>
        /\ Tells(my, me)
        /\ my.rv = pod[me].rv =>
              /\ my.phase = pod[me].phase /\ my.finalizer = pod[me].finalizer
              /\ pc # "annotate" => my = pod[me]

StepOK ==
    /\ pc \in {"cleanup", "release"} => my.phase = "deleting"
    /\ pc = "cleanup" => my.device # NoDevice

CleanedOK ==
    pc = "release" =>
        my.device = NoDevice \/ skipped \/ device[my.device].state # "up"

IInv == TypeOK /\ CacheOK /\ CopyOK /\ StepOK /\ CleanedOK

-----------------------------------------------------------------------------
(* Type correctness.                                                       *)

LEMMA AnyTypes == AnyPod \in Pods /\ AnyTags \in Tags /\ NewPod \in Version
<1>1. AnyPod \in Pods
  BY PodsAssumption DEF AnyPod
<1>2. AnyTags \in Tags
  BY TagsAssumption DEF AnyTags
<1> QED
  BY <1>1, <1>2 DEF NewPod, Version

LEMMA PutStores ==
    ASSUME TypeOK, NEW p \in Pods, NEW v \in Version, Put(p, v)
    PROVE  /\ pod' \in [Pods -> Version]
           /\ \A q \in Pods \ {p} : pod'[q] = pod[q]
           /\ \/ pod' = pod /\ pod[p] = v
              \/ /\ pod'[p].rv = pod[p].rv + 1
                 /\ pod'[p] = [v EXCEPT !.rv = pod'[p].rv]
<1>1. CASE v = pod[p]
  BY <1>1 DEF Put, TypeOK
<1>2. CASE v # pod[p]
  <2>1. pod' = [pod EXCEPT ![p] = [v EXCEPT !.rv = pod[p].rv + 1]]
    BY <1>2 DEF Put
  <2>2. pod[p].rv + 1 \in Nat
    BY DEF TypeOK, Version
  <2>3. [v EXCEPT !.rv = pod[p].rv + 1] \in Version
    BY <2>2 DEF Version
  <2>4. pod'[p] = [v EXCEPT !.rv = pod[p].rv + 1] /\ pod'[p].rv = pod[p].rv + 1
    BY <2>1, <2>2 DEF TypeOK, Version
  <2> QED
    BY <2>1, <2>3, <2>4 DEF TypeOK
<1> QED
  BY <1>1, <1>2

LEMMA EndTypes ==
    ASSUME TypeOK, NEW again \in BOOLEAN, End(again)
    PROVE  /\ pc' \in Steps /\ me' \in Pods /\ my' \in Version /\ wish' \in Tags
           /\ skipped' \in BOOLEAN /\ timer' \subseteq Pods
BY AnyTypes DEF End, Steps, TypeOK

LEMMA CounterTypes ==
    ASSUME TypeOK, Disturb \/ Calm
    PROVE  disturbances' \in 0 .. MaxDisturbances
BY BoundAssumption DEF TypeOK, Disturb, Calm

LEMMA NextStepTypes == \A v \in Version : NextStep(v) \in Steps
BY DEF NextStep, Steps, Version

LEMMA CopyTypes ==
    ASSUME TypeOK
    PROVE  /\ \A f \in BOOLEAN : [my EXCEPT !.finalizer = f] \in Version
           /\ \A d \in Pods : [my EXCEPT !.device = d] \in Version
BY DEF TypeOK, Version

\* What registers is a device.
LEMMA RegisterTypes ==
    ASSUME TypeOK
    PROVE  \A d \in Pods, t \in Tags :
              [device EXCEPT ![d] = [state |-> "up", tags |-> t]] \in [Pods -> Device]
BY DEF TypeOK, Device

LEMMA DropTypes ==
    ASSUME TypeOK, NEW d, Drop(d) \/ UNCHANGED device
    PROVE  device' \in [Pods -> Device]
<1>1. CASE device' = [device EXCEPT ![d].state = "gone"]
  BY <1>1 DEF TypeOK, Device
<1>2. CASE device' = device
  BY <1>2 DEF TypeOK
<1> QED
  BY <1>1, <1>2, Zenon DEF Drop

LEMMA UpdateTypes ==
    ASSUME TypeOK, NEW v \in Version,
           UNCHANGED <<cached, queued, device, tailnet, cachedTailnet,
                       oauthSecret, permitted>>,
           UNCHANGED pod \/ Put(me, v), Disturb \/ Calm,
           excused' = IF skipped /\ pod' # pod THEN excused \cup {me} ELSE excused,
           pc' \in Steps, me' \in Pods, my' \in Version, wish' \in Tags,
           skipped' \in BOOLEAN, timer' \subseteq Pods
    PROVE  TypeOK'
<1>1. pod' \in [Pods -> Version]
  BY PutStores DEF TypeOK
<1>2. excused' \subseteq Pods
  BY DEF TypeOK
<1> QED
  BY <1>1, <1>2, CounterTypes DEF TypeOK

LEMMA PodStepTypes ==
    ASSUME TypeOK, NEW p \in Pods, NEW v \in Version, PodStep(p, v), Calm
    PROVE  TypeOK'
<1>1. pod' \in [Pods -> Version]
  BY PutStores DEF PodStep
<1> QED
  BY <1>1 DEF PodStep, Calm, pass, TypeOK

LEMMA NextTypes == TypeOK /\ [Next]_vars => TypeOK'
<1> SUFFICES ASSUME TypeOK, [Next]_vars PROVE TypeOK'
  OBVIOUS
<1>1. ASSUME NEW p \in Pods, Start(p) PROVE TypeOK'
  BY <1>1, NextStepTypes DEF Start, cluster, TypeOK
<1>2. CASE AddFinalizer
  <2> DEFINE v == [my EXCEPT !.finalizer = TRUE]
  <2>1. v \in Version
    BY CopyTypes
  <2>2. CASE /\ UNCHANGED pod \/ Put(me, v)
             /\ End(TRUE)
    BY <1>2, <2>1, <2>2, UpdateTypes, EndTypes DEF AddFinalizer, Update
  <2>3. CASE Put(me, v) /\ my' = pod'[me] /\ Continue(NextStep(my'))
    <3>1. my' \in Version
      BY <2>1, <2>3, PutStores DEF TypeOK
    <3>2. pc' \in Steps /\ UNCHANGED <<me, wish, skipped, timer>>
      BY <2>3, <3>1, NextStepTypes DEF Continue
    <3> QED
      BY <1>2, <2>1, <2>3, <3>1, <3>2, UpdateTypes
      DEF AddFinalizer, Update, TypeOK
  <2> QED
    BY <1>2, <2>2, <2>3 DEF AddFinalizer, Update
<1>3. CASE Discover
  <2>1. Disturb \/ Calm
    BY <1>3 DEF Discover, GiveUp
  <2>2. CASE End(TRUE)
    BY <1>3, <2>1, <2>2, EndTypes, CounterTypes DEF Discover, cluster, TypeOK
  <2>3. CASE /\ \E d \in Registered : my' = [my EXCEPT !.device = d]
             /\ Continue("annotate")
    <3>1. my' \in Version
      BY <2>3, CopyTypes DEF Registered
    <3> QED
      BY <1>3, <2>1, <2>3, <3>1, CounterTypes
      DEF Discover, cluster, Continue, Steps, TypeOK
  <2> QED
    BY <1>3, <2>2, <2>3 DEF Discover
<1>4. CASE Annotate
  BY <1>4, UpdateTypes, EndTypes DEF Annotate, Update, TypeOK
<1>5. CASE ReadTags
  <2>1. Disturb \/ Calm
    BY <1>5 DEF ReadTags, GiveUp
  <2>2. CASE \E again \in BOOLEAN : End(again)
    BY <1>5, <2>1, <2>2, EndTypes, CounterTypes DEF ReadTags, cluster, TypeOK
  <2>3. CASE /\ pc' = "setTags" /\ wish' = cachedTailnet.tags
             /\ UNCHANGED <<me, my, skipped, timer>>
    BY <1>5, <2>1, <2>3, CounterTypes DEF ReadTags, cluster, Steps, TypeOK
  <2> QED
    BY <1>5, <2>2, <2>3 DEF ReadTags
<1>6. CASE SetTags
  <2>1. Disturb \/ Calm
    BY <1>6 DEF SetTags
  <2>2. \E again \in BOOLEAN : End(again)
    BY <1>6 DEF SetTags
  <2>3. device' = device \/ device' = [device EXCEPT ![my.device].tags = wish]
    BY <1>6, Zenon DEF SetTags, Retag
  <2>4. device' \in [Pods -> Device]
    BY <2>3 DEF TypeOK, Device
  <2> QED
    BY <1>6, <2>1, <2>2, <2>4, EndTypes, CounterTypes DEF SetTags, TypeOK
<1>7. CASE Cleanup
  <2>1. Disturb \/ Calm
    BY <1>7 DEF Cleanup
  <2>2. device' \in [Pods -> Device]
    BY <1>7, DropTypes DEF Cleanup
  <2>3. /\ pc' \in Steps /\ me' \in Pods /\ my' \in Version /\ wish' \in Tags
        /\ skipped' \in BOOLEAN /\ timer' \subseteq Pods
    BY <1>7, EndTypes DEF Cleanup, Skip, Continue, Steps, TypeOK
  <2> QED
    BY <1>7, <2>1, <2>2, <2>3, CounterTypes DEF Cleanup, TypeOK
<1>8. CASE Release
  BY <1>8, CopyTypes, UpdateTypes, EndTypes DEF Release, Update
<1>9. ASSUME NEW p \in Pods, DeliverPod(p) PROVE TypeOK'
  BY <1>9 DEF DeliverPod, pass, TypeOK
<1>10. CASE DeliverTailnet
  BY <1>10 DEF DeliverTailnet, pass, TypeOK
<1>11. ASSUME NEW p \in Pods, TimerFires(p) \/ Resync(p) PROVE TypeOK'
  BY <1>11 DEF TimerFires, Resync, cluster, pass, TypeOK
<1>12. CASE Restart
  BY <1>12, AnyTypes, CounterTypes DEF Restart, Steps, TypeOK
<1>13. ASSUME NEW p \in Pods, CreatePod(p) PROVE TypeOK'
  BY <1>13, PodStepTypes DEF CreatePod, TypeOK, Version
<1>14. ASSUME NEW p \in Pods, DeletePod(p) PROVE TypeOK'
  BY <1>14, PodStepTypes DEF DeletePod, TypeOK, Version
<1>15. ASSUME NEW p \in Pods, RemovePod(p) PROVE TypeOK'
  BY <1>15, PodStepTypes DEF RemovePod, TypeOK, Version
<1>16. ASSUME NEW p \in Pods, WriteStatus(p) PROVE TypeOK'
  BY <1>16, CounterTypes DEF WriteStatus, pass, TypeOK, Version
<1>17. ASSUME NEW p \in Pods, Register(p) PROVE TypeOK'
  BY <1>17, RegisterTypes DEF Register, pass, TypeOK
<1>18. CASE Interfere
  <2>1. device' \in [Pods -> Device]
    BY <1>18, DropTypes DEF Interfere, Registered, TypeOK
  <2>2. tailnet' \in [there : BOOLEAN, tags : Tags]
    BY <1>18 DEF Interfere, TypeOK
  <2>3. oauthSecret' \in BOOLEAN /\ permitted' \in BOOLEAN
    BY <1>18, Zenon DEF Interfere, TypeOK
  <2> QED
    BY <1>18, <2>1, <2>2, <2>3, CounterTypes DEF Interfere, pass, TypeOK
<1>19. CASE UNCHANGED vars
  BY <1>19 DEF vars, cluster, pass, TypeOK
<1> QED
  BY <1>1, <1>2, <1>3, <1>4, <1>5, <1>6, <1>7, <1>8, <1>9, <1>10, <1>11, <1>12,
     <1>13, <1>14, <1>15, <1>16, <1>17, <1>18, <1>19 DEF Next, Pass

LEMMA InitTypes == Init => TypeOK
<1> SUFFICES ASSUME Init PROVE TypeOK
  OBVIOUS
<1>1. pod \in [Pods -> Version] /\ cached \in [Pods -> Version]
  BY AnyTypes DEF Init
<1>2. pc \in Steps /\ me \in Pods /\ my \in Version /\ wish \in Tags
  BY AnyTypes DEF Init, Rest, Steps
<1>3. device \in [Pods -> Device]
  BY AnyTypes DEF Init, Device
<1>4. /\ tailnet \in [there : BOOLEAN, tags : Tags]
      /\ cachedTailnet \in [there : BOOLEAN, tags : Tags]
  BY AnyTypes DEF Init
<1>5. oauthSecret \in BOOLEAN /\ permitted \in BOOLEAN /\ skipped \in BOOLEAN
  BY DEF Init, Rest
<1>6. disturbances \in 0 .. MaxDisturbances
  BY BoundAssumption DEF Init
<1> QED
  BY <1>1, <1>2, <1>3, <1>4, <1>5, <1>6 DEF Init, TypeOK

\* Every variable stays within its type.
THEOREM TypeCorrect == Spec => []TypeOK
<1> QED
  BY InitTypes, NextTypes, PTL DEF Spec

-----------------------------------------------------------------------------
(* Pods and devices only move forward.                                     *)

\* One step takes pod p to a later version, or leaves it alone; what it is
\* annotated with afterwards had registered before.
Onward(p) ==
    /\ pod[p].rv <= pod'[p].rv
    /\ pod[p].phase \in Leaving => pod'[p].phase \in Leaving
    /\ pod'[p].rv = pod[p].rv => pod'[p] = pod[p]
    /\ Named(pod'[p], p)

PodsOnward == \A p \in Pods : Onward(p)

DevicesOnward ==
    \A d \in Pods : /\ device[d].state # "none" => device'[d].state # "none"
                    /\ device[d].state = "gone" => device'[d].state = "gone"

LEMMA SameOnward == IInv /\ UNCHANGED pod => PodsOnward
BY DEF IInv, TypeOK, Version, CacheOK, PodsOnward, Onward

LEMMA PutOnward ==
    ASSUME IInv, NEW p \in Pods, NEW v \in Version, Put(p, v), Named(v, p),
           pod[p].phase \in Leaving => v.phase \in Leaving
    PROVE  PodsOnward
<1>0. TypeOK
  BY DEF IInv
<1>1. CASE pod' = pod
  BY <1>1, SameOnward
<1>2. CASE pod' # pod
  <2>1. /\ pod'[p].rv = pod[p].rv + 1
        /\ pod'[p] = [v EXCEPT !.rv = pod'[p].rv]
    BY <1>0, <1>2, PutStores
  <2>2. pod[p].rv \in Nat
    BY <1>0 DEF TypeOK, Version
  <2>3. pod'[p].phase = v.phase /\ pod'[p].device = v.device
    BY <2>1 DEF Version
  <2>4. Onward(p)
    BY <2>1, <2>2, <2>3 DEF Onward, Named
  <2>5. ASSUME NEW q \in Pods, q # p PROVE Onward(q)
    <3>1. pod'[q] = pod[q]
      BY <1>0, <2>5, PutStores
    <3> QED
      BY <1>0, <3>1 DEF IInv, CacheOK, Onward, TypeOK, Version
  <2> QED
    BY <2>4, <2>5 DEF PodsOnward
<1> QED
  BY <1>1, <1>2

\* What the pass writes is the pod it read, with another finalizer or with an
\* annotation that names a device.
LEMMA UpdateOnward ==
    ASSUME IInv, pc # "idle", NEW v \in Version,
           v.phase = my.phase, v.device = my.device,
           UNCHANGED pod \/ (Current /\ Put(me, v))
    PROVE  PodsOnward
<1>1. CASE UNCHANGED pod
  BY <1>1, SameOnward
<1>2. CASE Current /\ Put(me, v)
  <2>1. me \in Pods
    BY DEF IInv, TypeOK
  <2>2. my.phase = pod[me].phase /\ Named(my, me)
    BY <1>2 DEF IInv, CopyOK, Tells, Current
  <2> QED
    BY <1>2, <2>1, <2>2, PutOnward DEF Named
<1> QED
  BY <1>1, <1>2

LEMMA PodStepOnward ==
    ASSUME IInv, NEW p \in Pods, NEW v \in Version, PodStep(p, v),
           v.device = pod[p].device,
           pod[p].phase \in Leaving => v.phase \in Leaving
    PROVE  PodsOnward
<1>1. Named(pod[p], p)
  BY DEF IInv, CacheOK
<1> QED
  BY <1>1, PutOnward DEF PodStep, Named

LEMMA NextOnward == IInv /\ [Next]_vars => PodsOnward
<1> SUFFICES ASSUME IInv, [Next]_vars PROVE PodsOnward
  OBVIOUS
<1>0. TypeOK
  BY DEF IInv
<1>1. CASE AddFinalizer
  <2> DEFINE v == [my EXCEPT !.finalizer = TRUE]
  <2>1. v \in Version /\ v.phase = my.phase /\ v.device = my.device
    BY <1>0, CopyTypes DEF TypeOK, Version
  <2>2. UNCHANGED pod \/ (Current /\ Put(me, v))
    BY <1>1, Zenon DEF AddFinalizer, Update
  <2> QED
    BY <1>1, <2>1, <2>2, UpdateOnward DEF AddFinalizer
<1>2. CASE Annotate
  <2>1. UNCHANGED pod \/ (Current /\ Put(me, my))
    BY <1>2, Zenon DEF Annotate, Update
  <2> QED
    BY <1>0, <1>2, <2>1, UpdateOnward DEF Annotate, TypeOK
<1>3. CASE Release
  <2> DEFINE v == [my EXCEPT !.finalizer = FALSE]
  <2>1. v \in Version /\ v.phase = my.phase /\ v.device = my.device
    BY <1>0, CopyTypes DEF TypeOK, Version
  <2>2. UNCHANGED pod \/ (Current /\ Put(me, v))
    BY <1>3, Zenon DEF Release, Update
  <2> QED
    BY <1>3, <2>1, <2>2, UpdateOnward DEF Release
<1>4. ASSUME NEW p \in Pods, CreatePod(p) PROVE PodsOnward
  BY <1>0, <1>4, PodStepOnward DEF CreatePod, Leaving, TypeOK, Version
<1>5. ASSUME NEW p \in Pods, DeletePod(p) PROVE PodsOnward
  BY <1>0, <1>5, PodStepOnward DEF DeletePod, Leaving, TypeOK, Version
<1>6. ASSUME NEW p \in Pods, RemovePod(p) PROVE PodsOnward
  BY <1>0, <1>6, PodStepOnward DEF RemovePod, Leaving, TypeOK, Version
<1>7. ASSUME NEW p \in Pods, WriteStatus(p) PROVE PodsOnward
  <2>1. pod' = [pod EXCEPT ![p].rv = @ + 1]
    BY <1>7 DEF WriteStatus
  <2> QED
    BY <1>0, <2>1
    DEF IInv, CacheOK, PodsOnward, Onward, Named, TypeOK, Version
<1>8. ASSUME UNCHANGED pod PROVE PodsOnward
  BY <1>8, SameOnward
<1> QED
  BY <1>1, <1>2, <1>3, <1>4, <1>5, <1>6, <1>7, <1>8
  DEF Next, Pass, Start, Discover, ReadTags, SetTags, Cleanup, DeliverPod,
      DeliverTailnet, TimerFires, Resync, Restart, Register, Interfere, vars, cluster

LEMMA DropOnward ==
    ASSUME TypeOK, NEW d, Drop(d) \/ UNCHANGED device
    PROVE  DevicesOnward
<1>1. CASE device' = [device EXCEPT ![d].state = "gone"]
  BY <1>1 DEF TypeOK, Device, DevicesOnward
<1>2. CASE device' = device
  BY <1>2 DEF DevicesOnward
<1> QED
  BY <1>1, <1>2, Zenon DEF Drop

LEMMA NextDevices == TypeOK /\ [Next]_vars => DevicesOnward
<1> SUFFICES ASSUME TypeOK, [Next]_vars PROVE DevicesOnward
  OBVIOUS
<1>1. CASE SetTags
  <2>1. device' = device \/ device' = [device EXCEPT ![my.device].tags = wish]
    BY <1>1, Zenon DEF SetTags, Retag
  <2> QED
    BY <2>1 DEF TypeOK, Device, DevicesOnward
<1>2. CASE Cleanup
  BY <1>2, DropOnward DEF Cleanup
<1>3. CASE Interfere
  BY <1>3, DropOnward DEF Interfere
<1>4. ASSUME NEW p \in Pods, Register(p) PROVE DevicesOnward
  BY <1>4 DEF Register, TypeOK, Device, DevicesOnward
<1>5. ASSUME UNCHANGED device PROVE DevicesOnward
  BY <1>5 DEF DevicesOnward
<1> QED
  BY <1>1, <1>2, <1>3, <1>4, <1>5
  DEF Next, Pass, Start, AddFinalizer, Discover, Annotate, ReadTags, Release,
      Update, DeliverPod, DeliverTailnet, TimerFires, Resync, Restart, CreatePod,
      DeletePod, RemovePod, PodStep, WriteStatus, vars, cluster

-----------------------------------------------------------------------------
(* The inductive invariant.                                                *)

\* What an old version tells stays true.
LEMMA TellsStill ==
    ASSUME PodsOnward, DevicesOnward, TypeOK, TypeOK',
           NEW p \in Pods, NEW v \in Version, Tells(v, p)
    PROVE  Tells(v, p)'
<1>1. v.rv \in Nat /\ pod[p].rv \in Nat /\ pod'[p].rv \in Nat
  BY DEF TypeOK, Version
<1>2. v.device # NoDevice => v.device \in Pods
  BY DEF Version
<1> QED
  BY <1>1, <1>2 DEF PodsOnward, DevicesOnward, Onward, Tells, Named

\* What the pods are annotated with stays registered.
LEMMA NamedStill ==
    ASSUME PodsOnward, DevicesOnward, TypeOK', NEW p \in Pods
    PROVE  Named(pod[p], p)'
<1>1. Named(pod'[p], p)
  BY DEF PodsOnward, Onward
<1>2. pod'[p].device # NoDevice => pod'[p].device \in Pods
  BY DEF TypeOK, Version
<1> QED
  BY <1>1, <1>2 DEF DevicesOnward, Named

LEMMA CacheStep ==
    ASSUME IInv, TypeOK', PodsOnward, DevicesOnward,
           \A p \in Pods : cached'[p] = cached[p] \/ cached'[p] = pod'[p]
    PROVE  CacheOK'
<1> SUFFICES ASSUME NEW p \in Pods
             PROVE  /\ Named(pod[p], p)' /\ Tells(cached[p], p)'
                    /\ cached'[p].rv = pod'[p].rv => cached'[p] = pod'[p]
  BY DEF CacheOK
<1>0. TypeOK /\ CacheOK
  BY DEF IInv
<1>1. Named(pod[p], p)'
  BY NamedStill
<1>2. CASE cached'[p] = pod'[p]
  <2>1. pod'[p].rv <= pod'[p].rv
    BY DEF TypeOK, Version
  <2> QED
    BY <1>1, <1>2, <2>1 DEF Tells, Named
<1>3. CASE cached'[p] = cached[p]
  <2>1. cached[p] \in Version /\ Tells(cached[p], p)
    BY <1>0 DEF TypeOK, CacheOK
  <2>2. Tells(cached[p], p)'
    <3> DEFINE v == cached[p]
    <3> HIDE DEF v
    <3>1. v \in Version /\ Tells(v, p)
      BY <2>1 DEF v
    <3>2. v.rv <= pod'[p].rv /\ (v.phase \in Leaving => pod'[p].phase \in Leaving)
      BY <1>0, <3>1, TellsStill DEF Tells
    <3>3. v.device # NoDevice =>
             HostOf[v.device] = HostOf[p] /\ device'[v.device].state # "none"
      BY <1>0, <3>1, TellsStill DEF Tells, Named
    <3> QED
      BY <1>3, <3>2, <3>3 DEF v, Tells, Named
  <2>3. cached[p].rv = pod'[p].rv => pod'[p] = pod[p]
    <3>1. cached[p].rv \in Nat /\ pod[p].rv \in Nat /\ pod'[p].rv \in Nat
      BY <1>0 DEF TypeOK, Version
    <3>2. cached[p].rv <= pod[p].rv /\ pod[p].rv <= pod'[p].rv
      BY <2>1 DEF Tells, PodsOnward, Onward
    <3> QED
      BY <3>1, <3>2 DEF PodsOnward, Onward
  <2> QED
    BY <1>0, <1>1, <1>3, <2>2, <2>3 DEF CacheOK
<1> QED
  BY <1>2, <1>3

PassOK == CopyOK /\ StepOK /\ CleanedOK

LEMMA EndStep == ASSUME NEW again, End(again) PROVE PassOK'
BY DEF End, PassOK, CopyOK, StepOK, CleanedOK

\* The copy stands as long as the pass keeps it.
LEMMA CopyStep ==
    ASSUME IInv, TypeOK', PodsOnward, DevicesOnward, pc # "idle",
           UNCHANGED <<me, my>>, pc = "annotate" => pc' = "annotate"
    PROVE  CopyOK'
<1>0. TypeOK /\ CopyOK
  BY DEF IInv
<1>1. me \in Pods /\ my \in Version /\ Tells(my, me)
  BY <1>0 DEF TypeOK, CopyOK
<1>2. Tells(my, me)'
  <2> DEFINE v == my
             p == me
  <2> HIDE DEF v, p
  <2>1. p \in Pods /\ v \in Version /\ Tells(v, p)
    BY <1>1 DEF v, p
  <2>2. v.rv <= pod'[p].rv /\ (v.phase \in Leaving => pod'[p].phase \in Leaving)
    BY <1>0, <2>1, TellsStill DEF Tells
  <2>3. v.device # NoDevice =>
           HostOf[v.device] = HostOf[p] /\ device'[v.device].state # "none"
    BY <1>0, <2>1, TellsStill DEF Tells, Named
  <2> QED
    BY <2>2, <2>3 DEF v, p, Tells, Named
<1>3. my.rv = pod'[me].rv => pod'[me] = pod[me]
  <2>1. my.rv \in Nat /\ pod[me].rv \in Nat /\ pod'[me].rv \in Nat
    BY <1>0, <1>1 DEF TypeOK, Version
  <2>2. my.rv <= pod[me].rv /\ pod[me].rv <= pod'[me].rv
    BY <1>1 DEF Tells, PodsOnward, Onward
  <2> QED
    BY <1>1, <2>1, <2>2 DEF PodsOnward, Onward
<1> QED
  BY <1>0, <1>2, <1>3 DEF CopyOK

LEMMA PassStands ==
    ASSUME IInv, TypeOK', PodsOnward, DevicesOnward, UNCHANGED pass
    PROVE  PassOK'
<1>0. TypeOK /\ CopyOK /\ StepOK /\ CleanedOK
  BY DEF IInv
<1>1. CopyOK'
  BY CopyStep DEF pass, CopyOK
<1>2. StepOK'
  BY <1>0 DEF pass, StepOK
<1>3. CleanedOK'
  <2> SUFFICES ASSUME pc = "release", my.device # NoDevice, ~skipped
               PROVE  device'[my.device].state # "up"
    BY DEF pass, CleanedOK
  <2>1. my.device \in Pods
    BY <1>0 DEF TypeOK, Version
  <2>2. device[my.device].state # "none" /\ device[my.device].state # "up"
    BY <1>0 DEF CopyOK, Tells, Named, CleanedOK
  <2>3. device[my.device].state = "gone"
    BY <1>0, <2>1, <2>2 DEF TypeOK, Device
  <2> QED
    BY <2>1, <2>3 DEF DevicesOnward
<1> QED
  BY <1>1, <1>2, <1>3 DEF PassOK

\* A version of the pod as the pass finds it, and what the pass does first.
LEMMA PassBegins ==
    ASSUME TypeOK', CacheOK', me' \in Pods, pc' = NextStep(my'),
           my' = cached'[me'] \/ my' = pod'[me']
    PROVE  PassOK'
<1>1. Tells(my, me)' /\ (my'.rv = pod'[me'].rv => my' = pod'[me'])
  <2>1. pod'[me'].rv <= pod'[me'].rv
    BY DEF TypeOK, Version
  <2> QED
    BY <2>1 DEF CacheOK, Tells
<1>2. CopyOK'
  BY <1>1 DEF CopyOK
<1>3. StepOK'
  BY DEF StepOK, NextStep, TypeOK, Version
<1>4. CleanedOK'
  BY DEF CleanedOK, NextStep, TypeOK, Version
<1> QED
  BY <1>2, <1>3, <1>4 DEF PassOK

LEMMA InitInv == Init => IInv
<1> SUFFICES ASSUME Init PROVE IInv
  OBVIOUS
<1>1. TypeOK
  BY InitTypes
<1>2. CacheOK
  BY DEF Init, CacheOK, Tells, Named, NewPod
<1> QED
  BY <1>1, <1>2 DEF Init, Rest, IInv, CopyOK, StepOK, CleanedOK

LEMMA NextPass == IInv /\ [Next]_vars /\ TypeOK' /\ CacheOK' => PassOK'
<1> SUFFICES ASSUME IInv, [Next]_vars, TypeOK', CacheOK' PROVE PassOK'
  OBVIOUS
<1>0. TypeOK /\ PodsOnward /\ DevicesOnward
  BY NextOnward, NextDevices DEF IInv
<1>1. ASSUME NEW again, End(again) PROVE PassOK'
  BY <1>1, EndStep
<1>2. ASSUME UNCHANGED pass PROVE PassOK'
  BY <1>0, <1>2, PassStands
<1>3. ASSUME NEW p \in Pods, Start(p) PROVE PassOK'
  <2>1. CASE NextStep(cached[p]) = "idle"
    BY <1>2, <1>3, <2>1 DEF Start, pass
  <2>2. CASE NextStep(cached[p]) # "idle"
    BY <1>3, <2>2, PassBegins DEF Start, cluster
  <2> QED
    BY <2>1, <2>2
<1>4. CASE AddFinalizer
  <2>1. CASE my' = pod'[me] /\ Continue(NextStep(my'))
    BY <1>0, <2>1, PassBegins DEF Continue, TypeOK
  <2> QED
    BY <1>1, <1>4, <2>1 DEF AddFinalizer, Update
<1>5. CASE Discover
  <2>1. ASSUME NEW d \in Registered, HostOf[d] = HostOf[me],
               my' = [my EXCEPT !.device = d], Continue("annotate")
        PROVE  PassOK'
    <3>1. /\ my'.rv = my.rv /\ my'.phase = my.phase
          /\ my'.finalizer = my.finalizer /\ my'.device = d
      BY <1>0, <2>1 DEF TypeOK, Version
    <3>2. Tells(my, me) /\ pc # "idle" /\ UNCHANGED <<pod, device>>
      BY <1>5 DEF IInv, CopyOK, Discover, cluster
    <3>3. Tells(my, me)'
      BY <2>1, <3>1, <3>2 DEF Registered, Continue, Tells, Named
    <3>4. CopyOK'
      BY <2>1, <3>1, <3>2, <3>3 DEF IInv, CopyOK, Continue
    <3> QED
      BY <2>1, <3>4 DEF PassOK, Continue, StepOK, CleanedOK
  <2> QED
    BY <1>1, <1>5, <2>1 DEF Discover
<1>6. CASE Annotate
  BY <1>1, <1>6 DEF Annotate, Update
<1>7. CASE ReadTags
  <2>1. CASE pc' = "setTags" /\ UNCHANGED <<me, my>>
    BY <1>0, <1>7, <2>1, CopyStep DEF ReadTags, PassOK, StepOK, CleanedOK
  <2> QED
    BY <1>1, <1>7, <2>1 DEF ReadTags
<1>8. CASE SetTags
  BY <1>1, <1>8 DEF SetTags
<1>9. CASE Cleanup
  <2>1. CASE /\ pc' = "release" /\ UNCHANGED <<me, my>>
             /\ skipped' \/ Drop(my.device)
    <3>1. pc = "cleanup" /\ my.phase = "deleting" /\ my.device # NoDevice
      BY <1>9 DEF Cleanup, IInv, StepOK
    <3>2. CopyOK'
      BY <1>0, <2>1, <3>1, CopyStep
    <3>3. StepOK'
      BY <2>1, <3>1 DEF StepOK
    <3>4. CASE skipped'
      BY <3>2, <3>3, <3>4 DEF PassOK, CleanedOK
    <3>5. CASE Drop(my.device)
      <4>1. my.device \in Pods
        BY <1>0, <3>1 DEF TypeOK, Version
      <4>2. device'[my.device].state # "up"
        BY <1>0, <3>5, <4>1 DEF Drop, TypeOK, Device
      <4> QED
        BY <2>1, <3>2, <3>3, <4>2 DEF PassOK, CleanedOK
    <3> QED
      BY <2>1, <3>4, <3>5
  <2> QED
    BY <1>1, <1>9, <2>1 DEF Cleanup, Skip, Continue
<1>10. CASE Release
  BY <1>1, <1>10 DEF Release, Update
<1>11. CASE Restart
  BY <1>11 DEF Restart, PassOK, CopyOK, StepOK, CleanedOK
<1> QED
  BY <1>2, <1>3, <1>4, <1>5, <1>6, <1>7, <1>8, <1>9, <1>10, <1>11
  DEF Next, Pass, DeliverPod, DeliverTailnet, TimerFires, Resync, CreatePod,
      DeletePod, RemovePod, PodStep, WriteStatus, Register, Interfere, vars

LEMMA NextCache == IInv /\ [Next]_vars /\ TypeOK' => CacheOK'
<1> SUFFICES ASSUME IInv, [Next]_vars, TypeOK' PROVE CacheOK'
  OBVIOUS
<1>0. TypeOK /\ PodsOnward /\ DevicesOnward
  BY NextOnward, NextDevices DEF IInv
<1>1. UNCHANGED cached \/ Restart \/ \E p \in Pods : DeliverPod(p)
  BY DEF Next, Pass, Start, AddFinalizer, Discover, Annotate, ReadTags, SetTags,
      Cleanup, Release, Update, DeliverTailnet, TimerFires, Resync, CreatePod,
      DeletePod, RemovePod, PodStep, WriteStatus, Register, Interfere, vars, cluster
<1>2. \A p \in Pods : cached'[p] = cached[p] \/ cached'[p] = pod'[p]
  BY <1>0, <1>1 DEF Restart, DeliverPod, TypeOK
<1> QED
  BY <1>0, <1>2, CacheStep

LEMMA NextInv == IInv /\ [Next]_vars => IInv'
<1> SUFFICES ASSUME IInv, [Next]_vars PROVE IInv'
  OBVIOUS
<1>1. TypeOK'
  BY NextTypes DEF IInv
<1>2. CacheOK'
  BY <1>1, NextCache
<1> QED
  BY <1>1, <1>2, NextPass DEF IInv, PassOK

THEOREM Invariant == Spec => []IInv
<1> QED
  BY InitInv, NextInv, PTL DEF Spec

-----------------------------------------------------------------------------
(* What follows from it.                                                   *)

\* The device a cleanup deletes bears the name of a pod on its way out.
LEMMA CleanupStep ==
    ASSUME IInv, Cleanup, NEW d \in Pods,
           device[d].state = "up", device'[d].state # "up"
    PROVE  \E p \in Pods : HostOf[p] = HostOf[d] /\ pod[p].phase \in Leaving
<1>0. TypeOK
  BY DEF IInv
<1>1. pc = "cleanup" /\ my.phase = "deleting" /\ my.device # NoDevice
  BY DEF Cleanup, IInv, StepOK
<1>2. me \in Pods /\ my.device \in Pods
  BY <1>0, <1>1 DEF TypeOK, Version
<1>3. HostOf[my.device] = HostOf[me] /\ pod[me].phase \in Leaving
  BY <1>1 DEF IInv, CopyOK, Tells, Named, Leaving
<1>4. d = my.device
  <2>1. device' = device \/ device' = [device EXCEPT ![my.device].state = "gone"]
    BY Zenon DEF Cleanup, Drop
  <2> QED
    BY <1>0, <2>1 DEF TypeOK, Device
<1> QED
  BY <1>2, <1>3, <1>4

\* However stale the copy a pass works on, it deletes no device but of the
\* name of a pod that is deleting or gone.
THEOREM DevicesAreKept == Spec => OnlyDeletedPodsLoseDevices
<1>1. IInv /\ [Next]_vars =>
         [\A d \in Pods : Cleanup /\ device[d].state = "up" /\ device'[d].state # "up"
             => \E p \in Pods : /\ HostOf[p] = HostOf[d]
                                /\ pod[p].phase \in {"deleting", "gone"}]_vars
  BY CleanupStep DEF Leaving
<1> QED
  BY <1>1, Invariant, PTL DEF Spec, OnlyDeletedPodsLoseDevices

LEMMA PutFinalizer ==
    ASSUME TypeOK, NEW p \in Pods, NEW v \in Version, Put(p, v), NEW q \in Pods
    PROVE  /\ pod'[p].finalizer = v.finalizer
           /\ q # p => pod'[q] = pod[q]
<1>1. CASE pod' = pod /\ pod[p] = v
  BY <1>1
<1>2. CASE pod'[p] = [v EXCEPT !.rv = pod'[p].rv]
  <2>1. pod'[p].finalizer = v.finalizer
    BY <1>2 DEF Version
  <2> QED
    BY <2>1, PutStores
<1> QED
  BY <1>1, <1>2, PutStores

\* An update of the pass that takes the finalizer away comes after cleanup.
LEMMA ReleaseStep ==
    ASSUME IInv, pc # "idle", pc # "annotate", Current,
           NEW v \in Version, Put(me, v), NEW p \in Pods,
           pod[p].finalizer, ~pod'[p].finalizer
    PROVE  p = me /\ my = pod[me] /\ ~v.finalizer
<1>0. TypeOK
  BY DEF IInv
<1>1. my = pod[me]
  BY DEF IInv, CopyOK, Current
<1>2. me \in Pods
  BY <1>0 DEF TypeOK
<1>3. p = me /\ ~v.finalizer
  BY <1>0, <1>2, PutFinalizer
<1> QED
  BY <1>1, <1>3

\* A pod's finalizer goes only after the device it is annotated with, unless
\* there was no Tailnet to ask or an error was taken for the device's absence.
THEOREM DevicesGoFirst == Spec => DeviceGoesFirst
<1> DEFINE Safe(p) == LET d == pod[p].device IN
                      d = NoDevice \/ skipped \/ device[d].state # "up"
<1>1. ASSUME IInv, [Next]_vars, NEW p \in Pods,
             pod[p].finalizer, ~pod'[p].finalizer
      PROVE  Safe(p)
  <2>0. TypeOK
    BY <1>1 DEF IInv
  <2>1. CASE Release
    <3> DEFINE v == [my EXCEPT !.finalizer = FALSE]
    <3>1. v \in Version
      BY <2>0, CopyTypes
    <3>2. Current /\ Put(me, v)
      BY <1>1, <2>1, Zenon DEF Release, Update
    <3>3. p = me /\ my = pod[me]
      BY <1>1, <2>1, <3>1, <3>2, ReleaseStep DEF Release
    <3> QED
      BY <1>1, <2>1, <3>3 DEF Release, IInv, CleanedOK
  <2>2. CASE AddFinalizer
    <3> DEFINE v == [my EXCEPT !.finalizer = TRUE]
    <3>1. v \in Version /\ v.finalizer
      BY <2>0, CopyTypes DEF TypeOK, Version
    <3>2. Current /\ Put(me, v)
      BY <1>1, <2>2, Zenon DEF AddFinalizer, Update
    <3> QED
      BY <1>1, <2>2, <3>1, <3>2, ReleaseStep DEF AddFinalizer
  <2>3. CASE Annotate
    <3>1. Current /\ Put(me, my)
      BY <1>1, <2>3, Zenon DEF Annotate, Update
    <3>2. my.finalizer = pod[me].finalizer
      BY <1>1, <2>3, <3>1 DEF Annotate, IInv, CopyOK, Current
    <3>3. pod'[me].finalizer = pod[me].finalizer /\ (p # me => pod'[p] = pod[p])
      BY <2>0, <3>1, <3>2, PutFinalizer DEF TypeOK
    <3> QED
      BY <1>1, <3>3
  <2>4. ASSUME NEW q \in Pods, NEW v \in Version, v.finalizer = pod[q].finalizer,
               PodStep(q, v)
        PROVE  FALSE
    <3>1. pod'[q].finalizer = pod[q].finalizer /\ (p # q => pod'[p] = pod[p])
      BY <2>0, <2>4, PutFinalizer DEF PodStep
    <3> QED
      BY <1>1, <3>1
  <2>5. ASSUME NEW q \in Pods, CreatePod(q) \/ DeletePod(q) \/ RemovePod(q)
        PROVE  FALSE
    BY <2>0, <2>4, <2>5 DEF CreatePod, DeletePod, RemovePod, TypeOK, Version
  <2>6. ASSUME NEW q \in Pods, WriteStatus(q) PROVE FALSE
    BY <1>1, <2>0, <2>6 DEF WriteStatus, TypeOK, Version
  <2> QED
    BY <1>1, <2>1, <2>2, <2>3, <2>5, <2>6
    DEF Next, Pass, Start, Discover, ReadTags, SetTags, Cleanup, DeliverPod,
        DeliverTailnet, TimerFires, Resync, Restart, Register, Interfere, vars, cluster
<1>2. IInv /\ [Next]_vars =>
         [\A p \in Pods : pod[p].finalizer /\ ~pod'[p].finalizer => Safe(p)]_vars
  BY <1>1
<1> QED
  BY <1>2, Invariant, PTL DEF Spec, DeviceGoesFirst

\* What the run over two pods of one name refutes holds when names are unique:
\* a pod is annotated with its own device.
THEOREM OwnDevice ==
    ASSUME UniqueHosts
    PROVE  Spec => []AnnotationNamesOwnDevice
<1>1. IInv => AnnotationNamesOwnDevice
  BY DEF IInv, TypeOK, Version, CacheOK, Named, UniqueHosts,
         AnnotationNamesOwnDevice
<1> QED
  BY <1>1, Invariant, PTL
-----------------------------------------------------------------------------
(* The device of a pod is a resource held by the pod's finalizer.          *)

\* Before it annotates, a pass has found the finalizer in its copy; the pass
\* skips the cleanup only to let the pod go.
HoldsOK ==
    /\ pc = "addFinalizer" => my.phase = "running"
    /\ pc \in {"discover", "annotate"} => my.finalizer
    /\ skipped => pc = "release"

\* A pod is annotated after it has the finalizer, and parts with it after its
\* device is down or is excused.
HeldOK ==
    \A p \in Pods :
       LET v == pod[p] IN
       /\ v.finalizer => v.phase \in {"running", "deleting"}
       /\ ~v.finalizer /\ v.phase \in {"future", "running"} => v.device = NoDevice
       /\ ~v.finalizer /\ v.device # NoDevice
             => p \in excused \/ device[v.device].state # "up"

HInv == IInv /\ HoldsOK /\ HeldOK

\* What one step may do to the pod p, by what it does to the finalizer.
Taken(p) ==
    /\ ~pod[p].finalizer /\ pod'[p].finalizer
    /\ pod[p].phase = "running" /\ pod'[p].phase = "running"
    /\ pod'[p].device = pod[p].device

LetGo(p) ==
    /\ pod[p].finalizer /\ ~pod'[p].finalizer
    /\ pod[p].phase = "deleting" /\ pod'[p].phase = "deleting"
    /\ pod'[p].device = pod[p].device /\ UNCHANGED device
    /\ \/ pod[p].device = NoDevice
       \/ device[pod[p].device].state # "up"
       \/ me = p /\ skipped /\ p \in excused'

Kept(p) ==
    /\ pod'[p].finalizer = pod[p].finalizer
    /\ pod'[p].device = pod[p].device \/ pod[p].finalizer
    /\ \/ pod'[p].phase = pod[p].phase
       \/ pod[p].phase = "future" /\ pod'[p].phase = "running"
       \/ pod[p].phase = "running" /\ pod'[p].phase = "deleting"
       \/ pod[p].phase = "deleting" /\ pod'[p].phase = "gone" /\ ~pod[p].finalizer

Moves(p) == Taken(p) \/ LetGo(p) \/ Kept(p)

LEMMA PutFields ==
    ASSUME TypeOK, NEW p \in Pods, NEW v \in Version, Put(p, v)
    PROVE  /\ pod'[p].phase = v.phase /\ pod'[p].finalizer = v.finalizer
           /\ pod'[p].device = v.device
           /\ \A q \in Pods \ {p} : pod'[q] = pod[q]
<1>1. CASE pod' = pod /\ pod[p] = v
  BY <1>1
<1>2. CASE pod'[p] = [v EXCEPT !.rv = pod'[p].rv]
  <2>1. pod'[p].phase = v.phase /\ pod'[p].finalizer = v.finalizer
        /\ pod'[p].device = v.device
    BY <1>2 DEF Version
  <2> QED
    BY <2>1, PutStores
<1> QED
  BY <1>1, <1>2, PutStores

\* An update that the pass makes to the pod of its copy.
LEMMA UpdateMoves ==
    ASSUME TypeOK, NEW v \in Version, NEW OnSuccess, Update(v, OnSuccess),
           Put(me, v) /\ Current => Moves(me)
    PROVE  \A p \in Pods : Moves(p)
<1>1. CASE UNCHANGED pod
  BY <1>1 DEF Moves, Kept
<1>2. CASE Put(me, v) /\ Current
  <2>1. \A q \in Pods \ {me} : pod'[q] = pod[q]
    BY <1>2, PutFields DEF TypeOK
  <2> QED
    BY <1>2, <2>1 DEF Moves, Kept
<1> QED
  BY <1>1, <1>2, Zenon DEF Update

LEMMA PodStepMoves ==
    ASSUME TypeOK, NEW p \in Pods, NEW v \in Version, PodStep(p, v),
           v.finalizer = pod[p].finalizer, v.device = pod[p].device,
           \/ pod[p].phase = "future" /\ v.phase = "running"
           \/ pod[p].phase = "running" /\ v.phase = "deleting"
           \/ pod[p].phase = "deleting" /\ v.phase = "gone" /\ ~pod[p].finalizer
    PROVE  \A q \in Pods : Moves(q)
BY PutFields DEF PodStep, Moves, Kept

LEMMA NextMoves == HInv /\ [Next]_vars => \A p \in Pods : Moves(p)
<1> SUFFICES ASSUME HInv, [Next]_vars PROVE \A p \in Pods : Moves(p)
  OBVIOUS
<1>0. TypeOK /\ IInv /\ HoldsOK
  BY DEF HInv, IInv
<1>c. me \in Pods /\ my \in Version
  BY <1>0 DEF TypeOK
<1>1. ASSUME UNCHANGED pod PROVE \A p \in Pods : Moves(p)
  BY <1>1 DEF Moves, Kept
<1>2. CASE AddFinalizer
  <2> DEFINE v == [my EXCEPT !.finalizer = TRUE]
  <2>1. /\ v \in Version /\ v.finalizer
        /\ v.phase = my.phase /\ v.device = my.device
    BY <1>0, <1>c, CopyTypes DEF Version
  <2>2. ASSUME Put(me, v), Current PROVE Moves(me)
    <3>1. my = pod[me] /\ my.phase = "running"
      BY <1>0, <1>2, <2>2 DEF IInv, CopyOK, HoldsOK, AddFinalizer, Current
    <3>2. /\ pod'[me].finalizer /\ pod'[me].phase = "running"
          /\ pod'[me].device = pod[me].device
      BY <1>0, <1>c, <2>1, <2>2, <3>1, PutFields
    <3>3. pod[me].finalizer \in BOOLEAN
      BY <1>0, <1>c DEF TypeOK, Version
    <3> QED
      BY <3>1, <3>2, <3>3 DEF Moves, Taken, Kept
  <2>3. PICK again : Update(v, again)
    BY <1>2 DEF AddFinalizer
  <2> QED
    BY <1>0, <2>1, <2>2, <2>3, UpdateMoves
<1>3. CASE Annotate
  <2>1. ASSUME Put(me, my), Current PROVE Moves(me)
    <3>1. /\ my.phase = pod[me].phase /\ my.finalizer = pod[me].finalizer
          /\ my.finalizer
      BY <1>0, <1>3, <2>1 DEF IInv, CopyOK, HoldsOK, Annotate, Current
    <3>2. pod'[me].finalizer = my.finalizer /\ pod'[me].phase = my.phase
      BY <1>0, <1>c, <2>1, PutFields
    <3> QED
      BY <3>1, <3>2 DEF Moves, Kept
  <2> QED
    BY <1>0, <1>3, <1>c, <2>1, UpdateMoves DEF Annotate
<1>4. CASE Release
  <2> DEFINE v == [my EXCEPT !.finalizer = FALSE]
  <2>1. /\ v \in Version /\ v.finalizer = FALSE
        /\ v.phase = my.phase /\ v.device = my.device
    BY <1>0, <1>c, CopyTypes DEF Version
  <2>2. UNCHANGED device
        /\ excused' = IF skipped /\ pod' # pod THEN excused \cup {me} ELSE excused
    BY <1>4 DEF Release, Update
  <2>3. ASSUME Put(me, v), Current PROVE Moves(me)
    <3>1. my = pod[me] /\ my.phase = "deleting"
      BY <1>0, <1>4, <2>3 DEF IInv, CopyOK, StepOK, Release, Current
    <3>2. /\ pod'[me].finalizer = FALSE /\ pod'[me].phase = "deleting"
          /\ pod'[me].device = pod[me].device
      BY <1>0, <1>c, <2>1, <2>3, <3>1, PutFields
    <3>3. \/ pod[me].device = NoDevice \/ skipped
          \/ device[pod[me].device].state # "up"
      BY <1>0, <1>4, <3>1 DEF IInv, CleanedOK, Release
    <3>4. pod[me].finalizer \in BOOLEAN /\ skipped \in BOOLEAN
      BY <1>0, <1>c DEF TypeOK, Version
    <3>5. CASE pod[me].finalizer
      <4>1. pod' # pod
        BY <3>2, <3>5
      <4> QED
        BY <2>2, <3>1, <3>2, <3>3, <3>4, <3>5, <4>1 DEF Moves, LetGo
    <3>6. CASE pod[me].finalizer = FALSE
      BY <3>1, <3>2, <3>6 DEF Moves, Kept
    <3> QED
      BY <3>4, <3>5, <3>6
  <2>4. Update(v, End(FALSE))
    BY <1>4 DEF Release
  <2> QED
    BY <1>0, <2>1, <2>3, <2>4, UpdateMoves
<1>5. ASSUME NEW p \in Pods, CreatePod(p) PROVE \A q \in Pods : Moves(q)
  BY <1>0, <1>5, PodStepMoves DEF CreatePod, TypeOK, Version
<1>6. ASSUME NEW p \in Pods, DeletePod(p) PROVE \A q \in Pods : Moves(q)
  BY <1>0, <1>6, PodStepMoves DEF DeletePod, TypeOK, Version
<1>7. ASSUME NEW p \in Pods, RemovePod(p) PROVE \A q \in Pods : Moves(q)
  BY <1>0, <1>7, PodStepMoves DEF RemovePod, TypeOK, Version
<1>8. ASSUME NEW p \in Pods, WriteStatus(p) PROVE \A q \in Pods : Moves(q)
  BY <1>0, <1>8 DEF WriteStatus, Moves, Kept, TypeOK, Version
<1> QED
  BY <1>1, <1>2, <1>3, <1>4, <1>5, <1>6, <1>7, <1>8
  DEF Next, Pass, Start, Discover, ReadTags, SetTags, Cleanup, DeliverPod,
      DeliverTailnet, TimerFires, Resync, Restart, Register, Interfere, vars, cluster

\* Excuses are never taken back.
LEMMA ExcusesStay == [Next]_vars => excused \subseteq excused'
BY DEF Next, Pass, Start, AddFinalizer, Discover, Annotate, ReadTags, SetTags,
       Cleanup, Release, Update, DeliverPod, DeliverTailnet, TimerFires, Resync,
       Restart, CreatePod, DeletePod, RemovePod, PodStep, WriteStatus, Register,
       Interfere, vars, cluster

LEMMA HeldStep ==
    ASSUME TypeOK, TypeOK', CacheOK, HeldOK, DevicesOnward,
           excused \subseteq excused', \A p \in Pods : Moves(p)
    PROVE  HeldOK'
<1> SUFFICES ASSUME NEW p \in Pods
             PROVE  LET v == pod'[p] IN
                    /\ v.finalizer => v.phase \in {"running", "deleting"}
                    /\ ~v.finalizer /\ v.phase \in {"future", "running"}
                          => v.device = NoDevice
                    /\ ~v.finalizer /\ v.device # NoDevice
                          => p \in excused' \/ device'[v.device].state # "up"
  BY DEF HeldOK
<1>0. pod[p] \in Version /\ pod'[p] \in Version
  BY DEF TypeOK
<1>1. pod[p].device # NoDevice =>
         /\ pod[p].device \in Pods
         /\ device[pod[p].device].state \in {"none", "up", "gone"}
         /\ device[pod[p].device].state # "none"
         /\ device[pod[p].device].state = "gone" =>
               device'[pod[p].device].state = "gone"
  BY <1>0 DEF CacheOK, Named, TypeOK, Device, Version, DevicesOnward
<1>2. CASE Taken(p)
  BY <1>0, <1>2 DEF Taken
<1>3. CASE LetGo(p)
  BY <1>0, <1>3 DEF LetGo
<1>4. CASE Kept(p)
  BY <1>0, <1>1, <1>4 DEF Kept, HeldOK
<1> QED
  BY <1>2, <1>3, <1>4 DEF Moves

LEMMA EndHolds == ASSUME NEW again, End(again) PROVE HoldsOK'
BY DEF End, HoldsOK

\* What a pass does first with a copy of the pod.
LEMMA BeginHolds ==
    ASSUME my' \in Version, pc' = NextStep(my'), ~skipped'
    PROVE  HoldsOK'
BY DEF HoldsOK, NextStep, Version

LEMMA NextHolds == TypeOK /\ HoldsOK /\ [Next]_vars /\ TypeOK' => HoldsOK'
<1> SUFFICES ASSUME TypeOK, HoldsOK, [Next]_vars, TypeOK' PROVE HoldsOK'
  OBVIOUS
<1>1. ASSUME NEW again, End(again) PROVE HoldsOK'
  BY <1>1, EndHolds
<1>2. ASSUME UNCHANGED pass PROVE HoldsOK'
  BY <1>2 DEF pass, HoldsOK
<1>3. ASSUME NEW p \in Pods, Start(p) PROVE HoldsOK'
  <2>1. CASE NextStep(cached[p]) = "idle"
    BY <1>2, <1>3, <2>1 DEF Start, pass
  <2>2. CASE NextStep(cached[p]) # "idle"
    BY <1>3, <2>2, BeginHolds DEF Start, HoldsOK, TypeOK
  <2> QED
    BY <2>1, <2>2
<1>4. CASE AddFinalizer
  <2>1. CASE my' = pod'[me] /\ Continue(NextStep(my'))
    BY <1>4, <2>1, BeginHolds DEF AddFinalizer, Continue, HoldsOK, TypeOK
  <2> QED
    BY <1>1, <1>4, <2>1 DEF AddFinalizer, Update
<1>5. CASE Discover
  <2>1. ASSUME NEW d \in Registered, my' = [my EXCEPT !.device = d],
               Continue("annotate")
        PROVE  HoldsOK'
    <3>1. my'.finalizer = my.finalizer
      BY <2>1 DEF TypeOK, Version
    <3> QED
      BY <1>5, <2>1, <3>1 DEF Discover, Continue, HoldsOK
  <2> QED
    BY <1>1, <1>5, <2>1 DEF Discover
<1>6. CASE Annotate \/ Release
  BY <1>1, <1>6 DEF Annotate, Release, Update
<1>7. CASE ReadTags
  <2>1. CASE pc' = "setTags" /\ UNCHANGED <<me, my, skipped, timer>>
    BY <1>7, <2>1 DEF ReadTags, HoldsOK
  <2> QED
    BY <1>1, <1>7, <2>1 DEF ReadTags
<1>8. CASE SetTags
  BY <1>1, <1>8 DEF SetTags
<1>9. CASE Cleanup
  BY <1>1, <1>9 DEF Cleanup, Skip, Continue, HoldsOK
<1>10. CASE Restart
  BY <1>10 DEF Restart, HoldsOK
<1> QED
  BY <1>2, <1>3, <1>4, <1>5, <1>6, <1>7, <1>8, <1>9, <1>10
  DEF Next, Pass, DeliverPod, DeliverTailnet, TimerFires, Resync, CreatePod,
      DeletePod, RemovePod, PodStep, WriteStatus, Register, Interfere, vars

LEMMA InitHeld == Init => HInv
<1> SUFFICES ASSUME Init PROVE HInv
  OBVIOUS
<1>1. HoldsOK
  BY DEF Init, Rest, HoldsOK
<1>2. HeldOK
  BY DEF Init, NewPod, HeldOK
<1> QED
  BY <1>1, <1>2, InitInv DEF HInv

LEMMA NextHeld == HInv /\ [Next]_vars => HInv'
<1> SUFFICES ASSUME HInv, [Next]_vars PROVE HInv'
  OBVIOUS
<1>1. IInv' /\ TypeOK'
  BY NextInv DEF HInv, IInv
<1>2. HoldsOK'
  BY <1>1, NextHolds DEF HInv, IInv
<1>3. HeldOK'
  BY <1>1, NextMoves, NextDevices, ExcusesStay, HeldStep DEF HInv, IInv
<1> QED
  BY <1>1, <1>2, <1>3 DEF HInv

\* Every annotated pod has its finalizer, or has no device up any more, or was
\* let go by a pass that found no Tailnet or misread an error.
THEOREM HeldInvariant == Spec => []HInv
<1> QED
  BY InitHeld, NextHeld, PTL DEF Spec

\* The resource of the protocol.
DeviceUp(p) ==
    /\ pod[p].device # NoDevice /\ device[pod[p].device].state = "up"
    /\ ~Forsaken(p)

\* Without the finalizer there is no device to look after.
Guarded == \A p \in Pods : DeviceUp(p) => Owner(p) = "held"

LEMMA UpIsHeld == HInv => Guarded
BY DEF HInv, HeldOK, Guarded, DeviceUp, Forsaken, Owner

\* What a step does to the pod p is a step of the protocol.
LEMMA ProtocolStep ==
    ASSUME HInv, HInv', NEW p \in Pods, Moves(p)
    PROVE  [DeviceOf(p)!Next]_(DeviceOf(p)!vars)
<1>1. Guarded /\ Guarded'
  BY UpIsHeld, PTL
<1>2. /\ DeviceUp(p) => Owner(p) = "held"
      /\ DeviceUp(p)' => Owner(p)' = "held"
  BY <1>1 DEF Guarded
<1>3. CASE Owner(p)' = Owner(p)
  BY <1>2, <1>3
  DEF DeviceOf!Next, DeviceOf!vars, DeviceOf!Acquire, DeviceOf!Lose, DeviceUp
<1>4. CASE Owner(p) = "absent" /\ Owner(p)' = "unheld"
  BY <1>2, <1>4 DEF DeviceOf!Next, DeviceOf!Create, DeviceUp
<1>5. CASE Owner(p) = "unheld" /\ Owner(p)' = "absent"
  BY <1>2, <1>5 DEF DeviceOf!Next, DeviceOf!Vanish, DeviceUp
<1>6. CASE Taken(p)
  <2>1. pod'[p].device = NoDevice
    BY <1>6 DEF Taken, HInv, HeldOK
  <2>2. Owner(p) = "unheld" /\ Owner(p)' = "held" /\ ~DeviceUp(p)'
    BY <1>6, <2>1 DEF Taken, Owner, DeviceUp
  <2> QED
    BY <1>2, <2>2 DEF DeviceOf!Next, DeviceOf!Hold, DeviceUp
<1>7. CASE LetGo(p)
  <2>1. Owner(p) = "held" /\ Owner(p)' = "absent" /\ ~DeviceUp(p)
    BY <1>7 DEF LetGo, Owner, DeviceUp, Forsaken
  <2> QED
    BY <1>2, <2>1 DEF DeviceOf!Next, DeviceOf!Release, DeviceUp
<1>8. CASE Kept(p)
  <2>1. \/ Owner(p)' = Owner(p)
        \/ Owner(p) = "absent" /\ Owner(p)' = "unheld"
        \/ Owner(p) = "unheld" /\ Owner(p)' = "absent"
    BY <1>8 DEF Kept, Owner
  <2> QED
    BY <1>3, <1>4, <1>5, <2>1
<1> QED
  BY <1>6, <1>7, <1>8 DEF Moves

\* The device that a pod is annotated with follows the finalizer protocol: there
\* is no annotation before the finalizer, and no device up after it, but for the
\* passes that found no Tailnet or took an error for the device's absence.
THEOREM FollowsFinalizer == Spec => ImplementsFinalizer
<1>1. Init => \A p \in Pods : DeviceOf(p)!Init
  <2> SUFFICES ASSUME Init, NEW p \in Pods PROVE DeviceOf(p)!Init
    OBVIOUS
  <2>1. Owner(p) = "absent" /\ pod[p].device = NoDevice
    BY DEF Init, NewPod, Owner
  <2> QED
    BY <2>1 DEF DeviceOf!Init
<1>2. HInv /\ HInv' /\ [Next]_vars =>
         [\A p \in Pods : [DeviceOf(p)!Next]_(DeviceOf(p)!vars)]_vars
  BY NextMoves, ProtocolStep
<1> QED
  BY <1>1, <1>2, HeldInvariant, PTL DEF Spec, ImplementsFinalizer
=============================================================================
