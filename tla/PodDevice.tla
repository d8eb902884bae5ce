------------------------------ MODULE PodDevice ------------------------------
(***************************************************************************)
(* The PodReconciler: injected pods, the device each registers with        *)
(* Tailscale, and the finalizer that has the device deleted with its pod.  *)
(*                                                                         *)
(* One worker runs one pass of Reconcile at a time, over a cached copy of  *)
(* one pod.  The pod p registers the device p under its name, HostOf[p];   *)
(* pods of different namespaces may share a name.  A pod that is recreated *)
(* is another element of Pods.  The informers may skip versions but never  *)
(* go back.                                                                *)
(*                                                                         *)
(* All pods are injected and name the one Tailnet.  Left out: the count of *)
(* injected pods that handleDeletion decrements on the way (its errors are *)
(* only logged).  The webhook sees every update of a pod; when it refuses  *)
(* one, the update has failed like any other.                              *)
(***************************************************************************)
EXTENDS Integers, FiniteSets

CONSTANTS Pods, HostOf,     \* the pods and the name of each
          NoDevice,         \* the missing device-id annotation
          Tags,             \* the tag lists a Tailnet may ask for
          MaxDisturbances   \* bound: faults, crashes, interference

ASSUME PodsAssumption == Pods # {}
ASSUME NoDeviceAssumption == NoDevice \notin Pods
ASSUME BoundAssumption == MaxDisturbances \in Nat
ASSUME TagsAssumption == Tags # {}

VARIABLES
    pod, cached,            \* the pods in the API server and in the cache
    queued, timer,          \* pods with a request queued, or due later
    pc, me, my,             \* the pass: next call, its pod, its copy of it
    wish,                   \* the tags the pass read from the Tailnet
    device,                 \* the devices as Tailscale knows them
    tailnet, cachedTailnet, \* the Tailnet, and the cache's copy of it
    oauthSecret,            \* can a client be made from the OAuth Secret?
    permitted,              \* does Tailscale let that client act?
    skipped, excused,       \* history: did this pass go on without knowing the
                            \* device deleted, and those pods that were let go
                            \* by passes which did?
    disturbances            \* how often something went wrong or interfered

cluster == <<pod, cached, device, tailnet, cachedTailnet, oauthSecret, permitted,
             excused>>
pass    == <<pc, me, my, wish, skipped>>
vars    == <<cluster, pass, queued, timer, disturbances>>

-----------------------------------------------------------------------------
Version == [rv : Nat,
            phase : {"future", "running", "deleting", "gone"},
            finalizer : BOOLEAN,
            device : Pods \cup {NoDevice}]      \* the device-id annotation

NewPod == [rv |-> 0, phase |-> "future", finalizer |-> FALSE, device |-> NoDevice]

Device == [state : {"none", "up", "gone"}, tags : Tags]

Steps == {"idle", "addFinalizer", "discover", "annotate", "readTags", "setTags",
          "cleanup", "release"}

TypeOK ==
    /\ pod \in [Pods -> Version] /\ cached \in [Pods -> Version]
    /\ queued \subseteq Pods /\ timer \subseteq Pods
    /\ pc \in Steps /\ me \in Pods /\ my \in Version /\ wish \in Tags
    /\ device \in [Pods -> Device]
    /\ tailnet \in [there : BOOLEAN, tags : Tags]
    /\ cachedTailnet \in [there : BOOLEAN, tags : Tags]
    /\ oauthSecret \in BOOLEAN /\ permitted \in BOOLEAN /\ skipped \in BOOLEAN
    /\ excused \subseteq Pods
    /\ disturbances \in 0 .. MaxDisturbances

AnyPod == CHOOSE p \in Pods : TRUE
AnyTags == CHOOSE t \in Tags : TRUE

Rest(p) == /\ pc = "idle" /\ me = p /\ my = NewPod /\ wish = AnyTags
           /\ skipped = FALSE

Init ==
    /\ pod = [p \in Pods |-> NewPod] /\ cached = pod
    /\ queued = {} /\ timer = {}
    /\ Rest(AnyPod)
    /\ device = [p \in Pods |-> [state |-> "none", tags |-> AnyTags]]
    /\ tailnet = [there |-> TRUE, tags |-> AnyTags] /\ cachedTailnet = tailnet
    /\ oauthSecret = TRUE /\ permitted = TRUE /\ excused = {}
    /\ disturbances = 0

-----------------------------------------------------------------------------
(* A pass of Reconcile.                                                    *)

Disturb == disturbances < MaxDisturbances /\ disturbances' = disturbances + 1

Calm == UNCHANGED disturbances

Put(p, v) ==
    IF v = pod[p] THEN UNCHANGED pod
    ELSE pod' = [pod EXCEPT ![p] = [v EXCEPT !.rv = pod[p].rv + 1]]

\* The optimistic concurrency check of r.Update.
Current == pod[me].phase \in {"running", "deleting"} /\ my.rv = pod[me].rv

\* The pass ends, with or without a RequeueAfter, Requeue or error.
End(again) ==
    /\ pc' = "idle" /\ me' = AnyPod /\ my' = NewPod /\ wish' = AnyTags
    /\ skipped' = FALSE
    /\ timer' = IF again THEN timer \cup {me} ELSE timer

Continue(step) ==
    /\ pc' = step /\ UNCHANGED <<me, wish, skipped, timer>>

\* Mutant of NextStep: the finalizer waits for the device.
NextStepLateFinalizer(v) ==
    CASE v.phase \in {"future", "gone"} -> "idle"
      [] v.phase = "deleting" /\ ~v.finalizer -> "idle"
      [] v.phase = "deleting" /\ v.finalizer ->
            IF v.device # NoDevice THEN "cleanup" ELSE "release"
      [] v.phase = "running" /\ v.device = NoDevice -> "discover"
      [] v.phase = "running" /\ v.device # NoDevice ->
            IF v.finalizer THEN "readTags" ELSE "addFinalizer"

\* What Reconcile and handleDeletion do next with a copy v.
NextStep(v) ==
    CASE v.phase \in {"future", "gone"} -> "idle"
      [] v.phase = "deleting" /\ ~v.finalizer -> "idle"
      [] v.phase = "deleting" /\ v.finalizer ->
            IF v.device # NoDevice THEN "cleanup" ELSE "release"
      [] v.phase = "running" /\ ~v.finalizer -> "addFinalizer"
      [] v.phase = "running" /\ v.finalizer ->
            IF v.device = NoDevice THEN "discover" ELSE "readTags"

Start(p) ==
    /\ pc = "idle" /\ p \in queued /\ queued' = queued \ {p}
    /\ IF NextStep(cached[p]) = "idle"
       THEN UNCHANGED <<pc, me, my>>
       ELSE pc' = NextStep(cached[p]) /\ me' = p /\ my' = cached[p]
    /\ UNCHANGED <<cluster, wish, skipped, timer, disturbances>>

\* r.Update of the pass's pod: stored, refused, or failed on the way.
Update(v, OnSuccess) ==
    /\ UNCHANGED <<cached, queued, device, tailnet, cachedTailnet, oauthSecret,
                   permitted>>
    /\ \/ Current /\ Put(me, v) /\ OnSuccess /\ Calm
       \/ ~Current /\ UNCHANGED pod /\ End(TRUE) /\ Calm
       \/ Disturb /\ UNCHANGED pod /\ End(TRUE)
       \/ Disturb /\ Current /\ Put(me, v) /\ End(TRUE)
    /\ excused' = IF skipped /\ pod' # pod THEN excused \cup {me} ELSE excused

\* With the finalizer in place the same pass goes on.
AddFinalizer ==
    /\ pc = "addFinalizer"
    /\ Update([my EXCEPT !.finalizer = TRUE],
              my' = pod'[me] /\ Continue(NextStep(my')))

\* discoverDeviceID and reconcileDeviceTags give up, and retry, without a
\* Tailnet or a client, and when Tailscale does not answer.
Reachable == cachedTailnet.there /\ oauthSecret /\ permitted

GiveUp == \/ ~Reachable /\ Calm
          \/ Disturb

Registered == {d \in Pods : device[d].state = "up"}

\* Mutant of Discover: the annotation gets the hostname, not the node ID.
DiscoverHostname ==
    /\ pc = "discover"
    /\ \/ /\ Reachable /\ Calm
          /\ \E d \in Registered : /\ HostOf[d] = HostOf[me]
                                   /\ my' = [my EXCEPT !.device = HostOf[d]]
          /\ Continue("annotate")
       \/ /\ Reachable /\ Calm /\ End(TRUE)
          /\ \A d \in Registered : HostOf[d] # HostOf[me]
       \/ GiveUp /\ End(TRUE)
    /\ UNCHANGED <<cluster, queued>>

\* Mutant of Discover: the first device of the list will do.
DiscoverFirst ==
    /\ pc = "discover"
    /\ \/ /\ Reachable /\ Calm
          /\ \E d \in Registered : my' = [my EXCEPT !.device = d]
          /\ Continue("annotate")
       \/ Reachable /\ Calm /\ End(TRUE) /\ Registered = {}
       \/ GiveUp /\ End(TRUE)
    /\ UNCHANGED <<cluster, queued>>

\* Any of the devices that bear the pod's name may come first in the list.
Discover ==
    /\ pc = "discover"
    /\ \/ /\ Reachable /\ Calm
          /\ \E d \in Registered : /\ HostOf[d] = HostOf[me]
                                   /\ my' = [my EXCEPT !.device = d]
          /\ Continue("annotate")
       \/ /\ Reachable /\ Calm /\ End(TRUE)
          /\ \A d \in Registered : HostOf[d] # HostOf[me]
       \/ GiveUp /\ End(TRUE)
    /\ UNCHANGED <<cluster, queued>>

Annotate == pc = "annotate" /\ Update(my, End(FALSE))

\* The pass reads the Tailnet's tags and the device's.
ReadTags ==
    /\ pc = "readTags"
    /\ \/ /\ Reachable /\ Calm /\ device[my.device].state = "up"
          /\ IF device[my.device].tags = cachedTailnet.tags THEN End(FALSE)
             ELSE /\ pc' = "setTags" /\ wish' = cachedTailnet.tags
                  /\ UNCHANGED <<me, my, skipped, timer>>
       \/ /\ Reachable /\ Calm /\ device[my.device].state # "up" /\ End(TRUE)
       \/ GiveUp /\ End(TRUE)
    /\ UNCHANGED <<cluster, queued>>

Retag(d) == IF device[d].state = "up"
            THEN device' = [device EXCEPT ![d].tags = wish]
            ELSE UNCHANGED device

SetTags ==
    /\ pc = "setTags"
    /\ LET d == my.device IN
          \/ /\ permitted /\ Retag(d) /\ Calm
             /\ End(device[d].state # "up")
          \/ ~permitted /\ UNCHANGED device /\ End(TRUE) /\ Calm
          \/ Disturb /\ (UNCHANGED device \/ Retag(d)) /\ End(TRUE)
    /\ UNCHANGED <<pod, cached, tailnet, cachedTailnet, oauthSecret, permitted,
                   excused, queued>>

\* A device that is not there any more counts as deleted.
Drop(d) == IF device[d].state = "up"
           THEN device' = [device EXCEPT ![d].state = "gone"]
           ELSE UNCHANGED device

\* The pass goes on to let the pod go, without having had the device deleted.
Skip == /\ pc' = "release" /\ skipped' = TRUE
        /\ UNCHANGED <<me, my, wish, timer>>

\* Mutant of Cleanup: errors are only logged.
CleanupLogged ==
    /\ pc = "cleanup"
    /\ \/ UNCHANGED device /\ Calm /\ ~Reachable
       \/ Reachable /\ Drop(my.device) /\ Calm
       \/ Disturb /\ UNCHANGED device
    /\ Continue("release") /\ UNCHANGED my
    /\ UNCHANGED <<pod, cached, tailnet, cachedTailnet, oauthSecret, permitted,
                   excused, queued>>

\* Mutant of Cleanup: "not found" is an error like any other.
CleanupNeedsDevice ==
    /\ pc = "cleanup"
    /\ \/ ~cachedTailnet.there /\ UNCHANGED device /\ Calm /\ Skip
       \/ /\ Reachable /\ Calm
          /\ IF device[my.device].state = "up"
             THEN Drop(my.device) /\ Continue("release") /\ UNCHANGED my
             ELSE UNCHANGED device /\ End(TRUE)
       \/ /\ cachedTailnet.there /\ ~Reachable
          /\ UNCHANGED device /\ End(TRUE) /\ Calm
    /\ UNCHANGED <<pod, cached, tailnet, cachedTailnet, oauthSecret, permitted,
                   excused, queued>>

\* cleanupDevice.  Its errors end the pass and bring another one; but an error
\* of Devices().Delete, whichever it is, counts as "already deleted" when its
\* text has "404" or "not found" in it.  A client that may not act (of another
\* tailnet, say) can get such an answer, and any fault can read like one: the
\* text quotes the URL and with it the device's ID.
Cleanup ==
    /\ pc = "cleanup"
    /\ \/ ~cachedTailnet.there /\ UNCHANGED device /\ Calm /\ Skip
       \/ /\ Reachable /\ Drop(my.device) /\ Calm
          /\ Continue("release") /\ UNCHANGED my
       \/ /\ cachedTailnet.there /\ ~Reachable /\ UNCHANGED device /\ Calm
          /\ End(TRUE) \/ (oauthSecret /\ Skip)
       \/ /\ cachedTailnet.there /\ Disturb
          /\ UNCHANGED device \/ (Reachable /\ Drop(my.device))
          /\ End(TRUE) \/ (oauthSecret /\ Skip)
    /\ UNCHANGED <<pod, cached, tailnet, cachedTailnet, oauthSecret, permitted,
                   excused, queued>>

Release ==
    /\ pc = "release"
    /\ Update([my EXCEPT !.finalizer = FALSE], End(FALSE))

Pass == \/ AddFinalizer \/ Discover \/ Annotate \/ ReadTags \/ SetTags
        \/ Cleanup \/ Release

-----------------------------------------------------------------------------
(* Everybody else.                                                         *)

\* The informer's event queues the pod.
DeliverPod(p) ==
    /\ cached[p] # pod[p]
    /\ cached' = [cached EXCEPT ![p] = pod[p]]
    /\ queued' = queued \cup {p}
    /\ UNCHANGED <<pod, device, tailnet, cachedTailnet, oauthSecret, permitted,
                   excused, pass, timer, disturbances>>

\* Mutant of DeliverTailnet: the handler of updates queues nothing.
DeliverTailnetOnly ==
    /\ cachedTailnet # tailnet /\ cachedTailnet' = tailnet
    /\ UNCHANGED <<pod, cached, device, tailnet, oauthSecret, permitted, excused,
                   pass, queued, timer, disturbances>>

\* tailnetEventHandler: an update queues the pods of the cache, a deletion none.
DeliverTailnet ==
    /\ cachedTailnet # tailnet /\ cachedTailnet' = tailnet
    /\ queued' = queued \cup {p \in Pods : /\ tailnet.there
                                           /\ cached[p].phase \in {"running", "deleting"}}
    /\ UNCHANGED <<pod, cached, device, tailnet, oauthSecret, permitted, excused,
                   pass, timer, disturbances>>

TimerFires(p) ==
    /\ p \in timer /\ timer' = timer \ {p} /\ queued' = queued \cup {p}
    /\ UNCHANGED <<cluster, pass, disturbances>>

\* The informer's resync, which comes every ten hours and is not relied on.
Resync(p) ==
    /\ cached[p].phase \in {"running", "deleting"}
    /\ p \notin queued /\ queued' = queued \cup {p}
    /\ UNCHANGED <<cluster, pass, timer, disturbances>>

Restart ==
    /\ Disturb
    /\ pc' = "idle" /\ me' = AnyPod /\ my' = NewPod /\ wish' = AnyTags
    /\ skipped' = FALSE /\ timer' = {}
    /\ cached' = pod /\ cachedTailnet' = tailnet
    /\ queued' = {p \in Pods : pod[p].phase \in {"running", "deleting"}}
    /\ UNCHANGED <<pod, device, tailnet, oauthSecret, permitted, excused>>

PodStep(p, v) ==
    /\ Put(p, v)
    /\ UNCHANGED <<cached, device, tailnet, cachedTailnet, oauthSecret, permitted,
                   excused, pass, queued, timer>>

\* The API server creates the pod with what the webhook injected.
CreatePod(p) ==
    /\ pod[p].phase = "future"
    /\ PodStep(p, [pod[p] EXCEPT !.phase = "running"]) /\ Calm

DeletePod(p) ==
    /\ pod[p].phase = "running"
    /\ PodStep(p, [pod[p] EXCEPT !.phase = "deleting"]) /\ Calm

\* After the grace period the kubelet lets a pod without finalizers go.
RemovePod(p) ==
    /\ pod[p].phase = "deleting" /\ ~pod[p].finalizer
    /\ PodStep(p, [pod[p] EXCEPT !.phase = "gone"]) /\ Calm

\* The kubelet writes the pod's status.
WriteStatus(p) ==
    /\ pod[p].phase \in {"running", "deleting"} /\ Disturb
    /\ pod' = [pod EXCEPT ![p].rv = @ + 1]
    /\ UNCHANGED <<cached, device, tailnet, cachedTailnet, oauthSecret, permitted,
                   excused, pass, queued, timer>>

\* The sidecar logs in, with the tags of the auth key it was given.
Register(p) ==
    /\ pod[p].phase \in {"running", "deleting"} /\ device[p].state = "none"
    /\ \E t \in Tags : device' = [device EXCEPT ![p] = [state |-> "up", tags |-> t]]
    /\ UNCHANGED <<pod, cached, tailnet, cachedTailnet, oauthSecret, permitted,
                   excused, pass, queued, timer, disturbances>>

\* Somebody deletes a device in Tailscale, edits, removes or recreates the
\* Tailnet, or changes what the credentials rest on.
Interfere ==
    /\ Disturb
    /\ \/ /\ \E d \in Registered : Drop(d)
          /\ UNCHANGED <<tailnet, oauthSecret, permitted>>
       \/ /\ tailnet.there /\ \E t \in Tags : tailnet' = [tailnet EXCEPT !.tags = t]
          /\ UNCHANGED <<device, oauthSecret, permitted>>
       \/ /\ tailnet' = [tailnet EXCEPT !.there = ~@]
          /\ UNCHANGED <<device, oauthSecret, permitted>>
       \/ /\ oauthSecret' = ~oauthSecret
          /\ UNCHANGED <<device, tailnet, permitted>>
       \/ /\ permitted' = ~permitted
          /\ UNCHANGED <<device, tailnet, oauthSecret>>
    /\ UNCHANGED <<pod, cached, cachedTailnet, excused, pass, queued, timer>>

Next ==
    \/ Pass \/ DeliverTailnet \/ Restart \/ Interfere
    \/ \E p \in Pods :
          \/ Start(p) \/ DeliverPod(p) \/ TimerFires(p) \/ Resync(p)
          \/ CreatePod(p) \/ DeletePod(p) \/ RemovePod(p)
          \/ WriteStatus(p) \/ Register(p)

Spec == Init /\ [][Next]_vars

\* The worker and the queue serve every pod; the watches deliver; the kubelet
\* finishes the deletions it began.
Fairness ==
    /\ WF_vars(Pass) /\ WF_vars(DeliverTailnet)
    /\ \A p \in Pods : /\ SF_vars(Start(p)) /\ WF_vars(DeliverPod(p))
                       /\ WF_vars(TimerFires(p)) /\ WF_vars(RemovePod(p))

FairSpec == Spec /\ Fairness

-----------------------------------------------------------------------------
(* Safety.                                                                 *)

UniqueHosts == \A p, q \in Pods : HostOf[p] = HostOf[q] => p = q

\* A device is deleted only for a pod of its name that is on its way out: as
\* long as names are unique, no running pod loses its device.
OnlyDeletedPodsLoseDevices ==
    [][\A d \in Pods : Cleanup /\ device[d].state = "up" /\ device'[d].state # "up"
          => \E p \in Pods : /\ HostOf[p] = HostOf[d]
                             /\ pod[p].phase \in {"deleting", "gone"}]_vars

\* The finalizer of a deleted pod goes only when the device the pod is
\* annotated with is gone, unless the pass found no Tailnet to ask or took an
\* error for the device's absence.
DeviceGoesFirst ==
    [][\A p \in Pods : pod[p].finalizer /\ ~pod'[p].finalizer
          => LET d == pod[p].device IN
             d = NoDevice \/ skipped \/ device[d].state # "up"]_vars

\* Without its finalizer a pod that is being deleted is as good as gone.
Owner(p) ==
    IF pod[p].finalizer THEN "held"
    ELSE IF pod[p].phase = "running" THEN "unheld" ELSE "absent"

\* What p may leave behind if the pass that is under way lets it go.
Forsaken(p) == p \in excused \/ (me = p /\ skipped)

\* The device that a pod is annotated with is a resource held by the pod's
\* finalizer, whoever else bears its name: no pod is annotated before it has the
\* finalizer, and none leaves a device up that it is annotated with, unless the
\* pass that let it go found no Tailnet or took an error for the device's absence.
DeviceOf(p) == INSTANCE FinalizerProtocol
    WITH owner <- Owner(p),
         resource <- /\ pod[p].device # NoDevice /\ device[pod[p].device].state = "up"
                     /\ ~Forsaken(p)

ImplementsFinalizer ==
    /\ \A p \in Pods : DeviceOf(p)!Init
    /\ [][\A p \in Pods : [DeviceOf(p)!Next]_(DeviceOf(p)!vars)]_vars

-----------------------------------------------------------------------------
(* Liveness.                                                               *)

\* Nothing holds a deleted pod back once Tailscale can be asked, or there is
\* no Tailnet any more.
DeletionCompletes ==
    <>[](tailnet.there => oauthSecret /\ permitted)
        => \A p \in Pods : pod[p].phase = "deleting" ~> pod[p].phase = "gone"

\* In the end a running pod whose device is up is annotated with a device,
\* and the device it is annotated with has the tags the Tailnet asks for.
Annotated(p) ==
    pod[p].phase = "running" /\ device[p].state = "up" => pod[p].device # NoDevice

Tagged(p) ==
    LET d == pod[p].device IN
    pod[p].phase = "running" /\ d # NoDevice /\ device[d].state = "up"
        => device[d].tags = tailnet.tags

Converges ==
    <>[](tailnet.there /\ oauthSecret /\ permitted)
        => \A p \in Pods : <>[](Annotated(p) /\ Tagged(p))

-----------------------------------------------------------------------------
(* What comments of the code say, and it does not keep.                    *)

\* The annotation "stores the Tailscale device ID" of the pod: with two pods
\* of one name it may store the other's.
AnnotationNamesOwnDevice ==
    \A p \in Pods : pod[p].device \in {p, NoDevice}
=============================================================================
