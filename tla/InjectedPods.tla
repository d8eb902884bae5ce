----------------------------- MODULE InjectedPods -----------------------------
(***************************************************************************)
(* The count of injected pods in the status of a Tailnet, and its two      *)
(* writers: the TailnetReconciler recounts the pods of its cache in every  *)
(* pass, and the PodReconciler takes one off in the deletion of a pod.     *)
(*                                                                         *)
(* Both write a copy of the Tailnet, and the API server refuses a copy     *)
(* that is not of its latest version (fresh).  The Tailnet is Ready all    *)
(* the while; the rest of its passes is in Tailnet, the rest of the pods'  *)
(* in PodDevice.  A pod's name is used again only after the cache saw it   *)
(* go.                                                                     *)
(***************************************************************************)
EXTENDS Integers, Sequences, FiniteSets

CONSTANTS Pods, NoPod,
          MaxDisturbances   \* bound: faults, restarts and writes of others

ASSUME PodsAssumption == IsFiniteSet(Pods) /\ NoPod \notin Pods
ASSUME DisturbancesAssumption == MaxDisturbances \in Nat

VARIABLES
    versions,       \* the counts in the Tailnet: as cached, and each one since
    queued, timer,  \* the Tailnet's requests: at once, and after a delay
    pass,           \* the pass of the TailnetReconciler
    pods, podCache, \* the injected pods, and as the cache shows them
    podQueue,       \* the requests of the PodReconciler
    deletion,       \* its pass of handleDeletion
    decremented,    \* history: was the count taken off since the last recount?
    disturbances

tailnet == <<versions, queued, timer>>
vars == <<versions, queued, timer, pass, pods, podCache, podQueue, deletion,
          decremented, disturbances>>

-----------------------------------------------------------------------------
Counts == 0 .. Cardinality(Pods)

\* A "live" pod has the annotations of the webhook; one that is "terminating"
\* has the finalizer as well.
PodStates == {"none", "live", "terminating"}

Pass == [pc : {"idle", "list", "write"}, count : Counts, fresh : BOOLEAN]

Deletion == [pc : {"idle", "read", "write", "release"}, pod : Pods \cup {NoPod},
             count : Counts, fresh : BOOLEAN]

NoPass == [pc |-> "idle", count |-> 0, fresh |-> FALSE]

NoDeletion == [pc |-> "idle", pod |-> NoPod, count |-> 0, fresh |-> FALSE]

TypeOK ==
    /\ versions \in Seq(Counts) /\ Len(versions) > 0
    /\ queued \in BOOLEAN /\ timer \in {"none", "soon", "late"}
    /\ pass \in Pass
    /\ pods \in [Pods -> PodStates] /\ podCache \in [Pods -> PodStates]
    /\ podQueue \subseteq Pods
    /\ deletion \in Deletion
    /\ decremented \in BOOLEAN
    /\ disturbances \in 0 .. MaxDisturbances

Init ==
    /\ versions = <<0>>
    /\ queued = TRUE /\ timer = "none" /\ pass = NoPass
    /\ pods = [p \in Pods |-> "none"] /\ podCache = pods /\ podQueue = {}
    /\ deletion = NoDeletion
    /\ decremented = FALSE /\ disturbances = 0

-----------------------------------------------------------------------------
(* The API server.                                                         *)

Disturb == disturbances < MaxDisturbances /\ disturbances' = disturbances + 1

Calm == UNCHANGED disturbances

Cached == Head(versions)

Stored == versions[Len(versions)]

\* A copy read from the cache is fresh if the cache is up to date.
UpToDate == Len(versions) = 1

\* A status with the count n is stored; an unchanged one is no new version.
Put(n) == versions' = IF n = Stored THEN versions ELSE Append(versions, n)

\* Is r a copy of a version that the write of n made old?
Outdated(r) == [r EXCEPT !.fresh = r.fresh /\ versions' = versions]

-----------------------------------------------------------------------------
(* A pass of TailnetReconciler.Reconcile on a Tailnet that is Ready.       *)

\* A request that is due soon comes before one that is due late.
After(delay) ==
    timer' = IF "soon" \in {timer, delay} THEN "soon"
             ELSE IF "late" \in {timer, delay} THEN "late" ELSE "none"

Start ==
    /\ pass.pc = "idle" /\ queued /\ queued' = FALSE
    /\ pass' = [NoPass EXCEPT !.pc = "list", !.fresh = UpToDate]
    /\ UNCHANGED <<versions, timer, pods, podCache, podQueue, deletion,
                   decremented, disturbances>>

\* An error of a write is retried soon.
Fail == pass' = NoPass /\ After("soon")

\* updateInjectedPodsCount: every pod with the annotations counts, one that
\* is being deleted as well.
Counted == {p \in Pods : podCache[p] # "none"}

\* The OAuthValid write changes nothing here, and is refused of an old copy;
\* then the pods are listed.
List ==
    /\ pass.pc = "list"
    /\ \/ /\ pass.fresh /\ Calm
          /\ pass' = [pass EXCEPT !.pc = "write", !.count = Cardinality(Counted)]
          /\ UNCHANGED timer
       \/ ~pass.fresh /\ Fail /\ Calm
       \/ Disturb /\ Fail
    /\ UNCHANGED <<versions, queued, pods, podCache, podQueue, deletion,
                   decremented>>

\* Mutant of WriteReady: an error is only logged.
WriteReadyLogged ==
    /\ pass.pc = "write" /\ pass' = NoPass /\ After("late")
    /\ \/ /\ pass.fresh /\ Put(pass.count) /\ Calm
          /\ deletion' = Outdated(deletion) /\ decremented' = FALSE
       \/ ~pass.fresh /\ UNCHANGED <<versions, deletion, decremented>> /\ Calm
       \/ Disturb /\ UNCHANGED <<versions, deletion, decremented>>
    /\ UNCHANGED <<queued, pods, podCache, podQueue>>

\* Mutant of WriteReady: the pass asks for no other.
WriteReadyOnce ==
    /\ pass.pc = "write"
    /\ \/ /\ pass.fresh /\ Put(pass.count) /\ Calm
          /\ pass' = NoPass /\ UNCHANGED timer
          /\ deletion' = Outdated(deletion) /\ decremented' = FALSE
       \/ /\ ~pass.fresh /\ Fail /\ Calm
          /\ UNCHANGED <<versions, deletion, decremented>>
    /\ UNCHANGED <<queued, pods, podCache, podQueue>>

\* The last write of the pass carries the count.
WriteReady ==
    /\ pass.pc = "write"
    /\ \/ /\ pass.fresh /\ Put(pass.count) /\ Calm
          /\ pass' = NoPass /\ After("late")
          /\ deletion' = Outdated(deletion) /\ decremented' = FALSE
       \/ /\ ~pass.fresh /\ Fail /\ Calm
          /\ UNCHANGED <<versions, deletion, decremented>>
       \/ Disturb /\ Fail /\ UNCHANGED <<versions, deletion, decremented>>
       \/ /\ Disturb /\ pass.fresh /\ Put(pass.count) /\ Fail
          /\ deletion' = Outdated(deletion) /\ decremented' = FALSE
    /\ UNCHANGED <<queued, pods, podCache, podQueue>>

TailnetPass == List \/ WriteReady

-----------------------------------------------------------------------------
(* PodReconciler.handleDeletion, from where the device is gone.            *)

\* The pods that handleDeletion is for; the requests of others are in PodDevice.
Deleting == {p \in Pods : podCache[p] = "terminating"}

StartDeletion(p) ==
    /\ deletion.pc = "idle" /\ p \in podQueue
    /\ podQueue' = podQueue \ {p}
    /\ deletion' = [NoDeletion EXCEPT !.pc = "read", !.pod = p]
    /\ UNCHANGED <<tailnet, pass, pods, podCache, decremented, disturbances>>

\* decrementInjectedPods reads the cached Tailnet.
ReadCount ==
    /\ deletion.pc = "read"
    /\ deletion' = [deletion EXCEPT !.pc = "write", !.count = Cached,
                                    !.fresh = UpToDate]
    /\ UNCHANGED <<tailnet, pass, pods, podCache, podQueue, decremented,
                   disturbances>>

OneLess(n) == IF n > 0 THEN n - 1 ELSE n

\* Mutant of WriteCount: a patch, which needs no version.
WriteCountAnyway ==
    /\ deletion.pc = "write"
    /\ Put(OneLess(deletion.count)) /\ Calm
    /\ pass' = Outdated(pass)
    /\ decremented' = (decremented \/ versions' # versions)
    /\ deletion' = [NoDeletion EXCEPT !.pc = "release", !.pod = deletion.pod]
    /\ UNCHANGED <<queued, timer, pods, podCache, podQueue>>

\* An error of the decrement does not keep the pod.
WriteCount ==
    /\ deletion.pc = "write"
    /\ \/ deletion.fresh /\ Put(OneLess(deletion.count)) /\ Calm
       \/ ~deletion.fresh /\ UNCHANGED versions /\ Calm
       \/ Disturb /\ UNCHANGED versions
    /\ pass' = Outdated(pass)
    /\ decremented' = (decremented \/ versions' # versions)
    /\ deletion' = [NoDeletion EXCEPT !.pc = "release", !.pod = deletion.pod]
    /\ UNCHANGED <<queued, timer, pods, podCache, podQueue>>

\* The finalizer is removed, or handleDeletion comes again from its start.
Release ==
    /\ deletion.pc = "release" /\ deletion' = NoDeletion
    /\ LET p == deletion.pod
           again == podQueue' = podQueue \cup ({p} \cap Deleting)
       IN  \/ /\ pods[p] = "terminating" /\ Calm
              /\ pods' = [pods EXCEPT ![p] = "none"] /\ UNCHANGED podQueue
           \/ pods[p] # "terminating" /\ again /\ Calm /\ UNCHANGED pods
           \/ Disturb /\ again /\ UNCHANGED pods
    /\ UNCHANGED <<tailnet, pass, podCache, decremented>>

DeletionPass == ReadCount \/ WriteCount \/ Release

-----------------------------------------------------------------------------
(* Everybody else.                                                         *)

\* A watch event of the Tailnet queues the Tailnet and all of its pods.
Deliver ==
    /\ ~UpToDate /\ versions' = Tail(versions)
    /\ queued' = TRUE /\ podQueue' = podQueue \cup Deleting
    /\ UNCHANGED <<timer, pass, pods, podCache, deletion, decremented,
                   disturbances>>

\* A watch event of a pod queues the pod, and no Tailnet.
DeliverPod(p) ==
    /\ podCache[p] # pods[p] /\ podCache' = [podCache EXCEPT ![p] = pods[p]]
    /\ podQueue' = (podQueue \cup {p}) \cap Deleting'
    /\ UNCHANGED <<tailnet, pass, pods, deletion, decremented, disturbances>>

TimerFires ==
    /\ timer # "none" /\ timer' = "none" /\ queued' = TRUE
    /\ UNCHANGED <<versions, pass, pods, podCache, podQueue, deletion,
                   decremented, disturbances>>

\* The manager restarts: its memory is gone, its informers list afresh.
Restart ==
    /\ Disturb
    /\ versions' = <<Stored>> /\ queued' = TRUE /\ timer' = "none"
    /\ pass' = NoPass /\ deletion' = NoDeletion
    /\ podCache' = pods /\ podQueue' = Deleting'
    /\ UNCHANGED <<pods, decremented>>

\* Another write of the Tailnet.
Foreign ==
    /\ Disturb /\ versions' = Append(versions, Stored)
    /\ pass' = Outdated(pass) /\ deletion' = Outdated(deletion)
    /\ UNCHANGED <<queued, timer, pods, podCache, podQueue, decremented>>

\* The webhook admits a pod; a deleted pod goes at once if the PodReconciler
\* has not given it the finalizer yet.
PodChanges(p) ==
    /\ \/ /\ pods[p] = "none" /\ podCache[p] = "none"
          /\ pods' = [pods EXCEPT ![p] = "live"]
       \/ /\ pods[p] = "live"
          /\ \E gone \in {"terminating", "none"} : pods' = [pods EXCEPT ![p] = gone]
    /\ UNCHANGED <<tailnet, pass, podCache, podQueue, deletion, decremented,
                   disturbances>>

Next ==
    \/ Start \/ TailnetPass
    \/ DeletionPass
    \/ Deliver \/ TimerFires \/ Restart \/ Foreign
    \/ \E p \in Pods : StartDeletion(p) \/ DeliverPod(p) \/ PodChanges(p)

Spec == Init /\ [][Next]_vars

\* The workers run, the watches deliver, and the timers fire, the late one too.
Fairness ==
    /\ WF_vars(Start) /\ WF_vars(TailnetPass) /\ WF_vars(DeletionPass)
    /\ WF_vars(Deliver) /\ WF_vars(TimerFires)
    /\ \A p \in Pods : WF_vars(StartDeletion(p)) /\ WF_vars(DeliverPod(p))

FairSpec == Spec /\ Fairness

-----------------------------------------------------------------------------
(* Safety.                                                                 *)

\* A deletion takes at most one off the count that the Tailnet has, and not from
\* zero, although it works on a cached copy: it never puts an older count back
\* over a recount.
DecrementIsByOne ==
    [][deletion.pc = "write" /\ deletion' # deletion /\ deletion'.pc = "release"
          => versions'[Len(versions')] \in {Stored, Stored - 1} \cap Nat]_vars

\* A deletion that is repeated, after a refused write or on an old copy of its
\* pod, takes the pod off again.  But a count that was taken off is never left
\* to the look that is due after 67 days: a pass that recounts is on its way.
DecrementsAreRecounted ==
    decremented => queued \/ ~UpToDate \/ pass.pc # "idle" \/ timer = "soon"

-----------------------------------------------------------------------------
(* Liveness.                                                               *)

\* Once pods no longer come and go, the count is the number of them, whatever
\* the recounts and decrements before did to each other.
CountConverges ==
    \A n \in Counts :
       <>[](Cardinality({p \in Pods : pods[p] # "none"}) = n) => <>[](Stored = n)
=============================================================================
