# Tailcar in TLA+

Tailcar is a Kubernetes operator. It keeps Tailscale auth keys for `Tailnet`
objects, has a webhook inject a Tailscale sidecar into pods, keeps track of the
device each such pod registers, and publishes `Tailserve` objects as Tailscale
services. All of its components are loops over cached copies of objects that
others write as well, between calls to an API outside the cluster that may fail,
or fail to answer. The modules here are about what that does: stale caches,
refused writes, crashes between two steps, and cleanup that has to finish.

## The system

| Component | Code | State it keeps | Operations |
| --- | --- | --- | --- |
| TailnetReconciler | `src/internal/controller/tailnet_controller.go` | `Tailnet` status (conditions, `authKeyID`, suffix, count), its finalizer, the Secret `<tailnet>-authkey`, auth keys in Tailscale | `Reconcile`, `handleDeletion`, `ensureAuthKey`, `ensureAuthKeySecret`, `ensureMagicDNSSuffix`, `updateInjectedPodsCount`, `updateStatus` |
| PodReconciler | `src/internal/controller/pod_controller.go` | the pod's finalizer and `device-id` annotation, devices and their tags in Tailscale | `Reconcile`, `handleDeletion`, `cleanupDevice`, `discoverDeviceID`, `reconcileDeviceTags`, `decrementInjectedPods`, `enqueuePods` |
| TailserveReconciler | `src/internal/controller/tailserve_controller.go` | `Tailserve` status, its finalizer, the ConfigMap `<tailserve>-serve-config`, a service in Tailscale | `Reconcile`, `handleDeletion`, `updateStatus`, serve config functions |
| ServiceClient | `src/internal/tailscale/services.go` | none | `GetService`, `CreateService`, `DeleteService`, `ListServices` |
| PodMutator | `src/internal/webhook/pod_mutator.go` | copies of the auth key Secret and of the serve config in pods' namespaces | `Handle`, `ensureAuthKeySecret`, `ensureServeConfigMap`, `injectSidecar` |
| Manager | `src/cmd/manager/main.go` | none | wiring |

How they interact:

- The API server holds the objects. Every reconciler reads them from the
  informer cache of the one manager process and writes them with the
  `resourceVersion` it read; a write of an older version is refused. Each
  controller has one worker.
- A Tailnet's status and Secret are read by the webhook, its spec and Secret
  reference by the other two reconcilers. The PodReconciler also writes the
  status of Tailnets (the count of injected pods) and is queued by their updates.
  The TailserveReconciler is not: it learns of a Tailnet's change at the next
  event of the Tailserve, or at the informer's resync.
- The webhook copies the Secret and the serve config into the namespaces of the
  pods, several requests at a time, from caches that know nothing of each other.
  Its copies have no owner and no reconciler.
- Finalizers tie what lives in Tailscale to objects in the cluster: an auth key
  to its Tailnet, a device to its pod, a service to its Tailserve.

What is hard about it: passes over stale copies; several external effects in one
pass, any of which may fail, or take effect and still report failure; a crash
between two of them; deletion while the credentials are already gone; and
progress that rests on a retry, an event or a resync that a return statement
forgot to ask for. `PROJECT.json` lists these hazards line by line, each with
the properties that would catch it.

What makes each component correct:

- *TailnetReconciler*: nothing of a Tailnet outlives it; it makes a key only
  under its finalizer, loses few keys, and ends up Ready with a live key.
- *PodReconciler*: a pod is annotated with its own device; the device goes
  before the pod does; no running pod loses its device; tags follow the Tailnet.
- *TailserveReconciler*: service and ConfigMap go with the Tailserve; Ready means
  that the service is as the spec has it; addresses survive updates.
- *PodMutator*: an admitted pod finds in its namespace a key as new as the one known
  when its request began, and the serve config it mounts; copies do not go back, and
  where the copy is the source, no rotation is undone; a pod that is refused because
  of others, or of an old cache, gets in later.
- *The count of injected pods*, which two reconcilers write: no decrement undoes a
  recount, and in the end the count is right.
- *The functions*: what the sidecar is told to serve is what Tailscale is asked for,
  and the three controllers agree about credentials.

## The modules

| Module | What it is |
| --- | --- |
| `FinalizerProtocol` | The abstract promise: a resource exists only while its owner holds a finalizer. |
| `KeySource` | The promise of the TailnetReconciler to those who copy the auth key Secret: no key comes back. |
| `Tailnet` | TailnetReconciler, its informer, queue and timer, the Secret and the auth keys. |
| `Rotation` | The same reconciler against the clock: a key's life, the requeue, the resync. |
| `PodDevice` | PodReconciler over several pods, their devices and the Tailnet they name. |
| `InjectedPods` | The count of injected pods: TailnetReconciler and PodReconciler composed, as far as they write the status of one Tailnet. |
| `Tailserve` | TailserveReconciler and ServiceClient, the services, the ConfigMaps, the Tailnets they depend on. |
| `Admission` | PodMutator: concurrent requests, the copies and their sources, what the reconcilers do to these. |
| `ServeConfig` | The pure functions of the three controllers. |
| `FinalizerProofs`, `TailnetProofs`, `RotationProofs`, `PodDeviceProofs`, `InjectedPodsProofs`, `TailserveProofs`, `AdmissionProofs`, `ServeConfigProofs` | Theorems about the modules they are named for. |
| `MCTailnet`, `MCRotation`, `MCPodDevice`, `MCInjectedPods`, `MCTailserve`, `MCAdmission`, `MCServeConfig` | Instances for TLC. |

`Tailnet` implements `FinalizerProtocol`: the Secret is a resource of the Tailnet.
`PodDevice` and `Tailserve` implement it once for each object, with the device a pod
is annotated with, and the service and the ConfigMap of a Tailserve, as resources,
but for what the code lets go of knowingly (`excused`, `skipped`). `Tailnet` also
implements `KeySource`. `Admission` takes the TailnetReconciler to be what `KeySource` says; the
webhook itself keeps that only while the Secret is there (`SourceIsTheReconcilers`). A
request that finds it removed may bring an old key back (`OnlyOldRequestsRevive`, and
item 9 below).

The same conventions hold in the models of processes (`Tailnet`, `PodDevice`,
`InjectedPods`, `Tailserve`, `Admission`).

- One action is one call of a pass that leaves the process, with all the code up
  to the next such call. `pc` names that next call. `Start` takes a request from
  the queue, copies the object from the cache, and runs the code to its first
  call; `Pass` is the disjunction of the others. What a pass holds in local
  variables is in `tn`, `my`, `wish`, `read`, `found` and `verdict`, or in one
  record for each pass (`pass`, `deletion`) or request (`req[p]`).
- Every call has the outcomes success, refusal by a state of the world (an old
  version, credentials that are not accepted), failure on the way there, and
  failure on the way back, when the effect took place and the pass sees an error.
- `Disturb` counts what is not the code's doing: failures on the way, restarts,
  edits by users, interference. `MaxDisturbances` bounds it. What merely takes
  time is free: delays of caches, the ageing of keys, kubelets, retries.
- `Restart` may come between any two calls. It forgets the pass, the queue and the
  timers, and lists everything afresh.
- Mutants stand before the definition they vary.

### Tailnet

`obj` is the Tailnet in the API server, `cached` the informer's copy and
`pending` the versions between. Versions are numbered (`rv`), since the
argument for most properties is which write the API server refuses: `Put` and
`Current` are its half of `r.Update` and `r.Status().Update`. A version has the
phase, the finalizer, whether `validateTailnet` accepts the spec, whether
`observedGeneration` is current, `authKeyID`, and the conditions Ready,
OAuthValid and AuthKeyCreated.

| Code | Actions |
| --- | --- |
| `Reconcile` up to the first call, `getTailscaleClient` | `Start`, `FirstStep` |
| finalizer, status writes | `AddFinalizer`, `WriteInvalid`, `WriteNoClient`, `WriteValid`, `WriteNoKey`, `WriteReady` |
| `ensureAuthKey` | `GetKey`, `GetSecret`, `DelKey`, `Create` |
| `ensureAuthKeySecret` | `StoreSecret` |
| `handleDeletion` | `CleanupKey`, `CleanupSecret`, `RemoveFinalizer` |
| informers, workqueue | `Deliver`, `SyncSecret`, `TimerFires`, `Resync` |
| users, PodReconciler, Tailscale | `UserCreate`, `UserEdit`, `UserDelete`, `DecrementInjectedPods`, `Tamper`, `KeyAges` |

`excused` remembers whether the pass at hand failed to ask Tailscale for the
deletion of a key, or was not heard. The `Owns(&corev1.Secret{})` of the setup
has no effect, since the Secret is given no owner reference; `SyncSecret`
therefore queues nothing.

### PodDevice

The pod `p` registers the device `p`, under the name `HostOf[p]`. A pod that is
recreated under its old name is another element of `Pods` with the same name.
Informers may skip versions but never go back, so that a single cached copy per
pod will do. `tailnet` is the Tailnet and its tags, `cachedTailnet` what the
passes read of it; `oauthSecret` and `permitted` say whether a client can be made
and what Tailscale lets it do. `cleanupDevice` tells "already deleted" by the text of the
error, so that in `Cleanup` every error of the call may pass for it, and the pass goes on
(`Skip`). Two history variables keep account of that: `skipped`, that the pass at
hand goes on without knowing the device deleted, because there was no Tailnet or an
error was read so, and `excused`, the pods that such a pass took the finalizer from.

| Code | Actions |
| --- | --- |
| `Reconcile`, `handleDeletion` up to the first call | `Start`, `NextStep` |
| finalizer | `AddFinalizer`, `Release` |
| `discoverDeviceID` | `Discover`, `Annotate` |
| `reconcileDeviceTags` | `ReadTags`, `SetTags` |
| `cleanupDevice` | `Cleanup` |
| `enqueuePods`, the watches | `DeliverPod`, `DeliverTailnet`, `TimerFires`, `Resync` |
| users, kubelet, sidecar, administrators | `CreatePod`, `DeletePod`, `RemovePod`, `WriteStatus`, `Register`, `Interfere` |

### Tailserve

A spec is an element of `Specs` and stands for ports and handlers; `Name` gives
the service name and `Ref` the Tailnet that it refers to, so that an edit may change
either. A Tailnet has its namespace, its tags, the network (the tailnet at Tailscale) that
`tailnetName` and its credentials stand for, and a state that names what the pass will
run into; `accepted` are the Tailnets whose client may act. A service is found by
network and name, a ConfigMap by Tailserve and namespace. The serve config is a function
of spec and network, so that a ConfigMap *is* that pair. Versions are not numbered here: a pass writes its
Tailserve once, as its last call, so it is enough to know whose cached copy has
been overtaken (`behind`) and whether the copy of the pass has (`stale`). The
versions of a ConfigMap are identified with its content. Retries are queued
at once, which allows every order a delay would.

| Code | Actions |
| --- | --- |
| `Reconcile`, `handleDeletion` up to the first call | `Start`, `NextStep`, `Obstacle`, `DeletionStep` |
| finalizer | `AddFinalizer`, `Release` |
| `GetService`, `CreateService`, `DeleteService` | `GetService`, `PutService`, `DeleteService` |
| `CreateOrUpdate`, `Delete` of the ConfigMap | `WriteMap`, `DeleteMap` |
| `updateStatus` | `WriteStatus` |
| informers | `Deliver`, `SyncMap`, `SyncTailnet`, `Resync` |
| users, administrators | `UserCreate`, `UserEdit`, `UserDelete`, `EditTailnet`, `Tamper` |

Three history variables delimit the promises. `excused` says what a Tailserve may
leave behind: what a deletion could not reach (`skipped`), the service of an
earlier name, a ConfigMap its status does not name, and what an edit of the Tailserve's
`tailnetRef` or of its Tailnet has moved away from (`Moved`): the code looks only where
both are now, and takes "not found" for deleted. `tampered` is set when somebody else removes a service or
ConfigMap.

### Admission

`versions[kind]` is, for Secrets and for ConfigMaps, the version that the informer
shows followed by those whose events are on their way; a version has the source (in
the namespace of the OAuth Secret) and the copy (in that of the pods), each with a
resource version and a content. One cache serves all requests, so what they read
differs only in when they read it. `home` says whether the two namespaces are one.
Keys and configs are numbered in the order in which the reconcilers make them.

| Code | Actions |
| --- | --- |
| `Handle` up to the first copy, `shouldInject`, `getTailnetName`, `isInjected` | `Begin`, `Found` |
| `ensureAuthKeySecret` | `ReadCopy`, `ReadSource`, `WriteKey` |
| `ensureServeConfigMap` | `ReadMap`, `WriteMap` |
| `injectSidecar`, the response | `Inject`, `Patch`, `Allow`, `Deny` |
| failurePolicy, restart, informers | `Timeout`, `Restart`, `Sync` |
| the reconcilers, users | `Store`, `NameConfig`, `TailnetReady`, `Reapply`, `Meddle` |

Requests are of pods that are created and of pods that exist: the webhook is
registered for both, and the second kind is where a sidecar can no longer be added. A
pod that has its sidecar is allowed by `Begin`, unless the pod cannot be decoded or its
namespace cannot be read: `Handle` finds that first, and denies.

### InjectedPods

The Tailnet is Ready throughout, so that of a pass of the TailnetReconciler three
things are left: the OAuthValid write, which is refused of an old copy, the listing
of the pods, and the last write with the count. `deletion` is `handleDeletion` of the
PodReconciler from where the device is gone. `versions` has the count that the
cache shows and the later ones; a copy is `fresh` while the API server would take it.

| Code | Actions |
| --- | --- |
| `Reconcile` of the TailnetReconciler, `updateInjectedPodsCount` | `Start`, `List`, `WriteReady` |
| `handleDeletion`, `decrementInjectedPods` | `StartDeletion`, `ReadCount`, `WriteCount`, `Release` |
| informers, workqueues | `Deliver`, `DeliverPod`, `TimerFires`, `Restart` |
| users, other writers | `PodChanges`, `Foreign` |

### Rotation

Time in ticks; a pass is one step, and whatever keeps it from being done is a delay.
`timer` is the `RequeueAfter` of 67.5 days, `resync` the ten hours of the informer,
`due` and `late` say whether a pass should be done and since when. A pass leaves a
key alone that has more than 14 days left (`Renewed`).

### ServeConfig

`buildServiceConfig`, `addWebHandlers`, `extractPorts`, `tagsEqual`,
`validateServiceName` and the three ways to find credentials, as operators over short
lists. The state is the input, edited one element at a time; the invariants compare the
operators with one another and with definitions that do not loop. Loops over lists are
folds, and an assignment to an entry of a Go map is `Put`. `HandlersAssumption` has the
protocols of the CRD's enum, which is what the switch over protocols relies on. Names are lists of kinds of ASCII characters, since the CRD's pattern
admits no others.

## What is checked

| Run | Instance | What it shows |
| --- | --- | --- |
| `tailnet_safety` | 3 keys, 2 disturbances | Keys are made only under the finalizer (`KeyOnlyUnderFinalizer`); each disturbance costs at most one key (`BoundedKeys`); Ready at the current generation means a valid spec (`ReadyIsForValidSpec`); a Tailnet takes its recorded key with it unless Tailscale could not be asked (`DeletionRevokesKey`); no Secret is written before the finalizer or outlives the Tailnet (`ImplementsFinalizer`), and none goes back to an older key (`ImplementsKeySource`). |
| `tailnet_liveness` | 3 keys, 1 disturbance | A deleted Tailnet goes; a sound one becomes and stays Ready with a live key. |
| `tailnet_usable` | violation, no disturbance | "Auth key is valid" is concluded from the recorded key and *some* Secret: after a rotation whose Secret write was refused because of a stale cache, the Secret holds a deleted key and the Tailnet is Ready. |
| `rotation` | half days: life 180, threshold 28, requeue 135, resync 1, delay 27 | The recorded key does not expire (`RecordedKeyLives`). The timer alone would not see to it: with the resync taken away the property fails. |
| `pod_safety` | 2 pods with names of their own, 1 disturbance | A pod is annotated with its own device only; a device is deleted only for a pod of its name that is on its way out (`OnlyDeletedPodsLoseDevices`); no pod is annotated before it has the finalizer, nor let go while its device is up, unless the pass found no Tailnet or took an error for "already deleted" (`ImplementsFinalizer`). |
| `pod_liveness` | 1 pod, 2 tag lists, 3 disturbances | A deleted pod goes once Tailscale can be asked or there is no Tailnet; running pods are annotated and their devices get the Tailnet's tags. |
| `pod_names` | violation, 2 pods of one name, no disturbance | The `device-id` annotation may name the device of another pod. |
| `injected_pods` | 2 pods, each created and deleted any number of times, 1 disturbance | A decrement stores the stored count or one less (`DecrementIsByOne`); it is always followed by a recount, before the look after 67 days (`DecrementsAreRecounted`); when pods come to rest the count is right (`CountConverges`). |
| `tailserve_safety` | 1 Tailserve, 1 Tailnet, 3 specs of 2 names, one of them too long, 2 addresses, 2 namespaces, 2 disturbances | No service and no ConfigMap stays behind but what is excused; Ready at the current generation means that the service is there and made from the spec; a service keeps its addresses unless the pass failed to read them; neither service nor ConfigMap is made before the finalizer is stored or after it went, however old the copy of the pass (`ImplementsFinalizer`). |
| `tailserve_moves` | 1 Tailserve, 2 specs that refer to 2 Tailnets, 2 networks, 2 tag lists, any first state of one Tailnet, 1 disturbance | When a Tailserve moves to another Tailnet or a Tailnet to another network, with caches behind, nothing stays but in the place moved from (`NoOrphanService`), Ready means a service in a network that the pass had read (`ReadyMeansServed`), and the finalizer covers both resources (`ImplementsFinalizer`). A deleted Tailserve goes (`DeletionCompletes`); with a sound Tailnet a live one becomes Ready, and service and ConfigMap are as spec and Tailnet have them, and where they have them (`Converges`). |
| `admission` | 2 pods of one namespace, one with a serve config, the namespace that of the OAuth Secret or not, 2 keys, 1 config, 1 disturbance | An admitted pod has a key in its namespace, no older than the cache showed when its request began (`AdmittedHasKey`), and the config it mounts (`MountedExists`); copies do not go back (`KeysNeverGoBack`); a request does not undo a rotation (`SourceIsTheReconcilers`), and brings back a removed source only if it began before the removal was seen (`OnlyOldRequestsRevive`); denied pods get in (`PodsGetIn`). |
| `serve_config` | lists of up to 3 elements, names of up to 4 characters with a limit of 3, all 3^8 OAuth Secrets | The loops leave what the last handler of a port and the last route of a path say (`LastOnesCount`); the served ports are those asked for (`AskedIsServed`); `tagsEqual` is equality of sets (`TagsEqualAsSets`); three controllers agree on credentials (`CredentialsAgree`); valid names are the CRD's but for capitals and length (`NamesAreOfTheCRD`). |

`TypeOK` is checked in the safety runs of `Tailnet` and `PodDevice`; for every module it
is proved. Two properties are proved and have no run of their own, since the
refinement that is checked contains them: `GoneMeansClean` of `Tailnet` and
`DeviceGoesFirst` of `PodDevice`.
Deadlock is checked in `rotation`, where time goes on for ever, and nowhere else: a
cluster in which every object is gone, or every list full, has nothing left to do.

**Bounds.** Disturbances are what a test would have to arrange: a lost answer, a crash
between two calls, an edit during a pass. What they meet is not bounded by them: delays
of caches, refused writes and the ageing of keys come in any number, and so do passes.
Where the size permits there are two or three disturbances, for pairs such as a lost
answer followed by a restart, or a Tailnet that is deleted and created again; the
theorems hold for any number. Three keys are the recorded one, the one that replaces it,
and one that got lost; when they are all used, the model has Tailscale refuse, so that only the
environment, not the reconciler, is cut short (`Healthy` excludes that state from
the liveness claim). Two pods are enough for one to be taken for the other. Pods
and Tailserves of different names share nothing but the worker, which is why one of
them suffices for liveness and for the safety of Tailserves; several Tailserves of
one *name* are left to a later run. Two addresses, two namespaces, two Tailnets and two
networks are the least that can be told apart; `tailserve_safety` takes the former two and
`tailserve_moves` the latter. `resourceVersion`s grow only with writes, and these
are bounded by the disturbances and by what a pass can write before it repeats
themselves; they need no bound of their own.

In `admission` two pods are enough for two requests to copy one object at once, and for
one to overtake the other; two keys are a rotation; `MaxDisturbances` is one because
the interesting disturbances (a lost answer, a restart, the removal of an object)
each cost one, and delays and conflicts cost nothing. In `injected_pods` pods come and go
without bound, so that a name is counted, released and counted again. `rotation`'s unit is
half a day because 67.5 days are not a number of days; the resync of ten hours is
rounded up to it, which is the worse case. The constants of `serve_config` are the
least that tell first from last and once from twice. Its names are as long as the limit
and one longer.

**Fairness.** Weak fairness of `Pass` and `Start`: controller-runtime runs a
worker for each controller, and the clients have timeouts, so that every call
returns. Where several objects share a worker, strong fairness of `Start` for
each: the workqueue is first in, first out, so nothing that is queued over and over
is overtaken for ever. Weak fairness of the watches and of the timers, which are the
rate limiter's and `RequeueAfter`'s. In `Tailserve` also of `Resync`: the cache
resyncs every ten hours by default, and without it `Converges` fails, since
nothing else brings a Tailserve back after a change of its Tailnet. In `InjectedPods` the
late timer, the look after 67 days, is fair as well: a pod that is created queues no
Tailnet, so that `CountConverges` needs it (or the resync, for which it stands); the
recount after a decrement does not. In `Admission` requests are handled and come again,
the pods' controllers seeing to that, and the watches deliver. `Tailnet` and
`PodDevice` have the resync as a possible step, and their liveness does not use it.
`RemovePod` is fair because the kubelet ends the pods it began to delete. Nothing is
assumed of users, of Tailscale's willingness, or of crashes, beyond the bound.

**Liveness claims** are conditional where the code's are: `Converges` supposes that
the credentials are good from some time on. `DeletionCompletes` supposes nothing
for Tailnets and Tailserves, whose cleanup in Tailscale is best effort, and for
pods that Tailscale accepts the operator's calls, for there the code prefers to wait.
`PodsGetIn` supposes that what a pod asks for is there, and that the webhook answers:
where it does not, failurePolicy Ignore lets the pod in without a sidecar.

### Where the code and its words differ

Two runs show it:

1. `tailnet_controller.go:203-211` takes the existence of a Secret for the
   presence of the recorded key. No fault is needed: it is enough that the
   informer's copy of the Secret is behind when the rotated key is stored
   (`tailnet_usable`).
2. `pod_controller.go:209` looks for a device by host name, and host names are
   pod names, unique in a namespace only. A pod may be annotated with a stranger's
   device, retag it, and delete it when it goes (`pod_names`).

Others can be read off the code, but no run is about them. The models have all but the last:

3. `pod_controller.go:162` means to find out that a device is already gone, and line 163
   takes every error with "404" or "not found" in its text for that: the answer to a
   client of another tailnet, a token that is refused so, an address with 404 in it.
   The pod is let go and the device stays. `Cleanup` has this, and what it leaves is
   excepted by name from what `PodDevice` promises (`skipped`, `excused`).
4. `tailnet_controller.go:88` reports "OAuth credentials are valid" before any call
   with them.
5. `pod_controller.go:167` announces that permission errors are not retried;
   `handleDeletion` returns the error to the workqueue like any other, and a pod goes
   only because of that.
6. `tailserve_types.go:102` calls `lastUpdated` the time of the last update of the
   serve config; it is the time of the last successful pass, and since writing it is
   an event of the Tailserve, each such pass brings the next.
7. `tailnet_controller.go:323` finds the suffix `ts.net` in `host.tail1234.ts.net`, without
   the label of the tailnet. Line 337, for a Tailnet that names its tailnet, and the tests
   have it (`tailserve_controller_test.go:63`). A service of a Tailnet with `-` for a name
   is then under `ts.net`.

What the passing runs show is weaker in places than one might expect, and says so:

8. The key outlives the timer only because of the informer's resync
   (`Rotation`): from a look at day 67.5, which finds 22.5 days left and leaves the
   key alone, the next that the code asks for is at day 135.
9. In the namespace of the OAuth Secret the webhook can bring back a Secret or a
   serve config that a deletion has just removed (`OnlyOldRequestsRevive`).
10. A pod that came in without its sidecar while the webhook was away is denied every
    later update, and while namespaces cannot be read those of pods with a sidecar are
    denied as well. No property promises that updates pass.
11. A pod that is deleted may be taken off the count more than once
    (`DecrementsAreRecounted` says how long that lasts).
12. A service or ConfigMap of a Tailserve stays behind for good when its `tailnetRef` or
    `serviceName`, or the `tailnetName` or Secret of its Tailnet, is edited (`excused`).
13. When two handlers name one port, the second replaces the TCP entry and leaves the
    web entry of the first (`LastOnesCount`). A tag list that repeats a tag can make
    `tagsEqual` take a device with others for one that has them all (`TagsEqualAsSets`
    excludes that), and a Tailnet without tags has the default tag put on keys and taken
    off devices.

## What is proved

Every safety property that a passing run checks is a theorem, for every set of keys,
pods, specs or handlers, every bound of disturbances, every naming of pods and
Tailserves, lists of any length and all times. The assumptions are those that the
modules state about their constants: that markers such as `NoKey` and `None` are not
among the values they stand apart from, that sets something is chosen from are not
empty, that bounds are numbers, and some that say something about the world:
`TimesAssumption` and `DelayAssumption` of `Rotation` (a key is renewed some time before
its end, but not by more than its life, and no pass is delayed by more than that),
`HandlersAssumption` (the CRD's enum of protocols) and, in `InjectedPods`, that the pods
are finitely many. TLC evaluates all
of them in the runs.

`FinalizerProofs`: the protocol keeps its promise (`Promise`: `Spec => []NoOrphan`),
which the theorems named `Implements` and `FollowsFinalizer` hand down to the
reconcilers.

### `TailnetProofs`

- `TypeCorrect`, `Invariant` (`[]IInv`)
- `GoneIsClean`: `Spec => []GoneMeansClean`
- `ReadyIsValid`: `Spec => []ReadyIsForValidSpec`
- `KeysAreHeld`: `Spec => KeyOnlyUnderFinalizer`
- `KeysAreBounded`: `Spec => []BoundedKeys`
- `DeletionRevokes`: `Spec => DeletionRevokesKey`
- `Implements`: `Spec => ImplementsFinalizer`
- `ImplementsSource`: `Spec => ImplementsKeySource`

None of these is inductive. `GoneMeansClean` fails one step after a state in which
a pass is about to write the Secret of a Tailnet that is gone; that this state cannot
be reached is a matter of versions. `IInv` therefore says that no version is newer
than the API server's and that an `rv` belongs to one version only (`VersionsOK`);
that the copy of the pass agrees with the object while its `rv` is current
(`CopyOK`); what a pass knows of its copy at each step (`StepOK`); that past the
OAuthValid write, which the API server would have refused otherwise, and whenever
the Secret exists, the Tailnet holds its finalizer (`HeldOK`); and what
`handleDeletion` has done before it removes that finalizer (`ReleaseOK`,
`RevokedOK`). The step that carries the argument is `RemoveFinalizer`: it is the
only one that lets a Tailnet with a finalizer go, and there is one pass at a time.

`KeysAreBounded` counts. The keys that neither the status nor the pass knows of are
`Stray`; `Need` is what the present pass is bound to lose still: the key it makes, if
its copy has been overtaken, and the recorded one, if that could not be deleted.
`BudgetOK`, that strays and needs together do not exceed the disturbances, is
inductive where `BoundedKeys` is not: a pass over an overtaken copy has been paid
for by whoever overtook it, because the OAuthValid write had succeeded before.

### `PodDeviceProofs`

- `TypeCorrect`, `Invariant` (`[]IInv`), `HeldInvariant` (`[]HInv`)
- `DevicesAreKept`: `Spec => OnlyDeletedPodsLoseDevices`
- `DevicesGoFirst`: `Spec => DeviceGoesFirst`
- `OwnDevice`: `Spec => []AnnotationNamesOwnDevice`, if names are unique
- `FollowsFinalizer`: `Spec => ImplementsFinalizer`

Here copies may be arbitrarily old, so `IInv` says what an old copy still tells
(`Tells`): a pod that it calls deleting is deleting or gone, and its annotation
names a device that registered under the pod's name. Two facts about steps
support it, that phases only advance (`PodsOnward`) and that devices only
register and disappear (`DevicesOnward`). `DeviceGoesFirst` is about the
annotation the *API server* has, not the one the pass cleaned up after; the `rv` of
the update that removes the finalizer shows that they are the same. It excepts the passes
that `skipped`, which is what the code makes of an error that it reads as "already deleted". `OwnDevice` has
the hypothesis that the run `pod_names` refutes the claim without.

`HInv` adds what the refinement needs: a pass that annotates has the finalizer in its
copy, a pass that skips is about to let the pod go (`HoldsOK`), and a pod without the
finalizer is not annotated yet, or excused, or its device is down (`HeldOK`). With it
every step, seen from one pod, takes the finalizer, lets it go, or leaves it alone
(`Moves`), and each of these is a step of the protocol. Names need not be unique: a
pod with somebody else's device is held to the same promise.

### `TailserveProofs`

- `TypeCorrect`, `Invariant` (`[]IInv`)
- `ServicesGo`: `Spec => []NoOrphanService`; `MapsGo`: `Spec => []NoOrphanMap`
- `ReadyIsServed`: `Spec => []ReadyMeansServed`
- `AddressStays`: `Spec => AddressesStay`
- `FollowsFinalizer`: `Spec => ImplementsFinalizer`

A copy that is not overtaken is the Tailserve itself; of an older one `Older` says
what remains true: a finalizer that it shows was there until the Tailserve went, a
deletion is not undone, the service name and the Tailnet referred to have changed only
with an excuse, and if the present generation has been observed the copy shows its spec. `CacheOK` and `PassOK`
say this of the cache and of the pass, `StepOK` what the pass found in its copy.
Then a service or ConfigMap has a Tailserve that holds the finalizer or was excused,
and is where the Tailserve looks for it now (`ServiceOK`, `MapOK`): at its `Place`, by
the Tailnet that is its `Home`. `PlaceOK` adds that a Tailnet as cached, or as read by the
pass, has the same place for whatever is not excused (`Agrees`);
the pass that removes the finalizer has deleted what it does not excuse
(`DeletedOK`, `DroppedOK`); and the service a pass reports about is still the one
it wrote (`FoundOK`, `ServedOK`). `AddressesStay` and `ImplementsFinalizer` hold for
any number of Tailserves of one name, Tailnets and networks; `ReadyMeansServed` excludes
the first.

### `AdmissionProofs`

- `TypeCorrect`, `Invariant` (`[]IInv`)
- `SourceIsSafe`: `Spec => SourceIsTheReconcilers`
- `KeysOnlyAdvance`: `Spec => KeysNeverGoBack`
- `AdmittedPodsHaveKeys`: `Spec => AdmittedHasKey`
- `MountedConfigsExist`: `Spec => MountedExists`
- `RevivedByOldRequests`: `Spec => OnlyOldRequestsRevive`

Requests hold reads of different ages, so the invariant is about the order of
versions: `Earlier` says what it means that one version precedes another, and
`VersionsOK` that those between cache and API server are so ordered. What a request has
read precedes all that the cache still shows (`SinceOK`, `CopyOK`); the key it is
about to write was read after the copy it replaces (`ValueOK`). Where copy and source
are one object, a copy that differs from that key has been overtaken, and the update
is refused; elsewhere no copy holds a newer key than any source that can still be
read (`CopiesOK`). `HasKeyOK` and `MapOK` say that what a request has seen to stays,
as long as nobody meddles.

### `ServeConfigProofs`

- `TypeCorrect`
- `TagsAreSets`: `Spec => []TagsEqualAsSets`
- `ControllersAgreeOnCredentials`: `Spec => []CredentialsAgree`
- `NamesFollowTheCRD`: `Spec => []NamesAreOfTheCRD`
- `LastHandlersCount`: `Spec => []LastOnesCount`
- `PortsAreServed`: `Spec => []AskedIsServed`

The loops are folds, which the community modules define by recursive functions. No
rule of induction that takes a predicate can be used, but a rule about *sets* of
numbers can be proved (`UpTo`: a set that contains 0 and with each number below `n` the next
contains all up to `n`; if not, there is a least number that it lacks, and `Least` finds
it from the well-foundedness of finite sets). Each loop then has a closed form, the
set of indices at which its fold agrees with it: after `n` rounds of assignments an
entry has the value of the last round that assigned it (`WriteRound`, `LastWrites`). From
the closed forms of the loop over routes (`RoutesAreWritten`) and of that over handlers
(`ConfigIsDeclared`) the two claims about the serve config are consequences without
loops. The proof attempt found one flaw of the model: the guards of a `CASE` overlapped
where the switch of the code takes the first match, so that the value TLC computes was
not implied by the definition; they exclude one another now.

### `RotationProofs`

`TypeCorrect`, and `KeyLives`: `Spec => []RecordedKeyLives`, from the assumption
`Resync + MaxDelay <= Threshold`. Neither `Requeue` nor `Life` comes into it.
The invariant `LeftIsEnough` says that what a pass left is used up only by the count of
the resync, and then by the delay.

### `InjectedPodsProofs`

- `TypeCorrect`, `Invariant` (`[]IInv`)
- `Recounted`: `Spec => []DecrementsAreRecounted`
- `ByOne`: `Spec => DecrementIsByOne`

`CopyOK` is what the second needs: the copy from which a deletion takes one off has the
stored count for as long as it is fresh, and becomes old by the very write that changes
that count.

### Only model-checked

Liveness: `DeletionCompletes` and `Converges` of the three reconcilers, `PodsGetIn` of
`Admission` and `CountConverges` of `InjectedPods`. The prover has no rules for fairness
(`ENABLED` is beyond it), so these hold for the instances in the table above. The
violations that two runs show are TLC's as well.

## What is not modelled

- **The containers of the sidecar**: `buildSidecarContainer`, `buildEnv`, `buildVolumes` and
  `buildInitContainer` put together what the kubelet reads; no later decision of the
  program depends on it, and a test can look at all of it.
- **`ensureMagicDNSSuffix`**: its errors are logged and change nothing but the suffix, which
  `Tailserve` has as present or not.
- **A change of `oauthSecretRef.namespace`** in `Tailnet` and in `Admission`. `Tailserve` has it.
- **Two Tailserves of one service name** are in no run, though the theorems about
  `Tailserve` cover them: each rewrites the other's service. `ReadyMeansServed` excludes
  that by hypothesis, since nothing in the code prevents it.
- **Several Tailnets** in `Tailnet`, `PodDevice` and `Admission`, which take one at a time:
  a pod whose Tailnet is changed by hand is not followed. `Tailserve` has several. Tailnets
  and Tailserves are cluster-scoped, so that their names are unique.
- **Names beyond ASCII**, which the CRD's pattern keeps from `validateServiceName`.
- **Pods whose annotations are changed by hand.**
- **Two managers at once.** There is one replica; leader election is an option.
- **HTTP**, JSON, logging, metrics, probes, `ListServices` (which has no caller), generated
  code, charts.

## Plan

1. Facts that a liveness argument needs and that are safety: that a pass which ends
   without success has queued another, or that an event will (`Converges` and
   `DeletionCompletes` of each reconciler rest on this), as invariants about `queued`,
   `timer` and the caches, checked and then proved.
2. A Tailserve instance with two Tailserves of one name.
3. `TailnetReconciler` and `PodReconciler` in two namespaces of the OAuth Secret.
