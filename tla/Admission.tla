------------------------------ MODULE Admission ------------------------------
(***************************************************************************)
(* The PodMutator webhook: requests for several pods of one namespace run  *)
(* at the same time.  Each copies the auth key Secret, and for a pod that  *)
(* asks for a Tailserve the serve config, from the namespace of the OAuth  *)
(* Secret into the pod's, and adds the sidecar.                            *)
(*                                                                         *)
(* It reads from the informers' caches and writes to the API server.  For  *)
(* each kind of object the model has the version that its cache shows and  *)
(* the later ones, whose watch events are on their way.  The pods'         *)
(* namespace may be that of the OAuth Secret: there the copy is the        *)
(* source.  Keys and configs are numbered as they are made.                *)
(*                                                                         *)
(* Left out: what the containers look like, and the deletion of pods.      *)
(***************************************************************************)
EXTENDS Integers, SequencesExt

CONSTANTS Pods,
          asks,               \* asks[p]: what the annotations of pod p say
          labels,             \* what the labels of their namespace say
          MaxKeys,            \* bound: keys the TailnetReconciler stores
          MaxConfigs,         \* bound: configs the TailserveReconciler stores
          NoObject,           \* the object does not exist
          NoEntry,            \* it exists and lacks the one entry of interest
          MaxDisturbances     \* bound: faults, restarts and meddling

ASSUME ObjectAssumption == NoObject # NoEntry /\ {NoObject, NoEntry} \cap Nat = {}
ASSUME BoundsAssumption == {MaxKeys, MaxConfigs, MaxDisturbances} \subseteq Nat

VARIABLES
    home,           \* is the pods' namespace that of the OAuth Secret?
    versions,       \* of each kind: the cached version and those after it
    made,           \* of each kind: how many contents its reconciler made
    tailnet,        \* the Tailnet as its cache shows it
    tailserve,      \* the Tailserve as its cache shows it
    pod,            \* pod[p]: not in yet, or how it got in
    req,            \* req[p]: the request for pod p that is being handled
    meddled,        \* history: kinds of which an object was removed or emptied
    disturbances

world == <<home, made, tailnet, tailserve, meddled>>
vars == <<home, versions, made, tailnet, tailserve, pod, req, meddled, disturbances>>

-----------------------------------------------------------------------------
Kinds == {"Secret", "ConfigMap"}

Content(kind) == {NoObject, NoEntry}
                    \cup IF kind = "Secret" THEN 1 .. MaxKeys ELSE 1 .. MaxConfigs

Object(kind) == [rv : Nat, val : Content(kind)]

Steps == {"idle", "copy", "source", "writeKey", "map", "writeMap",
          "inject"}

Request == [pc : Steps,
            since : Object("Secret") \X Object("ConfigMap"), \* history
            copy : Object("Secret") \cup Object("ConfigMap"), \* as it was read
            val : Content("Secret") \cup Content("ConfigMap"),\* to be written
            config : Content("ConfigMap")]  \* the serve config it found

Never == [rv |-> 0, val |-> NoObject]

NoRequest == [pc |-> "idle", since |-> <<Never, Never>>, copy |-> Never,
              val |-> NoObject, config |-> NoObject]

\* "serving" pods mount a serve config and advertise the service, "mounting"
\* pods only mount it.
Injected == {"injected", "serving", "mounting"}

TypeOK ==
    /\ home \in BOOLEAN /\ DOMAIN versions = Kinds
    /\ \A k \in Kinds :
          versions[k] \in Seq([{"source", "copy"} -> Object(k)]) \ {<<>>}
    /\ made \in [Kinds -> Nat]
    /\ tailnet \in {"absent", "unready", "ready"}
    /\ tailserve \in {"absent", "unnamed", "named"}
    /\ pod \in [Pods -> {"new", "plain"} \cup Injected]
    /\ req \in [Pods -> Request]
    /\ meddled \subseteq Kinds
    /\ disturbances \in 0 .. MaxDisturbances

Init ==
    /\ home \in BOOLEAN
    /\ versions = [k \in Kinds |-> <<[w \in {"source", "copy"} |-> Never]>>]
    /\ made = [k \in Kinds |-> 0]
    /\ tailnet = "unready" /\ tailserve = "unnamed"
    /\ pod = [p \in Pods |-> "new"]
    /\ req = [p \in Pods |-> NoRequest]
    /\ meddled = {} /\ disturbances = 0

-----------------------------------------------------------------------------
(* The API server and the informers.                                       *)

Disturb == disturbances < MaxDisturbances /\ disturbances' = disturbances + 1

Calm == UNCHANGED disturbances

\* The object that is the copy for the pods' namespace.
Copy == IF home THEN "source" ELSE "copy"

Now(kind) == Last(versions[kind])

Cached(kind) == Head(versions[kind])

\* An object is stored under a new version, unless nothing changes.
Put(kind, which, v) ==
    versions' = IF Now(kind)[which].val = v THEN versions
                ELSE [versions EXCEPT ![kind] =
                        Append(@, [Now(kind) EXCEPT
                                     ![which] = [rv |-> @.rv + 1, val |-> v]])]

\* Mutant of Accepts: the last writer wins.
AcceptsAll(kind, held) == TRUE

\* Mutant of Accepts: an object without its entry is created, not updated.
AcceptsNoRepair(kind, held) ==
    IF held.val \in {NoObject, NoEntry} THEN Now(kind)[Copy].val = NoObject
    ELSE Now(kind)[Copy].rv = held.rv

\* Create where no copy was read, Update of the copy that was.
Accepts(kind, held) ==
    IF held.val = NoObject THEN Now(kind)[Copy].val = NoObject
    ELSE Now(kind)[Copy].rv = held.rv

\* Watch events come in order, one for each version.
Sync(kind) ==
    /\ Len(versions[kind]) > 1
    /\ versions' = [versions EXCEPT ![kind] = Tail(@)]
    /\ UNCHANGED <<world, pod, req, disturbances>>

-----------------------------------------------------------------------------
(* What a request asks for.                                                *)

\* The annotation of the pod counts before the label of its namespace.
ShouldInject(p) ==
    IF asks[p].inject # "none" THEN asks[p].inject = "true"
    ELSE labels.inject = "enabled"

NamesTailnet(p) == asks[p].tailnet \/ labels.tailnet

\* A sidecar is there already, by an earlier injection or by the author.
IsInjected(p) == pod[p] \in Injected \/ asks[p].sidecar

-----------------------------------------------------------------------------
(* PodMutator.Handle.                                                      *)

Go(p, r) == req' = [req EXCEPT ![p] = r]

\* The request is turned away.  A pod that is not in yet is sent again by
\* its controller.
Deny(p) == Go(p, NoRequest) /\ UNCHANGED pod

\* The pod passes as it came.
Allow(p) ==
    /\ Go(p, NoRequest)
    /\ pod' = IF pod[p] = "new" THEN [pod EXCEPT ![p] = "plain"] ELSE pod

\* The pod passes with the sidecar.  The API server takes no new containers
\* for a pod that exists.
Patch(p, how) ==
    IF pod[p] = "new"
    THEN Go(p, NoRequest) /\ pod' = [pod EXCEPT ![p] = how]
    ELSE Deny(p)

\* The sources as the caches show them.
Views == <<Cached("Secret").source, Cached("ConfigMap").source>>

\* Mutant of Found: a name in the status is taken for a serve config.
FoundByName(p) ==
    [NoRequest EXCEPT
        !.pc = "copy", !.since = Views,
        !.config = IF asks[p].serve /\ tailserve = "named"
                   THEN made["ConfigMap"] ELSE NoObject]

\* A serve config that is not found is done without.
Found(p) ==
    [NoRequest EXCEPT
        !.pc = "copy", !.since = Views,
        !.config = IF asks[p].serve /\ tailserve = "named"
                   THEN Cached("ConfigMap").source.val ELSE NoObject]

\* A request to create the pod, or to update it.  A namespace that is not in
\* the cache, or a cache that is not there yet, is an error before anything is
\* asked of the pod.  Namespace, Tailnet, Tailserve and serve config are read
\* from caches that know nothing of each other, and taken at once.
Begin(p) ==
    /\ req[p].pc = "idle"
    /\ \/ Disturb /\ Deny(p)
       \/ Calm /\ (~ShouldInject(p) \/ IsInjected(p)) /\ Allow(p)
       \/ /\ Calm /\ ShouldInject(p) /\ ~IsInjected(p)
          /\ IF ~NamesTailnet(p) \/ tailnet # "ready" THEN Deny(p)
             ELSE Go(p, Found(p)) /\ UNCHANGED pod
    /\ UNCHANGED <<world, versions>>

\* ensureAuthKeySecret reads the copy first and the source after it.  Another
\* request's key reaches the cache only after the source it was read from.
ReadCopy(p) ==
    /\ req[p].pc = "copy"
    /\ Go(p, [req[p] EXCEPT !.pc = "source", !.copy = Cached("Secret")[Copy]])
    /\ UNCHANGED <<world, versions, pod, disturbances>>

Written(p, next) == [req[p] EXCEPT !.pc = next, !.copy = Never, !.val = NoObject]

\* The key is there; the serve config, if one was found, is next.
Copied(p) == Written(p, IF req[p].config = NoObject THEN "inject" ELSE "map")

\* Mutant of ReadSource: only the presence of the copy's entry is looked at.
ReadSourceUnlessCopied(p) ==
    /\ req[p].pc = "source"
    /\ LET key == Cached("Secret").source.val
       IN  IF key \in {NoObject, NoEntry} THEN Deny(p)
           ELSE /\ IF req[p].copy.val \notin {NoObject, NoEntry}
                   THEN Go(p, Copied(p))
                   ELSE Go(p, [req[p] EXCEPT !.pc = "writeKey", !.val = key])
                /\ UNCHANGED pod
    /\ UNCHANGED <<world, versions, disturbances>>

\* Mutant of ReadSource: the source was read before the copy.
ReadSourceFirst(p) ==
    /\ req[p].pc = "source"
    /\ LET key == req[p].since[1].val
       IN  IF key \in {NoObject, NoEntry} THEN Deny(p)
           ELSE /\ IF req[p].copy.val = key THEN Go(p, Copied(p))
                   ELSE Go(p, [req[p] EXCEPT !.pc = "writeKey", !.val = key])
                /\ UNCHANGED pod
    /\ UNCHANGED <<world, versions, disturbances>>

\* The Secret is stored as it was read from the source, unless the copy that
\* was read before has that key.
ReadSource(p) ==
    /\ req[p].pc = "source"
    /\ LET key == Cached("Secret").source.val
       IN  IF key \in {NoObject, NoEntry} THEN Deny(p)
           ELSE /\ IF req[p].copy.val = key THEN Go(p, Copied(p))
                   ELSE Go(p, [req[p] EXCEPT !.pc = "writeKey", !.val = key])
                /\ UNCHANGED pod
    /\ UNCHANGED <<world, versions, disturbances>>

\* Mutant of Write: an error is only logged.
WriteLogged(p, kind, then) ==
    /\ \/ Accepts(kind, req[p].copy) /\ Put(kind, Copy, req[p].val) /\ Calm
       \/ ~Accepts(kind, req[p].copy) /\ UNCHANGED versions /\ Calm
       \/ Disturb /\ UNCHANGED versions
    /\ Go(p, then) /\ UNCHANGED pod
    /\ UNCHANGED world

\* Create or Update of a copy: stored, refused, or failed on the way there or
\* back.  Every error denies the pod.
Write(p, kind, then) ==
    /\ \/ /\ Accepts(kind, req[p].copy) /\ Put(kind, Copy, req[p].val) /\ Calm
          /\ Go(p, then) /\ UNCHANGED pod
       \/ ~Accepts(kind, req[p].copy) /\ UNCHANGED versions /\ Calm /\ Deny(p)
       \/ Disturb /\ UNCHANGED versions /\ Deny(p)
       \/ Disturb /\ Accepts(kind, req[p].copy) /\ Put(kind, Copy, req[p].val)
            /\ Deny(p)
    /\ UNCHANGED world

WriteKey(p) ==
    /\ req[p].pc = "writeKey"
    /\ Write(p, "Secret", Copied(p))

\* ensureServeConfigMap: a copy that has the entry stays as it is.
ReadMap(p) ==
    /\ req[p].pc = "map"
    /\ IF Cached("ConfigMap")[Copy].val \in {NoObject, NoEntry}
       THEN Go(p, [req[p] EXCEPT !.pc = "writeMap", !.val = req[p].config,
                                 !.copy = Cached("ConfigMap")[Copy]])
       ELSE Go(p, Written(p, "inject"))
    /\ UNCHANGED <<world, versions, pod, disturbances>>

WriteMap(p) == req[p].pc = "writeMap" /\ Write(p, "ConfigMap", Written(p, "inject"))

\* injectSidecar reads the Tailserve again, for the service to advertise.
Inject(p) ==
    /\ req[p].pc = "inject"
    /\ Patch(p, IF req[p].config = NoObject THEN "injected"
                ELSE IF tailserve = "absent" THEN "mounting" ELSE "serving")
    /\ UNCHANGED <<world, versions, disturbances>>

Handle(p) ==
    \/ Begin(p) \/ ReadCopy(p) \/ ReadSource(p)
    \/ WriteKey(p) \/ ReadMap(p) \/ WriteMap(p) \/ Inject(p)

\* The webhook is away or takes more than ten seconds: failurePolicy Ignore
\* lets the pod in as it came, and the request is cancelled.
Timeout(p) ==
    /\ Disturb /\ Allow(p)
    /\ UNCHANGED <<world, versions>>

\* The manager restarts: its requests fail, its informers list afresh.
Restart ==
    /\ Disturb
    /\ pod' = [p \in Pods |-> IF pod[p] = "new" /\ req[p] # NoRequest
                              THEN "plain" ELSE pod[p]]
    /\ req' = [p \in Pods |-> NoRequest]
    /\ versions' = [k \in Kinds |-> <<Now(k)>>]
    /\ UNCHANGED world

-----------------------------------------------------------------------------
(* The reconcilers and the users.                                          *)

ElsewhereOnly == UNCHANGED <<home, pod, req>>

\* A reconciler makes a new content and stores it: the TailnetReconciler a
\* key (see KeySource), the TailserveReconciler a config.
Store(kind) ==
    /\ made[kind] < IF kind = "Secret" THEN MaxKeys ELSE MaxConfigs
    /\ made' = [made EXCEPT ![kind] = @ + 1]
    /\ Put(kind, "source", made'[kind])
    /\ ElsewhereOnly /\ Calm /\ UNCHANGED <<tailnet, tailserve, meddled>>

\* The name of the config is in the status after the config is stored.
NameConfig ==
    /\ tailserve = "unnamed" /\ made["ConfigMap"] > 0 /\ tailserve' = "named"
    /\ ElsewhereOnly /\ Calm /\ UNCHANGED <<versions, made, tailnet, meddled>>

TailnetReady ==
    /\ tailnet = "unready" /\ tailnet' = "ready"
    /\ ElsewhereOnly /\ Calm /\ UNCHANGED <<versions, made, tailserve, meddled>>

\* The Tailnet or the Tailserve is edited, deleted or applied again.
Reapply ==
    /\ Disturb
    /\ \/ tailnet' \in {"absent", "unready"} /\ UNCHANGED tailserve
       \/ tailserve' \in {"absent", "unnamed"} /\ UNCHANGED tailnet
    /\ ElsewhereOnly /\ UNCHANGED <<versions, made, meddled>>

\* Somebody removes a Secret or a ConfigMap or its entry; the reconcilers
\* remove theirs with the Tailnet and the Tailserve.
Meddle ==
    /\ Disturb
    /\ \E kind \in Kinds, which \in {"source", "copy"}, v \in {NoObject, NoEntry} :
          /\ Now(kind)[which].val # NoObject /\ Put(kind, which, v)
          /\ meddled' = meddled \cup {kind}
    /\ ElsewhereOnly /\ UNCHANGED <<made, tailnet, tailserve>>

Next ==
    \/ \E p \in Pods : Handle(p) \/ Timeout(p)
    \/ \E kind \in Kinds : Sync(kind) \/ Store(kind)
    \/ Restart
    \/ NameConfig \/ TailnetReady \/ Reapply \/ Meddle

Spec == Init /\ [][Next]_vars

\* Requests are handled, denied pods are sent again, the watches deliver.
Fairness ==
    /\ \A p \in Pods : WF_vars(Handle(p))
    /\ \A kind \in Kinds : WF_vars(Sync(kind))

FairSpec == Spec /\ Fairness
-----------------------------------------------------------------------------
(* Safety.                                                                 *)

\* Where the copy is the source, a request that works with old reads must not
\* undo a rotation: as long as the Secret exists, it changes as KeySource has it.
SecretSource == INSTANCE KeySource
                   WITH Keys <- 1 .. MaxKeys, NoKey <- NoObject,
                        secret <- LET v == Now("Secret").source.val
                                  IN  IF v = NoEntry THEN NoObject ELSE v,
                        fresh <- made["Secret"] + 1 .. MaxKeys

SourceIsTheReconcilers ==
    [][Now("Secret").source.val # NoObject => SecretSource!Next]_(SecretSource!vars)

\* A source that was removed comes back with a new content, or by a request
\* that was being handled before its removal reached the cache: there the
\* Create of a copy that was not found brings the source itself back.
OnlyOldRequestsRevive ==
    [][\A i \in 1 .. 2 :
          LET kind == <<"Secret", "ConfigMap">>[i]
          IN  Now(kind).source.val = NoObject /\ Now(kind)'.source.val # NoObject
                 => \/ made'[kind] > made[kind]
                    \/ \E p \in Pods :
                          req[p] # NoRequest
                             /\ req[p].since[i].rv < Now(kind).source.rv]_vars

\* A copy that holds a key never gets an older one, however many requests
\* with different views of the Secrets write it.
KeysNeverGoBack ==
    [][LET old == Now("Secret")[Copy].val
           new == Now("Secret")'[Copy].val
       IN  old \in 1 .. MaxKeys /\ new \in 1 .. MaxKeys => old <= new]_vars

GetsIn(p) == pod[p] = "new" /\ pod'[p] \in Injected

\* A pod gets its sidecar only when its namespace has a key, and one at least
\* as new as the cache showed when its request began, whoever copied it.
AdmittedHasKey ==
    [][\A p \in Pods : GetsIn(p) /\ "Secret" \notin meddled =>
          LET known == req[p].since[1].val
          IN  /\ Now("Secret")[Copy].val \in 1 .. MaxKeys
              /\ known # NoObject => Now("Secret")[Copy].val >= known]_vars

\* A pod that mounts a serve config has it in its namespace, so that its
\* containers can start.
MountedExists ==
    [][\A p \in Pods : GetsIn(p) /\ pod'[p] # "injected"
          /\ "ConfigMap" \notin meddled =>
             Now("ConfigMap")[Copy].val \in 1 .. MaxConfigs]_vars

-----------------------------------------------------------------------------
(* Liveness.                                                               *)

\* Everything pod p asks for is there, and the caches show it.
Sound(p) ==
    /\ ShouldInject(p) /\ ~IsInjected(p) /\ NamesTailnet(p) /\ tailnet = "ready"
    /\ Cached("Secret").source.val \notin {NoObject, NoEntry}
    /\ asks[p].serve =>
          tailserve = "named" /\ Cached("ConfigMap").source.val # NoObject

Promised(p) == IF asks[p].serve THEN "serving" ELSE "injected"

\* A pod whose requests are denied because of others that copy the same
\* objects, or of old caches, gets in all the same and with what it asked
\* for, unless the webhook fails to answer.
PodsGetIn ==
    \A p \in Pods :
       [](pod[p] = "new" /\ req[p] = NoRequest /\ [](pod[p] = "new" => Sound(p))
             => <>(pod[p] \in {Promised(p), "plain"}))
=============================================================================
