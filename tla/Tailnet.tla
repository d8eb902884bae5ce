------------------------------- MODULE Tailnet -------------------------------
(***************************************************************************)
(* The TailnetReconciler: one Tailnet object in the API server, the        *)
(* informer cache the reconciler reads it from, one pass of Reconcile at a *)
(* time over it, the auth keys it asks Tailscale for and the Secret it     *)
(* keeps the current one in.                                               *)
(*                                                                         *)
(* A pass works on the copy it read from the cache (tn).  Its writes of    *)
(* the object carry that copy's resourceVersion and are refused when the   *)
(* API server has a newer one.  The Secret holds one key, and every key is *)
(* created once, so the key also names the version of the Secret.          *)
(*                                                                         *)
(* Left out: the MagicDNS suffix and the count of injected pods, which no  *)
(* step below reads, and the messages of conditions.                       *)
(***************************************************************************)
EXTENDS Integers, FiniteSets

CONSTANTS Keys,             \* the auth keys Tailscale may hand out
          NoKey,            \* the empty key ID; also: the Secret does not exist
          MaxDisturbances   \* bound: faults, crashes and writes of others

ASSUME KeysAssumption == NoKey \notin Keys
ASSUME DisturbancesAssumption == MaxDisturbances \in Nat

VARIABLES
    obj,            \* the Tailnet in the API server
    cached,         \* the informer's copy of it
    pending,        \* versions whose watch event is still on its way
    pc, tn,         \* the pass: its next call and its copy of the Tailnet
    queued, timer,  \* is a reconcile request queued, or due after a delay?
    secret,         \* the <tailnet>-authkey Secret in the API server
    secCache,       \* the informer's copy of it
    keyState,       \* the keys as Tailscale knows them
    oauthSecret,    \* does the OAuth Secret exist, with both its entries?
    accepted,       \* does Tailscale accept the credentials in it?
    excused,        \* history: could this pass not clean up in Tailscale?
    disturbances    \* how often something went wrong or interfered

world == <<obj, pending>>
pass  == <<pc, tn>>
vars  == <<obj, cached, pending, pc, tn, queued, timer, secret, secCache,
           keyState, oauthSecret, accepted, excused, disturbances>>

-----------------------------------------------------------------------------
Condition == {"Unknown", "True", "False"}

Version == [rv : Nat,
            phase : {"absent", "present", "deleting"},
            finalizer : BOOLEAN,
            valid : BOOLEAN,                \* validateTailnet accepts the spec
            observed : BOOLEAN,             \* observedGeneration is current
            keyID : Keys \cup {NoKey},      \* Status.AuthKeyID
            ready : Condition, oauth : Condition, created : Condition]

Absent == [rv |-> 0, phase |-> "absent", finalizer |-> FALSE, valid |-> FALSE,
           observed |-> FALSE, keyID |-> NoKey, ready |-> "Unknown",
           oauth |-> "Unknown", created |-> "Unknown"]

Fresh(n, ok) == [Absent EXCEPT !.rv = n, !.phase = "present", !.valid = ok]

Steps == {"idle", "addFinalizer", "writeInvalid", "writeNoClient", "writeValid",
          "getKey", "getSecret", "delKey", "create", "secret", "writeNoKey",
          "writeReady", "dKey", "dSecret", "dFinalizer"}

\* "live" keys have more than the rotation threshold of 14 days left.
KeyStates == {"unused", "live", "expiring", "dead"}

Alive(k) == k \in Keys /\ keyState[k] \in {"live", "expiring"}

AliveKeys == {k \in Keys : Alive(k)}

TypeOK ==
    /\ obj \in Version /\ cached \in Version /\ tn \in Version
    /\ pending \subseteq Version
    /\ pc \in Steps
    /\ queued \in BOOLEAN /\ timer \in BOOLEAN
    /\ secret \in Keys \cup {NoKey} /\ secCache \in Keys \cup {NoKey}
    /\ keyState \in [Keys -> KeyStates]
    /\ oauthSecret \in BOOLEAN /\ accepted \in BOOLEAN /\ excused \in BOOLEAN
    /\ disturbances \in 0 .. MaxDisturbances

\* The Tailnet has just been applied and the manager has just listed it.
Init ==
    /\ obj \in {Fresh(1, ok) : ok \in BOOLEAN}
    /\ cached = obj /\ pending = {}
    /\ pc = "idle" /\ tn = Absent /\ queued = TRUE /\ timer = FALSE
    /\ secret = NoKey /\ secCache = NoKey
    /\ keyState = [k \in Keys |-> "unused"]
    /\ oauthSecret \in BOOLEAN /\ accepted \in BOOLEAN
    /\ excused = FALSE /\ disturbances = 0

-----------------------------------------------------------------------------
(* The API server.                                                         *)

Disturb == disturbances < MaxDisturbances /\ disturbances' = disturbances + 1

Calm == UNCHANGED disturbances

\* The API server stores v and announces it; an unchanged object is not a
\* new version.
Put(v) ==
    IF v = obj THEN UNCHANGED world
    ELSE /\ obj' = [v EXCEPT !.rv = obj.rv + 1]
         /\ pending' = pending \cup {obj'}

\* A deleted object goes away with its last finalizer.
Gone == [Absent EXCEPT !.rv = obj.rv]

\* The optimistic concurrency check of every write of the Tailnet.
Current == obj.phase # "absent" /\ tn.rv = obj.rv

-----------------------------------------------------------------------------
(* A pass of Reconcile.                                                    *)

Go(step) == pc' = step

\* The pass ends; an error or a RequeueAfter brings another one later.
End(again) ==
    /\ Go("idle") /\ tn' = Absent
    /\ timer' = (timer \/ again)

\* Mutant of FirstStep: handleDeletion forgets the key.
FirstStepKeepsKey(v) ==
    CASE v.phase = "absent" -> "idle"
      [] v.phase = "deleting" -> IF v.finalizer THEN "dSecret" ELSE "idle"
      [] v.phase = "present" /\ ~v.finalizer -> "addFinalizer"
      [] v.phase = "present" /\ v.finalizer ->
            IF ~v.valid THEN "writeInvalid"
            ELSE IF oauthSecret THEN "writeValid" ELSE "writeNoClient"

\* Mutant of FirstStep: handleDeletion returns when there is no client.
FirstStepNeedsClient(v) ==
    CASE v.phase = "absent" -> "idle"
      [] v.phase = "deleting" ->
            IF ~v.finalizer \/ ~oauthSecret THEN "idle"
            ELSE IF v.keyID # NoKey THEN "dKey" ELSE "dSecret"
      [] v.phase = "present" /\ ~v.finalizer -> "addFinalizer"
      [] v.phase = "present" /\ v.finalizer ->
            IF ~v.valid THEN "writeInvalid"
            ELSE IF oauthSecret THEN "writeValid" ELSE "writeNoClient"

\* Mutant of FirstStep: the finalizer is added only while the spec is invalid.
FirstStepLateFinalizer(v) ==
    CASE v.phase = "absent" -> "idle"
      [] v.phase = "deleting" ->
            IF ~v.finalizer THEN "idle"
            ELSE IF oauthSecret /\ v.keyID # NoKey THEN "dKey" ELSE "dSecret"
      [] v.phase = "present" /\ ~v.valid ->
            IF v.finalizer THEN "writeInvalid" ELSE "addFinalizer"
      [] v.phase = "present" /\ v.valid ->
            IF oauthSecret THEN "writeValid" ELSE "writeNoClient"

\* Mutant of FirstStep: the client is looked for before the spec is validated.
FirstStepClientFirst(v) ==
    CASE v.phase = "absent" -> "idle"
      [] v.phase = "deleting" ->
            IF ~v.finalizer THEN "idle"
            ELSE IF oauthSecret /\ v.keyID # NoKey THEN "dKey" ELSE "dSecret"
      [] v.phase = "present" /\ ~v.finalizer -> "addFinalizer"
      [] v.phase = "present" /\ v.finalizer ->
            IF ~oauthSecret THEN "writeNoClient"
            ELSE IF v.valid THEN "writeValid" ELSE "writeInvalid"

\* The first call of the pass on v that leaves the process.
FirstStep(v) ==
    CASE v.phase = "absent" -> "idle"
      [] v.phase = "deleting" /\ ~v.finalizer -> "idle"
      [] v.phase = "deleting" /\ v.finalizer ->
            IF oauthSecret /\ v.keyID # NoKey THEN "dKey" ELSE "dSecret"
      [] v.phase = "present" /\ ~v.finalizer -> "addFinalizer"
      [] v.phase = "present" /\ v.finalizer ->
            IF ~v.valid THEN "writeInvalid"
            ELSE IF oauthSecret THEN "writeValid" ELSE "writeNoClient"

\* Reconcile reads the Tailnet and the OAuth Secret from the cache.
Start ==
    /\ pc = "idle" /\ queued /\ queued' = FALSE
    /\ Go(FirstStep(cached))
    /\ tn' = IF FirstStep(cached) = "idle" THEN Absent ELSE cached
    /\ excused' = (cached.phase = "deleting" /\ ~oauthSecret)
    /\ UNCHANGED <<world, cached, timer, secret, secCache, keyState,
                   oauthSecret, accepted, disturbances>>

\* r.Update and r.Status().Update of v at a step: stored, refused, or failed
\* on the way there or back.  Then(v) is what the code does after success.
Update(v, OnSuccess) ==
    /\ UNCHANGED <<cached, queued, secret, secCache, keyState, oauthSecret,
                   accepted, excused>>
    /\ \/ Current /\ Put(v) /\ OnSuccess /\ Calm
       \/ ~Current /\ UNCHANGED world /\ End(TRUE) /\ Calm
       \/ Disturb /\ UNCHANGED world /\ End(TRUE)
       \/ Disturb /\ Current /\ Put(v) /\ End(TRUE)

AddFinalizer ==
    /\ pc = "addFinalizer"
    /\ Update([tn EXCEPT !.finalizer = TRUE], End(FALSE))

\* updateStatus: every status write also records the generation it saw.
Status == [tn EXCEPT !.observed = TRUE]

WriteInvalid ==
    /\ pc = "writeInvalid"
    /\ Update([Status EXCEPT !.ready = "False"], End(TRUE))

\* Mutant of WriteNoClient: no RequeueAfter.
WriteNoClientOnce ==
    /\ pc = "writeNoClient"
    /\ Update([Status EXCEPT !.oauth = "False"], End(FALSE))

WriteNoClient ==
    /\ pc = "writeNoClient"
    /\ Update([Status EXCEPT !.oauth = "False"], End(TRUE))

\* Mutant of WriteValid: the error of the write is only logged.
WriteValidUnchecked ==
    /\ pc = "writeValid"
    /\ IF Current THEN Put([Status EXCEPT !.oauth = "True"]) /\ tn' = obj'
       ELSE UNCHANGED <<world, tn>>
    /\ Go(IF tn.keyID = NoKey THEN "create" ELSE "getKey")
    /\ UNCHANGED <<cached, queued, timer, secret, secCache, keyState,
                   oauthSecret, accepted, excused, disturbances>>

\* An error of this write ends the pass before a key is touched.
WriteValid ==
    /\ pc = "writeValid"
    /\ Update([Status EXCEPT !.oauth = "True"],
              /\ tn' = obj' /\ UNCHANGED timer
              /\ Go(IF tn.keyID = NoKey THEN "create" ELSE "getKey"))

\* Mutant of WriteNoKey: reason and status are swapped.
WriteNoKeySwapped ==
    /\ pc = "writeNoKey"
    /\ Update([Status EXCEPT !.created = "AuthKeyCreationFailed"], End(TRUE))

WriteNoKey ==
    /\ pc = "writeNoKey"
    /\ Update([Status EXCEPT !.created = "False"], End(TRUE))

WriteReady ==
    /\ pc = "writeReady"
    /\ Update([Status EXCEPT !.ready = "True"], End(TRUE))

-----------------------------------------------------------------------------
(* ensureAuthKey.                                                          *)

\* Keys().Get: a key that is gone may be reported as an error or as revoked.
GetKey ==
    /\ pc = "getKey"
    /\ \/ /\ accepted /\ Calm
          /\ \/ keyState[tn.keyID] = "live" /\ Go("getSecret")
             \/ keyState[tn.keyID] # "live" /\ Go("delKey")
             \/ keyState[tn.keyID] = "dead" /\ Go("create")
       \/ ~accepted /\ Calm /\ Go("create")
       \/ Disturb /\ Go("create")
    /\ UNCHANGED <<world, cached, tn, queued, timer, secret, secCache,
                   keyState, oauthSecret, accepted, excused>>

\* Only the presence of the cached Secret is looked at, not its key.
GetSecret ==
    /\ pc = "getSecret"
    /\ Go(IF secCache = NoKey THEN "delKey" ELSE "writeReady")
    /\ UNCHANGED <<world, cached, tn, queued, timer, secret, secCache,
                   keyState, oauthSecret, accepted, excused, disturbances>>

Kill(k) == keyState' = [keyState EXCEPT ![k] = "dead"]

\* Keys().Delete(tn.keyID): an error is only logged.
DeleteKey ==
    \/ accepted /\ Kill(tn.keyID) /\ Calm /\ UNCHANGED excused
    \/ ~accepted /\ excused' = TRUE /\ Calm /\ UNCHANGED keyState
    \/ Disturb /\ excused' = TRUE /\ UNCHANGED keyState
    \/ Disturb /\ excused' = TRUE /\ Kill(tn.keyID)

DelKey ==
    /\ pc = "delKey" /\ Go("create") /\ DeleteKey
    /\ UNCHANGED <<world, cached, tn, queued, timer, secret, secCache,
                   oauthSecret, accepted>>

Unused == {k \in Keys : keyState[k] = "unused"}

\* Mutant of Create: a failure is only logged, and the old key stored again.
CreateLogged ==
    /\ pc = "create"
    /\ \/ /\ accepted /\ Calm
          /\ \E k \in Unused :
                /\ keyState' = [keyState EXCEPT ![k] = "live"]
                /\ tn' = [tn EXCEPT !.keyID = k, !.created = "True"]
          /\ Go("secret")
       \/ Disturb /\ Go("secret") /\ UNCHANGED <<keyState, tn>>
    /\ UNCHANGED <<world, cached, queued, timer, secret, secCache,
                   oauthSecret, accepted, excused>>

\* CreateAuthKey.  Out of keys, the model lets Tailscale refuse.
Create ==
    /\ pc = "create"
    /\ \/ /\ accepted /\ Calm
          /\ \E k \in Unused :
                /\ keyState' = [keyState EXCEPT ![k] = "live"]
                /\ tn' = [tn EXCEPT !.keyID = k, !.created = "True"]
          /\ Go("secret")
       \/ /\ ~accepted \/ Unused = {}
          /\ Go("writeNoKey") /\ Calm /\ UNCHANGED <<keyState, tn>>
       \/ Disturb /\ Go("writeNoKey") /\ UNCHANGED <<keyState, tn>>
       \/ /\ Disturb /\ Go("writeNoKey") /\ UNCHANGED tn
          /\ \E k \in Unused : keyState' = [keyState EXCEPT ![k] = "live"]
    /\ UNCHANGED <<world, cached, queued, timer, secret, secCache,
                   oauthSecret, accepted, excused>>

\* ensureAuthKeySecret: CreateOrUpdate decides by the cached Secret, and the
\* API server refuses when that is not the Secret it has.
StoreSecret ==
    /\ pc = "secret"
    /\ \/ secCache = secret /\ secret' = tn.keyID /\ Go("writeReady") /\ Calm
       \/ secCache # secret /\ UNCHANGED secret /\ Go("writeNoKey") /\ Calm
       \/ Disturb /\ UNCHANGED secret /\ Go("writeNoKey")
       \/ Disturb /\ secCache = secret /\ secret' = tn.keyID /\ Go("writeNoKey")
    /\ UNCHANGED <<world, cached, tn, queued, timer, secCache, keyState,
                   oauthSecret, accepted, excused>>

-----------------------------------------------------------------------------
(* handleDeletion.                                                         *)

CleanupKey ==
    /\ pc = "dKey" /\ Go("dSecret") /\ DeleteKey
    /\ UNCHANGED <<world, cached, tn, queued, timer, secret, secCache,
                   oauthSecret, accepted>>

\* Mutant of CleanupSecret: a failure is only logged.
CleanupSecretLogged ==
    /\ pc = "dSecret" /\ Go("dFinalizer")
    /\ \/ secret' = NoKey /\ Calm
       \/ Disturb /\ secret' \in {secret, NoKey}
    /\ UNCHANGED <<world, cached, tn, queued, timer, secCache, keyState,
                   oauthSecret, accepted, excused>>

CleanupSecret ==
    /\ pc = "dSecret"
    /\ \/ secret' = NoKey /\ Go("dFinalizer") /\ Calm /\ UNCHANGED <<tn, timer>>
       \/ Disturb /\ secret' \in {secret, NoKey} /\ End(TRUE)
    /\ UNCHANGED <<world, cached, queued, secCache, keyState, oauthSecret,
                   accepted, excused>>

RemoveFinalizer ==
    /\ pc = "dFinalizer"
    /\ Update(Gone, End(FALSE))

Pass ==
    \/ AddFinalizer \/ WriteInvalid \/ WriteNoClient \/ WriteValid
    \/ GetKey \/ GetSecret \/ DelKey \/ Create \/ StoreSecret
    \/ WriteNoKey \/ WriteReady
    \/ CleanupKey \/ CleanupSecret \/ RemoveFinalizer

-----------------------------------------------------------------------------
(* Everybody else.                                                         *)

ManagerIdle == UNCHANGED <<pc, tn, timer, excused>>

\* The informer hands the oldest undelivered version to its cache and queues
\* a request for it.
Deliver ==
    /\ \E v \in pending :
          /\ \A w \in pending : v.rv <= w.rv
          /\ cached' = v /\ pending' = pending \ {v}
    /\ queued' = TRUE
    /\ ManagerIdle
    /\ UNCHANGED <<obj, secret, secCache, keyState, oauthSecret, accepted,
                   disturbances>>

\* The reconciler owns no Secret, so the Secret's events queue nothing.
SyncSecret ==
    /\ secCache # secret /\ secCache' = secret
    /\ ManagerIdle
    /\ UNCHANGED <<world, cached, queued, secret, keyState, oauthSecret,
                   accepted, disturbances>>

TimerFires ==
    /\ timer /\ timer' = FALSE /\ queued' = TRUE
    /\ UNCHANGED <<world, cached, pass, secret, secCache, keyState, oauthSecret,
                   accepted, excused, disturbances>>

\* The informer's resync, which comes every ten hours and is not relied on.
Resync ==
    /\ cached.phase # "absent" /\ ~queued /\ queued' = TRUE
    /\ UNCHANGED <<world, cached, pass, timer, secret, secCache, keyState,
                   oauthSecret, accepted, excused, disturbances>>

\* The manager restarts: its memory is gone, its informers list afresh.
Restart ==
    /\ Disturb
    /\ Go("idle") /\ tn' = Absent /\ timer' = FALSE /\ excused' = FALSE
    /\ cached' = obj /\ pending' = {} /\ secCache' = secret
    /\ queued' = (obj.phase # "absent")
    /\ UNCHANGED <<obj, secret, keyState, oauthSecret, accepted>>

Foreign(v) ==
    /\ Disturb /\ Put(v) /\ ManagerIdle
    /\ UNCHANGED <<cached, queued, secret, secCache, keyState, oauthSecret,
                   accepted>>

UserCreate ==
    /\ obj.phase = "absent"
    /\ \E ok \in BOOLEAN : Foreign(Fresh(obj.rv, ok))

UserEdit ==
    /\ obj.phase # "absent"
    /\ \E ok \in BOOLEAN : Foreign([obj EXCEPT !.valid = ok, !.observed = FALSE])

UserDelete ==
    /\ obj.phase = "present"
    /\ Foreign(IF obj.finalizer THEN [obj EXCEPT !.phase = "deleting"] ELSE Gone)

\* The PodReconciler writes the count of injected pods into the status, from
\* a cached copy of its own; the count itself is left out, the version is not.
DecrementInjectedPods ==
    /\ obj.phase # "absent" /\ cached = obj
    /\ Disturb /\ obj' = [obj EXCEPT !.rv = @ + 1]
    /\ pending' = pending \cup {obj'}
    /\ ManagerIdle
    /\ UNCHANGED <<cached, queued, secret, secCache, keyState, oauthSecret,
                   accepted>>

\* Somebody removes the Secret, or what the credentials rest on changes.
Tamper ==
    /\ Disturb
    /\ \/ secret # NoKey /\ secret' = NoKey /\ UNCHANGED <<oauthSecret, accepted>>
       \/ oauthSecret' = ~oauthSecret /\ UNCHANGED <<secret, accepted>>
       \/ accepted' = ~accepted /\ UNCHANGED <<secret, oauthSecret>>
    /\ ManagerIdle
    /\ UNCHANGED <<world, cached, queued, secCache, keyState>>

\* A key comes within 14 days of its end, or ends (or is revoked).
KeyAges ==
    /\ \E k \in Keys :
          \/ keyState[k] = "live"
                /\ keyState' = [keyState EXCEPT ![k] = "expiring"]
          \/ Alive(k) /\ Kill(k)
    /\ ManagerIdle
    /\ UNCHANGED <<world, cached, queued, secret, secCache, oauthSecret,
                   accepted, disturbances>>

Next ==
    \/ Start \/ Pass
    \/ Deliver \/ SyncSecret \/ TimerFires \/ Resync \/ Restart
    \/ UserCreate \/ UserEdit \/ UserDelete \/ DecrementInjectedPods
    \/ Tamper \/ KeyAges

Spec == Init /\ [][Next]_vars

\* The worker runs, its calls return, the timers fire, the watches deliver.
Fairness ==
    /\ WF_vars(Start) /\ WF_vars(Pass)
    /\ WF_vars(Deliver) /\ WF_vars(SyncSecret) /\ WF_vars(TimerFires)

FairSpec == Spec /\ Fairness

-----------------------------------------------------------------------------
(* Safety.                                                                 *)

\* The auth key Secret does not outlive its Tailnet: whatever pass, fault or
\* restart removed the Tailnet, handleDeletion had removed the Secret and no
\* pass on an older copy brings it back.
GoneMeansClean == obj.phase = "absent" => secret = NoKey

\* A key is created only while the Tailnet exists and holds the finalizer
\* that makes handleDeletion run, whatever the cache showed the pass.
KeyOnlyUnderFinalizer ==
    [][\A k \in Keys : keyState[k] = "unused" /\ keyState'[k] = "live"
                          => obj.phase # "absent" /\ obj.finalizer]_vars

\* A status that says Ready for the present generation says so of a spec that
\* passes validateTailnet, although Ready survives edits and failures.
ReadyIsForValidSpec ==
    obj.observed /\ obj.ready = "True" => obj.valid

\* One key is in use, and each fault, restart or foreign write strands at
\* most one more.  A pass whose last write fails has lost the key it made; it
\* is the OAuthValid write that stops its retries, which read the same stale
\* copy, from making another each.
BoundedKeys == Cardinality(AliveKeys) <= 1 + disturbances

\* When the Tailnet goes, its recorded key is dead, unless Tailscale could
\* not be asked or refused in the very pass that let the Tailnet go.
DeletionRevokesKey ==
    [][obj.phase = "deleting" /\ obj'.phase = "absent"
          => ~Alive(obj.keyID) \/ excused]_vars

\* The auth key Secret is a resource held by the Tailnet's finalizer.
Finalized == INSTANCE FinalizerProtocol
                WITH owner <- IF obj.phase = "absent" THEN "absent"
                              ELSE IF obj.finalizer THEN "held" ELSE "unheld",
                     resource <- secret # NoKey

ImplementsFinalizer == Finalized!Spec

\* The Secret receives each key once and never an older one: a key that a pass
\* made and has not stored yet is stored by that pass or never.
Source == INSTANCE KeySource
             WITH fresh <- Unused \cup IF pc = "secret" THEN {tn.keyID} ELSE {}

ImplementsKeySource == Source!Spec

-----------------------------------------------------------------------------
(* Liveness.                                                               *)

\* A deleted Tailnet goes away, whatever Tailscale says of the credentials.
DeletionCompletes == obj.phase = "deleting" ~> obj.phase = "absent"

Healthy == /\ obj.phase = "present" /\ obj.valid
           /\ oauthSecret /\ accepted
           /\ Unused # {}   \* the model still has keys to hand out

Settled == /\ obj.ready = "True" /\ obj.oauth = "True" /\ obj.observed
           /\ obj.keyID # NoKey /\ keyState[obj.keyID] = "live"
           /\ secret # NoKey

\* Once the Tailnet is sound and stays so, it becomes Ready with a live key
\* that is not about to expire, however the earlier passes ended.
Converges == <>[]Healthy => <>[]Settled

-----------------------------------------------------------------------------
(* What a message of the code says, and it does not keep.                  *)

\* "Auth key is valid": a pass that finds the recorded key live and the Secret
\* there goes on to report Ready, with nothing stale and nothing failing; the
\* Secret may still hold the key that was deleted before the recorded one.
ReadyMeansUsableKey ==
    [][pc = "getSecret" /\ pc' = "writeReady" /\ secCache = secret
          => secret = tn.keyID \/ Alive(secret)]_vars
=============================================================================
