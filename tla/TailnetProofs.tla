---------------------------- MODULE TailnetProofs ----------------------------
(***************************************************************************)
(* Theorems about Tailnet, for every set of keys and every bound.          *)
(*                                                                         *)
(* The argument: an rv names one version of the Tailnet for good, so a     *)
(* write that passes the check of the rv (Current) changes no more of the  *)
(* Tailnet than the pass changed of its copy.  The passes that create keys *)
(* and Secrets come by the OAuthValid write, which therefore saw the       *)
(* finalizer on the very object in the API server; and only a pass at      *)
(* dFinalizer takes that finalizer away, after it removed the Secret.      *)
(***************************************************************************)
EXTENDS Tailnet, FiniteSetTheorems, TLAPS

Held == obj.phase # "absent" /\ obj.finalizer

\* The pass is past the OAuthValid write.
Working == {"getKey", "getSecret", "delKey", "create", "secret", "writeNoKey",
            "writeReady"}

Deletion == {"dKey", "dSecret", "dFinalizer"}

\* No version is newer than the API server's, and its rv is its alone.
OldVersion(v) == v.rv <= obj.rv /\ (v.rv = obj.rv => v = obj)

VersionsOK ==
    /\ obj.rv > 0
    /\ OldVersion(cached)
    /\ \A v \in pending : OldVersion(v)

\* While its rv is current, the copy of the pass differs from the object at
\* most in what ensureAuthKey noted in its status.
CopyOK ==
    /\ tn.rv <= obj.rv
    /\ tn.rv = obj.rv =>
          /\ tn.phase = obj.phase /\ tn.finalizer = obj.finalizer
          /\ tn.valid = obj.valid
          /\ pc \notin Working => tn = obj

\* What the pass knows of its copy at each step.
StepOK ==
    /\ pc = "idle" => tn = Absent
    /\ pc = "addFinalizer" => tn.phase = "present"
    /\ pc \in {"writeInvalid", "writeNoClient", "writeValid"} \cup Working =>
          tn.phase = "present" /\ tn.finalizer
    /\ pc \in {"writeNoClient", "writeValid"} \cup Working => tn.valid
    /\ pc \in Deletion => tn.phase = "deleting" /\ tn.finalizer

HeldOK == pc \in Working \/ secret # NoKey => Held

ReleaseOK == pc = "dFinalizer" => secret = NoKey

RevokedOK == pc \in {"dSecret", "dFinalizer"} => ~Alive(tn.keyID) \/ excused

IInv == /\ TypeOK /\ VersionsOK /\ CopyOK /\ StepOK
        /\ HeldOK /\ ReleaseOK /\ RevokedOK /\ ReadyIsForValidSpec

-----------------------------------------------------------------------------
(* Versions of the Tailnet.                                                *)

LEMMA AbsentIsVersion == Absent \in Version
BY DEF Absent, Version, Condition

LEMMA FreshIsVersion ==
    ASSUME NEW n \in Nat, NEW ok \in BOOLEAN
    PROVE  Fresh(n, ok) \in Version
BY DEF Fresh, Absent, Version, Condition

\* The API server keeps the rv of an unchanged object and gives every other
\* write the next one; all else is as written.
LEMMA PutStores ==
    ASSUME TypeOK, NEW v \in Version, Put(v)
    PROVE  /\ obj' \in Version /\ pending' \subseteq Version
           /\ obj' = [v EXCEPT !.rv = obj'.rv]
           /\ \/ UNCHANGED world
              \/ obj'.rv = obj.rv + 1 /\ pending' = pending \cup {obj'}
<1>1. CASE v = obj
  BY <1>1 DEF Put, TypeOK, world, Version
<1>2. CASE v # obj
  <2>1. obj' = [v EXCEPT !.rv = obj.rv + 1] /\ pending' = pending \cup {obj'}
    BY <1>2 DEF Put
  <2>2. obj.rv + 1 \in Nat
    BY DEF TypeOK, Version
  <2>3. obj' \in Version /\ obj'.rv = obj.rv + 1
    BY <2>1, <2>2 DEF Version
  <2> QED
    BY <2>1, <2>2, <2>3 DEF TypeOK, Version
<1> QED
  BY <1>1, <1>2

-----------------------------------------------------------------------------
(* Type correctness.                                                       *)

LEMMA EndTypes ==
    ASSUME TypeOK, NEW again \in BOOLEAN, End(again)
    PROVE  pc' \in Steps /\ tn' \in Version /\ timer' \in BOOLEAN
BY AbsentIsVersion DEF End, Go, Steps, TypeOK

LEMMA InitTypes == Init => TypeOK
<1> SUFFICES ASSUME Init PROVE TypeOK
  OBVIOUS
<1>1. obj \in Version
  BY FreshIsVersion DEF Init
<1>2. keyState \in [Keys -> KeyStates]
  BY DEF Init, KeyStates
<1>3. disturbances \in 0 .. MaxDisturbances
  BY DisturbancesAssumption DEF Init
<1>4. cached \in Version /\ pending \subseteq Version
  BY <1>1 DEF Init
<1> QED
  BY <1>1, AbsentIsVersion, <1>2, <1>3, <1>4 DEF Init, TypeOK, Steps

\* A write of the Tailnet: OnSuccess has to be shown well-typed by its user.
LEMMA UpdateTypes ==
    ASSUME TypeOK, NEW v \in Version, 
           UNCHANGED <<cached, queued, secret, secCache, keyState, oauthSecret,
                       accepted, excused>>,
           UNCHANGED world \/ Put(v),
           Disturb \/ Calm,
           pc' \in Steps, tn' \in Version, timer' \in BOOLEAN
    PROVE  TypeOK'
<1>1. obj' \in Version /\ pending' \subseteq Version
  BY PutStores DEF TypeOK, world
<1>2. disturbances' \in 0 .. MaxDisturbances
  BY DisturbancesAssumption DEF Disturb, Calm, TypeOK
<1> QED
  BY <1>1, <1>2 DEF TypeOK

LEMMA ForeignTypes ==
    ASSUME TypeOK, NEW v \in Version, Foreign(v)
    PROVE  TypeOK'
<1>1. obj' \in Version /\ pending' \subseteq Version
  BY PutStores DEF Foreign
<1>2. disturbances' \in 0 .. MaxDisturbances
  BY DisturbancesAssumption DEF Foreign, Disturb, TypeOK
<1> QED
  BY <1>1, <1>2 DEF Foreign, ManagerIdle, TypeOK

LEMMA StatusIsVersion ==
    ASSUME TypeOK
    PROVE  /\ Status \in Version
           /\ \A c \in Condition :
                 /\ [Status EXCEPT !.ready = c] \in Version
                 /\ [Status EXCEPT !.oauth = c] \in Version
                 /\ [Status EXCEPT !.created = c] \in Version
           /\ [tn EXCEPT !.finalizer = TRUE] \in Version
           /\ Gone \in Version
<1>1. Status \in Version
  BY DEF TypeOK, Status, Version
<1>2. \A c \in Condition : /\ [Status EXCEPT !.ready = c] \in Version
                           /\ [Status EXCEPT !.oauth = c] \in Version
                           /\ [Status EXCEPT !.created = c] \in Version
  BY <1>1 DEF Version
<1>3. [tn EXCEPT !.finalizer = TRUE] \in Version
  BY DEF TypeOK, Version
<1>4. Gone \in Version
  BY AbsentIsVersion DEF TypeOK, Gone, Version
<1> QED
  BY <1>1, <1>2, <1>3, <1>4

LEMMA CounterTypes ==
    ASSUME TypeOK, Disturb \/ Calm
    PROVE  disturbances' \in 0 .. MaxDisturbances
BY DisturbancesAssumption DEF TypeOK, Disturb, Calm

LEMMA KeyStateTypes ==
    ASSUME TypeOK
    PROVE  /\ \A k : [keyState EXCEPT ![k] = "live"] \in [Keys -> KeyStates]
           /\ \A k : [keyState EXCEPT ![k] = "expiring"] \in [Keys -> KeyStates]
           /\ \A k : [keyState EXCEPT ![k] = "dead"] \in [Keys -> KeyStates]
BY DEF TypeOK, KeyStates

LEMMA DeleteKeyTypes ==
    ASSUME TypeOK, DeleteKey
    PROVE  /\ keyState' \in [Keys -> KeyStates] /\ excused' \in BOOLEAN
           /\ disturbances' \in 0 .. MaxDisturbances
<1>1. Disturb \/ Calm
  BY DEF DeleteKey
<1>2. keyState' \in [Keys -> KeyStates]
  BY KeyStateTypes DEF DeleteKey, Kill, TypeOK
<1>3. excused' \in BOOLEAN
  BY DEF DeleteKey, TypeOK
<1> QED
  BY <1>1, <1>2, <1>3, CounterTypes

LEMMA NextTypes == TypeOK /\ [Next]_vars => TypeOK'
<1> SUFFICES ASSUME TypeOK, [Next]_vars PROVE TypeOK'
  OBVIOUS
<1> USE DisturbancesAssumption, KeysAssumption
<1>1. CASE Start
  <2>1. FirstStep(cached) \in Steps
    BY DEF FirstStep, Steps, TypeOK, Version
  <2> QED
    BY <1>1, <2>1, AbsentIsVersion DEF Start, TypeOK, Go, world
<1>2. CASE AddFinalizer
  BY <1>2, UpdateTypes, EndTypes, StatusIsVersion DEF AddFinalizer, Update
<1>3. CASE WriteInvalid
  BY <1>3, UpdateTypes, EndTypes, StatusIsVersion
  DEF WriteInvalid, Update, Condition
<1>4. CASE WriteNoClient
  BY <1>4, UpdateTypes, EndTypes, StatusIsVersion
  DEF WriteNoClient, Update, Condition
<1>5. CASE WriteValid
  <2> DEFINE v == [Status EXCEPT !.oauth = "True"]
  <2>1. v \in Version
    BY StatusIsVersion DEF Condition
  <2>2. CASE \/ ~Current /\ UNCHANGED world /\ End(TRUE) /\ Calm
             \/ Disturb /\ UNCHANGED world /\ End(TRUE)
             \/ Disturb /\ Current /\ Put(v) /\ End(TRUE)
    BY <1>5, <2>1, <2>2, UpdateTypes, EndTypes DEF WriteValid, Update
  <2>3. CASE /\ Put(v) /\ tn' = obj' /\ UNCHANGED timer
             /\ Go(IF tn.keyID = NoKey THEN "create" ELSE "getKey") /\ Calm
    <3>1. tn' \in Version
      BY <2>1, <2>3, PutStores
    <3>2. pc' \in Steps /\ timer' \in BOOLEAN
      BY <2>3 DEF Go, Steps, TypeOK
    <3> QED
      BY <1>5, <2>1, <2>3, <3>1, <3>2, UpdateTypes DEF WriteValid, Update
  <2> QED
    BY <1>5, <2>2, <2>3 DEF WriteValid, Update
<1>6. CASE WriteNoKey
  BY <1>6, UpdateTypes, EndTypes, StatusIsVersion
  DEF WriteNoKey, Update, Condition
<1>7. CASE WriteReady
  BY <1>7, UpdateTypes, EndTypes, StatusIsVersion
  DEF WriteReady, Update, Condition
<1>8. CASE RemoveFinalizer
  BY <1>8, UpdateTypes, EndTypes, StatusIsVersion DEF RemoveFinalizer, Update
<1>9. CASE GetKey
  BY <1>9 DEF GetKey, TypeOK, Go, Steps, Calm, Disturb, world
<1>10. CASE GetSecret
  BY <1>10 DEF GetSecret, TypeOK, Go, Steps, world
<1>11. CASE DelKey
  BY <1>11, DeleteKeyTypes DEF DelKey, TypeOK, Go, Steps, world
<1>12. CASE Create
  <2>1. \A k \in Keys : [tn EXCEPT !.keyID = k, !.created = "True"] \in Version
    BY DEF TypeOK, Version, Condition
  <2>2. Disturb \/ Calm
    BY <1>12 DEF Create
  <2>3. keyState' \in [Keys -> KeyStates]
    <3>1. \/ keyState' = keyState
          \/ \E k \in Keys : keyState' = [keyState EXCEPT ![k] = "live"]
      BY <1>12, Zenon DEF Create, Unused
    <3> QED
      BY <3>1, KeyStateTypes DEF TypeOK
  <2>4. tn' \in Version
    <3>1. tn' = tn \/ \E k \in Keys : tn' = [tn EXCEPT !.keyID = k, !.created = "True"]
      BY <1>12, Zenon DEF Create, Unused
    <3> QED
      BY <2>1, <3>1 DEF TypeOK
  <2>5. pc' \in Steps
    BY <1>12 DEF Create, Go, Steps
  <2> QED
    BY <1>12, <2>2, <2>3, <2>4, <2>5, CounterTypes DEF Create, TypeOK, world
<1>13. CASE StoreSecret
  <2>1. tn.keyID \in Keys \cup {NoKey}
    BY DEF TypeOK, Version
  <2> QED
    BY <1>13, <2>1 DEF StoreSecret, TypeOK, Go, Steps, Calm, Disturb, world
<1>14. CASE CleanupKey
  BY <1>14, DeleteKeyTypes DEF CleanupKey, TypeOK, Go, Steps, world
<1>15. CASE CleanupSecret
  <2>1. Disturb \/ Calm
    BY <1>15 DEF CleanupSecret
  <2>2. pc' \in Steps /\ tn' \in Version /\ timer' \in BOOLEAN
    BY <1>15, EndTypes DEF CleanupSecret, TypeOK, Go, Steps
  <2>3. secret' \in Keys \cup {NoKey}
    BY <1>15 DEF CleanupSecret, TypeOK
  <2> QED
    BY <1>15, <2>1, <2>2, <2>3, CounterTypes DEF CleanupSecret, TypeOK, world
<1>16. CASE Deliver
  BY <1>16 DEF Deliver, TypeOK, ManagerIdle
<1>17. CASE SyncSecret
  BY <1>17 DEF SyncSecret, TypeOK, ManagerIdle, world
<1>18. CASE TimerFires \/ Resync
  BY <1>18 DEF TimerFires, Resync, TypeOK, world, pass
<1>19. CASE Restart
  <2>1. queued' \in BOOLEAN
    BY <1>19 DEF Restart
  <2>2. disturbances' \in 0 .. MaxDisturbances
    BY <1>19, CounterTypes DEF Restart
  <2> QED
    BY <1>19, <2>1, <2>2, AbsentIsVersion DEF Restart, TypeOK, Go, Steps
<1>20. CASE UserCreate
  BY <1>20, FreshIsVersion, ForeignTypes DEF UserCreate, TypeOK, Version
<1>21. CASE UserEdit
  BY <1>21, ForeignTypes DEF UserEdit, TypeOK, Version
<1>22. CASE UserDelete
  <2>1. [obj EXCEPT !.phase = "deleting"] \in Version /\ Gone \in Version
    BY StatusIsVersion DEF TypeOK, Version
  <2> QED
    BY <1>22, <2>1, ForeignTypes, Zenon DEF UserDelete
<1>23. CASE DecrementInjectedPods
  BY <1>23 DEF DecrementInjectedPods, TypeOK, Version, Disturb, ManagerIdle
<1>24. CASE Tamper
  <2>1. disturbances' \in 0 .. MaxDisturbances
    BY <1>24, CounterTypes DEF Tamper
  <2>2. secret' \in Keys \cup {NoKey}
    BY <1>24 DEF Tamper, TypeOK
  <2>3. oauthSecret' \in BOOLEAN /\ accepted' \in BOOLEAN
    BY <1>24, Zenon DEF Tamper, TypeOK
  <2> QED
    BY <1>24, <2>1, <2>2, <2>3 DEF Tamper, TypeOK, ManagerIdle, world
<1>25. CASE KeyAges
  BY <1>25 DEF KeyAges, Kill, TypeOK, ManagerIdle, world, KeyStates
<1>26. CASE UNCHANGED vars
  BY <1>26 DEF vars, TypeOK
<1> QED
  BY <1>1, <1>2, <1>3, <1>4, <1>5, <1>6, <1>7, <1>8, <1>9, <1>10, <1>11, <1>12,
     <1>13, <1>14, <1>15, <1>16, <1>17, <1>18, <1>19, <1>20, <1>21, <1>22, <1>23,
     <1>24, <1>25, <1>26 DEF Next, Pass

\* Every variable stays within its type.
THEOREM TypeCorrect == Spec => []TypeOK
<1> QED
  BY InitTypes, NextTypes, PTL DEF Spec
-----------------------------------------------------------------------------
(* The inductive invariant.                                                *)

LEMMA InitInvariant == Init => IInv
<1> SUFFICES ASSUME Init PROVE IInv
  OBVIOUS
<1>1. PICK ok \in BOOLEAN : obj = Fresh(1, ok)
  BY DEF Init
<1>2. obj.rv = 1 /\ obj.phase = "present" /\ ~obj.observed
  BY <1>1 DEF Fresh, Absent
<1>3. VersionsOK
  BY <1>2 DEF Init, VersionsOK, OldVersion
<1>4. CopyOK
  BY <1>2 DEF Init, CopyOK, Absent
<1>5. StepOK
  BY DEF Init, StepOK, Working, Deletion
<1> QED
  BY <1>2, <1>3, <1>4, <1>5, InitTypes
  DEF Init, IInv, HeldOK, ReleaseOK, RevokedOK, ReadyIsForValidSpec, Working

LEMMA NewVersion ==
    ASSUME IInv, UNCHANGED cached,
           obj'.rv = obj.rv + 1, pending' = pending \cup {obj'}
    PROVE  VersionsOK'
<1>1. obj.rv \in Nat /\ \A w \in pending \cup {cached} : w.rv \in Nat
  BY DEF IInv, TypeOK, Version
<1> QED
  BY <1>1 DEF IInv, VersionsOK, OldVersion

\* An idle pass holds no copy.
LEMMA IdleStep ==
    ASSUME VersionsOK', TypeOK', pc' = "idle", tn' = Absent
    PROVE  CopyOK' /\ StepOK' /\ ReleaseOK' /\ RevokedOK'
<1>1. tn'.rv = 0 /\ obj'.rv \in Nat /\ obj'.rv # 0
  BY DEF Absent, TypeOK, Version, VersionsOK
<1> QED
  BY <1>1 DEF CopyOK, StepOK, ReleaseOK, RevokedOK, Working, Deletion

\* What a write does to the versions: it adds one that is newer than all.
LEMMA PutVersions ==
    ASSUME IInv, NEW v \in Version, UNCHANGED world \/ Put(v), UNCHANGED cached
    PROVE  /\ VersionsOK'
           /\ \/ obj' = obj
              \/ obj'.rv = obj.rv + 1 /\ obj' = [v EXCEPT !.rv = obj'.rv]
<1> USE DEF IInv
<1>1. CASE UNCHANGED world
  BY <1>1 DEF world, VersionsOK, OldVersion
<1>2. CASE ~UNCHANGED world
  <2>1. /\ obj' \in Version /\ obj' = [v EXCEPT !.rv = obj'.rv]
        /\ obj'.rv = obj.rv + 1 /\ pending' = pending \cup {obj'}
    BY <1>2, PutStores
  <2> QED
    BY <2>1, NewVersion
<1> QED
  BY <1>1, <1>2

\* A pass that ends with a write of v leaves the invariant intact when v is
\* allowed to replace the object: it keeps phase and finalizer, or takes the
\* object away when the Secret is gone; and its Ready is of a valid spec.
LEMMA LastWrite ==
    ASSUME IInv, TypeOK', NEW v \in Version, NEW again \in BOOLEAN,
           \/ UNCHANGED world
           \/ Current /\ Put(v),
           End(again), UNCHANGED <<cached, secret>>,
           Current => \/ v.phase = "absent" /\ secret = NoKey
                      \/ v.phase = obj.phase /\ (obj.finalizer => v.finalizer),
           Current => (v.observed /\ v.ready = "True" => v.valid)
    PROVE  /\ VersionsOK' /\ CopyOK' /\ StepOK' /\ HeldOK' /\ ReleaseOK'
           /\ RevokedOK' /\ ReadyIsForValidSpec'
<1> USE DEF IInv
<1>1. /\ VersionsOK'
      /\ \/ obj' = obj
         \/ Current /\ obj'.rv = obj.rv + 1 /\ obj' = [v EXCEPT !.rv = obj'.rv]
  BY PutVersions DEF world
<1>2. pc' = "idle" /\ tn' = Absent
  BY DEF End, Go
<1>3. CopyOK' /\ StepOK' /\ ReleaseOK' /\ RevokedOK'
  BY <1>1, <1>2, IdleStep
<1>4. CASE obj' = obj
  BY <1>2, <1>3, <1>1, <1>4 DEF HeldOK, Held, ReadyIsForValidSpec, Working
<1>5. CASE Current /\ obj' = [v EXCEPT !.rv = obj'.rv]
  <2>1. /\ obj'.phase = v.phase /\ obj'.finalizer = v.finalizer
        /\ obj'.observed = v.observed /\ obj'.ready = v.ready
        /\ obj'.valid = v.valid
    BY <1>5 DEF Version
  <2>2. HeldOK'
    BY <1>2, <1>5, <2>1 DEF HeldOK, Held, Working
  <2>3. ReadyIsForValidSpec'
    BY <1>5, <2>1 DEF ReadyIsForValidSpec
  <2> QED
    BY <1>1, <1>3, <2>2, <2>3
<1> QED
  BY <1>1, <1>4, <1>5

\* A step that leaves the API server's Tailnet and the pass's copy alone.
LEMMA LocalStep ==
    ASSUME IInv, UNCHANGED <<world, cached, tn>>,
           pc' \in Working <=> pc \in Working,
           pc' # pc => pc' \in Working \cup {"dSecret", "dFinalizer"},
           pc' \in Deletion => pc \in Deletion
    PROVE  VersionsOK' /\ CopyOK' /\ StepOK' /\ ReadyIsForValidSpec'
<1> USE DEF IInv
<1>1. VersionsOK' /\ ReadyIsForValidSpec'
  BY DEF world, VersionsOK, OldVersion, ReadyIsForValidSpec
<1>2. CopyOK'
  BY DEF world, CopyOK, Working, Deletion
<1>3. StepOK'
  BY DEF StepOK, Working, Deletion
<1> QED
  BY <1>1, <1>2, <1>3

\* A write of somebody else.
LEMMA ForeignStep ==
    ASSUME IInv, NEW v \in Version, Put(v),
           UNCHANGED <<cached, secret, keyState>>, ManagerIdle,
           v.observed /\ v.ready = "True" => v.valid,
           Held => v.phase # "absent" /\ v.finalizer
    PROVE  /\ VersionsOK' /\ CopyOK' /\ StepOK' /\ HeldOK' /\ ReleaseOK'
           /\ RevokedOK' /\ ReadyIsForValidSpec'
<1> USE DEF IInv
<1>1. /\ VersionsOK'
      /\ \/ obj' = obj
         \/ obj'.rv = obj.rv + 1 /\ obj' = [v EXCEPT !.rv = obj'.rv]
  BY PutVersions
<1>2. pc' = pc /\ tn' = tn /\ excused' = excused
  BY DEF ManagerIdle
<1>3. StepOK' /\ ReleaseOK' /\ RevokedOK'
  BY <1>2 DEF StepOK, ReleaseOK, RevokedOK, Alive
<1>4. CASE obj' = obj
  BY <1>1, <1>2, <1>3, <1>4 DEF CopyOK, HeldOK, Held, ReadyIsForValidSpec
<1>5. CASE obj'.rv = obj.rv + 1 /\ obj' = [v EXCEPT !.rv = obj'.rv]
  <2>1. /\ obj'.phase = v.phase /\ obj'.finalizer = v.finalizer
        /\ obj'.observed = v.observed /\ obj'.ready = v.ready
        /\ obj'.valid = v.valid
    BY <1>5 DEF Version
  <2>2. CopyOK'
    BY <1>2, <1>5 DEF CopyOK, TypeOK, Version
  <2>3. HeldOK' /\ ReadyIsForValidSpec'
    BY <1>2, <2>1 DEF HeldOK, Held, ReadyIsForValidSpec
  <2> QED
    BY <1>1, <1>3, <2>2, <2>3
<1> QED
  BY <1>1, <1>4, <1>5

\* The copy of a pass that may write is like the object it replaces.
LEMMA CurrentCopy ==
    ASSUME IInv, Current
    PROVE  /\ tn.phase = obj.phase /\ tn.finalizer = obj.finalizer
           /\ tn.valid = obj.valid
           /\ pc \notin Working => tn = obj
BY DEF IInv, CopyOK, Current

LEMMA StatusFields ==
    ASSUME TypeOK
    PROVE  \A c \in Condition :
             /\ LET v == [Status EXCEPT !.ready = c] IN
                  /\ v.phase = tn.phase /\ v.finalizer = tn.finalizer
                  /\ v.valid = tn.valid /\ v.ready = c
             /\ LET v == [Status EXCEPT !.oauth = c] IN
                  /\ v.phase = tn.phase /\ v.finalizer = tn.finalizer
                  /\ v.valid = tn.valid /\ v.rv = tn.rv
             /\ LET v == [Status EXCEPT !.created = c] IN
                  /\ v.phase = tn.phase /\ v.finalizer = tn.finalizer
                  /\ v.valid = tn.valid
BY DEF TypeOK, Version, Status

LEMMA GoneFields == Gone.phase = "absent" /\ ~Gone.observed
BY DEF Gone, Absent

LEMMA NextInvariant == IInv /\ [Next]_vars => IInv'
<1> SUFFICES ASSUME IInv, [Next]_vars PROVE IInv'
  OBVIOUS
<1> USE DEF IInv
<1>0. TypeOK'
  BY NextTypes
<1>1. CASE Start
  <2>0. PICK first : first = FirstStep(cached)
    OBVIOUS
  <2>1. /\ UNCHANGED <<world, cached, secret, keyState>> /\ pc' = first
        /\ tn' = IF first = "idle" THEN Absent ELSE cached
    BY <1>1, <2>0 DEF Start, Go
  <2>2. /\ first \notin Working /\ first # "dFinalizer"
        /\ first = "addFinalizer" => cached.phase = "present"
        /\ first \in {"writeInvalid", "writeNoClient", "writeValid"} =>
              cached.phase = "present" /\ cached.finalizer
        /\ first \in {"writeNoClient", "writeValid"} => cached.valid
        /\ first \in Deletion => cached.phase = "deleting" /\ cached.finalizer
        /\ first = "dSecret" => ~oauthSecret \/ cached.keyID = NoKey
    BY <2>0 DEF FirstStep, TypeOK, Version, Working, Deletion
  <2>3. VersionsOK' /\ ReadyIsForValidSpec'
    BY <2>1 DEF world, VersionsOK, OldVersion, ReadyIsForValidSpec
  <2>4. HeldOK' /\ ReleaseOK'
    BY <2>1, <2>2 DEF world, HeldOK, Held, ReleaseOK
  <2>5. CASE first = "idle"
    BY <1>0, <2>1, <2>3, <2>4, <2>5, IdleStep
  <2>6. CASE first # "idle"
    <3>1. tn' = cached /\ pc' = first /\ obj' = obj
      BY <2>1, <2>6 DEF world
    <3>2. CopyOK'
      BY <2>2, <3>1 DEF VersionsOK, OldVersion, CopyOK
    <3>3. StepOK'
      BY <2>2, <2>6, <3>1 DEF StepOK
    <3>4. RevokedOK'
      <4>2. ASSUME first = "dSecret", oauthSecret PROVE ~Alive(tn.keyID)'
        BY <2>2, <3>1, <4>2, KeysAssumption DEF Alive
      <4>3. ASSUME first = "dSecret", ~oauthSecret PROVE excused'
        <5>1. excused' = (cached.phase = "deleting" /\ ~oauthSecret)
          BY <1>1 DEF Start
        <5>2. cached.phase = "deleting"
          BY <2>2, <4>3 DEF Deletion
        <5> QED
          BY <4>3, <5>1, <5>2
      <4> QED
        BY <2>2, <3>1, <4>2, <4>3 DEF RevokedOK
    <3> QED
      BY <1>0, <2>3, <2>4, <3>2, <3>3, <3>4
  <2> QED
    BY <2>5, <2>6
<1>2. CASE AddFinalizer
  <2> DEFINE v == [tn EXCEPT !.finalizer = TRUE]
  <2>1. v \in Version
    BY StatusIsVersion
  <2>2. v.phase = tn.phase /\ v.finalizer /\ v.observed = tn.observed
        /\ v.ready = tn.ready /\ v.valid = tn.valid
    BY DEF TypeOK, Version
  <2>3. Current => tn = obj
    BY <1>2, CurrentCopy DEF AddFinalizer, Working
  <2>4. Current => (v.observed /\ v.ready = "True" => v.valid)
    BY <2>2, <2>3 DEF ReadyIsForValidSpec
  <2> QED
    BY <1>0, <1>2, <2>1, <2>2, <2>3, <2>4, LastWrite DEF AddFinalizer, Update
<1>3. CASE WriteInvalid
  BY <1>0, <1>3, LastWrite, CurrentCopy, StatusIsVersion, StatusFields
  DEF WriteInvalid, Update, Condition
<1>4. CASE WriteNoClient
  <2>1. tn.valid
    BY <1>4 DEF WriteNoClient, StepOK
  <2> QED
    BY <1>0, <1>4, <2>1, LastWrite, CurrentCopy, StatusIsVersion, StatusFields
    DEF WriteNoClient, Update, Condition
<1>5. CASE WriteNoKey
  <2>1. tn.valid
    BY <1>5 DEF WriteNoKey, StepOK, Working
  <2> QED
    BY <1>0, <1>5, <2>1, LastWrite, CurrentCopy, StatusIsVersion, StatusFields
    DEF WriteNoKey, Update, Condition
<1>6. CASE WriteReady
  <2>1. tn.valid
    BY <1>6 DEF WriteReady, StepOK, Working
  <2> QED
    BY <1>0, <1>6, <2>1, LastWrite, CurrentCopy, StatusIsVersion, StatusFields
    DEF WriteReady, Update, Condition
<1>7. CASE RemoveFinalizer
  <2>1. secret = NoKey
    BY <1>7 DEF RemoveFinalizer, ReleaseOK
  <2> QED
    BY <1>0, <1>7, <2>1, LastWrite, StatusIsVersion, GoneFields
    DEF RemoveFinalizer, Update
<1>8. CASE WriteValid
  <2> DEFINE v == [Status EXCEPT !.oauth = "True"]
  <2>1. /\ v \in Version /\ v.phase = tn.phase /\ v.finalizer = tn.finalizer
        /\ v.valid = tn.valid
    BY StatusIsVersion, StatusFields DEF Condition
  <2>2. tn.valid /\ tn.phase = "present" /\ tn.finalizer
    BY <1>8 DEF WriteValid, StepOK
  <2>3. UNCHANGED <<cached, secret, keyState, excused>>
    BY <1>8 DEF WriteValid, Update
  <2>4. CASE (UNCHANGED world \/ (Current /\ Put(v))) /\ End(TRUE)
    BY <1>0, <2>1, <2>2, <2>3, <2>4, LastWrite, CurrentCopy
  <2>5. CASE /\ Current /\ Put(v) /\ tn' = obj'
             /\ pc' \in {"create", "getKey"}
    <3>1. /\ obj'.phase = "present" /\ obj'.finalizer /\ obj'.valid
      <4>1. obj' = [v EXCEPT !.rv = obj'.rv]
        BY <2>1, <2>5, PutStores
      <4> QED
        BY <2>1, <2>2, <4>1 DEF Version
    <3>2. VersionsOK'
      BY <2>1, <2>3, <2>5, PutVersions
    <3>3. CopyOK' /\ StepOK'
      BY <1>0, <2>5, <3>1 DEF CopyOK, StepOK, Working, Deletion, TypeOK, Version
    <3>4. HeldOK' /\ ReleaseOK' /\ RevokedOK' /\ ReadyIsForValidSpec'
      BY <2>5, <3>1
      DEF HeldOK, Held, ReleaseOK, RevokedOK, ReadyIsForValidSpec
    <3> QED
      BY <1>0, <3>2, <3>3, <3>4
  <2>6. \/ Current /\ Put(v) /\ tn' = obj' /\ pc' \in {"create", "getKey"}
        \/ (UNCHANGED world \/ (Current /\ Put(v))) /\ End(TRUE)
    <3>1. \/ Current /\ Put(v) /\ tn' = obj'
                /\ Go(IF tn.keyID = NoKey THEN "create" ELSE "getKey")
          \/ (UNCHANGED world \/ (Current /\ Put(v))) /\ End(TRUE)
      BY <1>8, Zenon DEF WriteValid, Update
    <3> QED
      BY <3>1 DEF Go
  <2> QED
    BY <2>4, <2>5, <2>6
<1>9. CASE GetKey
  BY <1>0, <1>9, LocalStep
  DEF GetKey, Go, Working, Deletion, HeldOK, Held, ReleaseOK, RevokedOK, world
<1>10. CASE GetSecret
  BY <1>0, <1>10, LocalStep
  DEF GetSecret, Go, Working, Deletion, HeldOK, Held, ReleaseOK, RevokedOK, world
<1>11. CASE DelKey
  BY <1>0, <1>11, LocalStep
  DEF DelKey, Go, Working, Deletion, HeldOK, Held, ReleaseOK, RevokedOK, world
<1>12. CASE Create
  <2>1. /\ UNCHANGED <<world, cached, secret>> /\ pc = "create"
        /\ pc' \in {"secret", "writeNoKey"}
    BY <1>12 DEF Create, Go
  <2>2. /\ tn'.rv = tn.rv /\ tn'.phase = tn.phase
        /\ tn'.finalizer = tn.finalizer /\ tn'.valid = tn.valid
    <3>1. tn' = tn \/ \E k \in Keys : tn' = [tn EXCEPT !.keyID = k, !.created = "True"]
      BY <1>12, Zenon DEF Create, Unused
    <3> QED
      BY <3>1 DEF TypeOK, Version
  <2>3. VersionsOK' /\ ReadyIsForValidSpec'
    BY <2>1 DEF world, VersionsOK, OldVersion, ReadyIsForValidSpec
  <2>4. CopyOK' /\ StepOK'
    BY <2>1, <2>2 DEF world, CopyOK, StepOK, Working, Deletion
  <2>5. HeldOK' /\ ReleaseOK' /\ RevokedOK'
    BY <2>1 DEF world, HeldOK, Held, ReleaseOK, RevokedOK, Working
  <2> QED
    BY <1>0, <2>3, <2>4, <2>5
<1>13. CASE StoreSecret
  BY <1>0, <1>13, LocalStep
  DEF StoreSecret, Go, Working, Deletion, HeldOK, Held, ReleaseOK, RevokedOK, world
<1>14. CASE CleanupKey
  <2>1. /\ UNCHANGED <<world, cached, tn, secret>> /\ pc = "dKey" /\ pc' = "dSecret"
    BY <1>14 DEF CleanupKey, Go
  <2>2. VersionsOK' /\ CopyOK' /\ StepOK' /\ ReadyIsForValidSpec'
    BY <2>1, LocalStep DEF Working, Deletion
  <2>3. HeldOK' /\ ReleaseOK'
    BY <2>1 DEF world, HeldOK, Held, ReleaseOK, Working
  <2>4. RevokedOK'
    BY <1>14, <2>1 DEF CleanupKey, DeleteKey, Kill, RevokedOK, Alive, TypeOK
  <2> QED
    BY <1>0, <2>2, <2>3, <2>4
<1>15. CASE CleanupSecret
  <2>1. /\ UNCHANGED <<world, cached, keyState, excused>> /\ pc = "dSecret"
        /\ secret' \in {secret, NoKey}
        /\ \/ secret' = NoKey /\ pc' = "dFinalizer" /\ tn' = tn
           \/ pc' = "idle" /\ tn' = Absent
    BY <1>15 DEF CleanupSecret, End, Go
  <2>2. VersionsOK' /\ ReadyIsForValidSpec'
    BY <2>1 DEF world, VersionsOK, OldVersion, ReadyIsForValidSpec
  <2>3. HeldOK'
    BY <2>1 DEF world, HeldOK, Held, Working
  <2>4. CASE pc' = "idle" /\ tn' = Absent
    BY <1>0, <2>2, <2>3, <2>4, IdleStep
  <2>5. CASE secret' = NoKey /\ pc' = "dFinalizer" /\ tn' = tn
    <3>1. CopyOK' /\ StepOK'
      BY <2>1, <2>5 DEF world, CopyOK, StepOK, Working, Deletion
    <3>2. ReleaseOK' /\ RevokedOK'
      BY <2>1, <2>5 DEF ReleaseOK, RevokedOK, Alive
    <3> QED
      BY <1>0, <2>2, <2>3, <3>1, <3>2
  <2> QED
    BY <2>1, <2>4, <2>5
<1>16. CASE Deliver
  BY <1>0, <1>16
  DEF Deliver, ManagerIdle, VersionsOK, OldVersion, CopyOK, StepOK, HeldOK, Held,
      ReleaseOK, RevokedOK, Alive, ReadyIsForValidSpec
<1>17. CASE SyncSecret
  BY <1>0, <1>17
  DEF SyncSecret, ManagerIdle, world, VersionsOK, OldVersion, CopyOK, StepOK,
      HeldOK, Held, ReleaseOK, RevokedOK, Alive, ReadyIsForValidSpec
<1>18. CASE TimerFires \/ Resync
  BY <1>0, <1>18
  DEF TimerFires, Resync, pass, world, VersionsOK, OldVersion, CopyOK, StepOK,
      HeldOK, Held, ReleaseOK, RevokedOK, Alive, ReadyIsForValidSpec
<1>19. CASE Restart
  <2>1. /\ UNCHANGED <<obj, secret>> /\ cached' = obj /\ pending' = {}
        /\ pc' = "idle" /\ tn' = Absent
    BY <1>19 DEF Restart, Go
  <2>2. VersionsOK' /\ ReadyIsForValidSpec'
    BY <2>1 DEF VersionsOK, OldVersion, ReadyIsForValidSpec, TypeOK, Version
  <2>3. HeldOK'
    BY <2>1 DEF HeldOK, Held, Working
  <2> QED
    BY <1>0, <2>1, <2>2, <2>3, IdleStep
<1>20. CASE UserCreate
  <2>1. PICK ok \in BOOLEAN : Foreign(Fresh(obj.rv, ok))
    BY <1>20 DEF UserCreate
  <2>2. Fresh(obj.rv, ok) \in Version
    BY FreshIsVersion DEF TypeOK, Version
  <2>3. ~Fresh(obj.rv, ok).observed /\ ~Held
    BY <1>20 DEF UserCreate, Held, Fresh, Absent
  <2> QED
    BY <1>0, <2>1, <2>2, <2>3, ForeignStep DEF Foreign
<1>21. CASE UserEdit
  <2>1. PICK ok \in BOOLEAN :
           Foreign([obj EXCEPT !.valid = ok, !.observed = FALSE])
    BY <1>21 DEF UserEdit
  <2> DEFINE v == [obj EXCEPT !.valid = ok, !.observed = FALSE]
  <2>2. /\ v \in Version /\ ~v.observed
        /\ v.phase = obj.phase /\ v.finalizer = obj.finalizer
    BY DEF TypeOK, Version
  <2> QED
    BY <1>0, <2>1, <2>2, ForeignStep DEF Foreign, Held
<1>22. CASE UserDelete
  <2> DEFINE v == [obj EXCEPT !.phase = "deleting"]
  <2>1. /\ v \in Version /\ v.phase = "deleting" /\ v.finalizer = obj.finalizer
        /\ v.observed = obj.observed /\ v.ready = obj.ready
        /\ v.valid = obj.valid
    BY DEF TypeOK, Version
  <2>2. CASE obj.finalizer
    BY <1>0, <1>22, <2>1, <2>2, ForeignStep
    DEF UserDelete, Foreign, Held, ReadyIsForValidSpec
  <2>3. CASE ~obj.finalizer
    BY <1>0, <1>22, <2>3, ForeignStep, StatusIsVersion, GoneFields
    DEF UserDelete, Foreign, Held
  <2> QED
    BY <2>2, <2>3
<1>23. CASE DecrementInjectedPods
  <2>1. /\ obj' = [obj EXCEPT !.rv = @ + 1] /\ pending' = pending \cup {obj'}
        /\ ManagerIdle /\ UNCHANGED <<cached, secret, keyState>>
    BY <1>23 DEF DecrementInjectedPods
  <2>2. /\ obj'.rv = obj.rv + 1 /\ obj'.phase = obj.phase
        /\ obj'.finalizer = obj.finalizer /\ obj'.observed = obj.observed
        /\ obj'.ready = obj.ready /\ obj'.valid = obj.valid
        /\ obj.rv \in Nat
        /\ \A w \in pending \cup {cached, tn} : w.rv \in Nat
    BY <2>1 DEF TypeOK, Version
  <2>3. VersionsOK'
    BY <2>1, <2>2, NewVersion
  <2>4. CopyOK' /\ StepOK'
    BY <2>1, <2>2 DEF ManagerIdle, CopyOK, StepOK
  <2>5. HeldOK' /\ ReleaseOK' /\ RevokedOK' /\ ReadyIsForValidSpec'
    BY <2>1, <2>2
    DEF ManagerIdle, HeldOK, Held, ReleaseOK, RevokedOK, Alive,
        ReadyIsForValidSpec
  <2> QED
    BY <1>0, <2>3, <2>4, <2>5
<1>24. CASE Tamper
  <2>1. /\ ManagerIdle /\ UNCHANGED <<world, cached, keyState>>
        /\ secret' \in {secret, NoKey}
    BY <1>24 DEF Tamper
  <2> QED
    BY <1>0, <2>1
    DEF ManagerIdle, world, VersionsOK, OldVersion, CopyOK, StepOK, HeldOK,
        Held, ReleaseOK, RevokedOK, Alive, ReadyIsForValidSpec
<1>25. CASE KeyAges
  <2>1. /\ ManagerIdle /\ UNCHANGED <<world, cached, secret>>
    BY <1>25 DEF KeyAges
  <2>2. /\ VersionsOK' /\ CopyOK' /\ StepOK' /\ HeldOK' /\ ReleaseOK'
        /\ ReadyIsForValidSpec'
    BY <2>1
    DEF ManagerIdle, world, VersionsOK, OldVersion, CopyOK, StepOK, HeldOK,
        Held, ReleaseOK, ReadyIsForValidSpec
  <2>3. \A k : ~Alive(k) => ~Alive(k)'
    BY <1>25 DEF KeyAges, Kill, Alive, TypeOK
  <2>4. RevokedOK'
    BY <2>1, <2>3 DEF ManagerIdle, RevokedOK, Alive
  <2> QED
    BY <1>0, <2>2, <2>4
<1>26. CASE UNCHANGED vars
  BY <1>0, <1>26
  DEF vars, VersionsOK, OldVersion, CopyOK, StepOK, HeldOK, Held, ReleaseOK,
      RevokedOK, Alive, ReadyIsForValidSpec
<1> QED
  BY <1>1, <1>2, <1>3, <1>4, <1>5, <1>6, <1>7, <1>8, <1>9, <1>10, <1>11, <1>12,
     <1>13, <1>14, <1>15, <1>16, <1>17, <1>18, <1>19, <1>20, <1>21, <1>22, <1>23,
     <1>24, <1>25, <1>26 DEF Next, Pass

THEOREM Invariant == Spec => []IInv
<1> QED
  BY InitInvariant, NextInvariant, PTL DEF Spec
-----------------------------------------------------------------------------
(* The theorems.                                                           *)

\* The auth key Secret never outlives its Tailnet.
THEOREM GoneIsClean == Spec => []GoneMeansClean
<1>1. IInv => GoneMeansClean
  BY DEF IInv, HeldOK, Held, GoneMeansClean
<1> QED
  BY <1>1, Invariant, PTL

\* A status that calls the present generation Ready is about a valid spec.
THEOREM ReadyIsValid == Spec => []ReadyIsForValidSpec
<1>1. IInv => ReadyIsForValidSpec
  BY DEF IInv
<1> QED
  BY <1>1, Invariant, PTL

\* Auth keys are created only under a finalizer.
THEOREM KeysAreHeld == Spec => KeyOnlyUnderFinalizer
<1> DEFINE A == \A k \in Keys : keyState[k] = "unused" /\ keyState'[k] = "live"
                                   => obj.phase # "absent" /\ obj.finalizer
<1>1. ASSUME IInv, [Next]_vars PROVE [A]_vars
  <2>1. SUFFICES ASSUME NEW k \in Keys, keyState[k] = "unused",
                        keyState'[k] = "live"
                 PROVE  pc = "create"
    BY <1>1 DEF IInv, HeldOK, Held, Working
  <2>2. keyState \in [Keys -> KeyStates]
    BY <1>1 DEF IInv, TypeOK
  <2>3. keyState' # keyState
    BY <2>1
  <2>4. ~DeleteKey
    BY <2>1, <2>2 DEF DeleteKey, Kill
  <2>5. ~KeyAges
    BY <2>1, <2>2 DEF KeyAges, Kill, Alive
  <2> QED
    BY <1>1, <2>3, <2>4, <2>5
    DEF Next, Pass, vars, Start, AddFinalizer, WriteInvalid, WriteNoClient,
        WriteValid, Update, GetKey, GetSecret, DelKey, Create, StoreSecret,
        WriteNoKey, WriteReady, CleanupKey, CleanupSecret, RemoveFinalizer,
        Deliver, SyncSecret, TimerFires, Resync, Restart, UserCreate,
        UserEdit, UserDelete, Foreign, DecrementInjectedPods, Tamper
<1> QED
  BY <1>1, Invariant, PTL DEF Spec, KeyOnlyUnderFinalizer

\* What a step does to the Tailnet's phase, its finalizer and the Secret.
LEMMA StepEffects ==
    ASSUME IInv, [Next]_vars
    PROVE  \/ /\ obj'.phase = obj.phase /\ obj'.finalizer = obj.finalizer
              /\ secret' = secret
           \/ AddFinalizer /\ obj.phase = "present" /\ obj'.phase = "present"
                /\ obj'.finalizer /\ secret' = secret
           \/ RemoveFinalizer /\ Current /\ obj'.phase = "absent"
                /\ secret = NoKey /\ secret' = secret
           \/ obj' = obj /\ Held
           \/ obj' = obj /\ secret' = NoKey
           \/ UserCreate /\ obj.phase = "absent" /\ obj'.phase = "present"
                /\ ~obj'.finalizer /\ secret' = secret
           \/ UserDelete /\ obj.phase = "present" /\ secret' = secret
                /\ IF obj.finalizer THEN obj'.phase = "deleting" /\ obj'.finalizer
                                    ELSE obj'.phase = "absent"
<1> USE DEF IInv
<1>1. ASSUME NEW v \in Version, NEW S, Update(v, S)
      PROVE  \/ obj' = obj /\ secret' = secret
             \/ /\ Current /\ obj'.phase = v.phase
                /\ obj'.finalizer = v.finalizer /\ secret' = secret
  <2>1. secret' = secret /\ (UNCHANGED world \/ (Current /\ Put(v)))
    BY <1>1 DEF Update
  <2>2. CASE Current /\ Put(v)
    BY <2>1, <2>2, PutStores DEF Version
  <2> QED
    BY <2>1, <2>2 DEF world
<1>2. CASE AddFinalizer
  <2>1. tn.phase = "present" /\ (Current => tn = obj)
    BY <1>2, CurrentCopy DEF AddFinalizer, StepOK, Working
  <2>2. [tn EXCEPT !.finalizer = TRUE] \in Version
    BY StatusIsVersion
  <2>3. [tn EXCEPT !.finalizer = TRUE].phase = tn.phase
        /\ [tn EXCEPT !.finalizer = TRUE].finalizer = TRUE
    BY DEF TypeOK, Version
  <2> QED
    BY <1>1, <1>2, <2>1, <2>2, <2>3 DEF AddFinalizer
<1>3. CASE WriteInvalid
  BY <1>1, <1>3, CurrentCopy, StatusIsVersion, StatusFields
  DEF WriteInvalid, Condition
<1>4. CASE WriteNoClient
  BY <1>1, <1>4, CurrentCopy, StatusIsVersion, StatusFields
  DEF WriteNoClient, Condition
<1>5. CASE WriteValid
  BY <1>1, <1>5, CurrentCopy, StatusIsVersion, StatusFields
  DEF WriteValid, Condition
<1>6. CASE WriteNoKey
  BY <1>1, <1>6, CurrentCopy, StatusIsVersion, StatusFields
  DEF WriteNoKey, Condition
<1>7. CASE WriteReady
  BY <1>1, <1>7, CurrentCopy, StatusIsVersion, StatusFields
  DEF WriteReady, Condition
<1>8. CASE RemoveFinalizer
  BY <1>1, <1>8, StatusIsVersion, GoneFields DEF RemoveFinalizer, ReleaseOK
<1>9. CASE StoreSecret
  BY <1>9 DEF StoreSecret, world, HeldOK, Working
<1>10. CASE CleanupSecret \/ Tamper
  BY <1>10 DEF CleanupSecret, Tamper, world
<1>11. CASE UserCreate
  <2>1. PICK ok \in BOOLEAN : Foreign(Fresh(obj.rv, ok))
    BY <1>11 DEF UserCreate
  <2>2. Fresh(obj.rv, ok) \in Version
    BY FreshIsVersion DEF TypeOK, Version
  <2>3. Fresh(obj.rv, ok).phase = "present" /\ ~Fresh(obj.rv, ok).finalizer
    BY DEF Fresh, Absent
  <2>4. obj'.phase = "present" /\ ~obj'.finalizer /\ secret' = secret
    BY <2>1, <2>2, <2>3, PutStores DEF Foreign, Version
  <2> QED
    BY <1>11, <2>4 DEF UserCreate
<1>12. CASE UserEdit
  <2>1. PICK ok \in BOOLEAN :
           Foreign([obj EXCEPT !.valid = ok, !.observed = FALSE])
    BY <1>12 DEF UserEdit
  <2> DEFINE v == [obj EXCEPT !.valid = ok, !.observed = FALSE]
  <2>2. v \in Version /\ v.phase = obj.phase /\ v.finalizer = obj.finalizer
    BY DEF TypeOK, Version
  <2>3. obj' = [v EXCEPT !.rv = obj'.rv] /\ secret' = secret
    BY <2>1, <2>2, PutStores DEF Foreign
  <2> QED
    BY <2>2, <2>3 DEF Version
<1>13. CASE UserDelete
  <2> DEFINE v == [obj EXCEPT !.phase = "deleting"]
  <2>1. v \in Version /\ v.phase = "deleting" /\ v.finalizer = obj.finalizer
    BY DEF TypeOK, Version
  <2>2. obj.phase = "present" /\ secret' = secret
    BY <1>13 DEF UserDelete, Foreign
  <2>3. CASE obj.finalizer
    <3>1. obj' = [v EXCEPT !.rv = obj'.rv]
      BY <1>13, <2>1, <2>3, PutStores DEF UserDelete, Foreign
    <3> QED
      BY <1>13, <2>1, <2>2, <2>3, <3>1 DEF Version
  <2>4. CASE ~obj.finalizer
    <3>1. obj' = [Gone EXCEPT !.rv = obj'.rv]
      BY <1>13, <2>4, PutStores, StatusIsVersion DEF UserDelete, Foreign
    <3> QED
      BY <1>13, <2>2, <2>4, <3>1, GoneFields, StatusIsVersion DEF Version
  <2> QED
    BY <2>3, <2>4
<1>14. CASE DecrementInjectedPods
  BY <1>14 DEF DecrementInjectedPods, TypeOK, Version
<1>15. CASE \/ Start \/ GetKey \/ GetSecret \/ DelKey \/ Create \/ CleanupKey
            \/ Deliver \/ SyncSecret \/ TimerFires \/ Resync \/ Restart
            \/ KeyAges \/ UNCHANGED vars
  BY <1>15
  DEF Start, GetKey, GetSecret, DelKey, Create, CleanupKey, Deliver, SyncSecret,
      TimerFires, Resync, Restart, KeyAges, vars, world
<1> QED
  BY <1>2, <1>3, <1>4, <1>5, <1>6, <1>7, <1>8, <1>9, <1>10, <1>11, <1>12, <1>13,
     <1>14, <1>15 DEF Next, Pass

\* A Tailnet takes its recorded key with it, unless Tailscale could not be
\* asked or refused.
THEOREM DeletionRevokes == Spec => DeletionRevokesKey
<1>1. ASSUME IInv, [Next]_vars, obj.phase = "deleting", obj'.phase = "absent"
      PROVE  ~Alive(obj.keyID) \/ excused
  <2>1. RemoveFinalizer /\ Current
    BY <1>1, StepEffects
  <2>2. pc = "dFinalizer"
    BY <2>1 DEF RemoveFinalizer
  <2> QED
    BY <1>1, <2>1, <2>2, CurrentCopy DEF IInv, RevokedOK, Working
<1> QED
  BY <1>1, Invariant, PTL DEF Spec, DeletionRevokesKey

\* The Secret is held by the Tailnet's finalizer: TailnetReconciler follows
\* the protocol of finalizers.
THEOREM Implements == Spec => ImplementsFinalizer
<1>1. Init => Finalized!Init
  BY DEF Init, Finalized!Init, Fresh, Absent
<1>2. ASSUME IInv, [Next]_vars PROVE [Finalized!Next]_(Finalized!vars)
  <2> USE DEF Finalized!Next, Finalized!vars, Finalized!Create,
              Finalized!Vanish, Finalized!Hold, Finalized!Acquire,
              Finalized!Lose, Finalized!Release
  <2>1. CASE obj'.phase = obj.phase /\ obj'.finalizer = obj.finalizer
             /\ secret' = secret
    BY <2>1
  <2>2. CASE obj.phase = "present" /\ obj'.phase = "present"
             /\ obj'.finalizer /\ secret' = secret
    BY <2>2
  <2>3. CASE RemoveFinalizer /\ Current /\ obj'.phase = "absent"
             /\ secret = NoKey /\ secret' = secret
    <3>1. obj.phase # "absent" /\ obj.finalizer
      BY <1>2, <2>3, CurrentCopy
      DEF IInv, RemoveFinalizer, StepOK, Deletion, Current
    <3> QED
      BY <2>3, <3>1
  <2>4. CASE obj' = obj /\ Held
    BY <2>4 DEF Held
  <2>5. CASE obj' = obj /\ secret' = NoKey
    BY <2>5
  <2>6. CASE obj.phase = "absent" /\ obj'.phase = "present"
             /\ ~obj'.finalizer /\ secret' = secret
    BY <2>6
  <2>7. CASE /\ obj.phase = "present" /\ secret' = secret
             /\ IF obj.finalizer THEN obj'.phase = "deleting" /\ obj'.finalizer
                                 ELSE obj'.phase = "absent"
    BY <2>7
  <2> QED
    BY <1>2, <2>1, <2>2, <2>3, <2>4, <2>5, <2>6, <2>7, StepEffects
<1> QED
  BY <1>1, <1>2, Invariant, PTL DEF Spec, ImplementsFinalizer, Finalized!Spec

-----------------------------------------------------------------------------
(* The Secret as a source of keys.                                         *)

\* The key that a pass is about to store was made by it.
StoresNewKey == pc = "secret" => tn.keyID \in Keys \ Unused

LEMMA UnusedAfter ==
    ASSUME TypeOK, NEW k, NEW s \in {"live", "expiring", "dead"},
           keyState' = [keyState EXCEPT ![k] = s]
    PROVE  Unused' = Unused \ {k}
BY DEF TypeOK, Unused

\* Steps away from the call that stores a key.
LEMMA ElsewhereStep ==
    ASSUME TypeOK, [Next]_vars, pc # "secret", pc' # "secret"
    PROVE  \/ Unused' = Unused /\ secret' \in {secret, NoKey}
           \/ secret' = secret /\ \E k \in Keys : Unused' = Unused \ {k}
<1>1. ASSUME NEW k PROVE Unused \ {k} = Unused \/ k \in Keys
  BY DEF Unused
<1>2. ASSUME NEW k, Kill(k)
      PROVE  Unused' = Unused \/ \E j \in Keys : Unused' = Unused \ {j}
  <2>1. Unused' = Unused \ {k}
    BY <1>2, UnusedAfter DEF Kill
  <2> QED
    BY <1>1, <2>1
<1>3. CASE DelKey \/ CleanupKey
  <2>1. secret' = secret /\ (keyState' = keyState \/ Kill(tn.keyID))
    BY <1>3 DEF DelKey, CleanupKey, DeleteKey
  <2> QED
    BY <1>2, <2>1 DEF Unused
<1>4. CASE Create
  <2>1. CASE UNCHANGED keyState
    BY <1>4, <2>1 DEF Create, Unused
  <2>2. CASE \E k \in Unused : keyState' = [keyState EXCEPT ![k] = "live"]
    <3>1. PICK k \in Unused : keyState' = [keyState EXCEPT ![k] = "live"]
      BY <2>2
    <3>2. Unused' = Unused \ {k} /\ k \in Keys
      BY <3>1, UnusedAfter DEF Unused
    <3> QED
      BY <1>4, <3>2 DEF Create
  <2> QED
    BY <1>4, <2>1, <2>2 DEF Create
<1>5. CASE KeyAges
  <2>1. PICK k \in Keys : \/ keyState' = [keyState EXCEPT ![k] = "expiring"]
                          \/ Kill(k)
    BY <1>5 DEF KeyAges
  <2> QED
    BY <1>5, <2>1, UnusedAfter DEF KeyAges, Kill
<1>6. CASE StoreSecret
  BY <1>6 DEF StoreSecret
<1>7. CASE \/ Start \/ AddFinalizer \/ WriteInvalid \/ WriteNoClient
           \/ WriteValid \/ GetKey \/ GetSecret \/ WriteNoKey \/ WriteReady
           \/ RemoveFinalizer \/ Deliver \/ SyncSecret \/ TimerFires
           \/ Resync \/ Restart \/ DecrementInjectedPods \/ UNCHANGED vars
  BY <1>7
  DEF Start, AddFinalizer, WriteInvalid, WriteNoClient, WriteValid, Update,
      GetKey, GetSecret, WriteNoKey, WriteReady, RemoveFinalizer, Deliver,
      SyncSecret, TimerFires, Resync, Restart, DecrementInjectedPods, vars,
      Unused
<1>8. CASE UserCreate \/ UserEdit \/ UserDelete
  BY <1>8 DEF UserCreate, UserEdit, UserDelete, Foreign, Unused
<1>9. CASE CleanupSecret \/ Tamper
  BY <1>9 DEF CleanupSecret, Tamper, Unused
<1> QED
  BY <1>3, <1>4, <1>5, <1>6, <1>7, <1>8, <1>9 DEF Next, Pass

\* While a key is to be stored, the others leave the pass alone.
LEMMA StoringStep ==
    ASSUME TypeOK, [Next]_vars, pc = "secret"
    PROVE  \/ StoreSecret
           \/ Restart
           \/ /\ UNCHANGED <<pc, tn>>
              /\ \/ keyState' = keyState /\ secret' \in {secret, NoKey}
                 \/ KeyAges
<1>1. CASE Pass
  BY <1>1
  DEF Pass, AddFinalizer, WriteInvalid, WriteNoClient, WriteValid, GetKey,
      GetSecret, DelKey, Create, WriteNoKey, WriteReady, CleanupKey,
      CleanupSecret, RemoveFinalizer
<1>2. CASE \/ Start \/ Deliver \/ SyncSecret \/ TimerFires \/ Resync
           \/ DecrementInjectedPods \/ Tamper \/ UNCHANGED vars
  BY <1>2
  DEF Start, Deliver, SyncSecret, TimerFires, Resync, DecrementInjectedPods,
      Tamper, ManagerIdle, pass, vars
<1>3. CASE UserCreate \/ UserEdit \/ UserDelete
  BY <1>3 DEF UserCreate, UserEdit, UserDelete, Foreign, ManagerIdle
<1>4. CASE KeyAges
  BY <1>4 DEF KeyAges, ManagerIdle
<1> QED
  BY <1>1, <1>2, <1>3, <1>4 DEF Next

\* The one step that begins to store a key is the one that made it.
LEMMA MakingStep ==
    ASSUME TypeOK, [Next]_vars, pc # "secret", pc' = "secret"
    PROVE  /\ secret' = secret
           /\ \E k \in Unused : tn'.keyID = k /\ Unused' = Unused \ {k}
<1>0. ASSUME Pass PROVE Create
  <2>1. ~(AddFinalizer \/ WriteInvalid \/ WriteNoClient \/ WriteNoKey \/ WriteReady)
    BY DEF AddFinalizer, WriteInvalid, WriteNoClient, WriteNoKey, WriteReady,
           Update, End, Go
  <2>2. ~(WriteValid \/ RemoveFinalizer)
    BY DEF WriteValid, RemoveFinalizer, Update, End, Go
  <2>3. ~(GetKey \/ GetSecret \/ DelKey \/ StoreSecret \/ CleanupKey \/ CleanupSecret)
    BY DEF GetKey, GetSecret, DelKey, StoreSecret, CleanupKey, CleanupSecret,
           End, Go
  <2> QED
    BY <1>0, <2>1, <2>2, <2>3 DEF Pass
<1>1. Create
  <2>1. ~Start
    <3>1. FirstStep(cached) # "secret"
      BY DEF FirstStep, TypeOK, Version
    <3> QED
      BY <3>1 DEF Start, Go
  <2>2. ~(\/ Deliver \/ SyncSecret \/ TimerFires \/ Resync \/ Restart
          \/ DecrementInjectedPods \/ Tamper \/ KeyAges \/ UNCHANGED vars)
    BY DEF Deliver, SyncSecret, TimerFires, Resync, Restart,
           DecrementInjectedPods, Tamper, KeyAges, ManagerIdle, Go, pass, vars
  <2>3. ~(UserCreate \/ UserEdit \/ UserDelete)
    BY DEF UserCreate, UserEdit, UserDelete, Foreign, ManagerIdle
  <2> QED
    BY <1>0, <2>1, <2>2, <2>3 DEF Next
<1>2. PICK k \in Unused : /\ keyState' = [keyState EXCEPT ![k] = "live"]
                          /\ tn' = [tn EXCEPT !.keyID = k, !.created = "True"]
  BY <1>1 DEF Create, Go
<1>3. tn'.keyID = k
  BY <1>2 DEF TypeOK, Version
<1> QED
  BY <1>1, <1>2, <1>3, UnusedAfter DEF Create

\* The Secret receives each key once, and never an older one than it had: the
\* promise on which the webhook's copies rest.
THEOREM ImplementsSource == Spec => ImplementsKeySource
<1> USE DEF Source!Next, Source!vars, Source!Store, Source!Remove, Source!Waste
<1>1. Init => Source!Init /\ StoresNewKey
  BY DEF Init, Source!Init, StoresNewKey, Unused
<1>2. ASSUME TypeOK, StoresNewKey, [Next]_vars
      PROVE  StoresNewKey' /\ [Source!Next]_(Source!vars)
  <2>1. CASE pc # "secret" /\ pc' # "secret"
    <3>1. StoresNewKey'
      BY <2>1 DEF StoresNewKey
    <3>2. Unused \subseteq Keys
      BY DEF Unused
    <3> QED
      BY <1>2, <2>1, <3>1, <3>2, ElsewhereStep
  <2>2. CASE pc # "secret" /\ pc' = "secret"
    <3>1. PICK k \in Unused : tn'.keyID = k /\ Unused' = Unused \ {k}
      BY <1>2, <2>2, MakingStep
    <3>2. secret' = secret
      BY <1>2, <2>2, MakingStep
    <3> QED
      BY <2>2, <3>1, <3>2 DEF StoresNewKey, Unused
  <2>3. CASE pc = "secret"
    <3>0. tn.keyID \in Keys /\ tn.keyID \notin Unused
      BY <1>2, <2>3 DEF StoresNewKey
    <3>1. CASE StoreSecret \/ Restart
      <4>1. pc' # "secret" /\ Unused' = Unused
            /\ (secret' = secret \/ secret' = tn.keyID)
        BY <3>1 DEF StoreSecret, Restart, Go, Unused
      <4> QED
        BY <2>3, <3>0, <4>1 DEF StoresNewKey
    <3>2. CASE UNCHANGED <<pc, tn>> /\ keyState' = keyState
               /\ secret' \in {secret, NoKey}
      BY <2>3, <3>0, <3>2 DEF StoresNewKey, Unused
    <3>3. CASE UNCHANGED <<pc, tn>> /\ KeyAges
      <4>1. PICK k \in Keys : \/ keyState' = [keyState EXCEPT ![k] = "expiring"]
                              \/ Kill(k)
        BY <3>3 DEF KeyAges
      <4>2. k \notin Unused
        BY <1>2, <3>3, <4>1 DEF KeyAges, Alive, Kill, Unused, TypeOK
      <4>3. Unused' = Unused \ {k}
        BY <1>2, <4>1, UnusedAfter DEF Kill
      <4> QED
        BY <2>3, <3>0, <3>3, <4>2, <4>3 DEF StoresNewKey, KeyAges
    <3> QED
      BY <1>2, <2>3, <3>1, <3>2, <3>3, StoringStep
  <2> QED
    BY <2>1, <2>2, <2>3
<1> QED
  BY <1>1, <1>2, TypeCorrect, PTL DEF Spec, ImplementsKeySource, Source!Spec

-----------------------------------------------------------------------------
(* How many keys are alive.                                                *)

\* The live keys that neither the status nor the pass under way knows of.
Stray == AliveKeys \ ({obj.keyID} \cup IF pc \in Working THEN {tn.keyID} ELSE {})

\* The pass is about to make a key, or has made one.
Committed ==
    pc \in Working /\ ((pc = "create" /\ accepted) \/ tn.keyID # obj.keyID)

One(b) == IF b THEN 1 ELSE 0

\* What has gone wrong already and has not cost a key yet: a pass whose copy is
\* overtaken will lose the key it makes, one that could not delete the old key
\* will forget it, and a deletion may not get to revoke the recorded one.
Need == IF Committed THEN One(~Current) + One(Alive(obj.keyID))
        ELSE IF pc \in Working THEN One(~Current)
        ELSE One(obj.phase = "deleting" /\ Alive(obj.keyID))

NotedOK == pc \in {"getKey", "getSecret", "delKey", "create"} => tn.keyID = obj.keyID

\* Each stray key, and each that is bound to become one, has been paid for by
\* a disturbance of its own.
BudgetOK == IsFiniteSet(Stray) /\ Cardinality(Stray) + Need <= disturbances

KInv == IInv /\ NotedOK /\ BudgetOK

LEMMA OneMore ==
    ASSUME NEW S, NEW k, IsFiniteSet(S)
    PROVE  /\ IsFiniteSet(S \cup {k})
           /\ Cardinality(S) \in Nat /\ Cardinality(S \cup {k}) \in Nat
           /\ Cardinality(S \cup {k}) <= Cardinality(S) + 1
<1>1. /\ IsFiniteSet(S \cup {k})
      /\ Cardinality(S \cup {k}) =
            IF k \in S THEN Cardinality(S) ELSE Cardinality(S) + 1
  BY FS_AddElement
<1>2. Cardinality(S) \in Nat
  BY FS_CardinalityType
<1> QED
  BY <1>1, <1>2

\* What a step may do to the budget.
LEMMA Budget ==
    ASSUME KInv, Disturb \/ Calm,
           \/ Stray' \subseteq Stray /\ Need' <= Need
           \/ (\E k : Stray' \subseteq Stray \cup {k}) /\ Need' < Need
           \/ Disturb /\ Stray' \subseteq Stray /\ Need' <= Need + 1
           \/ Disturb /\ (\E k : Stray' \subseteq Stray \cup {k}) /\ Need' <= Need
    PROVE  BudgetOK'
<1> USE DEF KInv, BudgetOK
<1>1. /\ Cardinality(Stray) \in Nat /\ disturbances \in Nat
      /\ disturbances' \in {disturbances, disturbances + 1}
      /\ Disturb => disturbances' = disturbances + 1
  BY FS_CardinalityType, DisturbancesAssumption DEF IInv, TypeOK, Disturb, Calm
<1>2. Need \in 0 .. 2 /\ Need' \in 0 .. 2
  BY DEF Need, One
<1>3. CASE Stray' \subseteq Stray
  <2>1. IsFiniteSet(Stray') /\ Cardinality(Stray') <= Cardinality(Stray)
        /\ Cardinality(Stray') \in Nat
    BY <1>3, FS_Subset, FS_CardinalityType
  <2> QED
    BY <1>1, <1>2, <2>1
<1>4. CASE \E k : Stray' \subseteq Stray \cup {k}
  <2>1. PICK k : Stray' \subseteq Stray \cup {k}
    BY <1>4
  <2>2. IsFiniteSet(Stray \cup {k})
        /\ Cardinality(Stray \cup {k}) <= Cardinality(Stray) + 1
    BY OneMore
  <2>3. IsFiniteSet(Stray') /\ Cardinality(Stray') <= Cardinality(Stray \cup {k})
        /\ Cardinality(Stray') \in Nat /\ Cardinality(Stray \cup {k}) \in Nat
    BY <2>1, <2>2, FS_Subset, FS_CardinalityType
  <2> QED
    BY <1>1, <1>2, <1>3, <2>2, <2>3
<1> QED
  BY <1>3, <1>4

\* A copy that is current is of a Tailnet that is there and not being deleted.
LEMMA WorkingCopy ==
    ASSUME IInv, pc \in Working
    PROVE  Held /\ (Current => obj.phase = "present")
BY CurrentCopy DEF IInv, HeldOK, StepOK

\* A pass that ends without having stored its copy: the key it made is lost.
LEMMA EndUnstored ==
    ASSUME KInv, pc \in Working, pc' = "idle", obj' = obj, keyState' = keyState,
           Disturb \/ (Calm /\ ~Current)
    PROVE  BudgetOK'
<1>1. Stray' \subseteq Stray \cup {tn.keyID}
  BY DEF Stray, AliveKeys, Alive, Working
<1>2. tn.keyID = obj.keyID => Stray' \subseteq Stray
  BY DEF Stray, AliveKeys, Alive, Working
<1>3. Need' = One(obj.phase = "deleting" /\ Alive(obj.keyID))
  BY DEF Need, Committed, Working, Alive
<1>4. Current => obj.phase # "deleting"
  BY WorkingCopy DEF KInv
<1>5. CASE Committed
  <2>1. Need = One(~Current) + One(Alive(obj.keyID))
    BY <1>5 DEF Need
  <2>2. CASE Current
    BY <1>1, <1>3, <1>4, <2>1, <2>2, Budget DEF One
  <2>3. CASE ~Current
    <3>1. Need' < Need
      BY <1>3, <2>1, <2>3 DEF One
    <3> QED
      BY <1>1, <3>1, Budget
  <2> QED
    BY <2>2, <2>3
<1>6. CASE ~Committed
  <2>1. tn.keyID = obj.keyID /\ Need = One(~Current)
    BY <1>6 DEF Committed, Need
  <2>2. Need' <= Need
    BY <1>3, <1>4, <2>1 DEF One
  <2> QED
    BY <1>2, <2>1, <2>2, Budget
<1> QED
  BY <1>5, <1>6

\* A pass that ends with its copy stored: the key that was recorded is lost.
LEMMA EndStored ==
    ASSUME KInv, pc \in Working, pc' = "idle", obj'.keyID = tn.keyID,
           obj'.phase = "present", keyState' = keyState, Disturb \/ Calm
    PROVE  BudgetOK'
<1>1. Need' = 0
  BY DEF Need, Committed, Working, One
<1>2. Need \in 0 .. 2
  BY DEF Need, One
<1>3. CASE tn.keyID = obj.keyID \/ ~Alive(obj.keyID)
  <2>1. Stray' \subseteq Stray
    BY <1>3 DEF Stray, AliveKeys, Alive, Working
  <2> QED
    BY <1>1, <1>2, <2>1, Budget
<1>4. CASE tn.keyID # obj.keyID /\ Alive(obj.keyID)
  <2>1. Need' < Need
    BY <1>1, <1>4 DEF Need, Committed, One
  <2>2. Stray' \subseteq Stray \cup {obj.keyID}
    BY DEF Stray, AliveKeys, Alive, Working
  <2> QED
    BY <2>1, <2>2, Budget
<1> QED
  BY <1>3, <1>4

\* A write that stores the copy keeps the key ID that the copy has.
LEMMA StoredKey ==
    ASSUME IInv, NEW v \in Version, Put(v)
    PROVE  obj'.keyID = v.keyID /\ obj'.phase = v.phase
<1>1. obj' = [v EXCEPT !.rv = obj'.rv]
  BY PutStores DEF IInv
<1> QED
  BY <1>1 DEF Version

\* The writes of a pass that makes no key.
LEMMA EarlyWrite ==
    ASSUME KInv, pc \notin Working, pc' \notin Working, keyState' = keyState,
           NEW v \in Version, UNCHANGED world \/ (Current /\ Put(v)),
           v.keyID = tn.keyID, v.phase = tn.phase, Disturb \/ Calm
    PROVE  NotedOK' /\ BudgetOK'
<1>1. obj'.keyID = obj.keyID /\ obj'.phase = obj.phase
  BY StoredKey, CurrentCopy DEF KInv, world
<1>2. Stray' = Stray /\ Need' = Need
  BY <1>1 DEF Stray, Need, Committed, AliveKeys, Alive
<1>3. Need \in 0 .. 2
  BY DEF Need, One
<1> QED
  BY <1>2, <1>3, Budget DEF NotedOK, Working

LEMMA LateWrite ==
    ASSUME KInv, pc \in Working, pc' = "idle", keyState' = keyState,
           NEW v \in Version, v.keyID = tn.keyID, v.phase = tn.phase,
           \/ Current /\ Put(v) /\ (Disturb \/ Calm)
           \/ UNCHANGED world /\ (Disturb \/ (Calm /\ ~Current))
    PROVE  NotedOK' /\ BudgetOK'
<1>1. NotedOK'
  BY DEF NotedOK
<1>2. CASE Current /\ Put(v)
  <2>1. obj'.keyID = tn.keyID /\ obj'.phase = "present"
    BY <1>2, StoredKey, CurrentCopy, WorkingCopy DEF KInv
  <2> QED
    BY <1>1, <2>1, EndStored DEF Disturb, Calm
<1>3. CASE UNCHANGED world /\ (Disturb \/ (Calm /\ ~Current))
  BY <1>1, <1>3, EndUnstored DEF world
<1> QED
  BY <1>2, <1>3

\* A step within a pass, with the object and the keys as they were.
LEMMA WorkingStep ==
    ASSUME KInv, pc \in Working, pc' \in Working,
           UNCHANGED <<world, tn, accepted, keyState>>,
           pc' = "create" /\ accepted => Disturb \/ (Calm /\ ~Alive(tn.keyID)),
           pc' \in {"getKey", "getSecret", "delKey", "create"} =>
              pc \in {"getKey", "getSecret", "delKey", "create"},
           pc # "create", Disturb \/ Calm
    PROVE  NotedOK' /\ BudgetOK'
<1>1. NotedOK'
  BY DEF KInv, NotedOK, world
<1>2. Stray' = Stray
  BY DEF Stray, AliveKeys, Alive, world
<1>3. CASE pc' = "create" /\ accepted
  <2>1. tn.keyID = obj.keyID /\ ~Committed
    BY <1>3 DEF KInv, NotedOK, Committed
  <2>2. Need = One(~Current) /\ Need' = One(~Current) + One(Alive(obj.keyID))
    BY <1>3, <2>1 DEF Need, Committed, Current, Alive, world
  <2>3. Need' <= Need + 1 /\ (~Alive(obj.keyID) => Need' <= Need)
    BY <2>2 DEF One
  <2> QED
    BY <1>1, <1>2, <1>3, <2>1, <2>3, Budget
<1>4. CASE ~(pc' = "create" /\ accepted)
  <2>1. Need' = Need
    BY <1>4 DEF Need, Committed, Current, Alive, world
  <2>2. Need \in 0 .. 2
    BY DEF Need, One
  <2> QED
    BY <1>1, <1>2, <2>1, <2>2, Budget
<1> QED
  BY <1>3, <1>4

\* A key that dies costs nothing.
LEMMA KeyDies ==
    ASSUME KInv, NEW k, Kill(k), UNCHANGED <<world, tn>>,
           pc' \in Working <=> pc \in Working,
           pc' # pc => /\ k = tn.keyID /\ (accepted' <=> accepted)
                       /\ pc' \in {"create", "dSecret"} /\ pc \in {"delKey", "dKey"},
           UNCHANGED accepted, Disturb \/ Calm
    PROVE  NotedOK' /\ BudgetOK'
<1>1. NotedOK'
  BY DEF KInv, NotedOK, world, Working
<1>2. \A j \in Keys : Alive(j)' => Alive(j) /\ j # k
  BY DEF KInv, IInv, TypeOK, Kill, Alive
<1>3. Stray' \subseteq Stray
  BY <1>2 DEF Stray, AliveKeys, world
<1>4. Alive(obj.keyID)' => Alive(obj.keyID) /\ obj.keyID # k
  BY <1>2 DEF Alive, world
<1>5. Need' <= Need
  <2>1. CASE pc' = pc
    BY <1>4, <2>1 DEF Need, Committed, Current, One, world
  <2>2. CASE pc' # pc /\ pc = "delKey"
    <3>1. tn.keyID = obj.keyID /\ pc' = "create"
      BY <2>2 DEF KInv, NotedOK, Working
    <3>2. Need = One(~Current)
      BY <2>2, <3>1 DEF Need, Committed, Working
    <3>3. Need' = One(~Current)
      BY <1>4, <2>2, <3>1 DEF Need, Committed, Working, Current, One, world
    <3> QED
      BY <3>2, <3>3 DEF One
  <2>3. CASE pc' # pc /\ pc = "dKey"
    BY <1>4, <2>3 DEF Need, Committed, Working, One, world
  <2> QED
    BY <2>1, <2>2, <2>3
<1> QED
  BY <1>1, <1>3, <1>5, Budget

\* A write of somebody else pays for the copy that it overtakes, for the key it
\* puts at risk by a deletion, and for the one it makes forgotten.
LEMMA ForeignWrite ==
    ASSUME KInv, Disturb, UNCHANGED <<pc, tn, accepted, keyState>>,
           obj'.keyID = obj.keyID \/ (pc \notin Working /\ obj'.phase # "deleting")
    PROVE  NotedOK' /\ BudgetOK'
<1>1. NotedOK'
  BY DEF KInv, NotedOK, Working
<1>2. CASE obj'.keyID = obj.keyID
  <2>1. Stray' = Stray
    BY <1>2 DEF Stray, AliveKeys, Alive
  <2>2. Need' <= Need + 1
    BY <1>2 DEF Need, Committed, Alive, One
  <2> QED
    BY <1>1, <2>1, <2>2, Budget
<1>3. CASE pc \notin Working /\ obj'.phase # "deleting"
  <2>1. Stray' \subseteq Stray \cup {obj.keyID}
    BY <1>3 DEF Stray, AliveKeys, Alive
  <2>2. Need' <= Need
    BY <1>3 DEF Need, Committed, One
  <2> QED
    BY <1>1, <2>1, <2>2, Budget
<1> QED
  BY <1>2, <1>3

LEMMA InitBudget == Init => NotedOK /\ BudgetOK
<1> SUFFICES ASSUME Init PROVE NotedOK /\ BudgetOK
  OBVIOUS
<1>1. Stray = {} /\ Need = 0
  BY DEF Init, Stray, AliveKeys, Need, Committed, Working, One, Alive, Fresh, Absent
<1> QED
  BY <1>1, FS_EmptySet DEF Init, NotedOK, BudgetOK

LEMMA CreateBudget == KInv /\ TypeOK' /\ Create => NotedOK' /\ BudgetOK'
<1> SUFFICES ASSUME KInv, TypeOK', Create PROVE NotedOK' /\ BudgetOK'
  OBVIOUS
<1>1. /\ pc = "create" /\ pc' \in {"secret", "writeNoKey"}
      /\ UNCHANGED <<world, accepted>> /\ tn.keyID = obj.keyID
  BY DEF Create, Go, KInv, NotedOK
<1>2. NotedOK'
  BY <1>1 DEF NotedOK
<1>3. Need = One(~Current) + (IF accepted THEN One(Alive(obj.keyID)) ELSE 0)
  BY <1>1 DEF Need, Committed, Working, One
<1>4. CASE /\ accepted /\ Calm
           /\ \E k \in Unused : /\ keyState' = [keyState EXCEPT ![k] = "live"]
                                /\ tn' = [tn EXCEPT !.keyID = k, !.created = "True"]
  <2>1. PICK k \in Unused : /\ keyState' = [keyState EXCEPT ![k] = "live"]
                            /\ tn' = [tn EXCEPT !.keyID = k, !.created = "True"]
    BY <1>4
  <2>2. tn'.keyID = k /\ tn'.rv = tn.rv /\ k \in Keys
    BY <2>1 DEF KInv, IInv, TypeOK, Version, Unused
  <2>3. \A j \in Keys : j # k => (Alive(j)' <=> Alive(j))
    BY <2>1 DEF Alive, KInv, IInv, TypeOK
  <2>4. Stray' \subseteq Stray
    BY <1>1, <2>2, <2>3 DEF Stray, AliveKeys, Working, world
  <2>5. obj.keyID # k => (Alive(obj.keyID)' <=> Alive(obj.keyID))
    BY <1>1, <2>3 DEF Alive, world
  <2>6. Need' <= Need
    BY <1>1, <1>3, <1>4, <2>2, <2>5
    DEF Need, Committed, Working, Current, One, world
  <2> QED
    BY <1>2, <1>4, <2>4, <2>6, Budget
<1>5. CASE /\ UNCHANGED tn
           /\ \/ UNCHANGED keyState /\ (Disturb \/ Calm)
              \/ Disturb /\ \E k \in Unused : keyState' = [keyState EXCEPT ![k] = "live"]
  <2>1. Need' = One(~Current)
    BY <1>1, <1>5 DEF Need, Committed, Working, Current, world
  <2>2. Need' <= Need
    BY <1>3, <2>1 DEF One
  <2>3. CASE UNCHANGED keyState
    <3>1. Stray' = Stray
      BY <1>1, <1>5, <2>3 DEF Stray, AliveKeys, Alive, Working, world
    <3> QED
      BY <1>2, <1>5, <2>2, <3>1, Budget
  <2>4. CASE Disturb /\ \E k \in Unused : keyState' = [keyState EXCEPT ![k] = "live"]
    <3>1. PICK k \in Unused : keyState' = [keyState EXCEPT ![k] = "live"]
      BY <2>4
    <3>2. \A j \in Keys : j # k => (Alive(j)' <=> Alive(j))
      BY <3>1 DEF Alive, KInv, IInv, TypeOK
    <3>3. Stray' \subseteq Stray \cup {k}
      BY <1>1, <1>5, <3>2 DEF Stray, AliveKeys, Working, world
    <3> QED
      BY <1>2, <2>2, <2>4, <3>3, Budget
  <2> QED
    BY <1>5, <2>3, <2>4
<1> QED
  BY <1>4, <1>5 DEF Create

LEMMA NextBudget == KInv /\ [Next]_vars => NotedOK' /\ BudgetOK'
<1> SUFFICES ASSUME KInv, [Next]_vars PROVE NotedOK' /\ BudgetOK'
  OBVIOUS
<1> USE DEF KInv
<1>0. TypeOK' /\ TypeOK /\ tn \in Version /\ obj \in Version
  BY NextTypes DEF IInv, TypeOK
<1>1. CASE AddFinalizer
  <2>1. /\ [tn EXCEPT !.finalizer = TRUE] \in Version
        /\ [tn EXCEPT !.finalizer = TRUE].keyID = tn.keyID
        /\ [tn EXCEPT !.finalizer = TRUE].phase = tn.phase
    BY <1>0, StatusIsVersion DEF Version
  <2> QED
    BY <1>1, <2>1, EarlyWrite DEF AddFinalizer, Update, End, Go, Working
<1>2. \A c \in Condition :
         /\ [Status EXCEPT !.ready = c].keyID = tn.keyID
         /\ [Status EXCEPT !.oauth = c].keyID = tn.keyID
         /\ [Status EXCEPT !.created = c].keyID = tn.keyID
  BY <1>0 DEF Status, Version
<1>3. CASE WriteInvalid
  BY <1>0, <1>2, <1>3, EarlyWrite, StatusIsVersion, StatusFields
  DEF WriteInvalid, Update, End, Go, Working, Condition
<1>4. CASE WriteNoClient
  BY <1>0, <1>2, <1>4, EarlyWrite, StatusIsVersion, StatusFields
  DEF WriteNoClient, Update, End, Go, Working, Condition
<1>5. CASE WriteNoKey
  BY <1>0, <1>2, <1>5, LateWrite, StatusIsVersion, StatusFields
  DEF WriteNoKey, Update, End, Go, Working, Condition
<1>6. CASE WriteReady
  BY <1>0, <1>2, <1>6, LateWrite, StatusIsVersion, StatusFields
  DEF WriteReady, Update, End, Go, Working, Condition
<1>7. CASE WriteValid
  <2> DEFINE v == [Status EXCEPT !.oauth = "True"]
  <2>1. v \in Version /\ v.keyID = tn.keyID /\ v.phase = tn.phase
    BY <1>0, <1>2, StatusIsVersion, StatusFields DEF Condition
  <2>2. CASE (UNCHANGED world \/ (Current /\ Put(v))) /\ End(TRUE) /\ (Disturb \/ Calm)
    BY <1>7, <2>1, <2>2, EarlyWrite DEF WriteValid, Update, End, Go, Working
  <2>3. CASE /\ Current /\ Put(v) /\ Calm /\ tn' = obj'
             /\ Go(IF tn.keyID = NoKey THEN "create" ELSE "getKey")
    <3>1. obj'.keyID = obj.keyID /\ obj'.phase = obj.phase /\ tn.keyID = obj.keyID
      BY <1>7, <2>1, <2>3, StoredKey, CurrentCopy DEF WriteValid, Working
    <3>2. /\ UNCHANGED <<keyState, accepted>> /\ tn'.keyID = obj'.keyID /\ Current'
      BY <1>7, <2>3, <3>1 DEF WriteValid, Update, Current
    <3>3. Stray' = Stray
      BY <1>7, <2>3, <3>1, <3>2
      DEF WriteValid, Stray, AliveKeys, Alive, Working, Go
    <3>4. Need' = 0
      BY <2>3, <3>1, <3>2, KeysAssumption
      DEF Need, Committed, Alive, Working, One, Go
    <3>5. Need \in 0 .. 2
      BY DEF Need, One
    <3> QED
      BY <2>3, <3>2, <3>3, <3>4, <3>5, Budget DEF NotedOK
  <2> QED
    BY <1>7, <2>2, <2>3, Zenon DEF WriteValid, Update
<1>8. CASE RemoveFinalizer
  <2>1. /\ pc = "dFinalizer" /\ pc' = "idle" /\ keyState' = keyState
        /\ Disturb \/ Calm
        /\ obj' = obj \/ (Current /\ Put(Gone))
    BY <1>8 DEF RemoveFinalizer, Update, End, Go, world
  <2>2. NotedOK'
    BY <2>1 DEF NotedOK
  <2>3. CASE obj' = obj
    <3>1. Stray' = Stray /\ Need' = Need
      BY <2>1, <2>3 DEF Stray, Need, Committed, AliveKeys, Alive, Working
    <3>2. Need \in 0 .. 2
      BY DEF Need, One
    <3> QED
      BY <2>1, <2>2, <3>1, <3>2, Budget
  <2>4. CASE Current /\ Put(Gone)
    <3>1. obj.phase = "deleting" /\ obj'.phase = "absent"
      BY <2>1, <2>4, StoredKey, CurrentCopy, StatusIsVersion, GoneFields, <1>0
      DEF IInv, StepOK, Deletion
    <3>2. Need = One(Alive(obj.keyID)) /\ Need' = 0
      BY <2>1, <3>1 DEF Need, Committed, Working, One
    <3>3. CASE Alive(obj.keyID)
      <4>1. Stray' \subseteq Stray \cup {obj.keyID}
        BY <2>1 DEF Stray, AliveKeys, Alive, Working
      <4> QED
        BY <2>1, <2>2, <3>2, <3>3, <4>1, Budget DEF One
    <3>4. CASE ~Alive(obj.keyID)
      <4>1. Stray' \subseteq Stray
        BY <2>1, <3>4 DEF Stray, AliveKeys, Alive, Working
      <4> QED
        BY <2>1, <2>2, <3>2, <3>4, <4>1, Budget DEF One
    <3> QED
      BY <3>3, <3>4
  <2> QED
    BY <2>1, <2>3, <2>4
<1>9. CASE GetKey
  <2>1. /\ accepted /\ keyState[tn.keyID] = "dead" => ~Alive(tn.keyID)
    BY DEF Alive
  <2> QED
    BY <1>9, <2>1, WorkingStep DEF GetKey, Go, Working, Calm, Disturb
<1>10. CASE GetSecret
  BY <1>10, WorkingStep DEF GetSecret, Go, Working, Calm
<1>11. CASE StoreSecret
  BY <1>11, WorkingStep DEF StoreSecret, Go, Working, Calm, Disturb
<1>12. CASE DelKey
  <2>1. CASE Kill(tn.keyID) /\ (Disturb \/ Calm)
    BY <1>12, <2>1, KeyDies DEF DelKey, Go, Working
  <2>2. CASE UNCHANGED keyState /\ (Disturb \/ (Calm /\ ~accepted))
    BY <1>12, <2>2, WorkingStep DEF DelKey, Go, Working, Calm, Disturb
  <2> QED
    BY <1>12, <2>1, <2>2 DEF DelKey, DeleteKey
<1>13. CASE Create
  BY <1>0, <1>13, CreateBudget
<1>14. CASE CleanupKey
  <2>1. CASE Kill(tn.keyID) /\ (Disturb \/ Calm)
    BY <1>14, <2>1, KeyDies DEF CleanupKey, Go, Working
  <2>2. CASE UNCHANGED keyState /\ (Disturb \/ Calm)
    <3>1. Stray' = Stray /\ Need' = Need
      BY <1>14, <2>2
      DEF CleanupKey, Go, world, Stray, Need, Committed, AliveKeys, Alive, Working
    <3>2. Need \in 0 .. 2
      BY DEF Need, One
    <3> QED
      BY <1>14, <2>2, <3>1, <3>2, Budget DEF CleanupKey, NotedOK, Go
  <2> QED
    BY <1>14, <2>1, <2>2 DEF CleanupKey, DeleteKey
\* The steps that leave the object, the keys and a pass that works alone.
<1>15. ASSUME UNCHANGED <<obj, keyState, accepted>>, Disturb \/ Calm,
              \/ UNCHANGED pass
              \/ pc \notin Working /\ pc' \notin Working
       PROVE  NotedOK' /\ BudgetOK'
  <2>1. Stray' = Stray /\ Need' = Need
    BY <1>15 DEF pass, Stray, Need, Committed, Current, AliveKeys, Alive
  <2>2. Need \in 0 .. 2
    BY DEF Need, One
  <2> QED
    BY <1>15, <2>1, <2>2, Budget DEF NotedOK, pass, Working
<1>16. CASE Start
  <2>1. FirstStep(cached) \notin Working
    BY <1>0 DEF FirstStep, Working, TypeOK, Version
  <2> QED
    BY <1>15, <1>16, <2>1 DEF Start, Go, Calm, Working, world
<1>17. CASE \/ CleanupSecret \/ Deliver \/ SyncSecret \/ TimerFires \/ Resync
            \/ UNCHANGED vars
  BY <1>15, <1>17
  DEF CleanupSecret, Deliver, SyncSecret, TimerFires, Resync, vars, End, Go,
      ManagerIdle, Calm, pass, world, Working
<1>18. CASE Restart
  <2>1. CASE pc \in Working
    BY <1>18, <2>1, EndUnstored DEF Restart, Go, NotedOK
  <2>2. CASE pc \notin Working
    BY <1>15, <1>18, <2>2 DEF Restart, Go, Working
  <2> QED
    BY <2>1, <2>2
<1>19. CASE UserCreate
  <2>1. PICK ok \in BOOLEAN : Foreign(Fresh(obj.rv, ok))
    BY <1>19 DEF UserCreate
  <2>2. Fresh(obj.rv, ok) \in Version /\ Fresh(obj.rv, ok).phase = "present"
    <3>1. obj.rv \in Nat
      BY <1>0 DEF TypeOK, Version
    <3>2. Fresh(obj.rv, ok).phase = "present"
      BY DEF Fresh, Absent
    <3> QED
      BY <3>1, <3>2, FreshIsVersion
  <2>3. pc \notin Working
    BY <1>19 DEF UserCreate, IInv, HeldOK, Held
  <2>4. obj'.phase = "present"
    BY <1>0, <2>1, <2>2, StoredKey DEF Foreign
  <2> QED
    BY <2>1, <2>3, <2>4, ForeignWrite DEF Foreign, ManagerIdle
<1>20. CASE UserEdit
  <2>1. PICK ok \in BOOLEAN : Foreign([obj EXCEPT !.valid = ok, !.observed = FALSE])
    BY <1>20 DEF UserEdit
  <2> DEFINE v == [obj EXCEPT !.valid = ok, !.observed = FALSE]
  <2>2. v \in Version /\ v.keyID = obj.keyID
    BY <1>0 DEF Version
  <2> QED
    BY <2>1, <2>2, ForeignWrite, StoredKey DEF Foreign, ManagerIdle
<1>21. CASE UserDelete
  <2> DEFINE v == [obj EXCEPT !.phase = "deleting"]
  <2>1. v \in Version /\ v.keyID = obj.keyID
    BY <1>0 DEF Version
  <2>2. CASE obj.finalizer
    BY <1>21, <2>1, <2>2, ForeignWrite, StoredKey DEF UserDelete, Foreign, ManagerIdle
  <2>3. CASE ~obj.finalizer
    <3>1. pc \notin Working
      BY <2>3 DEF IInv, HeldOK, Held
    <3>2. obj'.phase = "absent"
      BY <1>0, <1>21, <2>3, StoredKey, StatusIsVersion, GoneFields
      DEF UserDelete, Foreign
    <3> QED
      BY <1>21, <2>3, <3>1, <3>2, ForeignWrite DEF UserDelete, Foreign, ManagerIdle
  <2> QED
    BY <2>2, <2>3
<1>22. CASE DecrementInjectedPods
  <2>1. obj'.keyID = obj.keyID
    BY <1>0, <1>22 DEF DecrementInjectedPods, Version
  <2> QED
    BY <1>22, <2>1, ForeignWrite DEF DecrementInjectedPods, ManagerIdle
<1>23. CASE Tamper
  <2>1. Stray' = Stray
    BY <1>23 DEF Tamper, ManagerIdle, world, Stray, AliveKeys, Alive
  <2>2. Need' <= Need + 1
    BY <1>23 DEF Tamper, ManagerIdle, world, NotedOK, Need, Committed, Current, Alive, One
  <2> QED
    BY <1>23, <2>1, <2>2, Budget DEF Tamper, ManagerIdle, world, NotedOK
<1>24. CASE KeyAges
  <2>1. PICK k \in Keys : \/ /\ keyState[k] = "live"
                             /\ keyState' = [keyState EXCEPT ![k] = "expiring"]
                          \/ Kill(k)
    BY <1>24 DEF KeyAges
  <2>2. UNCHANGED <<world, pc, tn, accepted, disturbances>>
    BY <1>24 DEF KeyAges, ManagerIdle
  <2>3. CASE Kill(k)
    BY <2>2, <2>3, KeyDies DEF Calm
  <2>4. CASE keyState[k] = "live" /\ keyState' = [keyState EXCEPT ![k] = "expiring"]
    <3>1. \A j \in Keys : Alive(j)' <=> Alive(j)
      BY <1>0, <2>4 DEF Alive, TypeOK
    <3>2. (Alive(obj.keyID))' <=> Alive(obj.keyID)
      BY <2>2, <3>1 DEF Alive, world
    <3>3. Stray' = Stray /\ Need' = Need
      <4>1. Stray' = Stray
        BY <2>2, <3>1 DEF Stray, AliveKeys, world
      <4>2. Current' <=> Current
        BY <2>2 DEF Current, world
      <4>3. Need' = Need
        BY <2>2, <3>2, <4>2 DEF Need, Committed, One, world
      <4> QED
        BY <4>1, <4>3
    <3>4. Need \in 0 .. 2
      BY DEF Need, One
    <3> QED
      BY <2>2, <3>3, <3>4, Budget DEF NotedOK, world, Calm
  <2> QED
    BY <2>1, <2>3, <2>4
<1> QED
  BY <1>1, <1>3, <1>4, <1>5, <1>6, <1>7, <1>8, <1>9, <1>10, <1>11, <1>12, <1>13,
     <1>14, <1>16, <1>17, <1>18, <1>19, <1>20, <1>21, <1>22, <1>23, <1>24
  DEF Next, Pass

\* Each fault, restart and foreign write strands at most one key.
THEOREM KeysAreBounded == Spec => []BoundedKeys
<1>1. KInv => BoundedKeys
  <2> SUFFICES ASSUME KInv PROVE BoundedKeys
    OBVIOUS
  <2> USE DEF KInv, BudgetOK
  <2>1. /\ Cardinality(Stray) \in Nat /\ disturbances \in Nat
        /\ Cardinality(Stray) + Need <= disturbances /\ Need \in 0 .. 2
    BY FS_CardinalityType DEF IInv, TypeOK, Need, One
  <2>2. CASE Committed /\ Alive(obj.keyID)
    <3>1. Need >= 1
      BY <2>2 DEF Need, One
    <3> DEFINE S == Stray \cup {obj.keyID}
               T == S \cup {tn.keyID}
    <3>2. IsFiniteSet(S) /\ Cardinality(S) <= Cardinality(Stray) + 1
          /\ Cardinality(S) \in Nat
      BY OneMore
    <3>3. IsFiniteSet(T) /\ Cardinality(T) <= Cardinality(S) + 1
          /\ Cardinality(T) \in Nat
      BY <3>2, OneMore
    <3>4. AliveKeys \in SUBSET T
      BY DEF Stray
    <3>5. Cardinality(AliveKeys) <= Cardinality(T) /\ Cardinality(AliveKeys) \in Nat
      BY <3>3, <3>4, FS_Subset, FS_CardinalityType
    <3> QED
      BY <2>1, <3>1, <3>2, <3>3, <3>5 DEF BoundedKeys
  <2>3. CASE ~(Committed /\ Alive(obj.keyID))
    <3>1. PICK k : AliveKeys \subseteq Stray \cup {k}
      BY <2>3 DEF Stray, AliveKeys, Committed, Working
    <3> DEFINE S == Stray \cup {k}
    <3>2. IsFiniteSet(S) /\ Cardinality(S) <= Cardinality(Stray) + 1
          /\ Cardinality(S) \in Nat
      BY OneMore
    <3>3. AliveKeys \in SUBSET S
      BY <3>1
    <3>4. Cardinality(AliveKeys) <= Cardinality(S) /\ Cardinality(AliveKeys) \in Nat
      BY <3>2, <3>3, FS_Subset, FS_CardinalityType
    <3> QED
      BY <2>1, <3>2, <3>4 DEF BoundedKeys
  <2> QED
    BY <2>2, <2>3
<1>2. KInv /\ [Next]_vars => KInv'
  BY NextInvariant, NextBudget DEF KInv
<1>3. Init => KInv
  BY InitInvariant, InitBudget DEF KInv
<1> QED
  BY <1>1, <1>2, <1>3, PTL DEF Spec
=============================================================================
