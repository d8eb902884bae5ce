--------------------------- MODULE TailserveProofs ---------------------------
(***************************************************************************)
(* Theorems about Tailserve, for any number of Tailserves, specs, services *)
(* and disturbances.                                                       *)
(*                                                                         *)
(* The argument: a copy that is not overtaken is the Tailserve itself, and *)
(* whatever an older copy still tells is true for good: a finalizer that   *)
(* it shows was there until the Tailserve went, a deletion is not undone,  *)
(* the name of a service and the Tailnet change only with an excuse, and a *)
(* generation that has been observed is the one every copy shows.  So      *)
(* services and ConfigMaps are made under the finalizer and in the present *)
(* place, and the pass that takes the finalizer has deleted what it does   *)
(* not excuse.                                                             *)
(***************************************************************************)
EXTENDS Tailserve, TLAPS

Working == {"getService", "putService", "configMap", "writeStatus"}

Deletion == {"deleteService", "deleteMap", "release"}

Existing == {"live", "deleting"}

\* A finalizer is on an object that exists, and what is being deleted has one.
Sane(v) == /\ v.finalizer => v.phase \in Existing
           /\ v.phase = "deleting" => v.finalizer

SaneOK == \A t \in Tailserves : Sane(tailserve[t]) /\ Sane(cached[t])

\* What every copy v of t tells that stays true.
Older(v, t) ==
    LET now == tailserve[t] IN
    /\ v.phase # "future" => now.phase # "future"
    /\ v.phase = "deleting" => now.phase \in {"deleting", "gone"}
    /\ v.finalizer => now.finalizer \/ now.phase = "gone"
    /\ v.phase = "live" /\ v.finalizer => now.phase \in Existing
    /\ v.phase # "future" /\ "service" \notin excused[t] =>
          Name[t][v.spec] = Name[t][now.spec]
    /\ v.phase # "future" /\ ~(Parts \subseteq excused[t]) =>
          Ref[v.spec] = Ref[now.spec]
    /\ v.phase = "live" /\ v.finalizer /\ now.observed => v.spec = now.spec

CacheOK ==
    \A t \in Tailserves : /\ Older(cached[t], t)
                          /\ t \notin behind => cached[t] = tailserve[t]

PassOK ==
    pc # "idle" =>
        /\ Older(my, me) /\ Sane(my)
        /\ ~stale => me \notin behind /\ my = tailserve[me]

\* What the pass knows of its copy at each step.
StepOK ==
    /\ pc = "addFinalizer" => my.phase = "live" /\ ~my.finalizer
    /\ pc \in Working => my.phase = "live" /\ my.finalizer
    /\ pc \in Deletion => my.phase = "deleting" /\ my.finalizer
    /\ pc \notin Deletion => skipped = {}

\* The finalizer is there, or the Tailserve was let go with an excuse.
Kept(t, part) ==
    \/ tailserve[t].finalizer
    \/ tailserve[t].phase = "gone" /\ part \in excused[t]

\* The Tailnet that t refers to, and where it has its service.
Home(t) == tailnet[Ref[tailserve[t].spec]]

Place(t) == <<Home(t).network, Name[t][tailserve[t].spec]>>

ServiceOK ==
    \A s \in Services : service[s] # None =>
        LET t == service[s].by IN
        /\ Kept(t, "service")
        /\ "service" \notin excused[t] => s = Place(t)

NoServiceBy(t) == \A s \in Services : service[s] # None => service[s].by # t

DeletedOK ==
    pc \in {"deleteMap", "release"} /\ "service" \notin skipped \cup excused[me] =>
        NoServiceBy(me)

MapOK ==
    \A t \in Tailserves, n \in Namespaces : configMap[<<t, n>>] # None =>
        /\ Kept(t, "map")
        /\ "map" \notin excused[t] => n = Home(t).namespace

\* What is not excused of t has the same place in Tailnet n as in that of t.
Agrees(t, n) ==
    /\ "service" \notin excused[t] => n.network = Home(t).network
    /\ "map" \notin excused[t] => n.namespace = Home(t).namespace

\* Who has no excuse lives with a Tailnet that did not move.
PlaceOK ==
    \A t \in Tailserves : tailserve[t].phase # "future" =>
        /\ Agrees(t, cachedTailnet[Ref[tailserve[t].spec]])
        /\ pc # "idle" /\ me = t => Agrees(t, read)

DroppedOK ==
    pc = "release" /\ my.map /\ "map" \notin skipped \cup excused[me] =>
        configMap[<<me, read.namespace>>] = None

\* The address that GET found is that of the service.
FoundOK ==
    pc = "putService" /\ service[MyService] # None =>
        found = Failed \/ found = service[MyService].addr

Succeeding == pc = "configMap" \/ (pc = "writeStatus" /\ verdict = "ReconcileSuccess")

\* The service of the pass stands when its success is about to be written.
ServedOK ==
    ~tampered /\ Succeeding => /\ service[MyService] # None
                               /\ service[MyService].by = me
                               /\ service[MyService].spec = my.spec

IInv == /\ TypeOK /\ SaneOK /\ CacheOK /\ PassOK /\ StepOK
        /\ ServiceOK /\ DeletedOK /\ MapOK /\ PlaceOK /\ DroppedOK
        /\ FoundOK /\ ServedOK /\ ReadyMeansServed

-----------------------------------------------------------------------------
(* Type correctness.                                                       *)

LEMMA BeginningTypes ==
    /\ NewTailserve \in Version /\ NewTailnet \in Tailnet
    /\ (CHOOSE t \in Tailserves : TRUE) \in Tailserves
<1>1. AnySpec \in Specs /\ AnyNamespace \in Namespaces /\ AnyNetwork \in Networks
      /\ (CHOOSE t \in Tags : TRUE) \in Tags
      /\ (CHOOSE t \in Tailserves : TRUE) \in Tailserves
  BY InhabitedAssumption DEF AnySpec, AnyNamespace, AnyNetwork
<1>2. NewTailserve \in Version
  BY <1>1 DEF NewTailserve, Version, Verdicts
<1> QED
  BY <1>1, <1>2 DEF NewTailnet, Tailnet

LEMMA CounterTypes ==
    ASSUME TypeOK, Disturb \/ Calm
    PROVE  disturbances' \in 0 .. MaxDisturbances
BY BoundAssumption DEF TypeOK, Disturb, Calm

LEMMA EndTypes ==
    ASSUME TypeOK, NEW again \in BOOLEAN, End(again)
    PROVE  /\ pc' = "idle" /\ me' \in Tailserves /\ my' \in Version
           /\ stale' \in BOOLEAN /\ read' \in Tailnet
           /\ found' \in Addresses \cup {None, Failed} /\ verdict' \in Verdicts
           /\ skipped' = {} /\ queued' \subseteq Tailserves
BY BeginningTypes DEF End, TypeOK, Verdicts

LEMMA PutTypes ==
    ASSUME TypeOK, NEW v \in Version, Put(v)
    PROVE  tailserve' \in [Tailserves -> Version] /\ behind' \subseteq Tailserves
BY DEF Put, TypeOK

\* The last write of a pass.
LEMMA UpdateTypes ==
    ASSUME TypeOK, NEW v \in Version, NEW again \in BOOLEAN, End(again),
           Put(v) \/ UNCHANGED <<tailserve, behind>>, Disturb \/ Calm,
           UNCHANGED <<cached, maps, world, service, tampered>>,
           excused' \in [Tailserves -> SUBSET Parts]
    PROVE  TypeOK'
<1>1. disturbances' \in 0 .. MaxDisturbances
  BY CounterTypes
<1>2. tailserve' \in [Tailserves -> Version] /\ behind' \subseteq Tailserves
  BY PutTypes DEF TypeOK
<1> QED
  BY <1>1, <1>2, EndTypes DEF TypeOK, Steps, maps, world

LEMMA UserWriteTypes ==
    ASSUME TypeOK, NEW t \in Tailserves, NEW v \in Version, UserWrite(t, v),
           Disturb \/ Calm, excused' \in [Tailserves -> SUBSET Parts]
    PROVE  TypeOK'
<1>1. disturbances' \in 0 .. MaxDisturbances
  BY CounterTypes
<1>2. tailserve' \in [Tailserves -> Version] /\ behind' \subseteq Tailserves
      /\ stale' \in BOOLEAN
  BY DEF TypeOK, UserWrite
<1> QED
  BY <1>1, <1>2 DEF TypeOK, UserWrite, maps, world

LEMMA NextStepTypes ==
    ASSUME NEW t \in Tailserves, NEW v \in Version, NEW n \in Tailnet
    PROVE  NextStep(t, v, n) \in Steps /\ Obstacle(t, v, n) \in Verdicts
BY DEF NextStep, Obstacle, DeletionStep, Steps, Verdicts, Failures, Version

LEMMA MyTypes ==
    ASSUME TypeOK
    PROVE  /\ MyService \in Services /\ MyMap \in MapKeys
           /\ my.spec \in Specs /\ read.tags \in Tags /\ read.network \in Networks
           /\ MyConfig \in Config
BY NamesAssumption
DEF TypeOK, MyService, Services, MyMap, MapKeys, MyConfig, Config, Version, Tailnet

LEMMA ServiceTypes ==
    ASSUME TypeOK
    PROVE  /\ \A tags \in Tags : \A addr : StoreService(tags, addr) =>
                 service' \in [Services -> Service \cup {None}]
           /\ \A s : [service EXCEPT ![s] = None] \in [Services -> Service \cup {None}]
           /\ \A k : [configMap EXCEPT ![k] = None] \in [MapKeys -> Config \cup {None}]
           /\ StoreMap => configMap' \in [MapKeys -> Config \cup {None}]
<1>1. ASSUME NEW tags \in Tags, NEW addr, StoreService(tags, addr)
      PROVE  service' \in [Services -> Service \cup {None}]
  <2>1. PICK a \in Addresses :
            service' = [service EXCEPT ![MyService] =
                           [by |-> me, spec |-> my.spec, tags |-> tags, addr |-> a]]
    BY <1>1 DEF StoreService
  <2>2. [by |-> me, spec |-> my.spec, tags |-> tags, addr |-> a] \in Service
    BY MyTypes DEF Service, TypeOK
  <2> QED
    BY <2>1, <2>2 DEF TypeOK
<1> QED
  BY <1>1, MyTypes DEF TypeOK, StoreMap

LEMMA InitTypes == Init => TypeOK
<1> SUFFICES ASSUME Init PROVE TypeOK
  OBVIOUS
<1>1. tailnet \in [Tailnets -> Tailnet]
  BY BeginningsAssumption DEF Init
<1> QED
  <2>1. tailserve \in [Tailserves -> Version] /\ cached \in [Tailserves -> Version]
        /\ my \in Version /\ me \in Tailserves /\ read \in Tailnet
    BY BeginningTypes DEF Init
  <2>2. disturbances \in 0 .. MaxDisturbances
    BY BoundAssumption DEF Init
  <2>3. /\ service \in [Services -> Service \cup {None}]
        /\ configMap \in [MapKeys -> Config \cup {None}]
        /\ cachedMap \in [MapKeys -> Config \cup {None}]
        /\ excused \in [Tailserves -> SUBSET Parts]
    BY DEF Init
  <2>4. /\ pc \in Steps /\ stale \in BOOLEAN /\ found \in Addresses \cup {None, Failed}
        /\ verdict \in Verdicts /\ skipped \subseteq Parts
    BY DEF Init, Steps, Verdicts
  <2> QED
    BY <1>1, <2>1, <2>2, <2>3, <2>4 DEF Init, TypeOK

LEMMA NextTypes == TypeOK /\ [Next]_vars => TypeOK'
<1> SUFFICES ASSUME TypeOK, [Next]_vars PROVE TypeOK'
  OBVIOUS
<1>1. CASE AddFinalizer
  <2>1. [my EXCEPT !.finalizer = TRUE] \in Version
    BY DEF TypeOK, Version
  <2> QED
    BY <1>1, <2>1, UpdateTypes DEF AddFinalizer, Update, TypeOK
<1>2. CASE WriteStatus
  <2>1. PICK second \in BOOLEAN :
            Update([my EXCEPT !.ready = verdict, !.observed = TRUE,
                              !.map = @ \/ verdict = "ReconcileSuccess",
                              !.lastUpdated = IF verdict = "ReconcileSuccess"
                                              THEN second ELSE @],
                   UNCHANGED excused)
    BY <1>2 DEF WriteStatus
  <2>2. [my EXCEPT !.ready = verdict, !.observed = TRUE,
                   !.map = @ \/ verdict = "ReconcileSuccess",
                   !.lastUpdated = IF verdict = "ReconcileSuccess"
                                   THEN second ELSE @] \in Version
    BY DEF TypeOK, Version
  <2> QED
    BY <2>1, <2>2, UpdateTypes DEF Update, TypeOK
<1>3. CASE Release
  <2>1. [my EXCEPT !.phase = "gone", !.finalizer = FALSE] \in Version
    BY DEF TypeOK, Version
  <2>2. excused' \in [Tailserves -> SUBSET Parts]
    <3>1. excused[me] \cup skipped \cup (IF my.map THEN {} ELSE {"map"}) \subseteq Parts
      BY DEF TypeOK, Parts
    <3> QED
      BY <1>3, <3>1 DEF Release, Update, TypeOK
  <2> QED
    BY <1>3, <2>1, <2>2, UpdateTypes DEF Release, Update, TypeOK
<1>4. CASE GetService
  <2>1. found' \in Addresses \cup {None, Failed}
    BY <1>4, MyTypes DEF GetService, TypeOK, Service
  <2>2. Disturb \/ Calm
    BY <1>4 DEF GetService
  <2> QED
    BY <1>4, <2>1, <2>2, CounterTypes
    DEF GetService, Go, TypeOK, Steps, kube, maps, world
<1>5. CASE PutService
  <2>1. service' \in [Services -> Service \cup {None}]
    BY <1>5, MyTypes, ServiceTypes DEF PutService, TypeOK
  <2>2. Disturb \/ Calm
    BY <1>5 DEF PutService
  <2>3. pc' \in Steps /\ verdict' \in Verdicts /\ UNCHANGED <<me, my, stale, read, queued>>
    BY <1>5 DEF PutService, Go, Steps, Verdicts, Failures, TypeOK
  <2> QED
    BY <1>5, <2>1, <2>2, <2>3, CounterTypes DEF PutService, TypeOK, kube, maps, world
<1>6. CASE WriteMap
  <2>1. configMap' \in [MapKeys -> Config \cup {None}]
    BY <1>6, ServiceTypes DEF WriteMap, TypeOK
  <2>2. Disturb \/ Calm
    BY <1>6 DEF WriteMap
  <2>3. pc' \in Steps /\ verdict' \in Verdicts /\ UNCHANGED <<me, my, stale, read, queued>>
    BY <1>6 DEF WriteMap, Go, Steps, Verdicts, Failures
  <2> QED
    BY <1>6, <2>1, <2>2, <2>3, CounterTypes DEF WriteMap, TypeOK, kube, world
<1>7. CASE DeleteService
  <2>1. service' \in [Services -> Service \cup {None}]
    BY <1>7, ServiceTypes DEF DeleteService, TypeOK
  <2>2. Disturb \/ Calm
    BY <1>7 DEF DeleteService
  <2>3. pc' \in Steps /\ skipped' \subseteq Parts /\ UNCHANGED <<me, my, stale, read, queued>>
    BY <1>7 DEF DeleteService, Go, Steps, Parts, TypeOK
  <2> QED
    BY <1>7, <2>1, <2>2, <2>3, CounterTypes DEF DeleteService, TypeOK, kube, maps, world
<1>8. CASE DeleteMap
  <2>1. configMap' \in [MapKeys -> Config \cup {None}]
    BY <1>8, ServiceTypes DEF DeleteMap, DropMap, TypeOK
  <2>2. Disturb \/ Calm
    BY <1>8 DEF DeleteMap
  <2>3. /\ pc' \in Steps /\ me' \in Tailserves /\ my' \in Version /\ stale' \in BOOLEAN
        /\ read' \in Tailnet /\ found' \in Addresses \cup {None, Failed}
        /\ verdict' \in Verdicts /\ skipped' \subseteq Parts /\ queued' \subseteq Tailserves
    BY <1>8, EndTypes DEF DeleteMap, Go, Steps, TypeOK
  <2> QED
    BY <1>8, <2>1, <2>2, <2>3, CounterTypes DEF DeleteMap, TypeOK, kube, world
<1>9. ASSUME NEW t \in Tailserves, Start(t) PROVE TypeOK'
  <2> DEFINE n == cachedTailnet[Ref[cached[t].spec]]
             step == NextStep(t, cached[t], n)
  <2>1. cached[t] \in Version /\ n \in Tailnet
    BY RefAssumption DEF TypeOK, Version
  <2>2. step \in Steps /\ Obstacle(t, cached[t], n) \in Verdicts
    BY <2>1, NextStepTypes
  <2>3. Spared(n) \subseteq Parts
    BY DEF Spared, Parts
  <2>4. CASE step = "idle"
    BY <1>9, <2>4 DEF Start, TypeOK, kube, pass, maps, world
  <2>5. CASE step # "idle"
    <3>1. /\ pc' = step /\ me' = t /\ my' = cached[t]
          /\ stale' = (t \in behind) /\ read' = n /\ found' = found
      BY <1>9, <2>5, Zenon DEF Start
    <3>2. verdict' \in Verdicts /\ skipped' \subseteq Parts
      BY <1>9, <2>2, <2>3, <2>5 DEF Start, Verdicts
    <3>3. queued' \subseteq Tailserves
          /\ UNCHANGED <<kube, maps, world, service, excused, tampered, disturbances>>
      BY <1>9 DEF Start, TypeOK
    <3>4. pc' \in Steps /\ my' \in Version /\ read' \in Tailnet
      BY <2>1, <2>2, <3>1
    <3>5. stale' \in BOOLEAN
      BY <3>1
    <3> QED
      BY <3>1, <3>2, <3>3, <3>4, <3>5 DEF TypeOK, kube, maps, world
  <2> QED
    BY <2>4, <2>5
<1>10. ASSUME NEW t \in Tailserves, Deliver(t) \/ Resync(t) PROVE TypeOK'
  BY <1>10 DEF Deliver, Resync, TypeOK, kube, pass, maps, world
<1>11. ASSUME NEW k \in MapKeys, SyncMap(k) PROVE TypeOK'
  BY <1>11 DEF SyncMap, TypeOK, kube, pass, world
<1>12. ASSUME NEW n \in Tailnets, SyncTailnet(n) PROVE TypeOK'
  BY <1>12 DEF SyncTailnet, TypeOK, kube, pass, maps
<1>13. CASE Restart
  <2>1. disturbances' \in 0 .. MaxDisturbances
    BY <1>13, CounterTypes DEF Restart
  <2> QED
    BY <1>13, <2>1, BeginningTypes DEF Restart, TypeOK, Steps, Verdicts
<1>14. ASSUME NEW t \in Tailserves, UserCreate(t) PROVE TypeOK'
  <2>1. \A s \in Specs : [NewTailserve EXCEPT !.phase = "live", !.spec = s] \in Version
    BY DEF NewTailserve, Version, Verdicts
  <2>2. excused' \in [Tailserves -> SUBSET Parts]
    BY <1>14 DEF UserCreate, Moved, TypeOK, Parts
  <2> QED
    BY <1>14, <2>1, <2>2, UserWriteTypes DEF UserCreate
<1>15. ASSUME NEW t \in Tailserves, UserEdit(t) PROVE TypeOK'
  <2>1. \A s \in Specs : [tailserve[t] EXCEPT !.spec = s, !.observed = FALSE] \in Version
    BY DEF TypeOK, Version
  <2>2. excused' \in [Tailserves -> SUBSET Parts]
    BY <1>15 DEF UserEdit, TypeOK, Parts
  <2> QED
    BY <1>15, <2>1, <2>2, UserWriteTypes DEF UserEdit
<1>16. ASSUME NEW t \in Tailserves, UserDelete(t) PROVE TypeOK'
  <2>1. \A ph \in {"deleting", "gone"} : [tailserve[t] EXCEPT !.phase = ph] \in Version
    BY DEF TypeOK, Version
  <2> QED
    BY <1>16, <2>1, UserWriteTypes DEF UserDelete, TypeOK
<1>17. ASSUME NEW n \in Tailnets, EditTailnet(n) PROVE TypeOK'
  <2>1. disturbances' \in 0 .. MaxDisturbances
    BY <1>17, CounterTypes DEF EditTailnet
  <2>2. excused' \in [Tailserves -> SUBSET Parts] /\ tailnet' \in [Tailnets -> Tailnet]
    BY <1>17 DEF EditTailnet, Moved, TypeOK, Parts
  <2> QED
    BY <1>17, <2>1, <2>2 DEF EditTailnet, TypeOK, kube, pass, maps
<1>18. CASE Tamper
  <2>1. disturbances' \in 0 .. MaxDisturbances
    BY <1>18, CounterTypes DEF Tamper
  <2>2. service' \in [Services -> Service \cup {None}]
        /\ configMap' \in [MapKeys -> Config \cup {None}]
    BY <1>18, ServiceTypes DEF Tamper, TypeOK
  <2>3. accepted' \subseteq Tailnets /\ tampered' \in BOOLEAN
    BY <1>18, Zenon DEF Tamper, TypeOK
  <2> QED
    BY <1>18, <2>1, <2>2, <2>3 DEF Tamper, TypeOK, kube, pass
<1>19. CASE UNCHANGED vars
  BY <1>19 DEF vars, TypeOK, kube, pass, maps, world
<1> QED
  BY <1>1, <1>2, <1>3, <1>4, <1>5, <1>6, <1>7, <1>8, <1>9, <1>10, <1>11, <1>12,
     <1>13, <1>14, <1>15, <1>16, <1>17, <1>18, <1>19 DEF Next, Pass

\* Every variable stays within its type.
THEOREM TypeCorrect == Spec => []TypeOK
<1> QED
  BY InitTypes, NextTypes, PTL DEF Spec

-----------------------------------------------------------------------------
(* What a step does not disturb.                                           *)

LEMMA KubeFrame ==
    ASSUME IInv, UNCHANGED <<tailserve, cached, behind, excused>>
    PROVE  SaneOK' /\ CacheOK'
BY DEF IInv, SaneOK, CacheOK, Older, Sane

LEMMA PassFrame ==
    ASSUME IInv, UNCHANGED <<tailserve, behind, excused, me, my, stale>>,
           pc' # "idle" => pc # "idle"
    PROVE  PassOK'
BY DEF IInv, PassOK, Older, Sane

LEMMA ServiceFrame ==
    ASSUME IInv, UNCHANGED <<tailserve, excused, service, tailnet>>
    PROVE  ServiceOK'
BY DEF IInv, ServiceOK, Kept, Place, Home

LEMMA MapFrame ==
    ASSUME IInv, UNCHANGED <<tailserve, excused, tailnet>>,
           \A k \in MapKeys : configMap'[k] # None => configMap[k] # None
    PROVE  MapOK'
BY DEF IInv, MapOK, Kept, Home, MapKeys

LEMMA PlaceFrame ==
    ASSUME IInv, UNCHANGED <<tailserve, excused, tailnet, cachedTailnet>>,
           pc' # "idle" => pc # "idle" /\ UNCHANGED <<me, read>>
    PROVE  PlaceOK'
BY DEF IInv, PlaceOK, Agrees, Home

\* Once the pass is over it claims nothing.
LEMMA IdlePass ==
    ASSUME pc' = "idle", skipped' = {}
    PROVE  PassOK' /\ StepOK' /\ DeletedOK' /\ DroppedOK' /\ FoundOK' /\ ServedOK'
BY DEF PassOK, StepOK, DeletedOK, DroppedOK, FoundOK, ServedOK, Succeeding,
       Working, Deletion

\* Nor does the world change what a pass under way has established, as long as
\* it makes no service and no ConfigMap, and takes no excuse back.
LEMMA PassStays ==
    ASSUME IInv, UNCHANGED <<pc, me, my, read, found, verdict, skipped>>,
           \A s \in Services : service'[s] \in {service[s], None},
           \A k \in MapKeys : configMap'[k] # None => configMap[k] # None,
           \A t \in Tailserves : excused[t] \subseteq excused'[t],
           ~tampered' => ~tampered /\ UNCHANGED service
    PROVE  StepOK' /\ DeletedOK' /\ DroppedOK' /\ FoundOK' /\ ServedOK'
<1> USE DEF IInv
<1>1. me \in Tailserves /\ MyService \in Services /\ MyMap \in MapKeys
      /\ UNCHANGED <<MyService, MyMap>>
  BY MyTypes DEF MyService, MyMap, TypeOK
<1>2. StepOK'
  BY DEF StepOK
<1>3. DeletedOK'
  BY <1>1 DEF DeletedOK, NoServiceBy
<1>4. DroppedOK'
  BY <1>1 DEF DroppedOK, MyMap
<1>5. FoundOK'
  BY <1>1 DEF FoundOK
<1>6. ServedOK'
  BY <1>1 DEF ServedOK, Succeeding
<1> QED
  BY <1>2, <1>3, <1>4, <1>5, <1>6
-----------------------------------------------------------------------------
(* The inductive invariant.                                                *)

LEMMA InitInvariant == Init => IInv
<1> SUFFICES ASSUME Init PROVE IInv
  OBVIOUS
<1>1. SaneOK /\ CacheOK
  BY DEF Init, SaneOK, CacheOK, Sane, Older, NewTailserve, Existing
<1>2. PassOK /\ StepOK /\ DeletedOK /\ DroppedOK /\ FoundOK /\ ServedOK
  BY DEF Init, PassOK, StepOK, DeletedOK, DroppedOK, FoundOK, ServedOK, Succeeding,
         Working, Deletion
<1>3. ServiceOK /\ PlaceOK
  BY DEF Init, ServiceOK, PlaceOK, NewTailserve
<1>4. MapOK
  BY DEF Init, MapOK, MapKeys
<1>5. ReadyMeansServed
  BY DEF Init, ReadyMeansServed, NewTailserve
<1> QED
  BY <1>1, <1>2, <1>3, <1>4, <1>5, InitTypes DEF IInv

\* What a pass may store: its copy with other notes, or without the finalizer
\* when it was on its way out.
Advances(v) ==
    /\ v.spec = my.spec /\ Sane(v)
    /\ \/ v.phase = my.phase /\ (my.finalizer => v.finalizer)
       \/ my.phase = "deleting" /\ v.phase = "gone"

\* The last write of a pass is stored only when its copy was the Tailserve.
LEMMA StoredVersion ==
    ASSUME IInv, pc # "idle", NEW v \in Version, Advances(v), ~stale, Put(v),
           UNCHANGED cached,
           \A t \in Tailserves : excused[t] \subseteq excused'[t]
    PROVE  /\ my = tailserve[me] /\ cached[me] = my
           /\ tailserve' = [tailserve EXCEPT ![me] = v]
           /\ SaneOK' /\ CacheOK'
<1> USE DEF IInv
<1>1. my = tailserve[me] /\ cached[me] = my /\ me \in Tailserves
  BY DEF PassOK, CacheOK, TypeOK
<1>2. tailserve' = [tailserve EXCEPT ![me] = v] /\ behind' \subseteq behind \cup {me}
      /\ behind \subseteq behind'
      /\ (me \notin behind' => v = tailserve[me])
  BY <1>1 DEF Put, TypeOK
<1>3. tailserve'[me] = v /\ \A t \in Tailserves \ {me} : tailserve'[t] = tailserve[t]
  BY <1>1, <1>2 DEF TypeOK
<1>4. SaneOK'
  BY <1>3 DEF SaneOK, Advances, Sane
<1>5. ASSUME NEW t \in Tailserves, t # me
      PROVE  Older(cached[t], t)' /\ (t \notin behind' => cached'[t] = tailserve'[t])
  BY <1>2, <1>3, <1>5 DEF CacheOK, Older
<1>6. ASSUME NEW t \in Tailserves, t = me PROVE Older(cached[t], t)'
  BY <1>1, <1>3, <1>6 DEF Advances, Older, SaneOK, Sane, Existing
<1>7. me \notin behind' => cached'[me] = tailserve'[me]
  BY <1>1, <1>2, <1>3
<1> QED
  BY <1>1, <1>2, <1>4, <1>5, <1>6, <1>7 DEF CacheOK

\* A pass that ends and has stored nothing.
LEMMA NothingStored ==
    ASSUME IInv, TypeOK', NEW again \in BOOLEAN, End(again),
           UNCHANGED <<kube, tailnet, cachedTailnet, service, excused, tampered>>,
           \A k \in MapKeys : configMap'[k] # None => configMap[k] # None
    PROVE  IInv'
<1>1. pc' = "idle" /\ skipped' = {}
  BY DEF End
<1>2. ReadyMeansServed'
  BY DEF IInv, ReadyMeansServed, Served, kube
<1> QED
  BY <1>1, <1>2, IdlePass, KubeFrame, ServiceFrame, MapFrame, PlaceFrame
  DEF IInv, kube

\* A live Tailserve is stored with its finalizer or a new status.
LEMMA NotesStored ==
    ASSUME IInv, TypeOK', NEW again \in BOOLEAN, End(again), pc # "idle",
           NEW v \in Version, Advances(v), v.phase = my.phase, ~stale, Put(v),
           UNCHANGED <<cached, maps, world, service, excused, tampered>>,
           v.ready = "ReconcileSuccess" /\ v.observed =>
              \/ my.ready = "ReconcileSuccess" /\ my.observed
              \/ pc = "writeStatus" /\ verdict = "ReconcileSuccess"
    PROVE  IInv'
<1> USE DEF IInv
<1>1. pc' = "idle" /\ skipped' = {} /\ me \in Tailserves
  BY DEF End, TypeOK
<1>2. /\ my = tailserve[me] /\ tailserve' = [tailserve EXCEPT ![me] = v]
      /\ SaneOK' /\ CacheOK'
  BY StoredVersion
<1>3. /\ tailserve'[me] = v
      /\ \A t \in Tailserves \ {me} : tailserve'[t] = tailserve[t]
  BY <1>1, <1>2 DEF TypeOK
<1>4. \A t \in Tailserves, part \in Parts : Kept(t, part) => Kept(t, part)'
  BY <1>2, <1>3 DEF Kept, Advances
<1>5. \A t \in Tailserves : tailserve'[t].spec = tailserve[t].spec
  BY <1>2, <1>3 DEF Advances
<1>6. \A t \in Tailserves : UNCHANGED <<Home(t), Place(t)>>
  BY <1>5 DEF Home, Place, world
<1>7. ServiceOK'
  BY <1>4, <1>6 DEF ServiceOK, TypeOK, Service, Parts
<1>8. MapOK'
  BY <1>4, <1>6 DEF MapOK, maps, Parts
<1>9. PlaceOK'
  <2>1. \A t \in Tailserves : tailserve'[t].phase = tailserve[t].phase
    BY <1>2, <1>3
  <2> QED
    BY <1>1, <1>5, <1>6, <2>1 DEF PlaceOK, Agrees, world
<1>10. ReadyMeansServed'
  <2> SUFFICES ASSUME UniqueNames, ~tampered, NEW t \in Tailserves,
                      tailserve'[t].phase = "live", tailserve'[t].observed,
                      tailserve'[t].ready = "ReconcileSuccess"
               PROVE  Served(t)'
    BY DEF ReadyMeansServed, UniqueNames
  <2>1. CASE tailserve[t].observed /\ tailserve[t].ready = "ReconcileSuccess"
             /\ tailserve[t].phase = "live"
    BY <1>5, <2>1 DEF ReadyMeansServed, Served
  <2>2. CASE t = me /\ pc = "writeStatus" /\ verdict = "ReconcileSuccess"
    BY <1>3, <2>2, MyTypes DEF ServedOK, Succeeding, MyService, Advances, Served
  <2> QED
    BY <1>2, <1>3, <2>1, <2>2
<1> QED
  BY <1>1, <1>2, <1>7, <1>8, <1>9, <1>10, IdlePass

LEMMA AddFinalizerStep == IInv /\ TypeOK' /\ AddFinalizer => IInv'
<1> SUFFICES ASSUME IInv, TypeOK', AddFinalizer PROVE IInv'
  OBVIOUS
<1> DEFINE v == [my EXCEPT !.finalizer = TRUE]
<1>1. v \in Version /\ Advances(v) /\ v.phase = my.phase
      /\ v.ready = my.ready /\ v.observed = my.observed
  BY DEF AddFinalizer, IInv, TypeOK, StepOK, Version, Advances, Sane, Existing
<1>2. ASSUME NEW again \in BOOLEAN, End(again), ~stale, Put(v), UNCHANGED excused
      PROVE  IInv'
  BY <1>1, <1>2, NotesStored DEF AddFinalizer, Update
<1>3. ASSUME NEW again \in BOOLEAN, End(again), UNCHANGED <<tailserve, behind, excused>>
      PROVE  IInv'
  BY <1>3, NothingStored DEF AddFinalizer, Update, kube, maps, world
<1> QED
  BY <1>2, <1>3 DEF AddFinalizer, Update

LEMMA WriteStatusStep == IInv /\ TypeOK' /\ WriteStatus => IInv'
<1> SUFFICES ASSUME IInv, TypeOK', WriteStatus PROVE IInv'
  OBVIOUS
<1>1. PICK second \in BOOLEAN :
          Update([my EXCEPT !.ready = verdict, !.observed = TRUE,
                            !.map = @ \/ verdict = "ReconcileSuccess",
                            !.lastUpdated = IF verdict = "ReconcileSuccess"
                                            THEN second ELSE @],
                 UNCHANGED excused)
  BY DEF WriteStatus
<1> DEFINE v == [my EXCEPT !.ready = verdict, !.observed = TRUE,
                           !.map = @ \/ verdict = "ReconcileSuccess",
                           !.lastUpdated = IF verdict = "ReconcileSuccess"
                                           THEN second ELSE @]
<1>2. v \in Version /\ v.phase = my.phase /\ v.spec = my.spec
      /\ v.finalizer = my.finalizer /\ v.ready = verdict
  BY DEF IInv, TypeOK, Version
<1>3. Advances(v) /\ pc = "writeStatus"
  BY <1>2 DEF WriteStatus, IInv, StepOK, Working, Advances, Sane, Existing
<1>4. ASSUME NEW again \in BOOLEAN, End(again), ~stale, Put(v), UNCHANGED excused
      PROVE  IInv'
  BY <1>1, <1>2, <1>3, <1>4, NotesStored DEF Update
<1>5. ASSUME NEW again \in BOOLEAN, End(again), UNCHANGED <<tailserve, behind, excused>>
      PROVE  IInv'
  BY <1>1, <1>5, NothingStored DEF Update, kube, maps, world
<1> QED
  BY <1>1, <1>4, <1>5 DEF Update

\* Where the pass has dropped its ConfigMap there is none left that is not
\* excused.
LEMMA NothingKept ==
    ASSUME IInv, pc = "release", my.map, "map" \notin skipped \cup excused[me]
    PROVE  \A n \in Namespaces : configMap[<<me, n>>] = None
<1> USE DEF IInv
<1> SUFFICES ASSUME NEW n \in Namespaces, configMap[<<me, n>>] # None PROVE FALSE
  OBVIOUS
<1>1. me \in Tailserves /\ my.phase = "deleting"
  BY DEF TypeOK, StepOK, Deletion
<1>2. tailserve[me].phase # "future"
  BY <1>1 DEF PassOK, Older
<1>3. n = Home(me).namespace /\ read.namespace = Home(me).namespace
  BY <1>1, <1>2 DEF MapOK, PlaceOK, Agrees
<1> QED
  BY <1>3 DEF DroppedOK

LEMMA ReleaseStep == IInv /\ TypeOK' /\ Release => IInv'
<1> SUFFICES ASSUME IInv, TypeOK', Release PROVE IInv'
  OBVIOUS
<1> USE DEF IInv
<1> DEFINE v == [my EXCEPT !.phase = "gone", !.finalizer = FALSE]
           left == excused[me] \cup skipped \cup (IF my.map THEN {} ELSE {"map"})
<1>1. v \in Version /\ Advances(v) /\ v.phase = "gone" /\ v.spec = my.spec
      /\ pc = "release" /\ me \in Tailserves /\ my.phase = "deleting"
  BY DEF Release, TypeOK, StepOK, Deletion, Version, Advances, Sane, Existing
<1>2. ASSUME NEW again \in BOOLEAN, End(again), ~stale, Put(v),
             excused' = [excused EXCEPT ![me] = left]
      PROVE  IInv'
  <2>1. pc' = "idle" /\ skipped' = {}
    BY <1>2 DEF End
  <2>2. /\ excused'[me] = left
        /\ \A t \in Tailserves \ {me} : excused'[t] = excused[t]
        /\ \A t \in Tailserves : excused[t] \subseteq excused'[t]
    BY <1>1, <1>2 DEF TypeOK
  <2>3. UNCHANGED <<cached, maps, world, service, tampered>>
    BY DEF Release, Update
  <2>4. /\ my = tailserve[me] /\ tailserve' = [tailserve EXCEPT ![me] = v]
        /\ SaneOK' /\ CacheOK'
    BY <1>1, <1>2, <2>2, <2>3, StoredVersion
  <2>5. /\ tailserve'[me] = v
        /\ \A t \in Tailserves \ {me} : tailserve'[t] = tailserve[t]
    BY <1>1, <2>4 DEF TypeOK
  <2>6. "service" \in excused'[me] \/ NoServiceBy(me)
    BY <1>1, <2>2 DEF DeletedOK
  <2>7. \A t \in Tailserves : UNCHANGED <<Home(t), Place(t)>>
    BY <1>1, <2>3, <2>4, <2>5 DEF Home, Place, world
  <2>8. ServiceOK'
    <3> SUFFICES ASSUME NEW s \in Services, NEW t \in Tailserves,
                        service[s] # None, service[s].by = t
                 PROVE  /\ Kept(t, "service")'
                        /\ "service" \notin excused'[t] => s = Place(t)'
      BY <2>3 DEF ServiceOK, TypeOK, Service
    <3>1. CASE t = me
      BY <1>1, <2>2, <2>4, <2>5, <2>6, <3>1 DEF ServiceOK, Kept, NoServiceBy
    <3>2. CASE t # me
      BY <2>2, <2>5, <2>7, <3>2 DEF ServiceOK, Kept
    <3> QED
      BY <3>1, <3>2
  <2>9. "map" \in excused'[me] \/ \A n \in Namespaces : configMap[<<me, n>>] = None
    <3>1. CASE my.map /\ "map" \notin skipped \cup excused[me]
      BY <1>1, <2>4, <3>1, NothingKept DEF DroppedOK
    <3>2. CASE ~(my.map /\ "map" \notin skipped \cup excused[me])
      BY <2>2, <3>2
    <3> QED
      BY <3>1, <3>2
  <2>10. MapOK'
    <3> SUFFICES ASSUME NEW t \in Tailserves, NEW n \in Namespaces,
                        configMap[<<t, n>>] # None
                 PROVE  /\ Kept(t, "map")'
                        /\ "map" \notin excused'[t] => n = Home(t).namespace'
      BY <2>3 DEF MapOK, maps
    <3>1. CASE t = me
      BY <1>1, <2>2, <2>5, <2>9, <3>1 DEF MapOK, Kept
    <3>2. CASE t # me
      BY <2>2, <2>5, <2>7, <3>2 DEF MapOK, Kept
    <3> QED
      BY <3>1, <3>2
  <2>11. PlaceOK'
    BY <1>1, <2>1, <2>2, <2>3, <2>4, <2>5, <2>7 DEF PlaceOK, Agrees, world
  <2>12. ReadyMeansServed'
    <3> SUFFICES ASSUME UniqueNames, ~tampered, NEW t \in Tailserves,
                        tailserve'[t].phase = "live", tailserve'[t].observed,
                        tailserve'[t].ready = "ReconcileSuccess"
                 PROVE  Served(t)'
      BY <2>3 DEF ReadyMeansServed, UniqueNames
    <3>1. tailserve[t].phase = "live" /\ tailserve'[t] = tailserve[t]
      BY <1>1, <2>5
    <3> QED
      BY <1>1, <2>3, <3>1 DEF ReadyMeansServed, Served
  <2>13. PassOK' /\ StepOK' /\ DeletedOK' /\ DroppedOK' /\ FoundOK' /\ ServedOK'
    BY <2>1, IdlePass
  <2> QED
    BY <2>4, <2>8, <2>10, <2>11, <2>12, <2>13
<1>3. ASSUME NEW again \in BOOLEAN, End(again), UNCHANGED <<tailserve, behind, excused>>
      PROVE  IInv'
  BY <1>3, NothingStored DEF Release, Update, kube, maps, world
<1> QED
  BY <1>2, <1>3 DEF Release, Update

\* What stays true of Tailserves and of the world in the middle of a pass.
LEMMA MiddleFrame ==
    ASSUME IInv, UNCHANGED <<kube, excused, world, me, my, stale, read>>, pc # "idle"
    PROVE  /\ SaneOK' /\ CacheOK' /\ PassOK' /\ PlaceOK'
           /\ UNCHANGED <<MyService, MyMap>>
BY KubeFrame, PassFrame, PlaceFrame DEF kube, world, MyService, MyMap

LEMMA GetServiceStep == IInv /\ TypeOK' /\ GetService => IInv'
<1> SUFFICES ASSUME IInv, TypeOK', GetService PROVE IInv'
  OBVIOUS
<1> USE DEF IInv
<1>1. /\ pc = "getService" /\ pc' = "putService"
      /\ UNCHANGED <<kube, maps, world, service, excused, tampered, skipped, me, my,
                     stale, read>>
      /\ \/ found' = Failed
         \/ found' = IF service[MyService] = None THEN None ELSE service[MyService].addr
  BY DEF GetService, Go
<1>2. SaneOK' /\ CacheOK' /\ PassOK' /\ PlaceOK' /\ UNCHANGED <<MyService, MyMap>>
  BY <1>1, MiddleFrame
<1>3. StepOK' /\ DeletedOK' /\ DroppedOK' /\ FoundOK' /\ ServedOK'
  BY <1>1, <1>2 DEF StepOK, DeletedOK, DroppedOK, FoundOK, ServedOK, Succeeding,
                    Working, Deletion
<1>4. ServiceOK' /\ MapOK'
  BY <1>1, ServiceFrame, MapFrame DEF kube, maps, world
<1>5. ReadyMeansServed'
  BY <1>1 DEF kube, ReadyMeansServed, Served
<1> QED
  BY <1>2, <1>3, <1>4, <1>5

\* A pass on a live copy with its finalizer has that finalizer, and the service
\* that it names is that of the Tailserve.
LEMMA PassHeld ==
    ASSUME IInv, pc \in Working
    PROVE  /\ me \in Tailserves /\ tailserve[me].finalizer
           /\ "service" \notin excused[me] => MyService = Place(me)
           /\ tailserve[me].observed => my.spec = tailserve[me].spec
<1> USE DEF IInv
<1>1. my.phase = "live" /\ my.finalizer /\ pc # "idle" /\ me \in Tailserves
  BY DEF StepOK, Working, TypeOK
<1>2. /\ tailserve[me].finalizer
      /\ tailserve[me].phase # "future"
      /\ tailserve[me].observed => my.spec = tailserve[me].spec
      /\ "service" \notin excused[me] => Name[me][my.spec] = Name[me][tailserve[me].spec]
  BY <1>1 DEF PassOK, Older, Existing
<1>3. "service" \notin excused[me] => read.network = Home(me).network
  BY <1>1, <1>2 DEF PlaceOK, Agrees
<1> QED
  BY <1>1, <1>2, <1>3 DEF MyService, Place

LEMMA PutServiceStep == IInv /\ TypeOK' /\ PutService => IInv'
<1> SUFFICES ASSUME IInv, TypeOK', PutService PROVE IInv'
  OBVIOUS
<1> USE DEF IInv
<1>1. /\ pc = "putService" /\ pc' \in {"configMap", "writeStatus"}
      /\ UNCHANGED <<kube, maps, world, excused, tampered, found, skipped, me, my,
                     stale, read>>
      /\ \/ StoreService(read.tags, found)
         \/ service' = service /\ pc' = "writeStatus"
      /\ pc' = "writeStatus" => verdict' = "ServiceCreationFailed"
  BY DEF PutService, Go
<1>2. SaneOK' /\ CacheOK' /\ PassOK' /\ PlaceOK' /\ UNCHANGED <<MyService, MyMap>>
  BY <1>1, MiddleFrame
<1>3. StepOK' /\ DeletedOK' /\ DroppedOK' /\ FoundOK'
  BY <1>1 DEF StepOK, DeletedOK, DroppedOK, FoundOK, Working, Deletion
<1>4. MapOK'
  BY <1>1, MapFrame DEF kube, maps, world
<1>5. CASE service' = service /\ pc' = "writeStatus"
  <2>1. ServiceOK'
    BY <1>1, <1>5, ServiceFrame DEF kube, world
  <2>2. ServedOK'
    BY <1>1, <1>5 DEF ServedOK, Succeeding
  <2>3. ReadyMeansServed'
    BY <1>1, <1>5 DEF kube, ReadyMeansServed, Served
  <2> QED
    BY <1>2, <1>3, <1>4, <2>1, <2>2, <2>3
<1>6. CASE StoreService(read.tags, found)
  <2>1. PICK a \in Addresses :
            service' = [service EXCEPT ![MyService] =
                           [by |-> me, spec |-> my.spec, tags |-> read.tags, addr |-> a]]
    BY <1>6 DEF StoreService
  <2>2. /\ service'[MyService].by = me /\ service'[MyService].spec = my.spec
        /\ service'[MyService] # None
        /\ \A s \in Services \ {MyService} : service'[s] = service[s]
    <3>1. [by |-> me, spec |-> my.spec, tags |-> read.tags, addr |-> a] \in Service
      BY MyTypes DEF TypeOK, Service
    <3> QED
      BY <2>1, <3>1, MyTypes, NoContentAssumption DEF TypeOK
  <2>3. /\ me \in Tailserves /\ tailserve[me].finalizer
        /\ "service" \notin excused[me] => MyService = Place(me)
        /\ tailserve[me].observed => my.spec = tailserve[me].spec
    BY <1>1, PassHeld DEF Working
  <2>4. ServiceOK'
    <3> SUFFICES ASSUME NEW s \in Services, NEW t \in Tailserves,
                        service'[s] # None, service'[s].by = t
                 PROVE  /\ Kept(t, "service")
                        /\ "service" \notin excused[t] => s = Place(t)
      BY <1>1 DEF ServiceOK, TypeOK, Service, Kept, Place, Home, kube, world
    <3>1. CASE s = MyService
      BY <2>2, <2>3, <3>1 DEF Kept
    <3>2. CASE s # MyService
      BY <2>2, <3>2 DEF ServiceOK
    <3> QED
      BY <3>1, <3>2
  <2>5. ServedOK'
    BY <1>1, <1>2, <2>2 DEF ServedOK
  <2>6. ReadyMeansServed'
    <3> SUFFICES ASSUME UniqueNames, ~tampered, NEW t \in Tailserves,
                        tailserve[t].phase = "live", tailserve[t].observed,
                        tailserve[t].ready = "ReconcileSuccess"
                 PROVE  Served(t)'
      BY <1>1 DEF ReadyMeansServed, UniqueNames, kube
    <3>1. my.spec \in Specs /\ tailserve[t].spec \in Specs
      BY DEF TypeOK, Version
    <3>2. CASE t = me
      <4>1. my.spec = tailserve[me].spec
        BY <2>3, <3>2
      <4>2. read.network \in Networks
            /\ MyService = <<read.network, Name[me][tailserve[me].spec]>>
        BY <4>1, MyTypes DEF MyService
      <4> QED
        BY <1>1, <2>2, <3>2, <4>1, <4>2 DEF Served, kube
    <3>3. CASE t # me
      <4>1. PICK w \in Networks :
                LET s == service[<<w, Name[t][tailserve[t].spec]>>]
                IN  s # None /\ s.by = t /\ s.spec = tailserve[t].spec
        BY DEF ReadyMeansServed, Served
      <4>2. <<w, Name[t][tailserve[t].spec]>> \in Services \ {MyService}
        BY <2>3, <3>1, <3>3, NamesAssumption DEF Services, MyService, UniqueNames
      <4> QED
        BY <1>1, <2>2, <4>1, <4>2 DEF Served, kube
    <3> QED
      BY <3>2, <3>3
  <2> QED
    BY <1>2, <1>3, <1>4, <2>4, <2>5, <2>6
<1> QED
  BY <1>1, <1>5, <1>6

LEMMA WriteMapStep == IInv /\ TypeOK' /\ WriteMap => IInv'
<1> SUFFICES ASSUME IInv, TypeOK', WriteMap PROVE IInv'
  OBVIOUS
<1> USE DEF IInv
<1>1. /\ pc = "configMap" /\ pc' = "writeStatus"
      /\ UNCHANGED <<kube, world, service, excused, tampered, found, skipped, me, my,
                     stale, read>>
      /\ StoreMap \/ UNCHANGED configMap
  BY DEF WriteMap, Go
<1>2. SaneOK' /\ CacheOK' /\ PassOK' /\ PlaceOK' /\ UNCHANGED <<MyService, MyMap>>
  BY <1>1, MiddleFrame
<1>3. StepOK' /\ DeletedOK' /\ DroppedOK' /\ FoundOK'
  BY <1>1 DEF StepOK, DeletedOK, DroppedOK, FoundOK, Working, Deletion
<1>4. ServedOK'
  BY <1>1, <1>2 DEF ServedOK, Succeeding
<1>5. ServiceOK'
  BY <1>1, ServiceFrame DEF kube, world
<1>6. MapOK'
  <2> SUFFICES ASSUME NEW t \in Tailserves, NEW n \in Namespaces,
                      configMap'[<<t, n>>] # None
               PROVE  /\ Kept(t, "map")
                      /\ "map" \notin excused[t] => n = Home(t).namespace
    BY <1>1 DEF MapOK, Kept, Home, kube, world
  <2>1. CASE configMap[<<t, n>>] # None
    BY <2>1 DEF MapOK
  <2>2. CASE <<t, n>> = MyMap
    <3>1. t = me /\ n = read.namespace /\ pc # "idle" /\ me \in Tailserves
          /\ tailserve[me].finalizer
      BY <1>1, <2>2, PassHeld DEF MyMap, Working
    <3>2. tailserve[me].phase # "future"
      BY <3>1 DEF SaneOK, Sane, Existing
    <3> QED
      BY <3>1, <3>2 DEF Kept, PlaceOK, Agrees
  <2>3. CASE <<t, n>> # MyMap
    <3>1. <<t, n>> \in MapKeys
      BY DEF MapKeys
    <3>2. \A k \in MapKeys \ {MyMap} : configMap'[k] = configMap[k]
      BY <1>1 DEF StoreMap, TypeOK
    <3> QED
      BY <2>1, <2>3, <3>1, <3>2
  <2> QED
    BY <2>2, <2>3
<1>7. ReadyMeansServed'
  BY <1>1 DEF kube, ReadyMeansServed, Served
<1> QED
  BY <1>2, <1>3, <1>4, <1>5, <1>6, <1>7

LEMMA DeleteServiceStep == IInv /\ TypeOK' /\ DeleteService => IInv'
<1> SUFFICES ASSUME IInv, TypeOK', DeleteService PROVE IInv'
  OBVIOUS
<1> USE DEF IInv
<1>1. /\ pc = "deleteService" /\ pc' = IF my.map THEN "deleteMap" ELSE "release"
      /\ UNCHANGED <<kube, maps, world, excused, tampered, found, verdict, me, my,
                     stale, read>>
      /\ \/ service' = [service EXCEPT ![MyService] = None] /\ UNCHANGED skipped
         \/ /\ skipped' = skipped \cup {"service"}
            /\ service' \in {service, [service EXCEPT ![MyService] = None]}
  BY DEF DeleteService, Go
<1>2. SaneOK' /\ CacheOK' /\ PassOK' /\ PlaceOK' /\ UNCHANGED <<MyService, MyMap>>
  BY <1>1, MiddleFrame
<1>3. StepOK' /\ DroppedOK' /\ FoundOK' /\ ServedOK'
  BY <1>1, <1>2 DEF StepOK, DroppedOK, FoundOK, ServedOK, Succeeding, Working, Deletion
<1>4. MapOK'
  BY <1>1, MapFrame DEF kube, maps, world
<1>5. me \in Tailserves /\ MyService \in Services /\ my.phase = "deleting"
  BY <1>1, MyTypes DEF StepOK, Deletion, TypeOK
<1>6. \A s \in Services : service'[s] = service[s] \/ (service'[s] = None /\ s = MyService)
  BY <1>1 DEF TypeOK
<1>7. ServiceOK'
  BY <1>1, <1>6 DEF ServiceOK, Kept, Place, Home, kube, world
<1>8. DeletedOK'
  <2> SUFFICES ASSUME "service" \notin skipped' \cup excused[me], NEW s \in Services,
                      service'[s] # None, service[s].by = me
               PROVE  FALSE
    BY <1>1, <1>6 DEF DeletedOK, NoServiceBy
  <2>1. service'[MyService] = None
    BY <1>1, <1>5 DEF TypeOK
  <2>2. s = Place(me)
    BY <1>6 DEF ServiceOK
  <2>3. MyService = Place(me)
    <3>1. /\ tailserve[me].phase # "future"
          /\ Name[me][my.spec] = Name[me][tailserve[me].spec]
      BY <1>1, <1>5 DEF PassOK, Older
    <3>2. read.network = Home(me).network
      BY <1>1, <1>5, <3>1 DEF PlaceOK, Agrees
    <3> QED
      BY <3>1, <3>2 DEF MyService, Place
  <2> QED
    BY <2>1, <2>2, <2>3
<1>9. ReadyMeansServed'
  <2> SUFFICES ASSUME UniqueNames, ~tampered, NEW t \in Tailserves,
                      tailserve[t].phase = "live", tailserve[t].observed,
                      tailserve[t].ready = "ReconcileSuccess"
               PROVE  Served(t)'
    BY <1>1 DEF ReadyMeansServed, UniqueNames, kube
  <2>1. my.spec \in Specs /\ tailserve[t].spec \in Specs
    BY DEF TypeOK, Version
  <2>2. t # me
    BY <1>1, <1>5 DEF PassOK, Older
  <2>3. PICK w \in Networks :
            LET s == service[<<w, Name[t][tailserve[t].spec]>>]
            IN  s # None /\ s.by = t /\ s.spec = tailserve[t].spec
    BY DEF ReadyMeansServed, Served
  <2>4. <<w, Name[t][tailserve[t].spec]>> \in Services \ {MyService}
    BY <1>5, <2>1, <2>2, NamesAssumption DEF Services, MyService, UniqueNames
  <2> QED
    BY <1>1, <1>6, <2>3, <2>4 DEF Served, kube
<1> QED
  BY <1>2, <1>3, <1>4, <1>7, <1>8, <1>9

LEMMA DeleteMapStep == IInv /\ TypeOK' /\ DeleteMap => IInv'
<1> SUFFICES ASSUME IInv, TypeOK', DeleteMap PROVE IInv'
  OBVIOUS
<1> USE DEF IInv
<1>1. /\ pc = "deleteMap" /\ (DropMap \/ UNCHANGED configMap)
      /\ UNCHANGED <<kube, cachedMap, world, service, excused, tampered>>
  BY DEF DeleteMap
<1>2. /\ \A k \in MapKeys : configMap'[k] # None => configMap[k] # None
      /\ DropMap => configMap'[MyMap] = None
  BY <1>1, MyTypes DEF DropMap, TypeOK
<1>3. CASE DropMap /\ Go("release") /\ UNCHANGED <<found, verdict, skipped>>
  <2>1. pc' = "release" /\ UNCHANGED <<me, my, stale, read, queued>>
    BY <1>3 DEF Go
  <2>2. SaneOK' /\ CacheOK' /\ PassOK' /\ PlaceOK' /\ UNCHANGED <<MyService, MyMap>>
    BY <1>1, <2>1, MiddleFrame
  <2>3. StepOK' /\ DeletedOK' /\ FoundOK' /\ ServedOK'
    BY <1>1, <1>3, <2>1
    DEF StepOK, DeletedOK, NoServiceBy, FoundOK, ServedOK, Succeeding, Working, Deletion
  <2>4. DroppedOK'
    BY <1>2, <1>3, <2>2, <2>1 DEF DroppedOK, MyMap
  <2>5. ServiceOK' /\ MapOK'
    BY <1>1, <1>2, ServiceFrame, MapFrame DEF kube, world
  <2>6. ReadyMeansServed'
    BY <1>1 DEF kube, ReadyMeansServed, Served
  <2> QED
    BY <2>2, <2>3, <2>4, <2>5, <2>6
<1>4. CASE End(TRUE)
  BY <1>1, <1>2, <1>4, NothingStored DEF world
<1> QED
  BY <1>3, <1>4 DEF DeleteMap

LEMMA StartStep ==
    ASSUME IInv, TypeOK', NEW t \in Tailserves, Start(t)
    PROVE  IInv'
<1> USE DEF IInv
<1> DEFINE v == cached[t]
           n == cachedTailnet[Ref[v.spec]]
           step == NextStep(t, v, n)
<1>1. /\ pc = "idle"
      /\ UNCHANGED <<kube, maps, world, service, excused, tampered, disturbances>>
  BY DEF Start
<1>2. ServiceOK' /\ MapOK'
  BY <1>1, ServiceFrame, MapFrame DEF kube, maps, world
<1>3. SaneOK' /\ CacheOK'
  BY <1>1, KubeFrame DEF kube
<1>4. ReadyMeansServed'
  BY <1>1 DEF kube, ReadyMeansServed, Served
<1>5. CASE step = "idle"
  <2>1. UNCHANGED pass
    BY <1>5 DEF Start
  <2>2. pc' = "idle" /\ skipped' = {}
    BY <1>1, <2>1 DEF pass, StepOK, Deletion
  <2>3. PlaceOK'
    BY <1>1, <2>2, PlaceFrame DEF kube, world
  <2> QED
    BY <1>2, <1>3, <1>4, <2>2, <2>3, IdlePass
<1>6. CASE step # "idle"
  <2>1. /\ pc' = step /\ me' = t /\ my' = v /\ stale' = (t \in behind)
        /\ read' = n
        /\ verdict' = IF step = "writeStatus" THEN Obstacle(t, v, n) ELSE "None"
        /\ skipped' = IF v.phase = "deleting" THEN Spared(n) ELSE {}
    BY <1>6, Zenon DEF Start
  <2>2. /\ step \in {"addFinalizer", "getService", "writeStatus"} \cup Deletion
        /\ step = "addFinalizer" => v.phase = "live" /\ ~v.finalizer
        /\ step \in {"getService", "writeStatus"} => v.phase = "live" /\ v.finalizer
        /\ step \in Deletion => /\ v.phase = "deleting" /\ v.finalizer
                                /\ step = DeletionStep(v, n)
    BY <1>6 DEF NextStep, DeletionStep, Deletion, TypeOK, Version
  <2>3. StepOK'
    BY <2>1, <2>2 DEF StepOK, Working, Deletion
  <2>4. PassOK'
    BY <1>1, <2>1 DEF PassOK, CacheOK, SaneOK, Older, Sane, kube
  <2>5. step \in {"deleteMap", "release"} => "service" \in skipped'
    BY <2>1, <2>2 DEF Deletion, DeletionStep, Spared, Parts
  <2>6. step = "release" => ~v.map \/ "map" \in skipped'
    BY <2>1, <2>2 DEF Deletion, DeletionStep, Spared, Parts
  <2>7. DeletedOK' /\ DroppedOK'
    BY <2>1, <2>5, <2>6 DEF DeletedOK, DroppedOK
  <2>8. FoundOK' /\ ServedOK'
    BY <2>1, <2>2 DEF FoundOK, ServedOK, Succeeding, Obstacle, Deletion
  <2>9. PlaceOK'
    <3> SUFFICES ASSUME tailserve[t].phase # "future" PROVE Agrees(t, n)
      BY <1>1, <2>1 DEF PlaceOK, Agrees, Home, kube, world
    <3>1. v.phase # "future" /\ Older(v, t)
      BY <2>2 DEF CacheOK, Deletion
    <3>2. CASE Ref[v.spec] = Ref[tailserve[t].spec]
      BY <3>2 DEF PlaceOK
    <3>3. CASE Parts \subseteq excused[t]
      BY <3>3 DEF Agrees, Parts
    <3> QED
      BY <3>1, <3>2, <3>3 DEF Older
  <2> QED
    BY <1>2, <1>3, <1>4, <2>3, <2>4, <2>7, <2>8, <2>9
<1> QED
  BY <1>5, <1>6

-----------------------------------------------------------------------------
(* Everybody else.                                                         *)

LEMMA DeliverStep ==
    ASSUME IInv, TypeOK', NEW t \in Tailserves, Deliver(t)
    PROVE  IInv'
<1> USE DEF IInv
<1>1. /\ behind' = behind \ {t} /\ cached' = [cached EXCEPT ![t] = tailserve[t]]
      /\ UNCHANGED <<tailserve, pass, maps, world, service, excused, tampered>>
  BY DEF Deliver
<1>2. cached'[t] = tailserve[t] /\ \A u \in Tailserves \ {t} : cached'[u] = cached[u]
  BY <1>1 DEF TypeOK
<1>3. SaneOK'
  BY <1>1, <1>2 DEF SaneOK, Sane
<1>4. CacheOK'
  <2>1. ASSUME NEW u \in Tailserves, u # t
        PROVE  Older(cached[u], u)' /\ (u \notin behind' => cached'[u] = tailserve'[u])
    BY <1>1, <1>2, <2>1 DEF CacheOK, Older
  <2>2. Older(cached[t], t)' /\ cached'[t] = tailserve'[t]
    BY <1>1, <1>2 DEF SaneOK, Sane, Older, Existing
  <2> QED
    BY <2>1, <2>2 DEF CacheOK
<1>5. PassOK'
  BY <1>1 DEF PassOK, Older, Sane, pass
<1>6. StepOK' /\ DeletedOK' /\ DroppedOK' /\ FoundOK' /\ ServedOK'
  BY <1>1, PassStays DEF pass, maps, TypeOK
<1>7. ServiceOK' /\ MapOK' /\ PlaceOK'
  BY <1>1, ServiceFrame, MapFrame, PlaceFrame DEF pass, maps, world
<1>8. ReadyMeansServed'
  BY <1>1 DEF ReadyMeansServed, Served
<1> QED
  BY <1>3, <1>4, <1>5, <1>6, <1>7, <1>8

LEMMA RestartStep == IInv /\ TypeOK' /\ Restart => IInv'
<1> SUFFICES ASSUME IInv, TypeOK', Restart PROVE IInv'
  OBVIOUS
<1> USE DEF IInv
<1>1. /\ pc' = "idle" /\ skipped' = {}
      /\ cached' = tailserve /\ behind' = {} /\ cachedTailnet' = tailnet
      /\ UNCHANGED <<tailserve, configMap, tailnet, service, excused, tampered>>
  BY DEF Restart
<1>2. SaneOK' /\ CacheOK'
  BY <1>1 DEF SaneOK, Sane, CacheOK, Older, Existing
<1>3. ServiceOK' /\ MapOK'
  BY <1>1, ServiceFrame, MapFrame
<1>4. PlaceOK'
  BY <1>1 DEF PlaceOK, Agrees, Home
<1>5. ReadyMeansServed'
  BY <1>1 DEF ReadyMeansServed, Served
<1> QED
  BY <1>1, <1>2, <1>3, <1>4, <1>5, IdlePass

\* What a user makes of a Tailserve that is there or is yet to come.
Edits(t, v) ==
    LET now == tailserve[t] IN
    /\ now.phase # "gone" /\ v.phase # "future" /\ Sane(v)
    /\ now.phase = "deleting" => v.phase = "deleting"
    /\ now.finalizer => v.finalizer
    /\ v.phase = "live" => ~v.observed
    /\ v.observed => now.observed /\ v.spec = now.spec
    /\ now.phase # "future" /\ "service" \notin excused'[t] =>
          Name[t][v.spec] = Name[t][now.spec]
    /\ now.phase # "future" /\ ~(Parts \subseteq excused'[t]) =>
          Ref[v.spec] = Ref[now.spec]
    /\ now.phase = "future" =>
          LET old == cachedTailnet[Ref[v.spec]]
              new == tailnet[Ref[v.spec]] IN
          /\ "service" \notin excused'[t] => old.network = new.network
          /\ "map" \notin excused'[t] => old.namespace = new.namespace

LEMMA UserStep ==
    ASSUME IInv, TypeOK', NEW t \in Tailserves, NEW v \in Version, UserWrite(t, v),
           Edits(t, v), \A u \in Tailserves : excused[u] \subseteq excused'[u]
    PROVE  IInv'
<1> USE DEF IInv
<1>1. /\ tailserve' = [tailserve EXCEPT ![t] = v] /\ behind' = behind \cup {t}
      /\ stale' = (stale \/ (pc # "idle" /\ me = t))
      /\ UNCHANGED <<cached, pc, me, my, read, found, verdict, skipped, maps, world,
                     service, tampered>>
  BY DEF UserWrite
<1>2. tailserve'[t] = v /\ \A u \in Tailserves \ {t} : tailserve'[u] = tailserve[u]
  BY <1>1 DEF TypeOK
<1>3. SaneOK'
  BY <1>1, <1>2 DEF SaneOK, Sane, Edits
<1>4. ASSUME NEW c \in Version, NEW u \in Tailserves, Older(c, u)
      PROVE  u = t => Older(c, u)'
  BY <1>2, <1>4 DEF Older, Edits, SaneOK, Sane, Existing
<1>5. ASSUME NEW c \in Version, NEW u \in Tailserves, Older(c, u)
      PROVE  u # t => Older(c, u)'
  BY <1>2, <1>5 DEF Older
<1>6. CacheOK'
  BY <1>1, <1>2, <1>4, <1>5 DEF CacheOK, TypeOK
<1>7. PassOK'
  BY <1>1, <1>2, <1>4, <1>5 DEF PassOK, TypeOK, Sane
<1>8. StepOK' /\ DeletedOK' /\ DroppedOK' /\ FoundOK' /\ ServedOK'
  BY <1>1, PassStays DEF maps, TypeOK
<1>9. \A u \in Tailserves, part \in Parts : Kept(u, part) => Kept(u, part)'
  BY <1>2 DEF Kept, Edits
<1>10. \A u \in Tailserves : tailserve[u].phase # "future" =>
          /\ "service" \notin excused'[u] => UNCHANGED Place(u)
          /\ ~(Parts \subseteq excused'[u]) => UNCHANGED Home(u)
  <2> SUFFICES ASSUME NEW u \in Tailserves, tailserve[u].phase # "future"
               PROVE  /\ "service" \notin excused'[u] => UNCHANGED Place(u)
                      /\ ~(Parts \subseteq excused'[u]) => UNCHANGED Home(u)
    OBVIOUS
  <2>1. ~(Parts \subseteq excused'[u]) => UNCHANGED Home(u)
    BY <1>1, <1>2 DEF Home, Edits, world
  <2>2. "service" \notin excused'[u] =>
           Name[u][tailserve'[u].spec] = Name[u][tailserve[u].spec]
    BY <1>2 DEF Edits
  <2> QED
    BY <2>1, <2>2 DEF Place, Parts
<1>11. ServiceOK'
  <2> SUFFICES ASSUME NEW s \in Services, NEW u \in Tailserves,
                      service[s] # None, service[s].by = u
               PROVE  /\ Kept(u, "service")'
                      /\ "service" \notin excused'[u] => s = Place(u)'
    BY <1>1 DEF ServiceOK, TypeOK, Service
  <2>1. Kept(u, "service")
    BY DEF ServiceOK
  <2>2. tailserve[u].phase # "future"
    BY <2>1 DEF Kept, SaneOK, Sane, Existing
  <2>3. "service" \notin excused'[u] => s = Place(u)
    BY DEF ServiceOK
  <2> QED
    BY <1>9, <1>10, <2>1, <2>2, <2>3 DEF Parts
<1>12. MapOK'
  <2> SUFFICES ASSUME NEW u \in Tailserves, NEW n \in Namespaces,
                      configMap[<<u, n>>] # None
               PROVE  /\ Kept(u, "map")'
                      /\ "map" \notin excused'[u] => n = Home(u).namespace'
    BY <1>1 DEF MapOK, maps
  <2>1. Kept(u, "map")
    BY DEF MapOK
  <2>2. tailserve[u].phase # "future"
    BY <2>1 DEF Kept, SaneOK, Sane, Existing
  <2>3. "map" \notin excused'[u] => n = Home(u).namespace
    BY DEF MapOK
  <2> QED
    BY <1>9, <1>10, <2>1, <2>2, <2>3 DEF Parts
<1>13. PlaceOK'
  <2> SUFFICES ASSUME NEW u \in Tailserves, tailserve'[u].phase # "future"
               PROVE  /\ Agrees(u, cachedTailnet[Ref[tailserve[u].spec]])'
                      /\ pc # "idle" /\ me = u => Agrees(u, read)'
    BY <1>1 DEF PlaceOK, world
  <2>1. CASE u # t
    BY <1>1, <1>2, <2>1 DEF PlaceOK, Agrees, Home, world
  <2>2. CASE u = t /\ tailserve[t].phase = "future"
    <3>1. ~(pc # "idle" /\ me = t)
      BY <2>2 DEF PassOK, StepOK, Older, Working, Deletion, Steps, TypeOK
    <3> QED
      BY <1>1, <1>2, <2>2, <3>1 DEF Edits, Agrees, Home, world
  <2>3. CASE u = t /\ tailserve[t].phase # "future" /\ Parts \subseteq excused'[t]
    BY <2>3 DEF Agrees, Parts
  <2>4. CASE u = t /\ tailserve[t].phase # "future" /\ ~(Parts \subseteq excused'[t])
    <3>1. Ref[v.spec] = Ref[tailserve[t].spec]
      BY <2>4 DEF Edits
    <3> QED
      BY <1>1, <1>2, <2>4, <3>1 DEF PlaceOK, Agrees, Home, world
  <2> QED
    BY <2>1, <2>2, <2>3, <2>4
<1>14. ReadyMeansServed'
  <2> SUFFICES ASSUME UniqueNames, ~tampered, NEW u \in Tailserves,
                      tailserve'[u].phase = "live", tailserve'[u].observed,
                      tailserve'[u].ready = "ReconcileSuccess"
               PROVE  Served(u)'
    BY <1>1 DEF ReadyMeansServed, UniqueNames
  <2>1. tailserve[u].phase = "live" /\ tailserve[u].observed
        /\ tailserve'[u] = tailserve[u]
    BY <1>2 DEF Edits
  <2>2. Served(u) /\ service' = service
    BY <1>1, <2>1 DEF ReadyMeansServed
  <2> QED
    BY <2>1, <2>2 DEF Served
<1> QED
  BY <1>3, <1>6, <1>7, <1>8, <1>11, <1>12, <1>13, <1>14

LEMMA UserCreateStep ==
    ASSUME IInv, TypeOK', NEW t \in Tailserves, UserCreate(t)
    PROVE  IInv'
<1> USE DEF IInv
<1>1. PICK s \in Specs :
          /\ UserWrite(t, [NewTailserve EXCEPT !.phase = "live", !.spec = s])
          /\ excused' = [excused EXCEPT
                ![t] = @ \cup Moved(cachedTailnet[Ref[s]], tailnet[Ref[s]])]
  BY DEF UserCreate
<1> DEFINE v == [NewTailserve EXCEPT !.phase = "live", !.spec = s]
<1>2. v \in Version /\ v.phase = "live" /\ ~v.finalizer /\ ~v.observed /\ v.spec = s
  BY DEF NewTailserve, Version, Verdicts
<1>3. /\ \A u \in Tailserves : excused[u] \subseteq excused'[u]
      /\ Moved(cachedTailnet[Ref[s]], tailnet[Ref[s]]) \subseteq excused'[t]
  BY <1>1 DEF TypeOK
<1>4. Edits(t, v)
  BY <1>2, <1>3 DEF UserCreate, Edits, Sane, Existing, SaneOK, Moved
<1> QED
  BY <1>1, <1>2, <1>3, <1>4, UserStep

LEMMA UserEditStep ==
    ASSUME IInv, TypeOK', NEW t \in Tailserves, UserEdit(t)
    PROVE  IInv'
<1> USE DEF IInv
<1>1. PICK s \in Specs :
          /\ UserWrite(t, [tailserve[t] EXCEPT !.spec = s, !.observed = FALSE])
          /\ LET old == tailserve[t].spec IN
             excused' = [excused EXCEPT
                ![t] = @ \cup IF Ref[s] # Ref[old] THEN Parts
                              ELSE IF Name[t][s] # Name[t][old] THEN {"service"}
                              ELSE {}]
  BY DEF UserEdit
<1> DEFINE v == [tailserve[t] EXCEPT !.spec = s, !.observed = FALSE]
<1>2. /\ v \in Version /\ v.spec = s /\ ~v.observed
      /\ v.phase = tailserve[t].phase /\ v.finalizer = tailserve[t].finalizer
  BY DEF TypeOK, Version
<1>3. /\ \A u \in Tailserves : excused[u] \subseteq excused'[u]
      /\ ~(Parts \subseteq excused'[t]) => Ref[s] = Ref[tailserve[t].spec]
      /\ "service" \notin excused'[t] => Name[t][s] = Name[t][tailserve[t].spec]
  BY <1>1 DEF TypeOK, Parts
<1>4. Edits(t, v)
  BY <1>2, <1>3 DEF UserEdit, Edits, SaneOK, Sane
<1> QED
  BY <1>1, <1>2, <1>3, <1>4, UserStep

LEMMA UserDeleteStep ==
    ASSUME IInv, TypeOK', NEW t \in Tailserves, UserDelete(t)
    PROVE  IInv'
<1> USE DEF IInv
<1> DEFINE v == [tailserve[t] EXCEPT !.phase = IF tailserve[t].finalizer
                                              THEN "deleting" ELSE "gone"]
<1>1. /\ v \in Version /\ v.spec = tailserve[t].spec
      /\ v.phase = IF tailserve[t].finalizer THEN "deleting" ELSE "gone"
      /\ v.observed = tailserve[t].observed /\ v.finalizer = tailserve[t].finalizer
  BY DEF TypeOK, Version
<1>2. Edits(t, v)
  BY <1>1 DEF UserDelete, Edits, Sane, Existing
<1>3. UserWrite(t, v) /\ UNCHANGED excused
  BY DEF UserDelete
<1> QED
  BY <1>1, <1>2, <1>3, UserStep

LEMMA EditTailnetStep ==
    ASSUME IInv, TypeOK', NEW n \in Tailnets, EditTailnet(n)
    PROVE  IInv'
<1> USE DEF IInv
<1>1. PICK new \in Tailnet :
          /\ tailnet' = [tailnet EXCEPT ![n] = new]
          /\ excused' = [t \in Tailserves |->
                excused[t] \cup
                   IF tailserve[t].phase # "future" /\ Ref[tailserve[t].spec] = n
                   THEN Moved(tailnet[n], new) ELSE {}]
  BY DEF EditTailnet
<1>2. UNCHANGED <<kube, pass, maps, cachedTailnet, service, tampered>>
  BY DEF EditTailnet
<1>3. \A t \in Tailserves : excused[t] \subseteq excused'[t]
  BY <1>1
<1>4. ASSUME NEW t \in Tailserves, tailserve[t].phase # "future"
      PROVE  /\ "service" \notin excused'[t] => Place(t)' = Place(t)
             /\ "service" \notin excused'[t] => Home(t).network' = Home(t).network
             /\ "map" \notin excused'[t] => Home(t).namespace' = Home(t).namespace
  <2>1. Ref[tailserve[t].spec] \in Tailnets
    BY RefAssumption DEF TypeOK, Version
  <2>2. CASE Ref[tailserve[t].spec] = n
    <3>1. Moved(tailnet[n], new) \subseteq excused'[t]
      BY <1>1, <1>4, <2>2
    <3>2. Home(t) = tailnet[n] /\ Home(t)' = new
      BY <1>1, <1>2, <2>2 DEF Home, kube, TypeOK
    <3> QED
      BY <1>2, <3>1, <3>2 DEF Moved, Place, kube
  <2>3. CASE Ref[tailserve[t].spec] # n
    <3>1. Home(t)' = Home(t)
      BY <1>1, <1>2, <2>1, <2>3 DEF Home, kube, TypeOK
    <3> QED
      BY <1>2, <3>1 DEF Place, kube
  <2> QED
    BY <2>2, <2>3
<1>5. SaneOK' /\ CacheOK'
  BY <1>2, <1>3 DEF SaneOK, Sane, CacheOK, Older, kube
<1>6. PassOK'
  BY <1>2, <1>3 DEF PassOK, Older, Sane, kube, pass, TypeOK
<1>7. StepOK' /\ DeletedOK' /\ DroppedOK' /\ FoundOK' /\ ServedOK'
  BY <1>2, <1>3, PassStays DEF pass, maps, TypeOK
<1>8. ServiceOK'
  <2> SUFFICES ASSUME NEW s \in Services, NEW t \in Tailserves,
                      service[s] # None, service[s].by = t
               PROVE  /\ Kept(t, "service")'
                      /\ "service" \notin excused'[t] => s = Place(t)'
    BY <1>2 DEF ServiceOK, TypeOK, Service
  <2>1. Kept(t, "service") /\ ("service" \notin excused[t] => s = Place(t))
    BY DEF ServiceOK
  <2>2. tailserve[t].phase # "future"
    BY <2>1 DEF Kept, SaneOK, Sane, Existing
  <2> QED
    BY <1>2, <1>3, <1>4, <2>1, <2>2 DEF Kept, kube
<1>9. MapOK'
  <2> SUFFICES ASSUME NEW t \in Tailserves, NEW m \in Namespaces,
                      configMap[<<t, m>>] # None
               PROVE  /\ Kept(t, "map")'
                      /\ "map" \notin excused'[t] => m = Home(t).namespace'
    BY <1>2 DEF MapOK, maps
  <2>1. Kept(t, "map") /\ ("map" \notin excused[t] => m = Home(t).namespace)
    BY DEF MapOK
  <2>2. tailserve[t].phase # "future"
    BY <2>1 DEF Kept, SaneOK, Sane, Existing
  <2> QED
    BY <1>2, <1>3, <1>4, <2>1, <2>2 DEF Kept, kube
<1>10. PlaceOK'
  BY <1>2, <1>3, <1>4 DEF PlaceOK, Agrees, kube, pass
<1>11. ReadyMeansServed'
  BY <1>2 DEF ReadyMeansServed, Served, kube
<1> QED
  BY <1>5, <1>6, <1>7, <1>8, <1>9, <1>10, <1>11

LEMMA TamperStep == IInv /\ TypeOK' /\ Tamper => IInv'
<1> SUFFICES ASSUME IInv, TypeOK', Tamper PROVE IInv'
  OBVIOUS
<1> USE DEF IInv
<1>1. /\ UNCHANGED <<kube, pass, tailnet, cachedTailnet, excused>>
      /\ tampered' \/ UNCHANGED <<service, tampered>>
      /\ tampered => tampered'
  BY DEF Tamper
<1>2. /\ \A s \in Services : service'[s] \in {service[s], None}
      /\ \A k \in MapKeys : configMap'[k] # None => configMap[k] # None
  BY DEF Tamper, TypeOK
<1>3. SaneOK' /\ CacheOK' /\ PassOK' /\ PlaceOK'
  BY <1>1, KubeFrame, PassFrame, PlaceFrame DEF kube, pass
<1>4. StepOK' /\ DeletedOK' /\ DroppedOK' /\ FoundOK' /\ ServedOK'
  BY <1>1, <1>2, PassStays DEF pass, TypeOK
<1>5. ServiceOK'
  BY <1>1, <1>2 DEF ServiceOK, Kept, Place, Home, kube
<1>6. MapOK'
  BY <1>1, <1>2, MapFrame DEF kube
<1>7. ReadyMeansServed'
  BY <1>1 DEF ReadyMeansServed, Served, kube
<1> QED
  BY <1>3, <1>4, <1>5, <1>6, <1>7

\* The steps that move caches and requests only.
LEMMA QuietStep ==
    ASSUME IInv, TypeOK',
           UNCHANGED <<kube, pass, configMap, tailnet, service, excused, tampered>>,
           \A n \in Tailnets : cachedTailnet'[n] \in {cachedTailnet[n], tailnet[n]}
    PROVE  IInv'
<1> USE DEF IInv
<1>1. SaneOK' /\ CacheOK' /\ PassOK' /\ ServiceOK' /\ MapOK'
  BY KubeFrame, PassFrame, ServiceFrame, MapFrame DEF kube, pass
<1>2. StepOK' /\ DeletedOK' /\ DroppedOK' /\ FoundOK' /\ ServedOK'
  BY PassStays DEF pass, TypeOK
<1>3. PlaceOK'
  <2>1. \A t \in Tailserves : Ref[tailserve[t].spec] \in Tailnets
    BY RefAssumption DEF TypeOK, Version
  <2> QED
    BY <2>1 DEF PlaceOK, Agrees, Home, kube, pass
<1>4. ReadyMeansServed'
  BY DEF ReadyMeansServed, Served, kube
<1> QED
  BY <1>1, <1>2, <1>3, <1>4

LEMMA NextInvariant == IInv /\ [Next]_vars => IInv'
<1> SUFFICES ASSUME IInv, [Next]_vars PROVE IInv'
  OBVIOUS
<1>1. TypeOK'
  BY NextTypes DEF IInv
<1>2. CASE Pass
  BY <1>1, <1>2, AddFinalizerStep, GetServiceStep, PutServiceStep, WriteMapStep,
     WriteStatusStep, DeleteServiceStep, DeleteMapStep, ReleaseStep DEF Pass
<1>3. ASSUME NEW t \in Tailserves,
             \/ Start(t) \/ Deliver(t) \/ UserCreate(t) \/ UserEdit(t) \/ UserDelete(t)
      PROVE  IInv'
  BY <1>1, <1>3, StartStep, DeliverStep, UserCreateStep, UserEditStep, UserDeleteStep
<1>4. CASE \/ \E k \in MapKeys : SyncMap(k)
           \/ \E t \in Tailserves : Resync(t)
  BY <1>1, <1>4, QuietStep DEF SyncMap, Resync, maps, world
<1>5. ASSUME NEW n \in Tailnets, SyncTailnet(n) PROVE IInv'
  <2>1. \A m \in Tailnets : cachedTailnet'[m] \in {cachedTailnet[m], tailnet[m]}
    BY <1>5 DEF SyncTailnet, IInv, TypeOK
  <2> QED
    BY <1>1, <1>5, <2>1, QuietStep DEF SyncTailnet, maps
<1>6. CASE Restart \/ Tamper
  BY <1>1, <1>6, RestartStep, TamperStep
<1>7. ASSUME NEW n \in Tailnets, EditTailnet(n) PROVE IInv'
  BY <1>1, <1>7, EditTailnetStep
<1>8. CASE UNCHANGED vars
  BY <1>1, <1>8, QuietStep DEF vars, maps, world
<1> QED
  BY <1>2, <1>3, <1>4, <1>5, <1>6, <1>7, <1>8 DEF Next

\* The inductive invariant holds in every state.
THEOREM Invariant == Spec => []IInv
<1> QED
  BY InitInvariant, NextInvariant, PTL DEF Spec

-----------------------------------------------------------------------------
(* The theorems.                                                           *)

\* A service does not outlive the Tailserve it was made for but with an excuse.
THEOREM ServicesGo == Spec => []NoOrphanService
<1>1. IInv => NoOrphanService
  <2> SUFFICES ASSUME IInv, NEW t \in Tailserves, tailserve[t].phase = "gone",
                      "service" \notin excused[t], NEW s \in Services,
                      service[s] # None, service[s].by = t
               PROVE  FALSE
    BY DEF NoOrphanService
  <2> QED
    BY DEF IInv, ServiceOK, Kept, SaneOK, Sane, Existing
<1> QED
  BY <1>1, Invariant, PTL

\* A ConfigMap does not outlive its Tailserve but with an excuse.
THEOREM MapsGo == Spec => []NoOrphanMap
<1>1. IInv => NoOrphanMap
  BY DEF IInv, NoOrphanMap, MapOK, Kept, SaneOK, Sane, Existing
<1> QED
  BY <1>1, Invariant, PTL

\* Ready at the present generation means that the service is there as the spec
\* has it, where names are unique and nobody tampers.
THEOREM ReadyIsServed == Spec => []ReadyMeansServed
<1>1. IInv => ReadyMeansServed
  BY DEF IInv
<1> QED
  BY <1>1, Invariant, PTL

-----------------------------------------------------------------------------
(* The finalizer protocol.                                                 *)

ServiceHeld(t) == "service" \notin Forsaken(t) /\
                     \E s \in Services : service[s] # None /\ service[s].by = t

MapHeld(t) == "map" \notin Forsaken(t) /\
                 \E n \in Namespaces : configMap[<<t, n>>] # None

Guarded == \A t \in Tailserves : ServiceHeld(t) \/ MapHeld(t) => Owner(t) = "held"

\* What is not excused is there under the finalizer only.
LEMMA HeldMeansOwned == IInv => Guarded
<1> SUFFICES ASSUME IInv, NEW t \in Tailserves, ServiceHeld(t) \/ MapHeld(t)
             PROVE  Owner(t) = "held"
  BY DEF Guarded
<1>1. tailserve[t].finalizer
  BY DEF IInv, ServiceOK, MapOK, ServiceHeld, MapHeld, Forsaken, Kept
<1> QED
  BY <1>1 DEF IInv, SaneOK, Sane, Existing, Owner

\* Before the finalizer is there, there is nothing to hold.
LEMMA NothingBeforeFinalizer ==
    ASSUME IInv, NEW t \in Tailserves, Owner(t) = "unheld"
    PROVE  /\ ~\E s \in Services : service[s] # None /\ service[s].by = t
           /\ ~\E n \in Namespaces : configMap[<<t, n>>] # None
BY DEF IInv, ServiceOK, MapOK, Kept, Owner

\* The pass that is about to take the finalizer holds nothing any more.
LEMMA NothingAtRelease ==
    ASSUME IInv, pc = "release"
    PROVE  ~ServiceHeld(me) /\ ~MapHeld(me)
<1> USE DEF IInv
<1>1. ~ServiceHeld(me)
  BY DEF ServiceHeld, Forsaken, DeletedOK, NoServiceBy
<1>2. ~MapHeld(me)
  BY NothingKept DEF MapHeld, Forsaken
<1> QED
  BY <1>1, <1>2

\* The write of a pass that is stored changes its own Tailserve only.
LEMMA StoredOwner ==
    ASSUME IInv, NEW v \in Version, NEW OnSuccess, Update(v, OnSuccess),
           pc # "idle", NEW t \in Tailserves, Owner(t)' # Owner(t)
    PROVE  /\ t = me /\ my = tailserve[me] /\ tailserve'[me] = v
           /\ UNCHANGED <<service, configMap>>
<1>1. ~stale /\ Put(v) /\ UNCHANGED <<service, configMap>>
  BY DEF Update, Owner, maps
<1>2. tailserve' = [tailserve EXCEPT ![me] = v]
  BY <1>1 DEF Put, Owner
<1> QED
  BY <1>1, <1>2 DEF IInv, PassOK, TypeOK, Owner

\* Every way in which the state of the finalizer changes.
LEMMA OwnerSteps ==
    ASSUME IInv, [Next]_vars, NEW t \in Tailserves, Owner(t)' # Owner(t)
    PROVE  \/ Owner(t) = "absent" /\ Owner(t)' = "unheld"
           \/ Owner(t) = "unheld" /\ Owner(t)' = "absent"
           \/ /\ Owner(t) = "unheld" /\ Owner(t)' = "held"
              /\ UNCHANGED <<service, configMap>>
           \/ Owner(t) = "held" /\ Owner(t)' = "absent" /\ pc = "release" /\ t = me
<1> USE DEF IInv
<1>1. CASE AddFinalizer
  <2> DEFINE v == [my EXCEPT !.finalizer = TRUE]
  <2>1. v \in Version /\ v.phase = my.phase /\ v.finalizer
    BY DEF TypeOK, Version
  <2>2. /\ my = tailserve[me] /\ tailserve'[me] = v /\ t = me
        /\ UNCHANGED <<service, configMap>>
    BY <1>1, <2>1, StoredOwner DEF AddFinalizer
  <2> QED
    BY <1>1, <2>1, <2>2 DEF AddFinalizer, StepOK, Owner
<1>2. CASE WriteStatus
  <2>1. PICK second \in BOOLEAN :
            Update([my EXCEPT !.ready = verdict, !.observed = TRUE,
                              !.map = @ \/ verdict = "ReconcileSuccess",
                              !.lastUpdated = IF verdict = "ReconcileSuccess"
                                              THEN second ELSE @],
                   UNCHANGED excused)
    BY <1>2 DEF WriteStatus
  <2> DEFINE v == [my EXCEPT !.ready = verdict, !.observed = TRUE,
                             !.map = @ \/ verdict = "ReconcileSuccess",
                             !.lastUpdated = IF verdict = "ReconcileSuccess"
                                             THEN second ELSE @]
  <2>2. v \in Version /\ v.phase = my.phase /\ v.finalizer = my.finalizer
    BY DEF TypeOK, Version
  <2>3. my = tailserve[me] /\ tailserve'[me] = v /\ t = me
    BY <1>2, <2>1, <2>2, StoredOwner DEF WriteStatus
  <2> QED
    BY <2>2, <2>3 DEF Owner
<1>3. CASE Release
  <2> DEFINE v == [my EXCEPT !.phase = "gone", !.finalizer = FALSE]
  <2>1. v \in Version /\ v.phase = "gone"
    BY DEF TypeOK, Version
  <2>2. \E S : Update(v, S)
    BY <1>3 DEF Release
  <2>3. my = tailserve[me] /\ tailserve'[me] = v /\ t = me
    BY <1>3, <2>1, <2>2, StoredOwner DEF Release
  <2> QED
    BY <1>3, <2>1, <2>3 DEF Release, StepOK, Deletion, Owner
<1>4. ASSUME NEW u \in Tailserves, UserCreate(u)
      PROVE  Owner(t) = "absent" /\ Owner(t)' = "unheld"
  BY <1>4 DEF UserCreate, UserWrite, NewTailserve, Owner, TypeOK
<1>5. ASSUME NEW u \in Tailserves, UserEdit(u) PROVE FALSE
  <2>1. PICK s \in Specs :
            tailserve' = [tailserve EXCEPT
                ![u] = [tailserve[u] EXCEPT !.spec = s, !.observed = FALSE]]
    BY <1>5 DEF UserEdit, UserWrite
  <2> QED
    BY <2>1 DEF Owner, TypeOK, Version
<1>6. ASSUME NEW u \in Tailserves, UserDelete(u)
      PROVE  Owner(t) = "unheld" /\ Owner(t)' = "absent"
  BY <1>6 DEF UserDelete, UserWrite, Owner, TypeOK, Version
<1>7. CASE tailserve' = tailserve
  BY <1>7 DEF Owner
<1>8. ASSUME ~AddFinalizer, ~WriteStatus, ~Release,
             ~\E u \in Tailserves : UserCreate(u) \/ UserEdit(u) \/ UserDelete(u)
      PROVE  tailserve' = tailserve
  BY <1>8 DEF Next, Pass, GetService, PutService, WriteMap, DeleteService, DeleteMap,
     SyncTailnet, Restart, EditTailnet, Tamper, SyncMap, Start, Deliver, Resync,
     vars, kube
<1> QED
  BY <1>1, <1>2, <1>3, <1>4, <1>5, <1>6, <1>7, <1>8

\* Every step is one of the protocol for the service of t, and for its ConfigMap.
LEMMA ProtocolStep ==
    ASSUME IInv, IInv', [Next]_vars, NEW t \in Tailserves
    PROVE  /\ [ServiceOf(t)!Next]_(ServiceOf(t)!vars)
           /\ [MapOf(t)!Next]_(MapOf(t)!vars)
<1>1. Guarded /\ Guarded'
  BY HeldMeansOwned, PTL
<1>2. /\ ServiceHeld(t) \/ MapHeld(t) => Owner(t) = "held"
      /\ ServiceHeld(t)' \/ MapHeld(t)' => Owner(t)' = "held"
  BY <1>1 DEF Guarded
<1>3. CASE Owner(t)' = Owner(t)
  BY <1>2, <1>3
  DEF ServiceOf!Next, ServiceOf!vars, ServiceOf!Acquire, ServiceOf!Lose,
      MapOf!Next, MapOf!vars, MapOf!Acquire, MapOf!Lose, ServiceHeld, MapHeld
<1>4. CASE Owner(t) = "absent" /\ Owner(t)' = "unheld"
  BY <1>2, <1>4
  DEF ServiceOf!Next, ServiceOf!Create, MapOf!Next, MapOf!Create, ServiceHeld, MapHeld
<1>5. CASE Owner(t) = "unheld" /\ Owner(t)' = "absent"
  BY <1>2, <1>5
  DEF ServiceOf!Next, ServiceOf!Vanish, MapOf!Next, MapOf!Vanish, ServiceHeld, MapHeld
<1>6. CASE /\ Owner(t) = "unheld" /\ Owner(t)' = "held"
           /\ UNCHANGED <<service, configMap>>
  <2>1. ~ServiceHeld(t)' /\ ~MapHeld(t)'
    BY <1>6, NothingBeforeFinalizer DEF ServiceHeld, MapHeld
  <2> QED
    BY <1>2, <1>6, <2>1
    DEF ServiceOf!Next, ServiceOf!Hold, MapOf!Next, MapOf!Hold, ServiceHeld, MapHeld
<1>7. CASE /\ Owner(t) = "held" /\ Owner(t)' = "absent"
           /\ pc = "release" /\ t = me
  <2>1. ~ServiceHeld(t) /\ ~MapHeld(t)
    BY <1>7, NothingAtRelease
  <2> QED
    BY <1>2, <1>7, <2>1
    DEF ServiceOf!Next, ServiceOf!Release, MapOf!Next, MapOf!Release, ServiceHeld, MapHeld
<1> QED
  BY <1>3, <1>4, <1>5, <1>6, <1>7, OwnerSteps

\* The service and the ConfigMap of each Tailserve follow the finalizer
\* protocol, but for what cannot be cleaned up: neither is there before the
\* finalizer, and neither after it.
THEOREM FollowsFinalizer == Spec => ImplementsFinalizer
<1>1. Init => \A t \in Tailserves : ServiceOf(t)!Init /\ MapOf(t)!Init
  <2> SUFFICES ASSUME Init, NEW t \in Tailserves
               PROVE  ServiceOf(t)!Init /\ MapOf(t)!Init
    OBVIOUS
  <2>1. Owner(t) = "absent"
    BY DEF Init, NewTailserve, Owner
  <2>2. /\ ~\E s \in Services : service[s] # None /\ service[s].by = t
        /\ ~\E n \in Namespaces : configMap[<<t, n>>] # None
    BY DEF Init, MapKeys
  <2> QED
    BY <2>1, <2>2 DEF ServiceOf!Init, MapOf!Init
<1>2. IInv /\ IInv' /\ [Next]_vars =>
         [\A t \in Tailserves : /\ [ServiceOf(t)!Next]_(ServiceOf(t)!vars)
                                /\ [MapOf(t)!Next]_(MapOf(t)!vars)]_vars
  BY ProtocolStep
<1> QED
  BY <1>1, <1>2, Invariant, PTL DEF Spec, ImplementsFinalizer

\* Only the pass that stores a service gives it an address, and it sends the
\* one that GET found: the address stays, unless that could not be read.
THEOREM AddressStays == Spec => AddressesStay
<1> DEFINE Stays == \A s \in Services :
                       service[s] # None /\ service'[s] # None
                           => service'[s].addr = service[s].addr \/ found = Failed
<1>1. IInv /\ [Next]_vars => [Stays]_vars
  <2> SUFFICES ASSUME IInv, Next, NEW s \in Services,
                      service[s] # None, service'[s] # None, found # Failed
               PROVE  service'[s].addr = service[s].addr
    OBVIOUS
  <2> USE DEF IInv
  <2>1. CASE PutService /\ StoreService(read.tags, found)
    <3>1. PICK a \in IF found \in Addresses THEN {found} ELSE Addresses :
              service' = [service EXCEPT ![MyService] =
                             [by |-> me, spec |-> my.spec, tags |-> read.tags,
                              addr |-> a]]
      BY <2>1 DEF StoreService
    <3>2. CASE s = MyService
      <4>1. found = service[s].addr /\ service[s].addr \in Addresses
        BY <2>1, <3>2 DEF PutService, FoundOK, TypeOK, Service
      <4> QED
        BY <3>1, <3>2, <4>1, MyTypes DEF TypeOK
    <3>3. CASE s # MyService
      BY <3>1, <3>3 DEF TypeOK
    <3> QED
      BY <3>2, <3>3
  <2>2. CASE ~(PutService /\ StoreService(read.tags, found))
    <3>1. \A u \in Services : service'[u] \in {service[u], None}
      BY <2>2 DEF Next, Pass, AddFinalizer, WriteStatus, Release, Update, GetService,
         PutService, WriteMap, DeleteService, DeleteMap, SyncTailnet, Restart,
         EditTailnet, Tamper, SyncMap, Start, Deliver, Resync, UserCreate, UserEdit,
         UserDelete, UserWrite, TypeOK
    <3> QED
      BY <3>1
  <2> QED
    BY <2>1, <2>2
<1> QED
  BY <1>1, Invariant, PTL DEF Spec, AddressesStay
=============================================================================
