------------------------------ MODULE Tailserve ------------------------------
(***************************************************************************)
(* The TailserveReconciler and its ServiceClient: Tailserves, the service  *)
(* that Tailscale keeps for each and the ConfigMap with its serve config.  *)
(*                                                                         *)
(* One worker runs one pass of Reconcile at a time over a cached copy of   *)
(* one Tailserve, and every pass writes that Tailserve at most once, as    *)
(* its last call.  Resource versions are therefore not counted: behind     *)
(* says whose cached copy has been overtaken, stale whether the copy of    *)
(* the pass has.                                                           *)
(*                                                                         *)
(* A spec stands for a service name, the Tailnet it refers to, ports and   *)
(* handlers.  A service lives in the network (the tailnet at Tailscale)    *)
(* that the Tailnet names, a ConfigMap in the namespace of its OAuth       *)
(* Secret; the serve config follows from spec and network.  A delay before *)
(* a requeue is not modelled: the request is queued at once.               *)
(***************************************************************************)
EXTENDS Integers, FiniteSets

CONSTANTS Tailserves, Specs,
          Names, Name,          \* Name[t][s]: the service t names with spec s
          Tailnets, Ref,        \* Ref[s]: the Tailnet that spec s refers to
          Networks,             \* what Tailnets may stand for at Tailscale
          LongNames,            \* names the CRD admits and Reconcile does not
          Addresses,            \* the addresses a service can have
          Tags,                 \* the tag lists a Tailnet may ask for
          Namespaces,           \* where the OAuth Secret may be
          Beginnings,           \* the Tailnets the model may begin with
          None,                 \* no service, no ConfigMap, no address
          Failed,               \* the address when GET fails
          MaxDisturbances       \* bound: faults, crashes, edits, interference

ASSUME NamesAssumption == Name \in [Tailserves -> [Specs -> Names]]
ASSUME RefAssumption == Ref \in [Specs -> Tailnets]
ASSUME InhabitedAssumption ==
    {} \notin {Tailserves, Specs, Addresses, Tags, Namespaces, Networks}
ASSUME NoneAssumption == {None, Failed} \cap Addresses = {}
ASSUME BoundAssumption == MaxDisturbances \in Nat

VARIABLES
    tailserve, cached,          \* the Tailserves in the API server, in the cache
    behind,                     \* those whose cached copy is not the latest
    queued,                     \* those with a request queued
    pc, me, my,                 \* the pass: next call, its Tailserve, its copy
    stale,                      \* is that copy overtaken?
    read,                       \* the Tailnet as the pass read it
    found, verdict,             \* the address GET found; the condition to write
    skipped,                    \* what this pass did not get to delete
    service,                    \* the services as Tailscale knows them
    configMap, cachedMap,       \* the ConfigMaps and the cache's copies
    tailnet, cachedTailnet,
    accepted,                   \* the Tailnets with a client that may act
    excused,                    \* history: what each may leave behind
    tampered,                   \* history: did somebody touch our resources?
    disturbances                \* how often something went wrong or interfered

pass  == <<pc, me, my, stale, read, found, verdict, skipped>>
kube  == <<tailserve, cached, behind>>
maps  == <<configMap, cachedMap>>
world == <<tailnet, cachedTailnet, accepted>>
vars  == <<kube, pass, maps, world, queued, service, excused, tampered, disturbances>>

-----------------------------------------------------------------------------
Failures == {"TailnetNotFound", "OAuthCredentialsRetrievalFailed",
             "MagicDNSUnavailable", "InvalidServiceName",
             "ServiceCreationFailed", "ConfigMapUpdateFailed"}

Verdicts == Failures \cup {"None", "ReconcileSuccess"}

Version == [phase : {"future", "live", "deleting", "gone"},
            finalizer : BOOLEAN,
            spec : Specs,
            ready : Verdicts,       \* the reason of the Ready condition
            observed : BOOLEAN,     \* observedGeneration is the generation
            map : BOOLEAN,          \* status.configMapName is set
            lastUpdated : BOOLEAN]  \* a second, as far as it tells two apart

AnySpec == CHOOSE s \in Specs : TRUE
AnyNamespace == CHOOSE n \in Namespaces : TRUE
AnyNetwork == CHOOSE w \in Networks : TRUE

NewTailserve == [phase |-> "future", finalizer |-> FALSE, spec |-> AnySpec,
                 ready |-> "None", observed |-> FALSE, map |-> FALSE,
                 lastUpdated |-> FALSE]

Service == [by : Tailserves, spec : Specs, tags : Tags, addr : Addresses]

\* Where a service can be: the name is one of its network.
Services == Networks \X Names

Config == [spec : Specs, network : Networks]

ASSUME NoContentAssumption == None \notin Service /\ None \notin Config

Tailnet == [state : {"absent", "noCredentials", "noSuffix", "sound"},
            network : Networks, namespace : Namespaces, tags : Tags]

NewTailnet == [state |-> "sound", network |-> AnyNetwork, namespace |-> AnyNamespace,
               tags |-> CHOOSE t \in Tags : TRUE]

ASSUME BeginningsAssumption == Beginnings \subseteq [Tailnets -> Tailnet]

Steps == {"idle", "addFinalizer", "getService", "putService", "configMap",
          "writeStatus", "deleteService", "deleteMap", "release"}

Parts == {"service", "map"}

MapKeys == Tailserves \X Namespaces

TypeOK ==
    /\ tailserve \in [Tailserves -> Version] /\ cached \in [Tailserves -> Version]
    /\ behind \subseteq Tailserves /\ queued \subseteq Tailserves
    /\ pc \in Steps /\ me \in Tailserves /\ my \in Version /\ stale \in BOOLEAN
    /\ read \in Tailnet /\ found \in Addresses \cup {None, Failed}
    /\ verdict \in Verdicts /\ skipped \subseteq Parts
    /\ service \in [Services -> Service \cup {None}]
    /\ configMap \in [MapKeys -> Config \cup {None}]
    /\ cachedMap \in [MapKeys -> Config \cup {None}]
    /\ tailnet \in [Tailnets -> Tailnet] /\ cachedTailnet \in [Tailnets -> Tailnet]
    /\ accepted \subseteq Tailnets
    /\ excused \in [Tailserves -> SUBSET Parts] /\ tampered \in BOOLEAN
    /\ disturbances \in 0 .. MaxDisturbances

Init ==
    /\ tailserve = [t \in Tailserves |-> NewTailserve] /\ cached = tailserve
    /\ behind = {} /\ queued = {}
    /\ pc = "idle" /\ me = (CHOOSE t \in Tailserves : TRUE) /\ my = NewTailserve
    /\ stale = FALSE /\ read = NewTailnet /\ found = None /\ verdict = "None"
    /\ skipped = {}
    /\ service = [s \in Services |-> None]
    /\ configMap = [k \in MapKeys |-> None] /\ cachedMap = configMap
    /\ tailnet \in Beginnings /\ cachedTailnet = tailnet /\ accepted = Tailnets
    /\ excused = [t \in Tailserves |-> {}] /\ tampered = FALSE
    /\ disturbances = 0

-----------------------------------------------------------------------------
(* A pass of Reconcile.                                                    *)

Disturb == disturbances < MaxDisturbances /\ disturbances' = disturbances + 1

Calm == UNCHANGED disturbances

\* The pass ends; when it returns an error its Tailserve is queued again.
End(again) ==
    /\ pc' = "idle" /\ me' = (CHOOSE t \in Tailserves : TRUE) /\ my' = NewTailserve
    /\ stale' = FALSE /\ read' = NewTailnet /\ found' = None /\ verdict' = "None"
    /\ skipped' = {}
    /\ queued' = IF again THEN queued \cup {me} ELSE queued

\* What is wrong with the Tailnet, or the name, before Tailscale is asked.
Obstacle(t, v, n) ==
    CASE n.state = "absent" -> "TailnetNotFound"
      [] n.state = "noCredentials" -> "OAuthCredentialsRetrievalFailed"
      [] n.state = "noSuffix" -> "MagicDNSUnavailable"
      [] OTHER -> IF Name[t][v.spec] \in LongNames THEN "InvalidServiceName"
                  ELSE "None"

\* Mutant of DeletionStep: all cleanup depends on the ConfigMap in status.
DeletionStepNamed(v, n) ==
    CASE n.state = "absent" \/ ~v.map -> "release"
      [] n.state = "noCredentials" /\ v.map -> "deleteMap"
      [] OTHER -> "deleteService"

\* handleDeletion: without a Tailnet nothing is deleted, and without its
\* credentials only the ConfigMap.
DeletionStep(v, n) ==
    CASE n.state = "absent" -> "release"
      [] n.state = "noCredentials" -> IF v.map THEN "deleteMap" ELSE "release"
      [] OTHER -> "deleteService"

Spared(n) == CASE n.state = "absent" -> Parts
               [] n.state = "noCredentials" -> {"service"}
               [] OTHER -> {}

\* Mutant of NextStep: the finalizer waits until there is a Tailnet to serve in.
NextStepLateFinalizer(t, v, n) ==
    CASE v.phase \in {"future", "gone"} -> "idle"
      [] v.phase = "deleting" ->
            IF v.finalizer THEN DeletionStep(v, n) ELSE "idle"
      [] v.phase = "live" /\ Obstacle(t, v, n) = "None" -> "getService"
      [] v.phase = "live" /\ Obstacle(t, v, n) # "None" ->
            IF v.finalizer THEN "writeStatus" ELSE "addFinalizer"

NextStep(t, v, n) ==
    CASE v.phase \in {"future", "gone"} -> "idle"
      [] v.phase = "deleting" ->
            IF v.finalizer THEN DeletionStep(v, n) ELSE "idle"
      [] v.phase = "live" /\ ~v.finalizer -> "addFinalizer"
      [] v.phase = "live" /\ v.finalizer ->
            IF Obstacle(t, v, n) = "None" THEN "getService" ELSE "writeStatus"

Start(t) ==
    LET v == cached[t]
        n == cachedTailnet[Ref[v.spec]]
        step == NextStep(t, v, n) IN
    /\ pc = "idle" /\ t \in queued /\ queued' = queued \ {t}
    /\ IF step = "idle" THEN UNCHANGED pass
       ELSE /\ pc' = step /\ me' = t /\ my' = v /\ stale' = (t \in behind)
            /\ read' = n
            /\ verdict' = IF step = "writeStatus" THEN Obstacle(t, v, n) ELSE "None"
            /\ skipped' = IF v.phase = "deleting" THEN Spared(n) ELSE {}
            /\ UNCHANGED found
    /\ UNCHANGED <<kube, maps, world, service, excused, tampered, disturbances>>

Put(v) ==
    IF v = tailserve[me] THEN UNCHANGED <<tailserve, behind>>
    ELSE /\ tailserve' = [tailserve EXCEPT ![me] = v]
         /\ behind' = behind \cup {me}

\* r.Update or r.Status().Update, the last call of a pass: stored, refused
\* because of its resource version, or failed on the way.
Update(v, OnSuccess) ==
    /\ UNCHANGED <<cached, maps, world, service, tampered>>
    /\ \/ ~stale /\ Put(v) /\ OnSuccess /\ End(FALSE) /\ Calm
       \/ stale /\ UNCHANGED <<tailserve, behind, excused>> /\ End(TRUE) /\ Calm
       \/ Disturb /\ UNCHANGED <<tailserve, behind, excused>> /\ End(TRUE)
       \/ Disturb /\ ~stale /\ Put(v) /\ OnSuccess /\ End(TRUE)

AddFinalizer ==
    /\ pc = "addFinalizer"
    /\ Update([my EXCEPT !.finalizer = TRUE], UNCHANGED excused)

MyService == <<read.network, Name[me][my.spec]>>

Accepted == Ref[my.spec] \in accepted

Go(step) == pc' = step /\ UNCHANGED <<me, my, stale, read, queued>>

\* GetService; its errors are ignored.
GetService ==
    /\ pc = "getService" /\ Go("putService")
    /\ \/ /\ Accepted /\ Calm
          /\ found' = IF service[MyService] = None THEN None
                      ELSE service[MyService].addr
       \/ ~Accepted /\ found' = Failed /\ Calm
       \/ Disturb /\ found' = Failed
    /\ UNCHANGED <<kube, maps, world, service, excused, tampered, verdict, skipped>>

\* Mutant of StoreService: the addresses of the GET are not sent.
StoreServiceAnew(tags, addr) ==
    \E a \in Addresses :
       service' = [service EXCEPT ![MyService] =
                      [by |-> me, spec |-> my.spec, tags |-> tags, addr |-> a]]

\* Tailscale stores the service, under the addresses it is asked for, or of
\* its own choice.
StoreService(tags, addr) ==
    \E a \in IF addr \in Addresses THEN {addr} ELSE Addresses :
       service' = [service EXCEPT ![MyService] =
                      [by |-> me, spec |-> my.spec, tags |-> tags, addr |-> a]]

\* Mutant of PutService: a service that was found is left as it is.
PutServiceOnce ==
    /\ pc = "putService"
    /\ \/ /\ Accepted /\ Calm
          /\ IF found \in Addresses THEN UNCHANGED service
             ELSE StoreService(read.tags, found)
          /\ Go("configMap") /\ UNCHANGED verdict
       \/ /\ (~Accepted /\ Calm) \/ Disturb
          /\ Go("writeStatus") /\ verdict' = "ServiceCreationFailed"
          /\ UNCHANGED service
    /\ UNCHANGED <<kube, maps, world, excused, tampered, found, skipped>>

\* Mutant of PutService: its errors are only logged, like those of GetService.
PutServiceLogged ==
    /\ pc = "putService" /\ Go("configMap")
    /\ \/ Accepted /\ Calm /\ StoreService(read.tags, found)
       \/ UNCHANGED service /\ ((~Accepted /\ Calm) \/ Disturb)
    /\ UNCHANGED <<kube, maps, world, excused, tampered, found, verdict, skipped>>

PutService ==
    /\ pc = "putService"
    /\ \/ /\ Accepted /\ Calm /\ StoreService(read.tags, found)
          /\ Go("configMap") /\ UNCHANGED verdict
       \/ /\ \/ ~Accepted /\ UNCHANGED service /\ Calm
             \/ Disturb /\ UNCHANGED service
             \/ Disturb /\ Accepted /\ StoreService(read.tags, found)
          /\ Go("writeStatus") /\ verdict' = "ServiceCreationFailed"
    /\ UNCHANGED <<kube, maps, world, excused, tampered, found, skipped>>

MyMap == <<me, read.namespace>>

\* CreateOrUpdate works on the cached ConfigMap: an update of an old version,
\* or the creation of one that is there, is refused.
MyConfig == [spec |-> my.spec, network |-> read.network]

UpToDate == cachedMap[MyMap] = MyConfig

Writable == ~UpToDate /\ cachedMap[MyMap] = configMap[MyMap]

StoreMap == configMap' = [configMap EXCEPT ![MyMap] = MyConfig]

WriteMap ==
    /\ pc = "configMap" /\ Go("writeStatus")
    /\ \/ /\ UpToDate /\ UNCHANGED configMap /\ Calm
          /\ verdict' = "ReconcileSuccess"
       \/ /\ Writable /\ StoreMap /\ Calm
          /\ verdict' = "ReconcileSuccess"
       \/ /\ verdict' = "ConfigMapUpdateFailed"
          /\ \/ ~UpToDate /\ ~Writable /\ UNCHANGED configMap /\ Calm
             \/ Disturb /\ UNCHANGED configMap
             \/ Disturb /\ Writable /\ StoreMap
    /\ UNCHANGED <<kube, cachedMap, world, service, excused, tampered, found, skipped>>

\* Success also records the ConfigMap and the time, of which status keeps the
\* seconds.
WriteStatus ==
    /\ pc = "writeStatus"
    /\ \E second \in BOOLEAN :
          Update([my EXCEPT !.ready = verdict, !.observed = TRUE,
                            !.map = @ \/ verdict = "ReconcileSuccess",
                            !.lastUpdated = IF verdict = "ReconcileSuccess"
                                            THEN second ELSE @],
                 UNCHANGED excused)

\* Mutant of DeleteService: its errors end the pass.
DeleteServiceChecked ==
    /\ pc = "deleteService"
    /\ \/ /\ Accepted /\ service' = [service EXCEPT ![MyService] = None] /\ Calm
          /\ Go(IF my.map THEN "deleteMap" ELSE "release")
          /\ UNCHANGED <<found, verdict, skipped>>
       \/ ~Accepted /\ UNCHANGED service /\ Calm /\ End(TRUE)
       \/ Disturb /\ UNCHANGED service /\ End(TRUE)
    /\ UNCHANGED <<kube, maps, world, excused, tampered>>

\* DeleteService; its errors are only logged, and an answer "not found" is none.
DeleteService ==
    /\ pc = "deleteService" /\ Go(IF my.map THEN "deleteMap" ELSE "release")
    /\ \/ /\ Accepted /\ service' = [service EXCEPT ![MyService] = None]
          /\ UNCHANGED skipped /\ Calm
       \/ /\ skipped' = skipped \cup {"service"}
          /\ \/ ~Accepted /\ UNCHANGED service /\ Calm
             \/ Disturb /\ UNCHANGED service
             \/ Disturb /\ Accepted /\ service' = [service EXCEPT ![MyService] = None]
    /\ UNCHANGED <<kube, maps, world, excused, tampered, found, verdict>>

DropMap == configMap' = [configMap EXCEPT ![MyMap] = None]

\* Mutant of DeleteMap: errors are only logged.
DeleteMapLogged ==
    /\ pc = "deleteMap" /\ Go("release")
    /\ \/ DropMap /\ Calm
       \/ Disturb /\ (DropMap \/ UNCHANGED configMap)
    /\ UNCHANGED <<kube, cachedMap, world, service, excused, tampered, found, verdict,
                   skipped>>

DeleteMap ==
    /\ pc = "deleteMap"
    /\ \/ DropMap /\ Calm /\ Go("release") /\ UNCHANGED <<found, verdict, skipped>>
       \/ Disturb /\ (DropMap \/ UNCHANGED configMap) /\ End(TRUE)
    /\ UNCHANGED <<kube, cachedMap, world, service, excused, tampered>>

\* The finalizer goes, and with it the Tailserve.  What the pass skipped may
\* stay behind, and so may a ConfigMap that its status does not name.
Release ==
    /\ pc = "release"
    /\ Update([my EXCEPT !.phase = "gone", !.finalizer = FALSE],
              excused' = [excused EXCEPT ![me] = @ \cup skipped
                             \cup (IF my.map THEN {} ELSE {"map"})])

Pass == \/ AddFinalizer \/ GetService \/ PutService \/ WriteMap \/ WriteStatus
        \/ DeleteService \/ DeleteMap \/ Release

-----------------------------------------------------------------------------
(* Everybody else.                                                         *)

\* Every event of a Tailserve queues it, those of its own status included.
Deliver(t) ==
    /\ t \in behind /\ behind' = behind \ {t}
    /\ cached' = [cached EXCEPT ![t] = tailserve[t]]
    /\ queued' = queued \cup {t}
    /\ UNCHANGED <<tailserve, pass, maps, world, service, excused, tampered, disturbances>>

\* ConfigMaps carry no owner, so their events queue nothing; nor do Tailnets.
SyncMap(k) ==
    /\ cachedMap[k] # configMap[k]
    /\ cachedMap' = [cachedMap EXCEPT ![k] = configMap[k]]
    /\ UNCHANGED <<kube, pass, configMap, world, queued, service, excused, tampered,
                   disturbances>>

SyncTailnet(n) ==
    /\ cachedTailnet[n] # tailnet[n]
    /\ cachedTailnet' = [cachedTailnet EXCEPT ![n] = tailnet[n]]
    /\ UNCHANGED <<kube, pass, maps, tailnet, accepted, queued, service, excused,
                   tampered, disturbances>>

\* The informer's resync, ten hours apart, queues what is in the cache.
Resync(t) ==
    /\ cached[t].phase \in {"live", "deleting"} /\ t \notin queued
    /\ queued' = queued \cup {t}
    /\ UNCHANGED <<kube, pass, maps, world, service, excused, tampered, disturbances>>

Restart ==
    /\ Disturb
    /\ pc' = "idle" /\ me' = (CHOOSE t \in Tailserves : TRUE) /\ my' = NewTailserve
    /\ stale' = FALSE /\ read' = NewTailnet /\ found' = None /\ verdict' = "None"
    /\ skipped' = {}
    /\ cached' = tailserve /\ behind' = {} /\ cachedMap' = configMap
    /\ cachedTailnet' = tailnet
    /\ queued' = {t \in Tailserves : tailserve[t].phase \in {"live", "deleting"}}
    /\ UNCHANGED <<tailserve, configMap, tailnet, accepted, service, excused, tampered>>

\* A user's write overtakes the cached copy and that of the pass.
UserWrite(t, v) ==
    /\ tailserve' = [tailserve EXCEPT ![t] = v] /\ behind' = behind \cup {t}
    /\ stale' = (stale \/ (pc # "idle" /\ me = t))
    /\ UNCHANGED <<cached, pc, me, my, read, found, verdict, skipped, maps,
                   world, queued, service, tampered>>

\* What has another place when a Tailnet goes from m to n.
Moved(m, n) == (IF m.network = n.network THEN {} ELSE {"service"})
                  \cup (IF m.namespace = n.namespace THEN {} ELSE {"map"})

\* The first passes may still see its Tailnet as it was before.
UserCreate(t) ==
    /\ tailserve[t].phase = "future" /\ Calm
    /\ \E s \in Specs :
          /\ UserWrite(t, [NewTailserve EXCEPT !.phase = "live", !.spec = s])
          /\ excused' = [excused EXCEPT
                ![t] = @ \cup Moved(cachedTailnet[Ref[s]], tailnet[Ref[s]])]

\* A Tailserve that is renamed leaves its old service behind, and one that
\* refers to another Tailnet its ConfigMap too.
UserEdit(t) ==
    /\ tailserve[t].phase \in {"live", "deleting"} /\ Disturb
    /\ \E s \in Specs \ {tailserve[t].spec} :
          /\ UserWrite(t, [tailserve[t] EXCEPT !.spec = s, !.observed = FALSE])
          /\ LET old == tailserve[t].spec IN
             excused' = [excused EXCEPT
                ![t] = @ \cup IF Ref[s] # Ref[old] THEN Parts
                              ELSE IF Name[t][s] # Name[t][old] THEN {"service"}
                              ELSE {}]

UserDelete(t) ==
    /\ tailserve[t].phase = "live" /\ Calm
    /\ UserWrite(t, [tailserve[t] EXCEPT
                        !.phase = IF tailserve[t].finalizer THEN "deleting" ELSE "gone"])
    /\ UNCHANGED excused

\* A Tailnet or the Secret it names changes.  When it names another network, or
\* its Secret is moved, services or ConfigMaps are left behind.
EditTailnet(n) ==
    /\ Disturb
    /\ \E new \in Tailnet \ {tailnet[n]} :
          /\ tailnet' = [tailnet EXCEPT ![n] = new]
          /\ excused' = [t \in Tailserves |->
                excused[t] \cup
                   IF tailserve[t].phase # "future" /\ Ref[tailserve[t].spec] = n
                   THEN Moved(tailnet[n], new) ELSE {}]
    /\ UNCHANGED <<kube, pass, maps, cachedTailnet, accepted, queued, service, tampered>>

\* Somebody deletes a ConfigMap or a service, or the credentials lose or
\* regain their worth.
Tamper ==
    /\ Disturb
    /\ \/ /\ \E k \in MapKeys : configMap[k] # None /\ configMap' = [configMap EXCEPT ![k] = None]
          /\ tampered' = TRUE /\ UNCHANGED <<service, accepted>>
       \/ /\ \E s \in Services : service[s] # None /\ service' = [service EXCEPT ![s] = None]
          /\ tampered' = TRUE /\ UNCHANGED <<configMap, accepted>>
       \/ /\ \E n \in Tailnets : accepted' = IF n \in accepted THEN accepted \ {n}
                                              ELSE accepted \cup {n}
          /\ UNCHANGED <<configMap, service, tampered>>
    /\ UNCHANGED <<kube, pass, cachedMap, tailnet, cachedTailnet, queued, excused>>

Next ==
    \/ Pass \/ Restart \/ Tamper
    \/ \E n \in Tailnets : SyncTailnet(n) \/ EditTailnet(n)
    \/ \E k \in MapKeys : SyncMap(k)
    \/ \E t \in Tailserves :
          \/ Start(t) \/ Deliver(t) \/ Resync(t)
          \/ UserCreate(t) \/ UserEdit(t) \/ UserDelete(t)

Spec == Init /\ [][Next]_vars

\* The worker and the queue serve every Tailserve; the watches deliver, and
\* the informer resyncs.
Fairness ==
    /\ WF_vars(Pass) /\ \A n \in Tailnets : WF_vars(SyncTailnet(n))
    /\ \A k \in MapKeys : WF_vars(SyncMap(k))
    /\ \A t \in Tailserves : /\ SF_vars(Start(t)) /\ WF_vars(Deliver(t))
                             /\ WF_vars(Resync(t))

FairSpec == Spec /\ Fairness

-----------------------------------------------------------------------------
(* Safety.                                                                 *)

UniqueNames ==
    \A t, u \in Tailserves : \A a, b \in Specs : Name[t][a] = Name[u][b] => t = u

\* A service does not outlive the Tailserve it was made for, unless that was
\* renamed or moved to another network, or Tailscale could not be asked to delete
\* the service.
NoOrphanService ==
    \A t \in Tailserves : tailserve[t].phase = "gone" /\ "service" \notin excused[t]
        => \A s \in Services : service[s] = None \/ service[s].by # t

\* A ConfigMap does not outlive its Tailserve, unless the Tailnet is gone, moved
\* or another, or the status that names the ConfigMap was never written.
NoOrphanMap ==
    \A t \in Tailserves : tailserve[t].phase = "gone" /\ "map" \notin excused[t]
        => \A n \in Namespaces : configMap[<<t, n>>] = None

\* A Tailserve that is Ready at its present generation has its service, made
\* from its present spec in the network that the Tailnet named then, if no other
\* Tailserve claims the name.
Served(t) ==
    \E w \in Networks :
       LET s == service[<<w, Name[t][tailserve[t].spec]>>]
       IN  s # None /\ s.by = t /\ s.spec = tailserve[t].spec

ReadyMeansServed ==
    UniqueNames /\ ~tampered => \A t \in Tailserves :
        LET v == tailserve[t] IN
        v.phase = "live" /\ v.ready = "ReconcileSuccess" /\ v.observed => Served(t)

\* A service that is updated keeps its addresses, unless the pass could not
\* read them, whoever else names the service.
AddressesStay ==
    [][\A s \in Services :
          service[s] # None /\ service'[s] # None
              => service'[s].addr = service[s].addr \/ found = Failed]_vars

Owner(t) ==
    IF tailserve[t].phase \in {"future", "gone"} THEN "absent"
    ELSE IF tailserve[t].finalizer THEN "held" ELSE "unheld"

\* What t may leave behind if the pass that is under way lets it go.
Forsaken(t) ==
    excused[t] \cup
        IF pc = "idle" \/ me # t THEN {}
        ELSE skipped \cup (IF pc = "release" /\ ~my.map THEN {"map"} ELSE {})

\* But for what cannot be cleaned up, the service and the ConfigMap of a
\* Tailserve are resources held by its finalizer: neither is made before the
\* finalizer is there, however old the copy of the pass, nor after it went.
ServiceOf(t) == INSTANCE FinalizerProtocol
    WITH owner <- Owner(t),
         resource <- "service" \notin Forsaken(t) /\
                        \E s \in Services : service[s] # None /\ service[s].by = t

MapOf(t) == INSTANCE FinalizerProtocol
    WITH owner <- Owner(t),
         resource <- "map" \notin Forsaken(t) /\
                        \E n \in Namespaces : configMap[<<t, n>>] # None

ImplementsFinalizer ==
    /\ \A t \in Tailserves : ServiceOf(t)!Init /\ MapOf(t)!Init
    /\ [][\A t \in Tailserves : /\ [ServiceOf(t)!Next]_(ServiceOf(t)!vars)
                                /\ [MapOf(t)!Next]_(MapOf(t)!vars)]_vars

-----------------------------------------------------------------------------
(* Liveness.                                                               *)

\* A deleted Tailserve goes, whatever Tailscale answers.
DeletionCompletes ==
    \A t \in Tailserves : tailserve[t].phase = "deleting" ~> tailserve[t].phase = "gone"

\* With a sound Tailnet a live Tailserve ends up Ready, and its service and
\* ConfigMap are what its spec and the Tailnet ask for, where they ask for it.
Settled(t) ==
    LET v == tailserve[t]
        n == tailnet[Ref[v.spec]]
        s == service[<<n.network, Name[t][v.spec]>>] IN
    v.phase = "live" /\ Name[t][v.spec] \notin LongNames =>
        /\ v.ready = "ReconcileSuccess" /\ v.observed
        /\ s # None /\ s.spec = v.spec /\ s.tags = n.tags
        /\ configMap[<<t, n.namespace>>] = [spec |-> v.spec, network |-> n.network]

Converges ==
    \A t \in Tailserves :
       <>[](LET n == Ref[tailserve[t].spec]
            IN  tailnet[n].state = "sound" /\ n \in accepted)
          => <>[]Settled(t)
=============================================================================
