-------------------------- MODULE InjectedPodsProofs --------------------------
(***************************************************************************)
(* Theorems about InjectedPods, for any set of pods and any number of      *)
(* disturbances.                                                           *)
(*                                                                         *)
(* The argument: the API server stores a copy only while it is fresh, and  *)
(* a fresh copy has the count that is stored (CopyOK).  So a decrement     *)
(* works on the latest count, whatever the cache shows; and every version  *)
(* it makes brings an event, which brings a recount.                       *)
(***************************************************************************)
EXTENDS InjectedPods, FiniteSetTheorems, SequenceTheorems, TLAPS

-----------------------------------------------------------------------------
(* The versions of the Tailnet.                                            *)

VersionsOK == versions \in Seq(Counts) /\ Len(versions) > 0

LEMMA CountsAreNat == Cardinality(Pods) \in Nat /\ Counts \subseteq Nat /\ 0 \in Counts
BY PodsAssumption, FS_CardinalityType DEF Counts

LEMMA CountedInCounts == Cardinality(Counted) \in Counts
<1>1. Counted \in SUBSET Pods
  BY DEF Counted
<1>2. /\ IsFiniteSet(Counted)
      /\ Cardinality(Counted) <= Cardinality(Pods)
  BY <1>1, PodsAssumption, FS_Subset
<1>3. Cardinality(Counted) \in Nat
  BY <1>2, FS_CardinalityType
<1> QED
  BY <1>2, <1>3, CountsAreNat DEF Counts

LEMMA EndsAreCounts ==
    ASSUME VersionsOK
    PROVE  Cached \in Counts /\ Stored \in Counts
<1>1. Len(versions) \in Nat /\ versions # <<>>
  BY DEF VersionsOK
<1>2. Cached \in Counts
  BY <1>1, HeadTailProperties DEF VersionsOK, Cached
<1>3. Len(versions) \in 1 .. Len(versions)
  BY <1>1 DEF VersionsOK
<1>4. Stored \in Counts
  BY <1>3, ElementOfSeq DEF VersionsOK, Stored
<1> QED
  BY <1>2, <1>4

LEMMA Appended ==
    ASSUME VersionsOK, NEW n \in Counts, versions' = Append(versions, n)
    PROVE  VersionsOK' /\ Len(versions') > 1 /\ Stored' = n /\ versions' # versions
<1> USE DEF VersionsOK
<1>1. /\ Append(versions, n) \in Seq(Counts)
      /\ Len(Append(versions, n)) = Len(versions) + 1
      /\ Append(versions, n)[Len(versions) + 1] = n
  OBVIOUS
<1>2. Len(versions) \in Nat
  OBVIOUS
<1> QED
  BY <1>1, <1>2 DEF Stored

LEMMA PutStores ==
    ASSUME VersionsOK, NEW n \in Counts, Put(n)
    PROVE  /\ VersionsOK' /\ Stored' = n
           /\ versions' # versions => ~UpToDate'
<1>1. CASE n = Stored
  BY <1>1 DEF Put, VersionsOK, Stored
<1>2. CASE n # Stored
  <2>1. versions' = Append(versions, n)
    BY <1>2 DEF Put
  <2> QED
    BY <2>1, Appended DEF UpToDate
<1> QED
  BY <1>1, <1>2

LEMMA Delivered ==
    ASSUME VersionsOK, ~UpToDate, versions' = Tail(versions)
    PROVE  VersionsOK' /\ Stored' = Stored
<1> USE DEF VersionsOK
<1>1. versions # <<>> /\ Len(versions) \in Nat /\ Len(versions) > 1
  <2>1. Len(versions) \in Nat
    BY LenProperties
  <2>2. Len(versions) > 1
    <3>1. \A n \in Nat : n > 0 /\ n # 1 => n > 1
      OBVIOUS
    <3> QED
      BY <2>1, <3>1, Zenon DEF UpToDate
  <2>3. versions # <<>>
    BY EmptySeq
  <2> QED
    BY <2>1, <2>2, <2>3
<1>2. /\ Tail(versions) \in Seq(Counts)
      /\ Len(Tail(versions)) = Len(versions) - 1
      /\ \A i \in 1 .. Len(Tail(versions)) : Tail(versions)[i] = versions[i + 1]
  BY <1>1, HeadTailProperties
<1>3. Len(versions) - 1 \in 1 .. Len(Tail(versions))
  BY <1>1, <1>2
<1>4. Tail(versions)[Len(versions) - 1] = versions[(Len(versions) - 1) + 1]
  BY <1>2, <1>3
<1> QED
  BY <1>1, <1>2, <1>4 DEF Stored

LEMMA Listed ==
    ASSUME VersionsOK, versions' = <<Stored>>
    PROVE  VersionsOK' /\ UpToDate'
<1>1. Stored \in Counts
  BY EndsAreCounts
<1>2. <<Stored>> \in Seq(Counts) /\ Len(<<Stored>>) = 1
  BY <1>1
<1> QED
  BY <1>2 DEF VersionsOK, UpToDate

LEMMA OneLessIsCount == \A n \in Counts : OneLess(n) \in Counts \cap {n, n - 1}
BY CountsAreNat DEF OneLess, Counts

-----------------------------------------------------------------------------
(* The two passes.                                                         *)

LEMMA OutdatedPass ==
    ASSUME pass \in Pass
    PROVE  Outdated(pass) \in Pass /\ Outdated(pass).pc = pass.pc
BY DEF Outdated, Pass

LEMMA OutdatedDeletion ==
    ASSUME deletion \in Deletion
    PROVE  /\ Outdated(deletion) \in Deletion
           /\ Outdated(deletion).pc = deletion.pc
           /\ Outdated(deletion).count = deletion.count
           /\ Outdated(deletion).fresh => deletion.fresh /\ versions' = versions
BY DEF Outdated, Deletion

LEMMA Nothing == NoPass \in Pass /\ NoDeletion \in Deletion
BY CountsAreNat DEF NoPass, NoDeletion, Pass, Deletion

LEMMA AfterType == \A d \in {"soon", "late"} : After(d) => timer' \in {"none", "soon", "late"}
BY DEF After

-----------------------------------------------------------------------------
(* Type correctness, in two halves.                                        *)

\* The API server, the pods and the queues.
ClusterOK ==
    /\ VersionsOK
    /\ queued \in BOOLEAN /\ timer \in {"none", "soon", "late"}
    /\ pods \in [Pods -> PodStates] /\ podCache \in [Pods -> PodStates]
    /\ podQueue \subseteq Pods
    /\ decremented \in BOOLEAN

PassesOK == pass \in Pass /\ deletion \in Deletion

LEMMA Halves == TypeOK <=> ClusterOK /\ PassesOK /\ disturbances \in 0 .. MaxDisturbances
BY DEF TypeOK, ClusterOK, PassesOK, VersionsOK

LEMMA WriteReadyStores ==
    ASSUME TypeOK, WriteReady
    PROVE  \/ UNCHANGED <<versions, deletion, decremented>> /\ pass' = NoPass
                /\ After("soon")
           \/ /\ VersionsOK' /\ (versions' # versions => ~UpToDate')
              /\ Stored' = pass.count /\ pass.fresh
              /\ pass' = NoPass /\ (After("late") \/ After("soon"))
              /\ deletion' = Outdated(deletion) /\ decremented' = FALSE
<1>1. VersionsOK /\ pass.count \in Counts
  BY DEF TypeOK, VersionsOK, Pass
<1>2. Put(pass.count) => /\ VersionsOK' /\ Stored' = pass.count
                         /\ versions' # versions => ~UpToDate'
  BY <1>1, PutStores
<1> QED
  BY <1>2 DEF WriteReady, Fail

LEMMA WriteCountStores ==
    ASSUME TypeOK, WriteCount
    PROVE  /\ VersionsOK' /\ (versions' # versions => ~UpToDate')
           /\ \/ versions' = versions
              \/ deletion.fresh /\ Stored' = OneLess(deletion.count)
<1>1. VersionsOK /\ deletion.count \in Counts
  BY DEF TypeOK, VersionsOK, Deletion
<1>2. OneLess(deletion.count) \in Counts
  BY <1>1, OneLessIsCount
<1>3. Put(OneLess(deletion.count)) => /\ VersionsOK' /\ Stored' = OneLess(deletion.count)
                                      /\ versions' # versions => ~UpToDate'
  BY <1>1, <1>2, PutStores
<1>4. UNCHANGED versions => VersionsOK'
  BY <1>1 DEF VersionsOK
<1> QED
  BY <1>3, <1>4 DEF WriteCount

LEMMA ClusterStep ==
    ASSUME TypeOK, [Next]_vars
    PROVE  ClusterOK'
<1>1. ClusterOK /\ PassesOK
  BY Halves
<1> USE <1>1 DEF ClusterOK
<1>2. CASE Start
  BY <1>2 DEF Start, VersionsOK
<1>3. CASE List
  BY <1>3, AfterType DEF List, Fail, VersionsOK
<1>4. CASE WriteReady
  <2>1. timer' \in {"none", "soon", "late"}
    BY <1>4, WriteReadyStores, AfterType
  <2>2. VersionsOK' /\ decremented' \in BOOLEAN
    BY <1>4, WriteReadyStores DEF VersionsOK
  <2> QED
    BY <1>4, <2>1, <2>2 DEF WriteReady
<1>5. CASE ReadCount
  BY <1>5 DEF ReadCount, tailnet, VersionsOK
<1>6. CASE WriteCount
  <2>1. VersionsOK'
    BY <1>6, WriteCountStores
  <2> QED
    BY <1>6, <2>1 DEF WriteCount
<1>7. CASE Release
  <2>1. deletion.pod \in Pods \cup {NoPod}
    BY DEF PassesOK, Deletion
  <2>2. podQueue' \subseteq Pods
    BY <1>7, <2>1 DEF Release, Deleting
  <2>3. pods' \in [Pods -> PodStates]
    BY <1>7 DEF Release, PodStates
  <2> QED
    BY <1>7, <2>2, <2>3 DEF Release, tailnet, VersionsOK
<1>8. CASE Deliver
  <2>1. VersionsOK'
    BY <1>8, Delivered DEF Deliver
  <2>2. podQueue' \subseteq Pods
    BY <1>8 DEF Deliver, Deleting
  <2> QED
    BY <1>8, <2>1, <2>2 DEF Deliver
<1>9. CASE TimerFires
  BY <1>9 DEF TimerFires, VersionsOK
<1>10. CASE Restart
  <2>1. VersionsOK'
    BY <1>10, Listed DEF Restart
  <2>2. podQueue' \subseteq Pods
    BY <1>10 DEF Restart, Deleting
  <2> QED
    BY <1>10, <2>1, <2>2 DEF Restart
<1>11. CASE Foreign
  <2>1. VersionsOK'
    BY <1>11, EndsAreCounts, Appended DEF Foreign
  <2> QED
    BY <1>11, <2>1 DEF Foreign
<1>12. ASSUME NEW p \in Pods, StartDeletion(p)
       PROVE  ClusterOK'
  BY <1>12 DEF StartDeletion, tailnet, VersionsOK
<1>13. ASSUME NEW p \in Pods, DeliverPod(p)
       PROVE  ClusterOK'
  BY <1>13 DEF DeliverPod, tailnet, Deleting, VersionsOK
<1>14. ASSUME NEW p \in Pods, PodChanges(p)
       PROVE  ClusterOK'
  BY <1>14 DEF PodChanges, tailnet, PodStates, VersionsOK
<1>15. CASE UNCHANGED vars
  BY <1>15 DEF vars, VersionsOK
<1> QED
  BY <1>2, <1>3, <1>4, <1>5, <1>6, <1>7, <1>8, <1>9, <1>10, <1>11, <1>12, <1>13,
     <1>14, <1>15 DEF Next, TailnetPass, DeletionPass

LEMMA PassesStep ==
    ASSUME TypeOK, [Next]_vars
    PROVE  PassesOK'
<1>1. ClusterOK /\ PassesOK /\ VersionsOK
  BY Halves DEF ClusterOK
<1> USE <1>1, Nothing DEF PassesOK
<1>2. CASE Start
  BY <1>2, CountsAreNat DEF Start, NoPass, Pass, UpToDate
<1>3. CASE List
  <2>1. [pass EXCEPT !.pc = "write", !.count = Cardinality(Counted)] \in Pass
    BY CountedInCounts DEF Pass
  <2> QED
    BY <1>3, <2>1 DEF List, Fail
<1>4. CASE WriteReady
  BY <1>4, WriteReadyStores, OutdatedDeletion
<1>5. CASE ReadCount
  <2>1. [deletion EXCEPT !.pc = "write", !.count = Cached, !.fresh = UpToDate]
           \in Deletion
    BY EndsAreCounts DEF Deletion, UpToDate
  <2> QED
    BY <1>5, <2>1 DEF ReadCount
<1>6. CASE WriteCount
  <2>1. [NoDeletion EXCEPT !.pc = "release", !.pod = deletion.pod] \in Deletion
    BY DEF Deletion
  <2> QED
    BY <1>6, <2>1, OutdatedPass DEF WriteCount
<1>7. CASE Release
  BY <1>7 DEF Release
<1>8. CASE Deliver
  BY <1>8 DEF Deliver
<1>9. CASE TimerFires
  BY <1>9 DEF TimerFires
<1>10. CASE Restart
  BY <1>10 DEF Restart
<1>11. CASE Foreign
  BY <1>11, OutdatedPass, OutdatedDeletion DEF Foreign
<1>12. ASSUME NEW p \in Pods, StartDeletion(p)
       PROVE  PassesOK'
  <2>1. [NoDeletion EXCEPT !.pc = "read", !.pod = p] \in Deletion
    BY DEF Deletion
  <2> QED
    BY <1>12, <2>1 DEF StartDeletion
<1>13. ASSUME NEW p \in Pods, DeliverPod(p) \/ PodChanges(p)
       PROVE  PassesOK'
  BY <1>13 DEF DeliverPod, PodChanges
<1>14. CASE UNCHANGED vars
  BY <1>14 DEF vars
<1> QED
  BY <1>2, <1>3, <1>4, <1>5, <1>6, <1>7, <1>8, <1>9, <1>10, <1>11, <1>12, <1>13,
     <1>14 DEF Next, TailnetPass, DeletionPass

LEMMA DisturbancesStep ==
    ASSUME TypeOK, [Next]_vars
    PROVE  disturbances' \in 0 .. MaxDisturbances
<1>1. disturbances \in 0 .. MaxDisturbances
  BY DEF TypeOK
<1>2. Disturb => disturbances' \in 0 .. MaxDisturbances
  BY <1>1, DisturbancesAssumption DEF Disturb
<1>3. Disturb \/ UNCHANGED disturbances
  BY DEF Next, vars, TailnetPass, DeletionPass, Start, List, WriteReady, ReadCount,
         WriteCount, Release, Deliver, TimerFires, Restart, Foreign, StartDeletion,
         DeliverPod, PodChanges, Calm
<1> QED
  BY <1>1, <1>2, <1>3

LEMMA TypeInit == Init => TypeOK
<1> SUFFICES ASSUME Init
             PROVE  TypeOK
  OBVIOUS
<1>1. <<0>> \in Seq(Counts) /\ Len(<<0>>) > 0
  BY CountsAreNat
<1>2. disturbances \in 0 .. MaxDisturbances
  BY DisturbancesAssumption DEF Init
<1> QED
  BY <1>1, <1>2, Nothing DEF Init, TypeOK, PodStates

\* Every variable keeps its type: no count exceeds the number of pods, or falls
\* below zero, in the status or in a copy.
THEOREM TypeCorrect == Spec => []TypeOK
<1>1. TypeOK /\ [Next]_vars => TypeOK'
  <2> SUFFICES ASSUME TypeOK, [Next]_vars
               PROVE  TypeOK'
    OBVIOUS
  <2>1. ClusterOK' /\ PassesOK' /\ disturbances' \in 0 .. MaxDisturbances
    BY ClusterStep, PassesStep, DisturbancesStep
  <2> QED
    BY <2>1 DEF TypeOK, ClusterOK, PassesOK, VersionsOK
<1> QED
  BY TypeInit, <1>1, PTL DEF Spec

-----------------------------------------------------------------------------
(* The decrements.                                                         *)

\* What a deletion is about to write is made from the count that is stored, or
\* the API server will refuse it.
CopyOK == deletion.pc = "write" /\ deletion.fresh => deletion.count = Stored

LEMMA CopyStep ==
    ASSUME TypeOK, CopyOK, [Next]_vars
    PROVE  CopyOK'
<1>1. VersionsOK /\ deletion \in Deletion
  BY Halves DEF ClusterOK, PassesOK
<1> USE DEF CopyOK
<1>2. UNCHANGED <<versions, deletion>> => CopyOK'
  BY DEF Stored
<1>3. deletion'.pc # "write" => CopyOK'
  OBVIOUS
<1>4. CASE Start \/ List \/ TimerFires
  BY <1>4, <1>2 DEF Start, List, TimerFires
<1>5. CASE WriteReady
  <2>1. UNCHANGED <<versions, deletion>> \/ deletion' = Outdated(deletion)
    BY <1>5, WriteReadyStores
  <2>2. ASSUME deletion' = Outdated(deletion)
        PROVE  CopyOK'
    BY <1>1, <2>2, OutdatedDeletion DEF Stored
  <2> QED
    BY <2>1, <2>2, <1>2
<1>6. CASE ReadCount
  <2>1. /\ deletion'.count = Cached /\ deletion'.fresh = UpToDate
        /\ versions' = versions
    BY <1>6, <1>1 DEF ReadCount, Deletion, tailnet
  <2>2. UpToDate => Cached = Stored
    BY <1>1 DEF VersionsOK, UpToDate, Cached, Stored
  <2> QED
    BY <2>1, <2>2 DEF Stored
<1>7. CASE WriteCount
  <2>1. deletion'.pc = "release"
    BY <1>7 DEF WriteCount, NoDeletion
  <2> QED
    BY <2>1, <1>3
<1>8. CASE Release \/ Restart
  <2>1. deletion'.pc = "idle"
    BY <1>8 DEF Release, Restart, NoDeletion
  <2> QED
    BY <2>1, <1>3
<1>9. CASE Deliver
  <2>1. Stored' = Stored /\ deletion' = deletion
    BY <1>9, <1>1, Delivered DEF Deliver
  <2> QED
    BY <2>1
<1>10. CASE Foreign
  BY <1>10, <1>1, OutdatedDeletion DEF Foreign, Stored
<1>11. ASSUME NEW p \in Pods, StartDeletion(p)
       PROVE  CopyOK'
  <2>1. deletion'.pc = "read"
    BY <1>11 DEF StartDeletion, NoDeletion
  <2> QED
    BY <2>1, <1>3
<1>12. ASSUME NEW p \in Pods, DeliverPod(p) \/ PodChanges(p)
       PROVE  CopyOK'
  BY <1>12, <1>2 DEF DeliverPod, PodChanges, tailnet
<1>13. CASE UNCHANGED vars
  BY <1>13, <1>2 DEF vars
<1> QED
  BY <1>4, <1>5, <1>6, <1>7, <1>8, <1>9, <1>10, <1>11, <1>12, <1>13
     DEF Next, TailnetPass, DeletionPass

LEMMA RecountStep ==
    ASSUME TypeOK, DecrementsAreRecounted, [Next]_vars
    PROVE  DecrementsAreRecounted'
<1>1. VersionsOK /\ pass \in Pass
  BY Halves DEF ClusterOK, PassesOK
<1> USE DEF DecrementsAreRecounted
<1>2. UNCHANGED <<versions, queued, timer, pass, decremented>> => DecrementsAreRecounted'
  BY DEF UpToDate
<1>3. CASE Start
  BY <1>3 DEF Start, NoPass
<1>4. CASE List
  <2>1. pass'.pc = "write" \/ timer' = "soon"
    BY <1>4, <1>1 DEF List, Fail, After, Pass
  <2> QED
    BY <2>1
<1>5. CASE WriteReady
  <2>1. timer' = "soon" \/ decremented' = FALSE
    BY <1>5, WriteReadyStores DEF After
  <2> QED
    BY <2>1
<1>6. CASE WriteCount
  <2>1. versions' # versions => ~UpToDate'
    BY <1>6, WriteCountStores
  <2>2. CASE versions' # versions
    BY <2>1, <2>2
  <2>3. CASE versions' = versions
    <3>1. Outdated(pass).pc = pass.pc
      BY <1>1, OutdatedPass
    <3> QED
      BY <1>6, <2>3, <3>1 DEF WriteCount, UpToDate
  <2> QED
    BY <2>2, <2>3
<1>7. CASE ReadCount \/ Release
  BY <1>7, <1>2 DEF ReadCount, Release, tailnet
<1>8. CASE Deliver \/ TimerFires \/ Restart
  BY <1>8 DEF Deliver, TimerFires, Restart
<1>9. CASE Foreign
  <2>1. ~UpToDate'
    BY <1>9, <1>1, EndsAreCounts, Appended DEF Foreign, UpToDate
  <2> QED
    BY <2>1
<1>10. ASSUME NEW p \in Pods, StartDeletion(p) \/ DeliverPod(p) \/ PodChanges(p)
       PROVE  DecrementsAreRecounted'
  BY <1>10, <1>2 DEF StartDeletion, DeliverPod, PodChanges, tailnet
<1>11. CASE UNCHANGED vars
  BY <1>11, <1>2 DEF vars
<1> QED
  BY <1>3, <1>4, <1>5, <1>6, <1>7, <1>8, <1>9, <1>10, <1>11
     DEF Next, TailnetPass, DeletionPass

IInv == TypeOK /\ CopyOK /\ DecrementsAreRecounted

THEOREM Invariant == Spec => []IInv
<1>1. Init => IInv
  BY TypeInit DEF Init, IInv, CopyOK, NoDeletion, DecrementsAreRecounted
<1>2. IInv /\ [Next]_vars => IInv'
  BY CopyStep, RecountStep, ClusterStep, PassesStep, DisturbancesStep
     DEF IInv, TypeOK, ClusterOK, PassesOK, VersionsOK
<1> QED
  BY <1>1, <1>2, PTL DEF Spec

\* A decrement is never left to the look after 67 days.
THEOREM Recounted == Spec => []DecrementsAreRecounted
BY Invariant, PTL DEF IInv

\* However old the cache is from which a deletion reads the count, what it
\* stores is the count that was stored, or one less.
THEOREM ByOne == Spec => DecrementIsByOne
<1>1. IInv /\ [Next]_vars =>
         [deletion.pc = "write" /\ deletion' # deletion /\ deletion'.pc = "release"
            => versions'[Len(versions')] \in {Stored, Stored - 1} \cap Nat]_vars
  <2> SUFFICES ASSUME IInv, [Next]_vars, deletion.pc = "write",
                      deletion' # deletion, deletion'.pc = "release"
               PROVE  Stored' \in {Stored, Stored - 1} \cap Nat
    BY DEF Stored
  <2>1. TypeOK /\ VersionsOK /\ deletion \in Deletion
    BY Halves DEF IInv, ClusterOK, PassesOK
  <2>2. Outdated(deletion).pc = "write"
    BY <2>1, OutdatedDeletion
  <2>3. ~WriteReady
    BY <2>1, <2>2, WriteReadyStores
  <2>4. WriteCount
    BY <2>2, <2>3 DEF Next, vars, TailnetPass, DeletionPass, Start, List, ReadCount,
       Release, Deliver, TimerFires, Restart, Foreign, StartDeletion, DeliverPod,
       PodChanges, NoDeletion
  <2>5. Stored \in Counts /\ Stored \in Nat
    BY <2>1, EndsAreCounts, CountsAreNat
  <2>6. CASE versions' = versions
    BY <2>5, <2>6 DEF Stored
  <2>7. CASE versions' # versions
    <3>1. deletion.fresh /\ Stored' = OneLess(deletion.count)
      BY <2>1, <2>4, <2>7, WriteCountStores
    <3>2. Stored' = OneLess(Stored)
      BY <3>1 DEF IInv, CopyOK
    <3> QED
      BY <3>2, <2>5, OneLessIsCount, CountsAreNat
  <2> QED
    BY <2>6, <2>7
<1> QED
  BY <1>1, Invariant, PTL DEF Spec, DecrementIsByOne
=============================================================================
