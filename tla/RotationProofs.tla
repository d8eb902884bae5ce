---------------------------- MODULE RotationProofs ----------------------------
(***************************************************************************)
(* Theorems about Rotation, for all times that meet its assumptions.       *)
(*                                                                         *)
(* The argument: a pass leaves the key more than Threshold, the next one   *)
(* is due when the resync has counted down, and done when it is no later   *)
(* than MaxDelay.  LeftIsEnough says what time can have taken meanwhile.   *)
(***************************************************************************)
EXTENDS Rotation, TLAPS

\* TypeOK without due, which the solver of the arithmetic does not take.
TimesOK ==
    /\ left \in 0 .. Life
    /\ timer \in 0 .. Requeue
    /\ resync \in 1 .. Resync
    /\ late \in 0 .. MaxDelay

\* Every variable keeps its type.
THEOREM TypeCorrect == Spec => []TypeOK
<1>1. Init => TypeOK
  <2>1. Init => TimesOK
    BY TimesAssumption DEF Init, TimesOK
  <2>2. Init => due \in BOOLEAN
    BY DEF Init
  <2> QED
    BY <2>1, <2>2 DEF TypeOK, TimesOK
<1>2. TypeOK /\ [Next]_vars => TypeOK'
  <2> SUFFICES ASSUME TypeOK, [Next]_vars
               PROVE  TypeOK'
    OBVIOUS
  <2>1. due' \in BOOLEAN
    BY DEF TypeOK, Next, vars, Pass, Event, Crash, Tick
  <2>2. TimesOK
    BY DEF TypeOK, TimesOK
  <2>3. TimesOK'
    <3> USE <2>2, TimesAssumption DEF TimesOK
    <3>1. CASE Pass
      BY <3>1 DEF Pass, Renewed, Requeued
    <3>2. CASE Event
      BY <3>2 DEF Event
    <3>3. CASE Crash
      BY <3>3 DEF Crash
    <3>4. CASE Tick
      BY <3>4 DEF Tick, Less
    <3>5. CASE UNCHANGED vars
      BY <3>5 DEF vars
    <3> QED
      BY <3>1, <3>2, <3>3, <3>4, <3>5 DEF Next
  <2> QED
    BY <2>1, <2>3 DEF TypeOK, TimesOK
<1> QED
  BY <1>1, <1>2, PTL DEF Spec

\* What a unit of time takes from the key, it adds to the time since the pass.
LEMMA TimePasses ==
    ASSUME NEW a \in Int, NEW b \in Int, b >= a - 1,
           NEW c \in Int, NEW r \in Int, NEW t \in Int, a + r + c > t
    PROVE  b + r + (c + 1) > t
OBVIOUS

\* The time since the pass is as good as the resync's count of it.
LEMMA SinceThePass ==
    ASSUME NEW a \in Int, NEW r \in Int, NEW n \in Int, NEW t \in Int
    PROVE  /\ a > t /\ n <= r => a + (r - n) > t
           /\ a + (r - n) > t <=> a + r + (-n) > t
           /\ n >= 0 /\ a + (r - n) > t => a + r + 0 > t
OBVIOUS

\* The variables are integers, before and after a step.
LEMMA Numbers ==
    ASSUME TimesOK
    PROVE  /\ Resync \in Int /\ Threshold \in Int
           /\ left \in Int /\ late \in Int /\ resync \in Int /\ -resync \in Int
           /\ resync <= Resync /\ resync >= 0
BY TimesAssumption DEF TimesOK

\* No recorded key expires, with whatever life, threshold and timer, as long as
\* the resync and the delay together are no longer than the threshold.
THEOREM KeyLives == Spec => []RecordedKeyLives
<1>1. Init => LeftIsEnough
  <2>1. Init => EnoughBefore
    BY TimesAssumption DEF Init, EnoughBefore
  <2> QED
    BY <2>1 DEF Init, LeftIsEnough
<1>2. TypeOK /\ LeftIsEnough /\ [Next]_vars => LeftIsEnough'
  <2> SUFFICES ASSUME TypeOK, LeftIsEnough, [Next]_vars
               PROVE  LeftIsEnough'
    OBVIOUS
  <2>0. TimesOK
    BY DEF TypeOK, TimesOK
  <2> USE <2>0, Numbers
  <2>1. CASE Pass
    <3>1. left' \in Int /\ left' > Threshold
      BY <2>1, TimesAssumption DEF Pass, Renewed, TimesOK
    <3>2. left' + (Resync - resync) > Threshold
      BY <3>1, SinceThePass, Zenon
    <3>3. EnoughBefore'
      BY <2>1, <3>2 DEF Pass, EnoughBefore
    <3> QED
      BY <2>1, <3>3 DEF Pass, LeftIsEnough
  <2>2. CASE Event
    <3>1. EnoughBefore
      BY <2>2 DEF Event, LeftIsEnough
    <3>2. EnoughWhenDue'
      BY <2>2, <3>1, SinceThePass, Zenon DEF Event, EnoughBefore, EnoughWhenDue
    <3> QED
      BY <2>2, <3>2 DEF Event, LeftIsEnough
  <2>3. CASE Crash
    <3>1. EnoughBefore => EnoughWhenDue
      BY SinceThePass, Zenon DEF EnoughBefore, EnoughWhenDue
    <3>2. EnoughWhenDue
      BY <3>1 DEF LeftIsEnough
    <3>3. EnoughWhenDue'
      BY <2>3, <3>2 DEF Crash, EnoughWhenDue
    <3> QED
      BY <2>3, <3>3 DEF Crash, LeftIsEnough
  <2>4. CASE Tick
    <3>1. left' \in Int /\ left' >= left - 1
      BY <2>4 DEF Tick, Less, TimesOK
    <3>2. CASE due
      <4>1. EnoughWhenDue
        BY <3>2 DEF LeftIsEnough
      <4>2. late' = late + 1
        BY <2>4, <3>2 DEF Tick
      <4>3. EnoughWhenDue'
        BY <3>1, <4>1, <4>2, TimePasses, Zenon DEF EnoughWhenDue
      <4> QED
        BY <2>4, <3>2, <4>3 DEF Tick, LeftIsEnough
    <3>3. CASE ~due
      <4>1. left + Resync + (-resync) > Threshold
        BY <3>3, SinceThePass, Zenon DEF LeftIsEnough, EnoughBefore
      <4>2. left' + Resync + (-resync + 1) > Threshold
        BY <3>1, <4>1, TimePasses, Zenon
      <4>3. late' = 0
        BY <2>4, <3>3 DEF Tick
      <4>4. CASE resync = 1
        <5>1. -resync + 1 = 0
          BY <4>4
        <5>2. EnoughWhenDue'
          BY <4>2, <4>3, <5>1 DEF EnoughWhenDue
        <5>3. due'
          BY <2>4, <4>4 DEF Tick, Rings
        <5> QED
          BY <5>2, <5>3 DEF LeftIsEnough
      <4>5. CASE resync # 1
        <5>1. /\ resync' \in Int /\ resync' >= 0
              /\ -resync' = -resync + 1
          BY <2>4, <4>5 DEF Tick, TimesOK
        <5>2. left' + (Resync - resync') > Threshold
          BY <3>1, <4>2, <5>1, SinceThePass, Zenon
        <5>3. left' + Resync + 0 > Threshold
          BY <3>1, <5>1, <5>2, SinceThePass, Zenon
        <5>4. EnoughBefore' /\ EnoughWhenDue'
          BY <4>3, <5>2, <5>3, Zenon DEF EnoughBefore, EnoughWhenDue
        <5> QED
          BY <5>4 DEF LeftIsEnough
      <4> QED
        BY <4>4, <4>5
    <3> QED
      BY <3>2, <3>3
  <2>5. CASE UNCHANGED vars
    BY <2>5 DEF vars, LeftIsEnough, EnoughBefore, EnoughWhenDue
  <2> QED
    BY <2>1, <2>2, <2>3, <2>4, <2>5 DEF Next
<1>3. TypeOK /\ LeftIsEnough => RecordedKeyLives
  <2> SUFFICES ASSUME TypeOK, LeftIsEnough
               PROVE  left > 0
    BY DEF RecordedKeyLives
  <2>1. TimesOK
    BY DEF TypeOK, TimesOK
  <2>2. EnoughBefore => left > 0
    BY <2>1, TimesAssumption, DelayAssumption DEF TimesOK, EnoughBefore
  <2>3. EnoughWhenDue => left > 0
    BY <2>1, TimesAssumption, DelayAssumption DEF TimesOK, EnoughWhenDue
  <2> QED
    BY <2>2, <2>3 DEF LeftIsEnough
<1> QED
  BY <1>1, <1>2, <1>3, TypeCorrect, PTL DEF Spec
=============================================================================
