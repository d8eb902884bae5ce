--------------------------- MODULE AdmissionProofs ---------------------------
(***************************************************************************)
(* Theorems about Admission, for any number of pods, keys and faults.      *)
(*                                                                         *)
(* The argument: of what a request has read, the versions from the cached  *)
(* one on are all as new or newer (Seen).  A key that is to be written was *)
(* read after the copy it replaces.  Where the copy is the source, the     *)
(* copy has therefore been overtaken when the two differ, and the update   *)
(* is refused; elsewhere the copy holds no newer key than any version of   *)
(* the source that a request can still read.                               *)
(***************************************************************************)
EXTENDS Admission, SequenceTheorems, TLAPS

Sides == {"source", "copy"}

\* Of one object, a is what b was before.  Nobody removes what is not meddled
\* with, and keys come in the order they were made: in the source if requests
\* write elsewhere, and in both if nothing was removed.
Earlier(k, w, a, b) ==
    /\ a.rv <= b.rv
    /\ a.rv = b.rv => a = b
    /\ a.val \in Nat => a.val <= made[k]
    /\ k \notin meddled => a.val # NoEntry /\ (a.val \in Nat => b.val \in Nat)
    /\ /\ k = "Secret" /\ (k \notin meddled \/ (~home /\ w = "source"))
       /\ a.val \in Nat /\ b.val \in Nat
       => a.val <= b.val

\* From the cached version on, every version is as new as a or newer.
Seen(k, w, a) ==
    \A j \in 1 .. Len(versions[k]) : Earlier(k, w, a, versions[k][j][w])

VersionsOK ==
    \A k \in Kinds, w \in Sides : \A j \in 1 .. Len(versions[k]) :
        \A i \in 1 .. j : Earlier(k, w, versions[k][i][w], versions[k][j][w])

\* From version i on, the source holds no key older than x.
AtMostSources(x, i) ==
    \A j \in i .. Len(versions["Secret"]) :
        LET key == versions["Secret"][j]["source"].val
        IN  x \in Nat /\ key \in Nat => x <= key

CopiesOK ==
    ~home => \A i \in 1 .. Len(versions["Secret"]) :
                AtMostSources(versions["Secret"][i]["copy"].val, i)

SinceOK(r) ==
    r.pc # "idle" => /\ Seen("Secret", "source", r.since[1])
                     /\ Seen("ConfigMap", "source", r.since[2])
                     /\ r.config \in {NoObject, r.since[2].val}

CopyOK(r) ==
    /\ r.pc \in {"source", "writeKey"} => Seen("Secret", Copy, r.copy)
    /\ r.pc = "source" /\ ~home => AtMostSources(r.copy.val, 1)

\* The key to be written is that of a source s that was read since.
ReadFrom(r, s) ==
    /\ s.val = r.val /\ Seen("Secret", "source", s)
    /\ Earlier("Secret", "source", r.since[1], s)
    /\ home => Earlier("Secret", "source", r.copy, s)

ValueOK(r) ==
    r.pc = "writeKey" =>
        /\ r.val \in 1 .. MaxKeys /\ r.copy.val # r.val
        /\ ~home /\ r.copy.val \in Nat => r.copy.val <= r.val
        /\ \E s \in Object("Secret") : ReadFrom(r, s)

\* The key that a request has seen to.
HasKeyOK(r) ==
    r.pc \in {"map", "writeMap", "inject"} /\ "Secret" \notin meddled =>
        LET key == Now("Secret")[Copy].val
        IN  key \in Nat /\ (r.since[1].val \in Nat => r.since[1].val <= key)

MapOK(r) ==
    /\ r.pc \in {"map", "writeMap"} => r.config # NoObject
    /\ r.pc = "writeMap" => r.val = r.config
    /\ r.pc = "inject" /\ r.config # NoObject /\ "ConfigMap" \notin meddled
          => Now("ConfigMap")[Copy].val \in Nat

RequestOK(r) == SinceOK(r) /\ CopyOK(r) /\ ValueOK(r) /\ HasKeyOK(r) /\ MapOK(r)

RequestsOK == \A p \in Pods : RequestOK(req[p])

IInv == TypeOK /\ VersionsOK /\ CopiesOK /\ RequestsOK

-----------------------------------------------------------------------------
(* Versions.                                                               *)

LEMMA CopySide == Copy \in Sides
BY DEF Copy, Sides

LEMMA VersionTypes ==
    ASSUME TypeOK, NEW k \in Kinds
    PROVE  /\ Len(versions[k]) \in Nat \ {0}
           /\ Now(k) = versions[k][Len(versions[k])] /\ Cached(k) = versions[k][1]
           /\ \A j \in 1 .. Len(versions[k]) :
                 /\ versions[k][j] \in [Sides -> Object(k)]
                 /\ \A w \in Sides : versions[k][j][w] \in Object(k)
           /\ \A w \in Sides : Now(k)[w] \in Object(k) /\ Cached(k)[w] \in Object(k)
<1>1. versions[k] \in Seq([Sides -> Object(k)]) /\ versions[k] # <<>>
  BY DEF TypeOK, Sides
<1>2. Len(versions[k]) \in Nat \ {0}
  BY <1>1
<1>3. \A j \in 1 .. Len(versions[k]) : versions[k][j] \in [Sides -> Object(k)]
  BY <1>1
<1>4. Now(k) = versions[k][Len(versions[k])] /\ Cached(k) = versions[k][1]
  BY <1>1 DEF Now, Last, Cached
<1> QED
  BY <1>2, <1>3, <1>4

\* A write that changes something adds a version.
LEMMA PutAppends ==
    ASSUME TypeOK, NEW k \in Kinds, NEW w \in Sides, NEW v \in Content(k),
           Put(k, w, v), Now(k)[w].val # v
    PROVE  /\ DOMAIN versions' = Kinds
           /\ versions'[k] \in Seq([Sides -> Object(k)]) \ {<<>>}
           /\ Len(versions'[k]) = Len(versions[k]) + 1
           /\ \A j \in 1 .. Len(versions[k]) : versions'[k][j] = versions[k][j]
           /\ versions'[k][Len(versions[k]) + 1][w] = [rv |-> Now(k)[w].rv + 1, val |-> v]
           /\ \A u \in Sides \ {w} : versions'[k][Len(versions[k]) + 1][u] = Now(k)[u]
           /\ \A l \in Kinds \ {k} : versions'[l] = versions[l]
<1> DEFINE last == Now(k)
           new == [last EXCEPT ![w] = [rv |-> @.rv + 1, val |-> v]]
<1>1. versions' = [versions EXCEPT ![k] = Append(@, new)]
  BY DEF Put
<1>2. versions[k] \in Seq([Sides -> Object(k)]) /\ DOMAIN versions = Kinds
  BY DEF TypeOK, Sides
<1>3. last \in [Sides -> Object(k)]
  BY VersionTypes
<1>4. /\ new[w] = [rv |-> last[w].rv + 1, val |-> v]
      /\ \A u \in Sides \ {w} : new[u] = last[u]
  BY <1>3
<1>5. [rv |-> last[w].rv + 1, val |-> v] \in Object(k)
  BY <1>3 DEF Object
<1>6. new \in [Sides -> Object(k)]
  BY <1>3, <1>5
<1>7. /\ versions'[k] = Append(versions[k], new)
      /\ \A l \in Kinds \ {k} : versions'[l] = versions[l]
      /\ DOMAIN versions' = Kinds
  BY <1>1, <1>2
<1> HIDE DEF new
<1>8. /\ Append(versions[k], new) \in Seq([Sides -> Object(k)])
      /\ Len(Append(versions[k], new)) = Len(versions[k]) + 1
      /\ \A j \in 1 .. Len(versions[k]) : Append(versions[k], new)[j] = versions[k][j]
      /\ Append(versions[k], new)[Len(versions[k]) + 1] = new
  BY <1>2, <1>6
<1>9. versions'[k] # <<>>
  BY <1>2, <1>7, <1>8
<1>10. /\ Len(versions'[k]) = Len(versions[k]) + 1
       /\ versions'[k][Len(versions[k]) + 1] = new
       /\ versions'[k] \in Seq([Sides -> Object(k)]) \ {<<>>}
       /\ \A j \in 1 .. Len(versions[k]) : versions'[k][j] = versions[k][j]
  BY <1>7, <1>8, <1>9
<1>11. /\ versions'[k][Len(versions[k]) + 1][w] = [rv |-> Now(k)[w].rv + 1, val |-> v]
       /\ \A u \in Sides \ {w} : versions'[k][Len(versions[k]) + 1][u] = Now(k)[u]
  BY <1>4, <1>10
<1> QED
  BY <1>7, <1>10, <1>11

-----------------------------------------------------------------------------
(* Type correctness.                                                       *)

SeqOK == /\ DOMAIN versions = Kinds
         /\ \A k \in Kinds : versions[k] \in Seq([Sides -> Object(k)]) \ {<<>>}

LEMMA PutTypes ==
    ASSUME TypeOK, NEW k \in Kinds, NEW w \in Sides, NEW v \in Content(k), Put(k, w, v)
    PROVE  SeqOK'
<1>1. CASE Now(k)[w].val = v
  BY <1>1 DEF Put, TypeOK, SeqOK, Sides
<1>2. CASE Now(k)[w].val # v
  <2>1. /\ DOMAIN versions' = Kinds
        /\ versions'[k] \in Seq([Sides -> Object(k)]) \ {<<>>}
        /\ \A l \in Kinds \ {k} : versions'[l] = versions[l]
    BY <1>2, PutAppends
  <2> QED
    BY <2>1 DEF TypeOK, SeqOK, Sides
<1> QED
  BY <1>1, <1>2

LEMMA NoRequestType == NoRequest \in Request
<1>1. /\ Never \in Object("Secret") /\ Never \in Object("ConfigMap")
      /\ NoObject \in Content("Secret") /\ NoObject \in Content("ConfigMap")
  BY DEF Never, Object, Content
<1> QED
  BY <1>1 DEF NoRequest, Request, Steps

LEMMA RequestTypes ==
    ASSUME TypeOK, NEW p \in Pods
    PROVE  /\ NoRequest \in Request /\ Found(p) \in Request
           /\ \A pc \in Steps :
                 /\ Written(p, pc) \in Request
                 /\ \A v \in Content("Secret") \cup Content("ConfigMap") :
                       [req[p] EXCEPT !.pc = pc, !.val = v] \in Request
                 /\ [req[p] EXCEPT !.pc = pc, !.copy = Cached("Secret")[Copy]] \in Request
                 /\ \A v \in Content("ConfigMap") :
                       [req[p] EXCEPT !.pc = pc, !.val = v,
                                      !.copy = Cached("ConfigMap")[Copy]] \in Request
           /\ Copied(p) \in Request
<1>1. /\ Never \in Object("Secret") /\ Never \in Object("ConfigMap")
      /\ NoObject \in Content("Secret") /\ NoObject \in Content("ConfigMap")
  BY DEF Never, Object, Content
<1>2. \A k \in Kinds, w \in Sides : Cached(k)[w] \in Object(k)
  BY VersionTypes
<1>3. /\ Cached("Secret").source \in Object("Secret")
      /\ Cached("ConfigMap").source \in Object("ConfigMap")
      /\ Cached("ConfigMap").source.val \in Content("ConfigMap")
      /\ Cached("Secret")[Copy] \in Object("Secret")
      /\ Cached("ConfigMap")[Copy] \in Object("ConfigMap")
  BY <1>2, CopySide DEF Kinds, Sides, Object
<1>4. NoRequest \in Request
  BY NoRequestType
<1>5. Found(p) \in Request
  <2>1. Views \in Object("Secret") \X Object("ConfigMap")
    BY <1>3 DEF Views
  <2> QED
    BY <1>1, <1>3, <2>1 DEF Found, NoRequest, Request, Steps
<1>6. req[p] \in Request
  BY DEF TypeOK
<1>7. \A pc \in Steps :
         /\ Written(p, pc) \in Request
         /\ \A v \in Content("Secret") \cup Content("ConfigMap") :
               [req[p] EXCEPT !.pc = pc, !.val = v] \in Request
         /\ [req[p] EXCEPT !.pc = pc, !.copy = Cached("Secret")[Copy]] \in Request
         /\ \A v \in Content("ConfigMap") :
               [req[p] EXCEPT !.pc = pc, !.val = v,
                              !.copy = Cached("ConfigMap")[Copy]] \in Request
  BY <1>1, <1>3, <1>6 DEF Request, Written
<1> QED
  BY <1>4, <1>5, <1>7 DEF Copied, Steps

\* What a request becomes, when it does not write.
LEMMA StepTypes ==
    ASSUME TypeOK, NEW p \in Pods
    PROVE  /\ Deny(p) \/ Allow(p) => req' \in [Pods -> Request]
                 /\ pod' \in [Pods -> {"new", "plain"} \cup Injected]
           /\ \A r \in Request : Go(p, r) => req' \in [Pods -> Request]
BY RequestTypes DEF TypeOK, Deny, Allow, Go

\* Beyond its request, a pod and its versions, an action keeps the types.
Types == TypeOK /\ RequestsOK

LEMMA HandleTypes ==
    ASSUME Types, NEW p \in Pods, Handle(p)
    PROVE  TypeOK'
<1> DEFINE Answers == /\ req' \in [Pods -> Request]
                      /\ pod' \in [Pods -> {"new", "plain"} \cup Injected]
<1>1. TypeOK /\ req[p] \in Request /\ RequestOK(req[p])
  BY DEF Types, RequestsOK, TypeOK
<1>2. SeqOK /\ home \in BOOLEAN /\ made \in [Kinds -> Nat] /\ meddled \subseteq Kinds
      /\ tailnet \in {"absent", "unready", "ready"}
      /\ tailserve \in {"absent", "unnamed", "named"}
      /\ disturbances \in 0 .. MaxDisturbances
      /\ pod \in [Pods -> {"new", "plain"} \cup Injected]
  BY <1>1 DEF TypeOK, SeqOK, Sides
<1>3. /\ Deny(p) \/ Allow(p) => Answers
      /\ \A r \in Request : Go(p, r) => req' \in [Pods -> Request]
  BY <1>1, StepTypes
<1>4. Cached("Secret").source.val \in Content("Secret")
  BY <1>1, VersionTypes DEF Kinds, Sides, Object
<1>5. ASSUME UNCHANGED <<world, disturbances>>, SeqOK', Answers
      PROVE  TypeOK'
  BY <1>2, <1>5 DEF TypeOK, SeqOK, Sides, world
<1>6. ASSUME UNCHANGED versions
      PROVE  SeqOK'
  BY <1>2, <1>6 DEF SeqOK
<1>7. ASSUME NEW kind \in Kinds, NEW then \in Request, Write(p, kind, then),
             req[p].val \in Content(kind)
      PROVE  TypeOK'
  <2>1. Put(kind, Copy, req[p].val) => SeqOK'
    BY <1>1, <1>7, CopySide, PutTypes
  <2>2. SeqOK' /\ UNCHANGED world
    BY <1>6, <1>7, <2>1 DEF Write
  <2>3. Answers
    BY <1>2, <1>3, <1>7 DEF Write
  <2>4. disturbances' \in 0 .. MaxDisturbances
    BY <1>2, <1>7, BoundsAssumption DEF Write, Calm, Disturb
  <2> QED
    BY <1>2, <2>2, <2>3, <2>4 DEF TypeOK, SeqOK, Sides, world
<1>8. CASE Begin(p)
  <2>1. Answers
    BY <1>1, <1>2, <1>3, <1>8, RequestTypes DEF Begin
  <2>2. disturbances' \in 0 .. MaxDisturbances
    BY <1>2, <1>8, BoundsAssumption DEF Begin, Calm, Disturb
  <2> QED
    BY <1>2, <1>6, <1>8, <2>1, <2>2 DEF TypeOK, SeqOK, Sides, world, Begin
<1>9. CASE ReadCopy(p)
  <2>1. Answers
    BY <1>1, <1>2, <1>3, <1>9, RequestTypes DEF ReadCopy, Steps
  <2> QED
    BY <1>5, <1>6, <1>9, <2>1 DEF ReadCopy
<1>10. CASE ReadSource(p)
  <2>1. /\ Copied(p) \in Request
        /\ [req[p] EXCEPT !.pc = "writeKey", !.val = Cached("Secret").source.val] \in Request
    BY <1>1, <1>4, RequestTypes DEF Steps
  <2>2. Answers
    BY <1>1, <1>2, <1>3, <1>10, <2>1 DEF ReadSource
  <2> QED
    BY <1>5, <1>6, <1>10, <2>2 DEF ReadSource
<1>11. CASE WriteKey(p)
  <2>1. req[p].val \in Content("Secret")
    BY <1>1, <1>11 DEF WriteKey, RequestOK, ValueOK, Content
  <2>2. Copied(p) \in Request
    BY <1>1, RequestTypes
  <2> QED
    BY <1>7, <1>11, <2>1, <2>2 DEF WriteKey, Kinds
<1>12. CASE ReadMap(p)
  <2>1. req[p].config \in Content("ConfigMap")
    BY <1>1 DEF Request
  <2>2. Answers
    BY <1>1, <1>2, <1>3, <1>12, <2>1, RequestTypes DEF ReadMap, Steps
  <2> QED
    BY <1>5, <1>6, <1>12, <2>2 DEF ReadMap
<1>13. CASE WriteMap(p)
  <2>1. req[p].val \in Content("ConfigMap")
    BY <1>1, <1>13 DEF WriteMap, RequestOK, MapOK, Request
  <2>2. Written(p, "inject") \in Request
    BY <1>1, RequestTypes DEF Steps
  <2> QED
    BY <1>7, <1>13, <2>1, <2>2 DEF WriteMap, Kinds
<1>14. CASE Inject(p)
  <2>1. Answers
    BY <1>1, <1>2, <1>3, <1>14, RequestTypes DEF Inject, Patch, Injected
  <2> QED
    BY <1>5, <1>6, <1>14, <2>1 DEF Inject
<1> QED
  BY <1>8, <1>9, <1>10, <1>11, <1>12, <1>13, <1>14 DEF Handle

LEMMA NextTypes ==
    Types /\ [Next]_vars => TypeOK'
<1> SUFFICES ASSUME Types, [Next]_vars PROVE TypeOK'
  OBVIOUS
<1>1. /\ SeqOK /\ home \in BOOLEAN /\ made \in [Kinds -> Nat] /\ meddled \subseteq Kinds
      /\ tailnet \in {"absent", "unready", "ready"}
      /\ tailserve \in {"absent", "unnamed", "named"}
      /\ disturbances \in 0 .. MaxDisturbances
      /\ pod \in [Pods -> {"new", "plain"} \cup Injected]
      /\ req \in [Pods -> Request] /\ TypeOK
  BY DEF Types, TypeOK, SeqOK, Sides
<1>2. Disturb => disturbances' \in 0 .. MaxDisturbances
  BY <1>1, BoundsAssumption DEF Disturb
<1>3. ASSUME NEW p \in Pods, Timeout(p)
      PROVE  TypeOK'
  BY <1>1, <1>2, <1>3, StepTypes DEF Timeout, TypeOK, world
<1>4. ASSUME NEW kind \in Kinds, Sync(kind)
      PROVE  TypeOK'
  <2>1. Tail(versions[kind]) \in Seq([Sides -> Object(kind)]) \ {<<>>}
    <3>1. /\ versions[kind] \in Seq([Sides -> Object(kind)])
          /\ Len(versions[kind]) \in Nat /\ Len(versions[kind]) > 1
      BY <1>1, <1>4 DEF Sync, SeqOK
    <3> DEFINE rest == Tail(versions[kind])
    <3>2. /\ rest \in Seq([Sides -> Object(kind)])
          /\ Len(rest) = Len(versions[kind]) - 1
      BY <3>1
    <3> HIDE DEF rest
    <3>3. Len(rest) # 0
      BY <3>1, <3>2
    <3>4. rest # <<>>
      BY <3>3, EmptySeq
    <3> QED
      BY <3>2, <3>4 DEF rest
  <2>2. SeqOK'
    BY <1>1, <1>4, <2>1 DEF Sync, SeqOK
  <2> QED
    BY <1>1, <1>4, <2>2 DEF Sync, SeqOK, Sides, TypeOK, world
<1>5. ASSUME NEW kind \in Kinds, Store(kind)
      PROVE  TypeOK'
  <2>1. made' \in [Kinds -> Nat]
    BY <1>1, <1>5 DEF Store
  <2>2. made'[kind] \in Content(kind)
    BY <1>1, <1>5, BoundsAssumption DEF Store, Content, Kinds
  <2>3. SeqOK'
    BY <1>1, <1>5, <2>2, PutTypes DEF Store, Sides
  <2> QED
    BY <1>1, <1>5, <2>1, <2>3 DEF Store, ElsewhereOnly, Calm, SeqOK, Sides, TypeOK
<1>6. CASE Restart
  <2>1. \A k \in Kinds : <<Now(k)>> \in Seq([Sides -> Object(k)]) \ {<<>>}
    BY <1>1, VersionTypes
  <2>2. SeqOK'
    BY <1>6, <2>1 DEF Restart, SeqOK
  <2> QED
    BY <1>1, <1>2, <1>6, <2>2, NoRequestType DEF Restart, SeqOK, Sides, TypeOK, world
<1>7. CASE NameConfig \/ TailnetReady \/ Reapply
  BY <1>1, <1>2, <1>7 DEF NameConfig, TailnetReady, Reapply, ElsewhereOnly, Calm, TypeOK
<1>8. CASE Meddle
  <2>1. PICK kind \in Kinds, which \in Sides, v \in {NoObject, NoEntry} :
          Put(kind, which, v) /\ meddled' = meddled \cup {kind}
    BY <1>8 DEF Meddle, Sides
  <2>2. SeqOK'
    BY <1>1, <2>1, PutTypes DEF Content
  <2> QED
    BY <1>1, <1>2, <1>8, <2>1, <2>2 DEF Meddle, ElsewhereOnly, SeqOK, Sides, TypeOK
<1>9. CASE UNCHANGED vars
  BY <1>1, <1>9 DEF vars, TypeOK
<1> QED
  BY <1>3, <1>4, <1>5, <1>6, <1>7, <1>8, <1>9, HandleTypes DEF Next

-----------------------------------------------------------------------------
(* What a step does to the objects.                                        *)

Objects == Object("Secret") \cup Object("ConfigMap")

\* No step makes what was read any newer than it is, or what is there older.
Onward ==
    /\ home' = home /\ meddled \subseteq meddled'
    /\ VersionsOK' /\ CopiesOK'
    /\ \A k \in Kinds, w \in Sides, a, b \in Objects :
          Earlier(k, w, a, b) => Earlier(k, w, a, b)'
    /\ \A k \in Kinds, w \in Sides, a \in Objects : Seen(k, w, a) => Seen(k, w, a)'
    /\ \A k \in Kinds \ meddled' : Now(k)[Copy].val \in Nat =>
          /\ Now(k)'[Copy].val \in Nat
          /\ k = "Secret" => Now(k)[Copy].val <= Now(k)'[Copy].val
    /\ ~home => \A x \in Content("Secret") \cup Content("ConfigMap") :
          (x \in Nat => x <= made["Secret"]) /\ AtMostSources(x, 1)
             => AtMostSources(x, 1)'

Shapes ==
    \A k \in Kinds :
       /\ Len(versions[k]) \in Nat \ {0}
       /\ Now(k) = versions[k][Len(versions[k])] /\ Cached(k) = versions[k][1]
       /\ \A w \in Sides :
             /\ Now(k)[w] \in Object(k) /\ Now(k)[w] \in Objects
             /\ Cached(k)[w] \in Object(k) /\ Cached(k)[w] \in Objects
             /\ \A j \in 1 .. Len(versions[k]) : /\ versions[k][j][w] \in Object(k)
                                                 /\ versions[k][j][w] \in Objects

LEMMA Shape == TypeOK => Shapes
BY VersionTypes DEF Shapes, Objects, Kinds

LEMMA NextShape == TypeOK' => Shapes'
BY Shape, PTL

LEMMA EarlierStays ==
    ASSUME UNCHANGED home, meddled \subseteq meddled',
           made \in [Kinds -> Nat], made' \in [Kinds -> Nat],
           \A k \in Kinds : made[k] <= made'[k]
    PROVE  \A k \in Kinds, w \in Sides, a, b \in Objects :
              Earlier(k, w, a, b) => Earlier(k, w, a, b)'
<1> SUFFICES ASSUME NEW k \in Kinds, NEW w \in Sides, NEW a \in Objects, NEW b \in Objects,
                    Earlier(k, w, a, b)
             PROVE  Earlier(k, w, a, b)'
  OBVIOUS
<1>1. made[k] \in Nat /\ made'[k] \in Nat /\ made[k] <= made'[k]
  OBVIOUS
<1>2. a.val \in Nat => a.val <= made'[k]
  BY <1>1 DEF Earlier
<1> QED
  BY <1>1, <1>2 DEF Earlier

\* The oldest versions of an object are no longer of interest.
Dropped(k, d) ==
    /\ Len(versions'[k]) = Len(versions[k]) - d
    /\ \A j \in 1 .. Len(versions[k]) - d : versions'[k][j] = versions[k][j + d]

LEMMA DropOnward ==
    ASSUME TypeOK, VersionsOK, CopiesOK, TypeOK', UNCHANGED <<home, made, meddled>>,
           \A k \in Kinds : \E d \in 0 .. Len(versions[k]) - 1 : Dropped(k, d)
    PROVE  Onward /\ \A k \in Kinds : Now(k)' = Now(k)
<1>1. Shapes /\ Shapes'
  BY Shape, NextShape
<1>2. ASSUME NEW k \in Kinds
      PROVE  /\ Now(k)' = Now(k)
             /\ \A i, j \in 1 .. Len(versions'[k]) : i <= j =>
                  \E g, h \in 1 .. Len(versions[k]) :
                      /\ g <= h /\ versions'[k][i] = versions[k][g]
                      /\ versions'[k][j] = versions[k][h]
  <2>1. PICK d \in 0 .. Len(versions[k]) - 1 : Dropped(k, d)
    OBVIOUS
  <2>2. /\ Len(versions[k]) \in Nat \ {0} /\ Len(versions'[k]) = Len(versions[k]) - d
        /\ Now(k) = versions[k][Len(versions[k])] /\ Now(k)' = versions'[k][Len(versions'[k])]
    BY <1>1, <2>1 DEF Shapes, Dropped
  <2>3. Now(k)' = Now(k)
    <3>1. Len(versions[k]) - d \in 1 .. Len(versions[k]) - d
      BY <2>2
    <3>2. versions'[k][Len(versions[k]) - d] = versions[k][(Len(versions[k]) - d) + d]
      BY <2>1, <3>1 DEF Dropped
    <3> QED
      BY <2>2, <3>2
  <2>4. ASSUME NEW i \in 1 .. Len(versions'[k]), NEW j \in 1 .. Len(versions'[k]), i <= j
        PROVE  \E g, h \in 1 .. Len(versions[k]) :
                      /\ g <= h /\ versions'[k][i] = versions[k][g]
                      /\ versions'[k][j] = versions[k][h]
    <3>1. /\ i + d \in 1 .. Len(versions[k]) /\ j + d \in 1 .. Len(versions[k])
          /\ i + d <= j + d /\ versions'[k][i] = versions[k][i + d]
          /\ versions'[k][j] = versions[k][j + d]
      BY <2>1, <2>2, <2>4 DEF Dropped
    <3> QED
      BY <3>1
  <2> QED
    BY <2>3, <2>4
<1>3. \A k \in Kinds : \A j \in 1 .. Len(versions'[k]) :
         \E h \in 1 .. Len(versions[k]) : versions'[k][j] = versions[k][h]
  BY <1>2
<1>4. /\ \A k, w, a, b : Earlier(k, w, a, b)' <=> Earlier(k, w, a, b)
      /\ home' = home /\ meddled \subseteq meddled'
  BY DEF Earlier
<1>5. VersionsOK'
  <2> SUFFICES ASSUME NEW k \in Kinds, NEW w \in Sides, NEW j \in 1 .. Len(versions'[k]),
                      NEW i \in 1 .. j
               PROVE  Earlier(k, w, versions'[k][i][w], versions'[k][j][w])
    BY <1>4 DEF VersionsOK, Earlier
  <2>1. i \in 1 .. Len(versions'[k]) /\ i <= j
    BY <1>1 DEF Shapes
  <2>2. PICK g, h \in 1 .. Len(versions[k]) :
            /\ g <= h /\ versions'[k][i] = versions[k][g]
            /\ versions'[k][j] = versions[k][h]
    BY <1>2, <2>1
  <2>3. Earlier(k, w, versions[k][g][w], versions[k][h][w])
    BY <1>1, <2>2 DEF Shapes, VersionsOK
  <2> QED
    BY <2>2, <2>3
<1>6. CopiesOK'
  <2> SUFFICES ASSUME ~home, NEW i \in 1 .. Len(versions'["Secret"]),
                      NEW j \in i .. Len(versions'["Secret"])
               PROVE  LET x == versions'["Secret"][i]["copy"].val
                          key == versions'["Secret"][j]["source"].val
                      IN  x \in Nat /\ key \in Nat => x <= key
    BY <1>4 DEF CopiesOK, AtMostSources
  <2>1. "Secret" \in Kinds /\ j \in 1 .. Len(versions'["Secret"]) /\ i <= j
    BY <1>1 DEF Shapes, Kinds
  <2>2. PICK g, h \in 1 .. Len(versions["Secret"]) :
            /\ g <= h /\ versions'["Secret"][i] = versions["Secret"][g]
            /\ versions'["Secret"][j] = versions["Secret"][h]
    BY <1>2, <2>1
  <2>3. h \in g .. Len(versions["Secret"])
    BY <1>1, <2>1, <2>2 DEF Shapes
  <2> QED
    BY <2>2, <2>3 DEF CopiesOK, AtMostSources
<1>7. \A k \in Kinds, w \in Sides, a \in Objects : Seen(k, w, a) => Seen(k, w, a)'
  BY <1>3, <1>4 DEF Seen
<1>8. \A x : AtMostSources(x, 1) => AtMostSources(x, 1)'
  BY <1>3 DEF AtMostSources, Kinds
<1>9. \A k \in Kinds : Now(k)' = Now(k)
  BY <1>2
<1>10. Copy' = Copy
  BY DEF Copy
<1>11. \A k \in Kinds \ meddled' : Now(k)[Copy].val \in Nat =>
          /\ Now(k)'[Copy].val \in Nat
          /\ k = "Secret" => Now(k)[Copy].val <= Now(k)'[Copy].val
  BY <1>9
<1> QED
  BY <1>4, <1>5, <1>6, <1>7, <1>8, <1>9, <1>11 DEF Onward

\* A content that a write may give to an object: a new one, or, in the pods'
\* namespace, one at least as new as the copy and no newer than the source.
Fitting(k, w, v) ==
    /\ v \in Nat \/ k \in meddled'
    /\ v \in Nat => v <= made'[k]
    /\ v \in Nat /\ k = "Secret" =>
          \/ w = "source" /\ v > made[k]
          \/ /\ w = Copy /\ (Now(k)[w].val \in Nat => Now(k)[w].val <= v)
             /\ Now(k).source.val \in Nat /\ ~home => v <= Now(k).source.val

Grows == /\ home' = home /\ meddled \subseteq meddled'
         /\ made \in [Kinds -> Nat] /\ made' \in [Kinds -> Nat]
         /\ \A k \in Kinds : made[k] <= made'[k]

\* Reading a formula about the next versions one version at a time.
LEMMA NextSeen ==
    ASSUME NEW k \in Kinds, NEW w \in Sides, NEW a,
           \A j \in 1 .. Len(versions'[k]) : \A b :
              b = versions'[k][j][w] => Earlier(k, w, a, b)'
    PROVE  Seen(k, w, a)'
BY DEF Seen, Earlier

LEMMA NextVersions ==
    ASSUME \A k \in Kinds, w \in Sides : \A j \in 1 .. Len(versions'[k]) :
              \A i \in 1 .. j : \A a, b :
                 a = versions'[k][i][w] /\ b = versions'[k][j][w] => Earlier(k, w, a, b)'
    PROVE  VersionsOK'
BY DEF VersionsOK, Earlier

\* What was before the present version is before the one that is written.
LEMMA WriteIsLater ==
    ASSUME Grows, NEW k \in Kinds, NEW w \in Sides, NEW v \in Content(k),
           Fitting(k, w, v), NEW a \in Objects, NEW last \in Objects,
           last = Now(k)[w], Earlier(k, w, a, last)
    PROVE  Earlier(k, w, a, [rv |-> last.rv + 1, val |-> v])'
<1> DEFINE new == [rv |-> last.rv + 1, val |-> v]
<1>1. /\ a.rv \in Nat /\ last.rv \in Nat /\ new.rv = last.rv + 1 /\ new.val = v
      /\ made[k] \in Nat /\ made'[k] \in Nat /\ made[k] <= made'[k]
  BY DEF Objects, Object, Grows
<1> HIDE DEF new
<1>2. a.rv < new.rv
  BY <1>1 DEF Earlier
<1>3. a.val \in Nat => a.val <= made'[k] /\ a.val <= made[k]
  BY <1>1 DEF Earlier
<1>4. k \notin meddled' => a.val # NoEntry /\ (a.val \in Nat => new.val \in Nat)
  BY <1>1 DEF Earlier, Grows, Fitting
<1>5. ASSUME k = "Secret", k \notin meddled' \/ (~home' /\ w = "source"),
             a.val \in Nat, new.val \in Nat
      PROVE  a.val <= new.val
  <2>1. CASE v > made[k]
    BY <1>1, <1>3, <1>5, <2>1
  <2>2. CASE w = Copy /\ (last.val \in Nat => last.val <= v) /\ k \notin meddled'
    <3>1. last.val \in Nat /\ a.val <= last.val
      BY <1>5, <2>2 DEF Earlier, Grows
    <3> QED
      BY <1>1, <1>5, <2>2, <3>1
  <2>3. ~home' /\ w = "source" => w # Copy
    BY DEF Grows, Copy
  <2> QED
    BY <1>1, <1>5, <2>1, <2>2, <2>3 DEF Fitting
<1>6. Earlier(k, w, a, new)'
  <2>1. (a.rv <= new.rv /\ (a.rv = new.rv => a = new))
    BY <1>1, <1>2
  <2> QED
    BY <1>3, <1>4, <1>5, <2>1 DEF Earlier
<1> QED
  BY <1>6 DEF new

LEMMA PutOnward ==
    ASSUME TypeOK, VersionsOK, CopiesOK, Grows, TypeOK', NEW k \in Kinds, NEW w \in Sides,
           NEW v \in Content(k), Fitting(k, w, v), Put(k, w, v)
    PROVE  Onward
<1>1. Shapes /\ Shapes'
  BY Shape, NextShape
<1>2. \A l \in Kinds, u \in Sides, a, b \in Objects :
              Earlier(l, u, a, b) => Earlier(l, u, a, b)'
  BY EarlierStays DEF Grows
<1>3. Copy' = Copy /\ Copy \in Sides
  BY CopySide DEF Copy, Grows
<1>4. CASE UNCHANGED versions
  <2>1. VersionsOK'
    BY <1>1, <1>2, <1>4 DEF VersionsOK, Shapes
  <2>2. CopiesOK' /\ \A x : AtMostSources(x, 1) => AtMostSources(x, 1)'
    BY <1>4 DEF CopiesOK, AtMostSources, Grows
  <2>3. \A l \in Kinds, u \in Sides, a \in Objects : Seen(l, u, a) => Seen(l, u, a)'
    BY <1>1, <1>2, <1>4 DEF Seen, Shapes
  <2>4. \A l \in Kinds : Now(l)' = Now(l)
    BY <1>4 DEF Now
  <2>5. \A l \in Kinds \ meddled' : Now(l)[Copy].val \in Nat =>
          /\ Now(l)'[Copy].val \in Nat
          /\ l = "Secret" => Now(l)[Copy].val <= Now(l)'[Copy].val
    BY <2>4
  <2> QED
    BY <1>2, <2>1, <2>2, <2>3, <2>5 DEF Onward, Grows
<1>5. CASE Now(k)[w].val # v
  <2> DEFINE n == Len(versions[k])
             new == [rv |-> Now(k)[w].rv + 1, val |-> v]
  <2>1. /\ n \in Nat \ {0} /\ Len(versions'[k]) = n + 1
        /\ \A j \in 1 .. n : versions'[k][j] = versions[k][j]
        /\ versions'[k][n + 1][w] = new
        /\ \A u \in Sides \ {w} : versions'[k][n + 1][u] = Now(k)[u]
        /\ \A l \in Kinds \ {k} : versions'[l] = versions[l]
    <3> HIDE DEF n, new
    <3>1. n \in Nat \ {0}
      BY <1>1 DEF Shapes, n
    <3>2. /\ Len(versions'[k]) = Len(versions[k]) + 1
          /\ \A j \in 1 .. Len(versions[k]) : versions'[k][j] = versions[k][j]
          /\ versions'[k][Len(versions[k]) + 1][w] = [rv |-> Now(k)[w].rv + 1, val |-> v]
          /\ \A u \in Sides \ {w} : versions'[k][Len(versions[k]) + 1][u] = Now(k)[u]
          /\ \A l \in Kinds \ {k} : versions'[l] = versions[l]
      BY <1>5, PutAppends
    <3> QED
      BY <3>1, <3>2 DEF n, new
  <2>2. /\ Now(k)' = versions'[k][n + 1] /\ Now(k) = versions[k][n]
        /\ \A l \in Kinds \ {k} : Now(l)' = Now(l)
    BY <1>1, <2>1 DEF Shapes
  <2> HIDE DEF n, new
  <2>3. \A u \in Sides : Now(k)[u] \in Objects /\ Now(k)[u] \in Object(k)
    BY <1>1 DEF Shapes
  <2>4. ASSUME NEW u \in Sides, NEW a \in Objects, Earlier(k, u, a, Now(k)[u]),
               NEW b, b = versions'[k][n + 1][u]
        PROVE  Earlier(k, u, a, b)'
    <3>1. CASE u # w
      BY <1>2, <2>1, <2>3, <2>4, <3>1
    <3>2. CASE u = w
      BY <2>1, <2>3, <2>4, <3>2, WriteIsLater DEF new
    <3> QED
      BY <3>1, <3>2
  <2>5. ASSUME NEW u \in Sides, NEW b, b = versions'[k][n + 1][u]
        PROVE  Earlier(k, u, b, b)'
    <3>1. CASE u # w
      <4>1. Earlier(k, u, Now(k)[u], Now(k)[u])
        BY <1>1, <2>1, <2>2 DEF Shapes, VersionsOK
      <4> QED
        BY <1>2, <2>1, <2>3, <2>5, <3>1, <4>1
    <3>2. CASE u = w
      <4>1. b.rv \in Nat /\ b.val = v
        BY <2>1, <2>3, <2>5, <3>2 DEF new, Object
      <4> QED
        BY <4>1, ObjectAssumption DEF Fitting, Earlier
    <3> QED
      BY <3>1, <3>2
  <2>6. VersionsOK'
    <3> SUFFICES ASSUME NEW l \in Kinds, NEW u \in Sides, NEW j \in 1 .. Len(versions'[l]),
                        NEW i \in 1 .. j, NEW a, NEW b,
                        a = versions'[l][i][u], b = versions'[l][j][u]
                 PROVE  Earlier(l, u, a, b)'
      BY NextVersions
    <3>1. ASSUME j \in 1 .. Len(versions[l]), \A h \in 1 .. j : versions'[l][h] = versions[l][h]
          PROVE  Earlier(l, u, a, b)'
      <4>1. i \in 1 .. Len(versions[l]) /\ i \in 1 .. j /\ j \in 1 .. j
        BY <1>1, <3>1 DEF Shapes
      <4>2. a = versions[l][i][u] /\ b = versions[l][j][u]
        BY <3>1, <4>1
      <4>3. Earlier(l, u, a, b)
        BY <3>1, <4>1, <4>2 DEF VersionsOK
      <4>4. \A h \in 1 .. Len(versions[l]) : versions[l][h][u] \in Objects
        BY <1>1 DEF Shapes
      <4>5. a \in Objects /\ b \in Objects
        BY <3>1, <4>1, <4>2, <4>4
      <4> QED
        BY <1>2, <4>3, <4>5
    <3>2. CASE l # k
      BY <2>1, <3>1, <3>2
    <3>3. CASE l = k /\ j # n + 1
      <4>1. j \in 1 .. n
        BY <2>1, <3>3
      <4>2. \A h \in 1 .. j : versions'[k][h] = versions[k][h]
        BY <2>1, <4>1
      <4>3. j \in 1 .. Len(versions[l])
        BY <3>3, <4>1 DEF n
      <4>4. \A h \in 1 .. j : versions'[l][h] = versions[l][h]
        BY <3>3, <4>2
      <4> QED
        BY <3>1, <4>3, <4>4
    <3>4. CASE l = k /\ j = n + 1 /\ i # n + 1
      <4>1. i \in 1 .. n /\ n \in 1 .. n
        BY <2>1, <3>4
      <4>2. a = versions[k][i][u] /\ a \in Objects
        BY <1>1, <2>1, <3>4, <4>1 DEF n, Shapes
      <4>3. Earlier(k, u, a, Now(k)[u])
        BY <2>2, <4>1, <4>2 DEF VersionsOK, n
      <4> QED
        BY <2>4, <3>4, <4>2, <4>3
    <3>5. CASE l = k /\ j = n + 1 /\ i = n + 1
      BY <2>5, <3>5
    <3> QED
      BY <3>2, <3>3, <3>4, <3>5
  <2>7. \A l \in Kinds, u \in Sides, a \in Objects : Seen(l, u, a) => Seen(l, u, a)'
    <3> SUFFICES ASSUME NEW l \in Kinds, NEW u \in Sides, NEW a \in Objects, Seen(l, u, a),
                        NEW j \in 1 .. Len(versions'[l]), NEW b, b = versions'[l][j][u]
                 PROVE  Earlier(l, u, a, b)'
      BY NextSeen
    <3>1. CASE l # k \/ j # n + 1
      <4>1. j \in 1 .. Len(versions[l]) /\ b = versions[l][j][u]
        BY <2>1, <3>1 DEF n
      <4> QED
        BY <1>1, <1>2, <4>1 DEF Seen, Shapes
    <3>2. CASE l = k /\ j = n + 1
      <4>1. Earlier(k, u, a, Now(k)[u])
        BY <2>1, <2>2, <3>2 DEF Seen, n
      <4> QED
        BY <2>4, <3>2, <4>1
    <3> QED
      BY <3>1, <3>2
  <2>8. \A l \in Kinds \ meddled' : Now(l)[Copy].val \in Nat =>
          /\ Now(l)'[Copy].val \in Nat
          /\ l = "Secret" => Now(l)[Copy].val <= Now(l)'[Copy].val
    <3> SUFFICES ASSUME NEW l \in Kinds \ meddled', Now(l)[Copy].val \in Nat
                 PROVE  /\ Now(l)'[Copy].val \in Nat
                        /\ l = "Secret" => Now(l)[Copy].val <= Now(l)'[Copy].val
      OBVIOUS
    <3>1. CASE l # k \/ Copy # w
      <4>1. Now(l)'[Copy] = Now(l)[Copy]
        BY <1>3, <2>1, <2>2, <3>1
      <4> QED
        BY <4>1
    <3>2. CASE l = k /\ Copy = w
      <4>1. Now(l)'[Copy].val = v
        BY <2>1, <2>2, <3>2 DEF new
      <4>2. Earlier(k, w, Now(k)[w], Now(k)[w])
        <5>1. n \in 1 .. Len(versions[k]) /\ n \in 1 .. n
          BY <2>1 DEF n
        <5>2. Earlier(k, w, versions[k][n][w], versions[k][n][w])
          BY <5>1 DEF VersionsOK
        <5> QED
          BY <2>2, <5>2
      <4>3. Now(k)[w].val <= made[k] /\ made[k] \in Nat
        BY <3>2, <4>2 DEF Earlier, Grows
      <4>4. v \in Nat /\ Now(k)[w].val \in Nat
        BY <3>2 DEF Fitting
      <4>5. k = "Secret" => Now(k)[w].val <= v
        BY <4>3, <4>4 DEF Fitting
      <4> QED
        BY <3>2, <4>1, <4>4, <4>5
    <3> QED
      BY <3>1, <3>2
  <2>9. ASSUME ~home, k = "Secret", NEW x, x \in Nat => x <= made[k],
               x \in Nat /\ Now(k).source.val \in Nat => x <= Now(k).source.val
        PROVE  LET key == versions'[k][n + 1].source.val
               IN  x \in Nat /\ key \in Nat => x <= key
    <3>1. CASE w = "source"
      <4>1. versions'[k][n + 1].source.val = v /\ w # Copy
        BY <2>1, <2>9, <3>1 DEF new, Copy
      <4>2. made[k] \in Nat
        BY DEF Grows
      <4> QED
        BY <2>9, <4>1, <4>2 DEF Fitting
    <3>2. CASE w # "source"
      BY <2>1, <2>9, <3>2 DEF Sides
    <3> QED
      BY <3>1, <3>2
  <2>10. ASSUME ~home, k = "Secret", NEW x, x \in Nat => x <= made[k],
                NEW i \in 1 .. n, AtMostSources(x, i)
         PROVE  AtMostSources(x, i)'
    <3>1. x \in Nat /\ Now(k).source.val \in Nat => x <= Now(k).source.val
      <4>1. n \in i .. n
        BY <2>1
      <4> QED
        BY <2>2, <2>10, <4>1 DEF AtMostSources, n
    <3> SUFFICES ASSUME NEW j \in i .. Len(versions'[k])
                 PROVE  LET key == versions'[k][j].source.val
                        IN  x \in Nat /\ key \in Nat => x <= key
      BY <2>10 DEF AtMostSources
    <3>2. CASE j = n + 1
      BY <2>9, <2>10, <3>1, <3>2
    <3>3. CASE j # n + 1
      <4>1. j \in i .. n /\ j \in 1 .. n
        BY <2>1, <3>3
      <4>2. versions'[k][j] = versions[k][j]
        BY <2>1, <4>1
      <4> QED
        BY <2>10, <4>1, <4>2 DEF AtMostSources, n
    <3> QED
      BY <3>2, <3>3
  <2>11. ASSUME ~home, NEW x, x \in Nat => x <= made["Secret"], AtMostSources(x, 1)
         PROVE  AtMostSources(x, 1)'
    <3>1. CASE k # "Secret"
      BY <2>1, <2>11, <3>1 DEF AtMostSources, Kinds
    <3>2. CASE k = "Secret"
      BY <2>1, <2>10, <2>11, <3>2
    <3> QED
      BY <3>1, <3>2
  <2>12. CopiesOK'
    <3> SUFFICES ASSUME ~home, NEW i \in 1 .. Len(versions'["Secret"]), NEW x,
                        x = versions'["Secret"][i]["copy"].val
                 PROVE  AtMostSources(x, i)'
      BY DEF CopiesOK, Grows, AtMostSources
    <3>1. CASE k # "Secret"
      BY <2>1, <3>1 DEF AtMostSources, CopiesOK, Kinds
    <3>2. CASE k = "Secret" /\ i # n + 1
      <4>1. i \in 1 .. n /\ x = versions[k][i]["copy"].val
        BY <2>1, <3>2
      <4>2. Earlier(k, "copy", versions[k][i]["copy"], versions[k][i]["copy"])
        BY <2>1, <4>1 DEF VersionsOK, Sides, n
      <4>3. x \in Nat => x <= made[k]
        BY <4>1, <4>2 DEF Earlier
      <4>4. AtMostSources(x, i)
        BY <3>2, <4>1 DEF CopiesOK, n
      <4> QED
        BY <2>10, <3>2, <4>1, <4>3, <4>4
    <3>3. CASE k = "Secret" /\ i = n + 1
      <4> DEFINE key == versions'[k][n + 1].source.val
      <4>1. CASE w = "source"
        <5>1. x = Now(k)["copy"].val
          BY <2>1, <3>3, <4>1 DEF Sides
        <5>2. /\ Earlier(k, "copy", Now(k)["copy"], Now(k)["copy"])
              /\ AtMostSources(x, n)
          BY <2>1, <2>2, <3>3, <5>1 DEF VersionsOK, CopiesOK, Sides, n
        <5>3. /\ x \in Nat => x <= made[k]
              /\ x \in Nat /\ Now(k).source.val \in Nat => x <= Now(k).source.val
          BY <2>1, <2>2, <3>3, <5>1, <5>2 DEF Earlier, AtMostSources, n
        <5>4. x \in Nat /\ key \in Nat => x <= key
          BY <2>9, <3>3, <5>3
        <5> QED
          BY <2>1, <3>3, <5>4 DEF AtMostSources
      <4>2. CASE w = "copy"
        <5>1. x = v /\ key = Now(k).source.val
          BY <2>1, <3>3, <4>2 DEF Sides, new
        <5>2. x \in Nat /\ key \in Nat => x <= key
          BY <3>3, <4>2, <5>1 DEF Fitting
        <5> QED
          BY <2>1, <3>3, <5>2 DEF AtMostSources
      <4> QED
        BY <4>1, <4>2 DEF Sides
    <3> QED
      BY <3>1, <3>2, <3>3
  <2> QED
    BY <1>2, <2>6, <2>7, <2>8, <2>11, <2>12 DEF Onward, Grows
<1> QED
  BY <1>4, <1>5 DEF Put

\* What the step leaves where it wrote.
LEMMA PutNow ==
    ASSUME TypeOK, TypeOK', NEW k \in Kinds, NEW w \in Sides, NEW v \in Content(k),
           Put(k, w, v)
    PROVE  /\ Now(k)'[w].val = v
           /\ \A l \in Kinds, u \in Sides : l # k \/ u # w => Now(l)'[u] = Now(l)[u]
<1>1. Shapes /\ Shapes'
  BY Shape, NextShape
<1>2. CASE Now(k)[w].val = v
  <2>1. UNCHANGED versions
    BY <1>2 DEF Put
  <2> QED
    BY <1>2, <2>1 DEF Now
<1>3. CASE Now(k)[w].val # v
  <2>1. /\ Len(versions'[k]) = Len(versions[k]) + 1
        /\ versions'[k][Len(versions[k]) + 1][w] = [rv |-> Now(k)[w].rv + 1, val |-> v]
        /\ \A u \in Sides \ {w} : versions'[k][Len(versions[k]) + 1][u] = Now(k)[u]
        /\ \A l \in Kinds \ {k} : versions'[l] = versions[l]
    BY <1>3, PutAppends
  <2>2. /\ Now(k)' = versions'[k][Len(versions[k]) + 1]
        /\ \A l \in Kinds \ {k} : Now(l)' = Now(l)
    BY <1>1, <2>1 DEF Shapes
  <2> QED
    BY <2>1, <2>2
<1> QED
  BY <1>2, <1>3

LEMMA StillOnward ==
    ASSUME TypeOK, VersionsOK, CopiesOK, TypeOK', UNCHANGED <<home, made, meddled, versions>>
    PROVE  Onward
<1>1. \A k \in Kinds : Len(versions[k]) \in Nat \ {0}
  BY Shape DEF Shapes
<1>2. \A k \in Kinds : 0 \in 0 .. Len(versions[k]) - 1 /\ Dropped(k, 0)
  BY <1>1 DEF Dropped
<1> QED
  BY <1>2, DropOnward

-----------------------------------------------------------------------------
(* What a step does to the requests.                                       *)

\* A request that does not take the step keeps what it has read.
LEMMA RequestStays ==
    ASSUME TypeOK, Onward, NEW r \in Request, RequestOK(r)
    PROVE  RequestOK(r)'
<1>1. /\ "Secret" \in Kinds /\ "ConfigMap" \in Kinds /\ "source" \in Sides
      /\ Copy' = Copy /\ Copy \in Sides /\ home' = home /\ meddled \subseteq meddled'
  BY CopySide DEF Kinds, Sides, Copy, Onward
<1>2. /\ r.since[1] \in Objects /\ r.since[2] \in Objects /\ r.copy \in Objects
      /\ r.copy.val \in Content("Secret") \cup Content("ConfigMap")
  BY DEF Request, Objects, Object
<1>3. \A k \in Kinds, w \in Sides, a \in Objects : Seen(k, w, a) => Seen(k, w, a)'
  BY DEF Onward
<1>4. SinceOK(r)'
  BY <1>1, <1>2, <1>3 DEF RequestOK, SinceOK
<1>5. CopyOK(r)'
  <2>1. r.pc \in {"source", "writeKey"} => Seen("Secret", Copy, r.copy)'
    BY <1>1, <1>2, <1>3 DEF RequestOK, CopyOK
  <2>2. ASSUME r.pc = "source", ~home
        PROVE  AtMostSources(r.copy.val, 1)'
    <3>1. Earlier("Secret", Copy, r.copy, versions["Secret"][1][Copy])
      BY <1>1, <2>2, Shape DEF RequestOK, CopyOK, Seen, Shapes
    <3> QED
      BY <1>2, <2>2, <3>1 DEF RequestOK, CopyOK, Earlier, Onward
  <2> QED
    BY <1>1, <2>1, <2>2 DEF CopyOK
<1>6. ValueOK(r)'
  <2> SUFFICES ASSUME r.pc = "writeKey"
               PROVE  \E s \in Object("Secret") : ReadFrom(r, s)'
    BY <1>1 DEF RequestOK, ValueOK
  <2>1. PICK s \in Object("Secret") : ReadFrom(r, s)
    BY DEF RequestOK, ValueOK
  <2>2. s \in Objects
    BY DEF Objects
  <2>3. ReadFrom(r, s)'
    BY <1>1, <1>2, <1>3, <2>1, <2>2 DEF ReadFrom, Onward
  <2> QED
    BY <2>3
<1>7. HasKeyOK(r)'
  <2>1. TypeOK => Now("Secret")[Copy].val \in Content("Secret")
    BY <1>1, Shape DEF Shapes, Object
  <2> SUFFICES ASSUME r.pc \in {"map", "writeMap", "inject"}, "Secret" \notin meddled'
               PROVE  LET key == Now("Secret")'[Copy].val
                      IN  key \in Nat /\ (r.since[1].val \in Nat => r.since[1].val <= key)
    BY <1>1 DEF HasKeyOK
  <2> DEFINE old == Now("Secret")[Copy].val
             new == Now("Secret")'[Copy].val
  <2>2. old \in Nat /\ (r.since[1].val \in Nat => r.since[1].val <= old)
    BY <1>1 DEF RequestOK, HasKeyOK
  <2>3. new \in Nat /\ old <= new
    BY <1>1, <2>2 DEF Onward
  <2> HIDE DEF old, new
  <2>4. new \in Nat /\ (r.since[1].val \in Nat => r.since[1].val <= new)
    BY <2>2, <2>3
  <2> QED
    BY <2>4 DEF new
<1>8. MapOK(r)'
  BY <1>1 DEF RequestOK, MapOK, Onward
<1> QED
  BY <1>4, <1>5, <1>6, <1>7, <1>8 DEF RequestOK

LEMMA NoRequestOK == RequestOK(NoRequest)'
BY DEF RequestOK, SinceOK, CopyOK, ValueOK, HasKeyOK, MapOK, NoRequest

\* Reading a formula about the next requests one request at a time.
LEMMA NextRequest ==
    ASSUME NEW p \in Pods, NEW r, r = req'[p], RequestOK(r)'
    PROVE  RequestOK(req[p])'
<1>1. SinceOK(req[p])'
  BY DEF RequestOK, SinceOK, Seen, Earlier
<1>2. CopyOK(req[p])'
  BY DEF RequestOK, CopyOK, Seen, Earlier, AtMostSources
<1>3. ValueOK(req[p])'
  BY DEF RequestOK, ValueOK, ReadFrom, Seen, Earlier
<1>4. HasKeyOK(req[p])' /\ MapOK(req[p])'
  BY DEF RequestOK, HasKeyOK, MapOK
<1> QED
  BY <1>1, <1>2, <1>3, <1>4 DEF RequestOK

LEMMA RequestsStay ==
    ASSUME TypeOK, RequestsOK, Onward, NEW p \in Pods, req'[p] = req[p]
    PROVE  RequestOK(req[p])'
<1>1. PICK r : r = req[p]
  OBVIOUS
<1>2. r \in Request /\ RequestOK(r)
  BY <1>1 DEF TypeOK, RequestsOK
<1>3. RequestOK(r)'
  BY <1>2, RequestStays
<1> QED
  BY <1>1, <1>3, NextRequest

\* The step of one request.
LEMMA OneRequest ==
    ASSUME TypeOK, RequestsOK, Onward, NEW p \in Pods, NEW r, Go(p, r), RequestOK(r)'
    PROVE  RequestsOK'
<1> SUFFICES ASSUME NEW q \in Pods PROVE RequestOK(req[q])'
  BY DEF RequestsOK
<1>1. req'[p] = r /\ (q # p => req'[q] = req[q])
  BY DEF TypeOK, Go
<1>2. CASE q # p
  BY <1>1, <1>2, RequestsStay
<1>3. CASE q = p
  BY <1>1, <1>3, NextRequest
<1> QED
  BY <1>2, <1>3

Kept == Onward /\ RequestsOK'

\* The answers without a write.
LEMMA AnswerKeeps ==
    ASSUME IInv, TypeOK', NEW p \in Pods, Onward,
           \/ Deny(p) \/ Allow(p)
           \/ \E how \in Injected : Patch(p, how)
    PROVE  Kept
<1>1. Go(p, NoRequest)
  BY DEF Deny, Allow, Patch
<1>2. RequestsOK'
  BY <1>1, OneRequest, NoRequestOK DEF IInv
<1> QED
  BY <1>2 DEF Kept, IInv

\* A request goes on.
LEMMA GoKeeps ==
    ASSUME IInv, TypeOK', NEW p \in Pods, Onward, NEW r, Go(p, r), RequestOK(r)'
    PROVE  Kept
BY OneRequest DEF Kept, IInv

\* What is read from a cache is not newer than what is there.
LEMMA CacheSeen ==
    ASSUME IInv, NEW k \in Kinds, NEW w \in Sides
    PROVE  /\ Seen(k, w, Cached(k)[w]) /\ Earlier(k, w, Cached(k)[w], Now(k)[w])
           /\ Earlier(k, w, Now(k)[w], Now(k)[w])
           /\ \A a : Seen(k, w, a) => /\ Earlier(k, w, a, Cached(k)[w])
                                      /\ Earlier(k, w, a, Now(k)[w])
<1>1. /\ Len(versions[k]) \in Nat \ {0}
      /\ Now(k) = versions[k][Len(versions[k])] /\ Cached(k) = versions[k][1]
  BY Shape DEF IInv, Shapes
<1>2. Seen(k, w, Cached(k)[w]) /\ Earlier(k, w, Now(k)[w], Now(k)[w])
  BY <1>1 DEF IInv, VersionsOK, Seen
<1> QED
  BY <1>1, <1>2 DEF Seen

LEMMA BeginKeeps ==
    ASSUME IInv, TypeOK', NEW p \in Pods, Begin(p)
    PROVE  Kept
<1>1. Onward /\ UNCHANGED <<home, made, meddled, versions>>
  BY StillOnward DEF IInv, Begin, world
<1>2. CASE Deny(p) \/ Allow(p)
  BY <1>1, <1>2, AnswerKeeps
<1>3. CASE Go(p, Found(p)) /\ UNCHANGED pod
  <2>1. PICK r : r = Found(p)
    OBVIOUS
  <2>2. /\ r.pc = "copy" /\ r.since[1] = Cached("Secret").source
        /\ r.since[2] = Cached("ConfigMap").source
        /\ r.config \in {NoObject, r.since[2].val}
    BY <2>1 DEF Found, NoRequest, Views
  <2>3. Seen("Secret", "source", r.since[1]) /\ Seen("ConfigMap", "source", r.since[2])
    BY <2>2, CacheSeen DEF Kinds, Sides
  <2>4. RequestOK(r)
    BY <2>2, <2>3 DEF RequestOK, SinceOK, CopyOK, ValueOK, HasKeyOK, MapOK
  <2>5. r \in Request
    BY <2>1, RequestTypes DEF IInv
  <2>6. RequestOK(r)'
    BY <1>1, <2>4, <2>5, RequestStays DEF IInv
  <2> QED
    BY <1>1, <1>3, <2>1, <2>6, GoKeeps
<1> QED
  BY <1>2, <1>3 DEF Begin

\* What is known of a request that is being handled.
LEMMA Handled ==
    ASSUME IInv, NEW p \in Pods, req[p].pc # "idle"
    PROVE  /\ req[p] \in Request /\ RequestOK(req[p])
           /\ Seen("Secret", "source", req[p].since[1])
           /\ Seen("ConfigMap", "source", req[p].since[2])
           /\ req[p].config \in {NoObject, req[p].since[2].val}
BY DEF IInv, TypeOK, RequestsOK, RequestOK, SinceOK

LEMMA ReadCopyKeeps ==
    ASSUME IInv, TypeOK', NEW p \in Pods, ReadCopy(p)
    PROVE  Kept
<1>1. Onward /\ UNCHANGED <<home, made, meddled, versions, pod>>
  BY StillOnward DEF IInv, ReadCopy, world
<1>2. PICK r : r = [req[p] EXCEPT !.pc = "source", !.copy = Cached("Secret")[Copy]]
  OBVIOUS
<1>3. /\ req[p].pc = "copy" /\ req[p] \in Request
      /\ Seen("Secret", "source", req[p].since[1])
      /\ Seen("ConfigMap", "source", req[p].since[2])
      /\ req[p].config \in {NoObject, req[p].since[2].val}
  BY Handled DEF ReadCopy
<1>4. /\ r.pc = "source" /\ r.copy = Cached("Secret")[Copy] /\ r.since = req[p].since
      /\ r.config = req[p].config
  BY <1>2, <1>3 DEF Request
<1>5. r \in Request
  BY <1>2, RequestTypes DEF IInv, Steps
<1>6. Seen("Secret", Copy, r.copy)
  BY <1>4, CopySide, CacheSeen DEF Kinds
<1>7. ~home => AtMostSources(r.copy.val, 1)
  <2> SUFFICES ASSUME ~home PROVE AtMostSources(r.copy.val, 1)
    OBVIOUS
  <2>1. r.copy = versions["Secret"][1]["copy"] /\ 1 \in 1 .. Len(versions["Secret"])
    BY <1>4, Shape DEF IInv, Shapes, Kinds, Copy
  <2> QED
    BY <2>1 DEF IInv, CopiesOK
<1>8. RequestOK(r)
  BY <1>3, <1>4, <1>6, <1>7 DEF RequestOK, SinceOK, CopyOK, ValueOK, HasKeyOK, MapOK
<1>9. RequestOK(r)'
  BY <1>1, <1>5, <1>8, RequestStays DEF IInv
<1> QED
  BY <1>1, <1>2, <1>3, <1>9, GoKeeps DEF ReadCopy

\* The request that has seen to its key.
LEMMA WrittenFields ==
    ASSUME NEW p \in Pods, req[p] \in Request, NEW pc
    PROVE  /\ Written(p, pc).pc = pc /\ Written(p, pc).since = req[p].since
           /\ Written(p, pc).config = req[p].config
BY DEF Written, Request

LEMMA ReadSourceKeeps ==
    ASSUME IInv, TypeOK', NEW p \in Pods, ReadSource(p)
    PROVE  Kept
<1> DEFINE key == Cached("Secret").source.val
<1>1. Onward /\ UNCHANGED <<home, made, meddled, versions>>
  BY StillOnward DEF IInv, ReadSource, world
<1>2. /\ req[p].pc = "source" /\ req[p] \in Request
      /\ Seen("Secret", "source", req[p].since[1])
      /\ Seen("ConfigMap", "source", req[p].since[2])
      /\ req[p].config \in {NoObject, req[p].since[2].val}
      /\ Seen("Secret", Copy, req[p].copy)
      /\ ~home => AtMostSources(req[p].copy.val, 1)
  BY Handled DEF ReadSource, RequestOK, CopyOK
<1>3. CASE key \in {NoObject, NoEntry}
  BY <1>1, <1>2, <1>3, AnswerKeeps DEF ReadSource
<1>4. CASE key \notin {NoObject, NoEntry}
  <2>1. /\ "Secret" \in Kinds /\ "source" \in Sides /\ Copy \in Sides
        /\ Cached("Secret").source \in Object("Secret")
    BY CopySide, Shape DEF Kinds, Sides, IInv, Shapes
  <2>2. key \in 1 .. MaxKeys /\ key \in Nat
    BY <1>4, <2>1, BoundsAssumption DEF Object, Content
  <2>3. /\ Earlier("Secret", "source", req[p].since[1], Cached("Secret").source)
        /\ Earlier("Secret", Copy, req[p].copy, Cached("Secret")[Copy])
        /\ Earlier("Secret", Copy, req[p].copy, Now("Secret")[Copy])
        /\ Seen("Secret", "source", Cached("Secret").source)
    BY <1>2, <2>1, CacheSeen
  <2>4. CASE req[p].copy.val = key
    <3>1. PICK r : r = Copied(p)
      OBVIOUS
    <3>2. /\ r.pc = IF req[p].config = NoObject THEN "inject" ELSE "map"
          /\ r.since = req[p].since /\ r.config = req[p].config
      BY <1>2, <3>1, WrittenFields DEF Copied
    <3>3. HasKeyOK(r)
      BY <2>2, <2>3, <2>4, <3>2 DEF HasKeyOK, Earlier
    <3>4. RequestOK(r)
      BY <1>2, <3>2, <3>3 DEF RequestOK, SinceOK, CopyOK, ValueOK, MapOK
    <3>5. r \in Request
      BY <3>1, RequestTypes DEF IInv
    <3>6. RequestOK(r)'
      BY <1>1, <3>4, <3>5, RequestStays DEF IInv
    <3> QED
      BY <1>1, <1>2, <1>4, <2>4, <3>1, <3>6, GoKeeps DEF ReadSource
  <2>5. CASE req[p].copy.val # key
    <3>1. PICK r : r = [req[p] EXCEPT !.pc = "writeKey", !.val = key]
      OBVIOUS
    <3>2. /\ r.pc = "writeKey" /\ r.val = key /\ r.copy = req[p].copy
          /\ r.since = req[p].since /\ r.config = req[p].config
      BY <1>2, <3>1 DEF Request
    <3>3. ~home /\ r.copy.val \in Nat => r.copy.val <= r.val
      <4>1. Cached("Secret") = versions["Secret"][1] /\ 1 \in 1 .. Len(versions["Secret"])
        BY <2>1, Shape DEF IInv, Shapes
      <4> QED
        BY <1>2, <2>2, <3>2, <4>1 DEF AtMostSources
    <3>4. ReadFrom(r, Cached("Secret").source)
      <4>1. home => Earlier("Secret", "source", r.copy, Cached("Secret").source)
        BY <2>3, <3>2 DEF Copy
      <4> QED
        BY <2>3, <3>2, <4>1 DEF ReadFrom
    <3>5. ValueOK(r)
      BY <2>1, <2>2, <2>5, <3>2, <3>3, <3>4 DEF ValueOK
    <3>6. RequestOK(r)
      BY <1>2, <3>2, <3>5 DEF RequestOK, SinceOK, CopyOK, HasKeyOK, MapOK
    <3>7. r \in Request
      BY <2>1, <3>1, RequestTypes DEF IInv, Steps, Object
    <3>8. RequestOK(r)'
      BY <1>1, <3>6, <3>7, RequestStays DEF IInv
    <3> QED
      BY <1>1, <1>2, <1>4, <2>5, <3>1, <3>8, GoKeeps DEF ReadSource
  <2> QED
    BY <2>4, <2>5
<1> QED
  BY <1>3, <1>4

\* A key that is stored fits: in the pods' namespace it is no older than the
\* copy it replaces, and where the copy is the source nothing is replaced.
LEMMA KeyFits ==
    ASSUME IInv, NEW p \in Pods, req[p].pc = "writeKey", UNCHANGED <<made, meddled>>,
           Accepts("Secret", req[p].copy)
    PROVE  /\ Fitting("Secret", Copy, req[p].val)
           /\ home => Now("Secret").source.val = NoObject
<1> DEFINE k == "Secret"
           r == req[p]
<1>1. /\ r.val \in 1 .. MaxKeys /\ r.val \in Nat /\ r.copy.val # r.val
      /\ ~home /\ r.copy.val \in Nat => r.copy.val <= r.val
      /\ r \in Request /\ Seen(k, Copy, r.copy)
  BY Handled, BoundsAssumption DEF RequestOK, ValueOK, CopyOK
<1>2. PICK s \in Object(k) : ReadFrom(r, s)
  BY Handled DEF RequestOK, ValueOK
<1>3. /\ k \in Kinds /\ "source" \in Sides /\ Copy \in Sides /\ k = "Secret"
      /\ Now(k)[Copy] \in Object(k) /\ Now(k)["source"] \in Object(k)
  BY CopySide, Shape DEF Kinds, Sides, IInv, Shapes
<1>4. /\ Earlier(k, "source", s, Now(k)["source"]) /\ s.val = r.val
      /\ Earlier(k, Copy, r.copy, Now(k)[Copy])
      /\ home => Earlier(k, "source", r.copy, s)
  BY <1>1, <1>2, <1>3, CacheSeen DEF ReadFrom
<1>5. r.copy.rv \in Nat /\ s.rv \in Nat /\ Now(k)["source"].rv \in Nat
  BY <1>1, <1>2, <1>3 DEF Request, Object
<1>6. Now(k)[Copy].val = NoObject \/ Now(k)[Copy] = r.copy
  BY <1>4 DEF Accepts, Earlier
<1>7. home => Now(k).source.val = NoObject
  <2> SUFFICES ASSUME home, Now(k)["source"] = r.copy PROVE FALSE
    BY <1>6 DEF Copy
  <2>1. r.copy # s
    BY <1>1, <1>4
  <2>2. r.copy.rv <= s.rv /\ (r.copy.rv = s.rv => r.copy = s) /\ s.rv <= r.copy.rv
    BY <1>4 DEF Earlier
  <2> QED
    BY <1>5, <2>1, <2>2
<1>8. Now(k)[Copy].val \in Nat => Now(k)[Copy].val <= r.val
  <2>1. CASE Now(k)[Copy].val = NoObject
    BY <2>1, ObjectAssumption
  <2>2. CASE Now(k)[Copy] = r.copy /\ ~home
    BY <1>1, <2>2
  <2>3. CASE home
    BY <1>7, <2>3, ObjectAssumption DEF Copy
  <2> QED
    BY <1>6, <2>1, <2>2, <2>3
<1>9. Now(k).source.val \in Nat /\ ~home => r.val <= Now(k).source.val
  BY <1>1, <1>4 DEF Earlier
<1>10. r.val <= made'[k]
  BY <1>1, <1>4 DEF Earlier
<1> QED
  BY <1>1, <1>7, <1>8, <1>9, <1>10 DEF Fitting

LEMMA WriteKeyKeeps ==
    ASSUME IInv, TypeOK', NEW p \in Pods, WriteKey(p)
    PROVE  Kept
<1>1. /\ req[p].pc = "writeKey" /\ req[p] \in Request
      /\ Seen("Secret", "source", req[p].since[1])
      /\ Seen("ConfigMap", "source", req[p].since[2])
      /\ req[p].config \in {NoObject, req[p].since[2].val}
      /\ req[p].val \in 1 .. MaxKeys /\ req[p].val \in Nat
      /\ UNCHANGED <<home, made, meddled>>
  BY Handled, BoundsAssumption DEF WriteKey, Write, world, RequestOK, ValueOK
<1>2. /\ "Secret" \in Kinds /\ Copy \in Sides /\ req[p].val \in Content("Secret")
  BY <1>1, CopySide DEF Kinds, Content
<1>3. ASSUME Accepts("Secret", req[p].copy), Put("Secret", Copy, req[p].val)
      PROVE  Onward
  <2>1. Grows
    BY <1>1 DEF Grows, IInv, TypeOK
  <2> QED
    BY <1>1, <1>2, <1>3, <2>1, KeyFits, PutOnward DEF IInv
<1>4. CASE UNCHANGED versions /\ Deny(p)
  BY <1>1, <1>4, StillOnward, AnswerKeeps DEF IInv
<1>5. CASE Accepts("Secret", req[p].copy) /\ Put("Secret", Copy, req[p].val) /\ Deny(p)
  BY <1>1, <1>3, <1>5, AnswerKeeps
<1>6. CASE /\ Accepts("Secret", req[p].copy) /\ Put("Secret", Copy, req[p].val)
           /\ Go(p, Copied(p))
  <2>1. PICK r : r = Copied(p)
    OBVIOUS
  <2>2. /\ r.pc = IF req[p].config = NoObject THEN "inject" ELSE "map"
        /\ r.since = req[p].since /\ r.config = req[p].config
    BY <1>1, <2>1, WrittenFields DEF Copied
  <2>3. req[p].since[1].val \in Nat /\ "Secret" \notin meddled
          => req[p].since[1].val <= req[p].val
    <3>1. PICK s \in Object("Secret") : ReadFrom(req[p], s)
      BY <1>1, Handled DEF RequestOK, ValueOK
    <3>2. Earlier("Secret", "source", req[p].since[1], s) /\ s.val = req[p].val
      BY <3>1 DEF ReadFrom
    <3> QED
      BY <1>1, <3>2 DEF Earlier
  <2>4. Now("Secret")'[Copy].val = req[p].val
    BY <1>2, <1>6, PutNow DEF IInv
  <2>5. HasKeyOK(r)'
    <3>1. Copy' = Copy
      BY <1>1 DEF Copy
    <3> QED
      BY <1>1, <2>2, <2>3, <2>4, <3>1 DEF HasKeyOK
  <2>6. Seen("Secret", "source", r.since[1])' /\ Seen("ConfigMap", "source", r.since[2])'
    <3>1. r.since[1] \in Objects /\ r.since[2] \in Objects
      BY <1>1, <2>2 DEF Request, Objects
    <3> QED
      BY <1>1, <1>3, <1>6, <2>2, <3>1 DEF Onward, Kinds, Sides
  <2>7. RequestOK(r)'
    BY <1>1, <2>2, <2>5, <2>6 DEF RequestOK, SinceOK, CopyOK, ValueOK, MapOK
  <2> QED
    BY <1>1, <1>3, <1>6, <2>1, <2>7, GoKeeps
<1> QED
  BY <1>4, <1>5, <1>6 DEF WriteKey, Write

LEMMA ReadMapKeeps ==
    ASSUME IInv, TypeOK', NEW p \in Pods, ReadMap(p)
    PROVE  Kept
<1>1. Onward /\ UNCHANGED <<home, made, meddled, versions, pod>>
  BY StillOnward DEF IInv, ReadMap, world
<1>2. /\ req[p].pc = "map" /\ req[p] \in Request
      /\ RequestOK(req[p]) /\ SinceOK(req[p]) /\ HasKeyOK(req[p]) /\ req[p].config # NoObject
  BY Handled DEF ReadMap, RequestOK, MapOK
<1>3. ASSUME NEW r \in Request, r.since = req[p].since, r.config = req[p].config,
             r.pc \in {"writeMap", "inject"}, MapOK(r), Go(p, r)
      PROVE  Kept
  <2>1. RequestOK(r)
    BY <1>2, <1>3 DEF RequestOK, SinceOK, CopyOK, ValueOK, HasKeyOK
  <2>2. RequestOK(r)'
    BY <1>1, <2>1, RequestStays DEF IInv
  <2> QED
    BY <1>1, <1>2, <1>3, <2>2, GoKeeps
<1>4. CASE Cached("ConfigMap")[Copy].val \in {NoObject, NoEntry}
  <2>1. PICK r : r = [req[p] EXCEPT !.pc = "writeMap", !.val = req[p].config,
                                    !.copy = Cached("ConfigMap")[Copy]]
    OBVIOUS
  <2>2. /\ r.pc = "writeMap" /\ r.since = req[p].since /\ r.config = req[p].config
        /\ r.val = req[p].config /\ req[p].config \in Content("ConfigMap")
    BY <1>2, <2>1 DEF Request
  <2>3. r \in Request /\ MapOK(r)
    BY <1>2, <2>1, <2>2, RequestTypes DEF IInv, MapOK, Steps
  <2> QED
    BY <1>3, <1>4, <2>1, <2>2, <2>3 DEF ReadMap
<1>5. CASE Cached("ConfigMap")[Copy].val \notin {NoObject, NoEntry}
  <2>1. PICK r : r = Written(p, "inject")
    OBVIOUS
  <2>2. r.pc = "inject" /\ r.since = req[p].since /\ r.config = req[p].config
    BY <1>2, <2>1, WrittenFields
  <2>3. "ConfigMap" \notin meddled => Now("ConfigMap")[Copy].val \in Nat
    <3>1. /\ Cached("ConfigMap")[Copy] \in Object("ConfigMap")
          /\ Earlier("ConfigMap", Copy, Cached("ConfigMap")[Copy], Now("ConfigMap")[Copy])
      BY CopySide, CacheSeen, Shape DEF IInv, Shapes, Kinds
    <3>2. Cached("ConfigMap")[Copy].val \in Nat
      BY <1>5, <3>1, BoundsAssumption DEF Object, Content
    <3> QED
      BY <3>1, <3>2 DEF Earlier
  <2>4. r \in Request /\ MapOK(r)
    BY <2>1, <2>2, <2>3, RequestTypes DEF IInv, MapOK, Steps
  <2> QED
    BY <1>3, <1>5, <2>1, <2>2, <2>4 DEF ReadMap
<1> QED
  BY <1>4, <1>5

\* A serve config is stored as it was found.
LEMMA MapFits ==
    ASSUME IInv, NEW p \in Pods, req[p].pc = "writeMap", UNCHANGED <<made, meddled>>
    PROVE  Fitting("ConfigMap", Copy, req[p].val) /\ req[p].val \in Content("ConfigMap")
<1>1. /\ req[p].val = req[p].config /\ req[p].config \in Content("ConfigMap")
      /\ req[p].val = req[p].since[2].val /\ req[p].val # NoObject
      /\ Seen("ConfigMap", "source", req[p].since[2])
  BY Handled DEF RequestOK, MapOK, Request
<1>2. Earlier("ConfigMap", "source", req[p].since[2], Now("ConfigMap")["source"])
  BY <1>1, CacheSeen DEF Kinds, Sides
<1>3. req[p].val = NoEntry \/ req[p].val \in Nat
  BY <1>1, BoundsAssumption DEF Content
<1> QED
  BY <1>1, <1>2, <1>3 DEF Fitting, Earlier

LEMMA WriteMapKeeps ==
    ASSUME IInv, TypeOK', NEW p \in Pods, WriteMap(p)
    PROVE  Kept
<1>1. /\ req[p].pc = "writeMap" /\ req[p] \in Request
      /\ RequestOK(req[p]) /\ req[p].config # NoObject
      /\ UNCHANGED <<home, made, meddled>>
  BY Handled DEF WriteMap, Write, world, RequestOK, MapOK
<1>2. /\ "ConfigMap" \in Kinds /\ Copy \in Sides
      /\ req[p].val \in Content("ConfigMap") /\ Fitting("ConfigMap", Copy, req[p].val)
  BY <1>1, MapFits, CopySide DEF Kinds
<1>3. ASSUME Put("ConfigMap", Copy, req[p].val)
      PROVE  Onward
  <2>1. Grows
    BY <1>1 DEF Grows, IInv, TypeOK
  <2> QED
    BY <1>2, <1>3, <2>1, PutOnward DEF IInv
<1>4. CASE UNCHANGED versions /\ Deny(p)
  BY <1>1, <1>4, StillOnward, AnswerKeeps DEF IInv
<1>5. CASE Put("ConfigMap", Copy, req[p].val) /\ Deny(p)
  BY <1>1, <1>3, <1>5, AnswerKeeps
<1>6. CASE /\ Put("ConfigMap", Copy, req[p].val)
           /\ Go(p, Written(p, "inject"))
  <2>1. PICK q : q = req[p]
    OBVIOUS
  <2>2. PICK r : r = Written(p, "inject")
    OBVIOUS
  <2>3. r.pc = "inject" /\ r.since = q.since /\ r.config = q.config
    BY <1>1, <2>1, <2>2, WrittenFields
  <2>4. RequestOK(q)' /\ q.pc = "writeMap"
    BY <1>1, <1>3, <1>6, <2>1, RequestStays DEF IInv
  <2>5. Now("ConfigMap")'[Copy].val = req[p].val /\ Copy' = Copy
    BY <1>1, <1>2, <1>6, PutNow DEF IInv, Copy
  <2>6. MapOK(r)'
    <3>1. req[p].val \in Nat \/ "ConfigMap" \in meddled'
      BY <1>2 DEF Fitting
    <3> QED
      BY <2>3, <2>5, <3>1 DEF MapOK
  <2>7. RequestOK(r)'
    BY <2>3, <2>4, <2>6 DEF RequestOK, SinceOK, CopyOK, ValueOK, HasKeyOK
  <2> QED
    BY <1>1, <1>3, <1>6, <2>2, <2>7, GoKeeps
<1> QED
  BY <1>4, <1>5, <1>6 DEF WriteMap, Write

LEMMA InjectKeeps ==
    ASSUME IInv, TypeOK', NEW p \in Pods, Inject(p)
    PROVE  Kept
<1>1. Onward
  BY StillOnward DEF IInv, Inject, world
<1>2. \E how \in Injected : Patch(p, how)
  BY DEF Inject, Injected
<1> QED
  BY <1>1, <1>2, AnswerKeeps

\* Where no request takes a step.
LEMMA ElsewhereKeeps ==
    ASSUME IInv, TypeOK', Onward, UNCHANGED <<pod, req>>
    PROVE  Kept
<1>1. RequestsOK'
  <2> SUFFICES ASSUME NEW p \in Pods PROVE RequestOK(req[p])'
    BY DEF RequestsOK
  <2> QED
    BY RequestsStay DEF IInv
<1> QED
  BY <1>1 DEF Kept

LEMMA SyncDrops ==
    ASSUME IInv, TypeOK', NEW kind \in Kinds, Sync(kind)
    PROVE  Onward /\ \A k \in Kinds : Now(k)' = Now(k)
<1>1. ASSUME NEW k \in Kinds
      PROVE  \E d \in 0 .. Len(versions[k]) - 1 : Dropped(k, d)
  <2>1. /\ versions[k] \in Seq([Sides -> Object(k)]) /\ versions[k] # <<>>
        /\ DOMAIN versions = Kinds
    BY DEF IInv, TypeOK, Sides
  <2>2. Len(versions[k]) \in Nat \ {0}
    BY Shape DEF IInv, Shapes
  <2>3. CASE k = kind
    <3> DEFINE rest == Tail(versions[k])
    <3>1. versions'[k] = rest /\ Len(versions[k]) > 1
      BY <2>1, <2>3 DEF Sync
    <3>2. Len(rest) = Len(versions[k]) - 1 /\ \A j \in 1 .. Len(rest) : rest[j] = versions[k][j + 1]
      BY <2>1, HeadTailProperties
    <3> HIDE DEF rest
    <3>3. Dropped(k, 1)
      BY <3>1, <3>2 DEF Dropped
    <3> QED
      BY <2>2, <3>1, <3>3
  <2>4. CASE k # kind
    <3>1. versions'[k] = versions[k]
      BY <2>1, <2>4 DEF Sync
    <3>2. Dropped(k, 0) /\ 0 \in 0 .. Len(versions[k]) - 1
      BY <2>2, <3>1 DEF Dropped
    <3> QED
      BY <3>2
  <2> QED
    BY <2>3, <2>4
<1> QED
  BY <1>1, DropOnward DEF Sync, IInv, world

LEMMA RestartDrops ==
    ASSUME IInv, TypeOK', Restart
    PROVE  Onward /\ \A k \in Kinds : Now(k)' = Now(k)
<1>1. ASSUME NEW k \in Kinds
      PROVE  \E d \in 0 .. Len(versions[k]) - 1 : Dropped(k, d)
  <2>1. Len(versions[k]) \in Nat \ {0} /\ Now(k) = versions[k][Len(versions[k])]
    BY Shape DEF IInv, Shapes
  <2>2. versions'[k] = <<Now(k)>>
    BY DEF Restart
  <2>3. Len(<<Now(k)>>) = 1 /\ <<Now(k)>>[1] = Now(k)
    OBVIOUS
  <2>4. Dropped(k, Len(versions[k]) - 1)
    BY <2>1, <2>2, <2>3 DEF Dropped
  <2> QED
    BY <2>1, <2>4
<1> QED
  BY <1>1, DropOnward DEF Restart, IInv, world

LEMMA RestartKeeps ==
    ASSUME IInv, TypeOK', Restart
    PROVE  Kept
<1>1. Onward
  BY RestartDrops
<1>2. RequestsOK'
  <2> SUFFICES ASSUME NEW p \in Pods PROVE RequestOK(req[p])'
    BY DEF RequestsOK
  <2>1. req'[p] = NoRequest
    BY DEF Restart
  <2> QED
    BY <2>1, NoRequestOK, NextRequest
<1> QED
  BY <1>1, <1>2 DEF Kept

LEMMA StoreOnward ==
    ASSUME IInv, TypeOK', NEW kind \in Kinds, Store(kind)
    PROVE  /\ Onward /\ made'[kind] = made[kind] + 1 /\ made'[kind] \in Content(kind)
           /\ Now(kind)'.source.val = made'[kind]
           /\ \A l \in Kinds, u \in Sides : l # kind \/ u # "source" => Now(l)'[u] = Now(l)[u]
<1>1. /\ made \in [Kinds -> Nat] /\ made' = [made EXCEPT ![kind] = @ + 1]
      /\ UNCHANGED <<home, meddled>> /\ "source" \in Sides
  BY DEF IInv, TypeOK, Store, ElsewhereOnly, Sides
<1>2. made'[kind] = made[kind] + 1 /\ made'[kind] \in Content(kind) /\ made'[kind] \in Nat
  BY <1>1, BoundsAssumption DEF Store, Content, Kinds
<1>3. Grows
  BY <1>1 DEF Grows
<1>4. Fitting(kind, "source", made'[kind])
  BY <1>1, <1>2 DEF Fitting
<1>5. PICK v \in Content(kind) : v = made'[kind]
  BY <1>2
<1> QED
  BY <1>1, <1>2, <1>3, <1>4, <1>5, PutOnward, PutNow DEF IInv, Store

LEMMA MeddleOnward ==
    ASSUME IInv, TypeOK', NEW kind \in Kinds, NEW which \in Sides, NEW v \in {NoObject, NoEntry},
           Put(kind, which, v), meddled' = meddled \cup {kind}, UNCHANGED <<home, made>>
    PROVE  Onward
<1>1. Grows /\ v \in Content(kind) /\ Fitting(kind, which, v)
  BY ObjectAssumption DEF Grows, Content, Fitting, IInv, TypeOK
<1> QED
  BY <1>1, PutOnward DEF IInv

LEMMA NextKeeps ==
    IInv /\ [Next]_vars => IInv'
<1> SUFFICES ASSUME IInv, [Next]_vars PROVE IInv'
  OBVIOUS
<1>1. TypeOK'
  BY NextTypes DEF IInv, Types
<1> SUFFICES Kept
  BY <1>1 DEF Kept, Onward, IInv
<1>2. ASSUME NEW p \in Pods, Handle(p)
      PROVE  Kept
  BY <1>1, <1>2, BeginKeeps, ReadCopyKeeps, ReadSourceKeeps, WriteKeyKeeps, ReadMapKeeps,
     WriteMapKeeps, InjectKeeps DEF Handle
<1>3. ASSUME NEW p \in Pods, Timeout(p)
      PROVE  Kept
  BY <1>1, <1>3, StillOnward, AnswerKeeps DEF Timeout, world, IInv
<1>4. ASSUME NEW kind \in Kinds, Sync(kind)
      PROVE  Kept
  BY <1>1, <1>4, SyncDrops, ElsewhereKeeps DEF Sync
<1>5. ASSUME NEW kind \in Kinds, Store(kind)
      PROVE  Kept
  BY <1>1, <1>5, StoreOnward, ElsewhereKeeps DEF Store, ElsewhereOnly
<1>6. CASE NameConfig \/ TailnetReady \/ Reapply \/ UNCHANGED vars
  <2>1. UNCHANGED <<home, made, meddled, versions, pod, req>>
    BY <1>6 DEF NameConfig, TailnetReady, Reapply, ElsewhereOnly, vars
  <2> QED
    BY <1>1, <2>1, StillOnward, ElsewhereKeeps DEF IInv
<1>7. CASE Meddle
  BY <1>1, <1>7, MeddleOnward, ElsewhereKeeps DEF Meddle, ElsewhereOnly, Sides
<1>8. CASE Restart
  BY <1>1, <1>8, RestartKeeps
<1> QED
  BY <1>2, <1>3, <1>4, <1>5, <1>6, <1>7, <1>8 DEF Next

LEMMA InitInvariant == Init => IInv
<1> SUFFICES ASSUME Init PROVE IInv
  OBVIOUS
<1>1. \A k \in Kinds : [w \in {"source", "copy"} |-> Never] \in [Sides -> Object(k)]
  BY DEF Never, Object, Content, Sides
<1>2. TypeOK
  BY <1>1, NoRequestType, BoundsAssumption DEF Init, TypeOK, Sides, Kinds
<1>3. \A k \in Kinds : Len(versions[k]) = 1
                       /\ \A w \in Sides : versions[k][1][w] = Never
  BY DEF Init, Sides
<1>4. \A k \in Kinds, w \in Sides : Earlier(k, w, Never, Never)
  BY ObjectAssumption DEF Never, Earlier
<1>5. VersionsOK
  BY <1>3, <1>4 DEF VersionsOK
<1>6. CopiesOK
  BY <1>3, ObjectAssumption DEF CopiesOK, AtMostSources, Kinds, Sides, Never
<1>7. RequestsOK
  BY DEF Init, RequestsOK, RequestOK, SinceOK, CopyOK, ValueOK, HasKeyOK, MapOK,
         NoRequest
<1> QED
  BY <1>2, <1>5, <1>6, <1>7 DEF IInv

\* The inductive invariant holds in every state.
THEOREM Invariant == Spec => []IInv
BY InitInvariant, NextKeeps, PTL DEF Spec

\* Every variable keeps its type, among them the versions of each object and
\* the requests' reads.
THEOREM TypeCorrect == Spec => []TypeOK
<1>1. IInv => TypeOK
  BY DEF IInv
<1> QED
  BY <1>1, Invariant, PTL

-----------------------------------------------------------------------------
(* What a step may do to the objects, and to the pods.                     *)

\* Only these steps change an object as the API server has it.
LEMMA ObjectSteps ==
    ASSUME IInv, [Next]_vars
    PROVE  \/ UNCHANGED made /\ \A k \in Kinds : Now(k)' = Now(k)
           \/ \E kind \in Kinds : Store(kind)
           \/ \E kind \in Kinds, which \in Sides, v \in {NoObject, NoEntry} :
                 Now(kind)[which].val # NoObject /\ Put(kind, which, v) /\ UNCHANGED made
           \/ \E p \in Pods : /\ req[p].pc = "writeKey" /\ Accepts("Secret", req[p].copy)
                              /\ Put("Secret", Copy, req[p].val) /\ UNCHANGED <<made, meddled>>
           \/ \E p \in Pods : /\ req[p].pc = "writeMap" /\ Put("ConfigMap", Copy, req[p].val)
                              /\ UNCHANGED <<made, meddled>>
<1> DEFINE Same == UNCHANGED made /\ \A k \in Kinds : Now(k)' = Now(k)
<1>1. TypeOK'
  BY NextTypes DEF IInv, Types
<1>2. UNCHANGED <<made, versions>> => Same
  BY DEF Now
<1>3. ASSUME NEW p \in Pods, \/ Begin(p) \/ ReadCopy(p) \/ ReadSource(p) \/ ReadMap(p)
                             \/ Inject(p) \/ Timeout(p)
      PROVE  Same
  BY <1>2, <1>3 DEF Begin, ReadCopy, ReadSource, ReadMap, Inject, Timeout, world
<1>4. ASSUME NEW kind \in Kinds, Sync(kind)
      PROVE  Same
  BY <1>1, <1>4, SyncDrops DEF Sync, world
<1>5. Restart => Same
  BY <1>1, RestartDrops DEF Restart, world
<1>6. NameConfig \/ TailnetReady \/ Reapply \/ UNCHANGED vars => Same
  BY <1>2 DEF NameConfig, TailnetReady, Reapply, vars
<1>7. ASSUME NEW p \in Pods, WriteKey(p)
      PROVE  \/ Same
             \/ /\ req[p].pc = "writeKey" /\ Accepts("Secret", req[p].copy)
                /\ Put("Secret", Copy, req[p].val) /\ UNCHANGED <<made, meddled>>
  BY <1>2, <1>7 DEF WriteKey, Write, world
<1>8. ASSUME NEW p \in Pods, WriteMap(p)
      PROVE  \/ Same
             \/ /\ req[p].pc = "writeMap" /\ Put("ConfigMap", Copy, req[p].val)
                /\ UNCHANGED <<made, meddled>>
  BY <1>2, <1>8 DEF WriteMap, Write, world
<1>9. ASSUME Meddle
      PROVE  \E kind \in Kinds, which \in Sides, v \in {NoObject, NoEntry} :
                 Now(kind)[which].val # NoObject /\ Put(kind, which, v) /\ UNCHANGED made
  BY <1>9 DEF Meddle, Sides
<1> QED
  BY <1>3, <1>4, <1>5, <1>6, <1>7, <1>8, <1>9 DEF Next, Handle

\* What the changes leave of the source and of the copy.
LEMMA SourceSteps ==
    ASSUME IInv, [Next]_vars, NEW k \in Kinds
    PROVE  LET old == Now(k).source
               new == Now(k)'.source
           IN  \/ new = old /\ UNCHANGED made[k]
               \/ made'[k] = made[k] + 1 /\ made'[k] \in Content(k) /\ new.val = made'[k]
               \/ UNCHANGED made[k] /\ old.val # NoObject /\ new.val \in {NoObject, NoEntry}
               \/ /\ UNCHANGED made[k] /\ home /\ k = "Secret"
                  /\ old.val = NoObject
                  /\ \E p \in Pods : req[p].pc = "writeKey" /\ new.val = req[p].val
               \/ /\ UNCHANGED made[k] /\ home /\ k = "ConfigMap"
                  /\ \E p \in Pods : req[p].pc = "writeMap" /\ new.val = req[p].val
<1>1. TypeOK' /\ TypeOK /\ "source" \in Sides /\ Copy \in Sides
      /\ "Secret" \in Kinds /\ "ConfigMap" \in Kinds
  BY NextTypes, CopySide DEF IInv, Types, Sides, Kinds
<1>2. CASE UNCHANGED made /\ \A l \in Kinds : Now(l)' = Now(l)
  BY <1>2
<1>3. ASSUME NEW kind \in Kinds, Store(kind)
      PROVE  \/ Now(k)'.source = Now(k).source /\ UNCHANGED made[k]
             \/ /\ made'[k] = made[k] + 1 /\ made'[k] \in Content(k)
                /\ Now(k)'.source.val = made'[k]
  <2>1. CASE kind = k
    BY <1>1, <1>3, <2>1, StoreOnward
  <2>2. CASE kind # k
    <3>1. made'[k] = made[k]
      BY <1>1, <1>3, <2>2 DEF Store, TypeOK
    <3> QED
      BY <1>1, <1>3, <2>2, <3>1, StoreOnward
  <2> QED
    BY <2>1, <2>2
<1>4. ASSUME NEW kind \in Kinds, NEW which \in Sides, NEW v \in {NoObject, NoEntry},
             Now(kind)[which].val # NoObject, Put(kind, which, v), UNCHANGED made
      PROVE  \/ Now(k)'.source = Now(k).source /\ UNCHANGED made[k]
             \/ /\ UNCHANGED made[k] /\ Now(k).source.val # NoObject
                /\ Now(k)'.source.val \in {NoObject, NoEntry}
  <2>1. v \in Content(kind)
    BY DEF Content
  <2> QED
    BY <1>1, <1>4, <2>1, PutNow
<1>5. ASSUME NEW p \in Pods, req[p].pc = "writeKey", Accepts("Secret", req[p].copy),
             Put("Secret", Copy, req[p].val), UNCHANGED <<made, meddled>>
      PROVE  \/ Now(k)'.source = Now(k).source /\ UNCHANGED made[k]
             \/ /\ UNCHANGED made[k] /\ home /\ k = "Secret" /\ Now(k).source.val = NoObject
                /\ Now(k)'.source.val = req[p].val
  <2>1. req[p].val \in Content("Secret")
    BY <1>5, Handled DEF RequestOK, ValueOK, Content
  <2>2. /\ Now("Secret")'[Copy].val = req[p].val
        /\ k # "Secret" \/ Copy # "source" => Now(k)'.source = Now(k).source
    BY <1>1, <1>5, <2>1, PutNow
  <2>3. home => Now("Secret").source.val = NoObject
    BY <1>5, KeyFits
  <2> QED
    BY <1>5, <2>2, <2>3 DEF Copy
<1>6. ASSUME NEW p \in Pods, req[p].pc = "writeMap",
             Put("ConfigMap", Copy, req[p].val), UNCHANGED <<made, meddled>>
      PROVE  \/ Now(k)'.source = Now(k).source /\ UNCHANGED made[k]
             \/ /\ UNCHANGED made[k] /\ home /\ k = "ConfigMap"
                /\ Now(k)'.source.val = req[p].val
  <2>1. req[p].val \in Content("ConfigMap")
    BY <1>6, MapFits
  <2>2. /\ Now("ConfigMap")'[Copy].val = req[p].val
        /\ k # "ConfigMap" \/ Copy # "source" => Now(k)'.source = Now(k).source
    BY <1>1, <1>6, <2>1, PutNow
  <2> QED
    BY <1>6, <2>2 DEF Copy
<1> QED
  BY <1>2, <1>3, <1>4, <1>5, <1>6, ObjectSteps

\* The reconcilers alone change an auth key Secret that exists: the webhook,
\* which writes back what it read, never undoes a rotation, though its reads
\* come from caches and the Secret may have changed since (ensureAuthKeySecret,
\* where the pods' namespace is that of the OAuth Secret).
THEOREM SourceIsSafe == Spec => SourceIsTheReconcilers
<1> DEFINE secret == LET v == Now("Secret").source.val IN IF v = NoEntry THEN NoObject ELSE v
           fresh == made["Secret"] + 1 .. MaxKeys
<1>1. ASSUME IInv, [Next]_vars
      PROVE  [Now("Secret").source.val # NoObject => SecretSource!Next]_(SecretSource!vars)
  <2> DEFINE old == Now("Secret").source.val
             new == Now("Secret")'.source.val
  <2>1. made["Secret"] \in Nat /\ MaxKeys \in Nat /\ "Secret" \in Kinds
    BY <1>1, BoundsAssumption DEF IInv, TypeOK, Kinds
  <2>2. CASE new = old /\ UNCHANGED made["Secret"]
    BY <2>2 DEF SecretSource!vars
  <2>3. CASE made'["Secret"] = made["Secret"] + 1 /\ made'["Secret"] \in Content("Secret")
             /\ new = made'["Secret"]
    <3>1. made'["Secret"] \in fresh
      <4>1. made'["Secret"] \in Nat
        BY <2>1, <2>3
      <4>2. made'["Secret"] \in 1 .. MaxKeys
        BY <2>3, <4>1, ObjectAssumption DEF Content
      <4> QED
        BY <2>1, <2>3, <4>2
    <3>2. secret' = made'["Secret"]
      BY <2>1, <2>3, ObjectAssumption
    <3>3. fresh' = fresh \ {made'["Secret"]}
      BY <2>1, <2>3
    <3> QED
      BY <3>1, <3>2, <3>3 DEF SecretSource!Next, SecretSource!Store
  <2>4. CASE UNCHANGED made["Secret"] /\ new \in {NoObject, NoEntry}
    BY <2>4 DEF SecretSource!Next, SecretSource!Remove
  <2>5. CASE old = NoObject
    BY <2>5
  <2> QED
    BY <1>1, <2>1, <2>2, <2>3, <2>4, <2>5, SourceSteps
<1> QED
  BY <1>1, Invariant, PTL DEF Spec, SourceIsTheReconcilers

\* A copy that holds a key never gets an older one, however many requests with
\* different views of the Secrets write it (ensureAuthKeySecret).
THEOREM KeysOnlyAdvance == Spec => KeysNeverGoBack
<1>1. ASSUME IInv, [Next]_vars
      PROVE  LET old == Now("Secret")[Copy].val
                 new == Now("Secret")'[Copy].val
             IN  old \in 1 .. MaxKeys /\ new \in 1 .. MaxKeys => old <= new
  <2> DEFINE old == Now("Secret")[Copy].val
             new == Now("Secret")'[Copy].val
  <2> SUFFICES ASSUME old \in Nat, new \in Nat, MaxKeys \in Nat PROVE old <= new
    BY BoundsAssumption
  <2>1. /\ TypeOK' /\ TypeOK /\ "source" \in Sides /\ Copy \in Sides
        /\ "Secret" \in Kinds /\ "ConfigMap" \in Kinds /\ made["Secret"] \in Nat
    BY <1>1, NextTypes, CopySide DEF IInv, Types, Sides, Kinds, TypeOK
  <2>2. old <= made["Secret"]
    BY <1>1, <2>1, CacheSeen DEF Earlier
  <2>3. CASE UNCHANGED made /\ \A k \in Kinds : Now(k)' = Now(k)
    BY <2>1, <2>3
  <2>4. ASSUME NEW kind \in Kinds, Store(kind)
        PROVE  old <= new
    <3>1. CASE kind = "Secret" /\ Copy = "source"
      BY <1>1, <2>1, <2>2, <2>4, <3>1, StoreOnward
    <3>2. CASE kind # "Secret" \/ Copy # "source"
      BY <1>1, <2>1, <2>4, <3>2, StoreOnward
    <3> QED
      BY <3>1, <3>2
  <2>5. ASSUME NEW kind \in Kinds, NEW which \in Sides, NEW v \in {NoObject, NoEntry},
               Put(kind, which, v)
        PROVE  old <= new
    <3>1. v \in Content(kind) /\ v \notin Nat
      BY ObjectAssumption DEF Content
    <3> QED
      BY <2>1, <2>5, <3>1, PutNow
  <2>6. ASSUME NEW p \in Pods, req[p].pc = "writeKey", Accepts("Secret", req[p].copy),
               Put("Secret", Copy, req[p].val), UNCHANGED <<made, meddled>>
        PROVE  old <= new
    <3>1. req[p].val \in Content("Secret") /\ req[p].val \in Nat
      BY <1>1, <2>6, Handled, BoundsAssumption DEF RequestOK, ValueOK, Content
    <3>2. new = req[p].val
      BY <2>1, <2>6, <3>1, PutNow
    <3>3. Fitting("Secret", Copy, req[p].val)
      BY <1>1, <2>6, KeyFits
    <3> QED
      BY <2>1, <2>2, <3>1, <3>2, <3>3 DEF Fitting
  <2>7. ASSUME NEW p \in Pods, req[p].pc = "writeMap",
               Put("ConfigMap", Copy, req[p].val), UNCHANGED <<made, meddled>>
        PROVE  old <= new
    <3>1. req[p].val \in Content("ConfigMap")
      BY <1>1, <2>7, MapFits
    <3> QED
      BY <2>1, <2>7, <3>1, PutNow
  <2> QED
    BY <1>1, <2>3, <2>4, <2>5, <2>6, <2>7, ObjectSteps
<1> QED
  BY <1>1, Invariant, PTL DEF Spec, KeysNeverGoBack

\* A pod gets its sidecar only in the last step of its request.
LEMMA GetsInByInject ==
    ASSUME IInv, [Next]_vars, NEW p \in Pods, GetsIn(p)
    PROVE  Inject(p)
<1>1. /\ pod \in [Pods -> {"new", "plain"} \cup Injected] /\ pod[p] = "new"
      /\ pod'[p] \in Injected /\ "new" \notin Injected /\ "plain" \notin Injected
  BY DEF IInv, TypeOK, GetsIn, Injected
<1>2. pod' # pod
  BY <1>1
<1>3. ~Restart
  BY <1>1 DEF Restart
<1>4. ASSUME NEW q \in Pods PROVE ~Allow(q) /\ ~Deny(q)
  BY <1>1 DEF Allow, Deny
<1>5. PICK q \in Pods : Handle(q)
  BY <1>2, <1>3, <1>4 DEF Next, Timeout, Sync, Store, NameConfig, TailnetReady, Reapply, Meddle,
                          ElsewhereOnly, vars
<1>6. Inject(q)
  BY <1>2, <1>4, <1>5 DEF Handle, Begin, ReadCopy, ReadSource, WriteKey, ReadMap, WriteMap, Write
<1>7. q = p
  BY <1>1, <1>4, <1>6 DEF Inject, Patch
<1> QED
  BY <1>6, <1>7

\* A pod gets its sidecar only when its namespace has a key, and one at least
\* as new as the cache showed when its request began, whoever copied it (Handle
\* injects after ensureAuthKeySecret has returned).
THEOREM AdmittedPodsHaveKeys == Spec => AdmittedHasKey
<1>1. ASSUME IInv, [Next]_vars, NEW p \in Pods, GetsIn(p), "Secret" \notin meddled
      PROVE  LET known == req[p].since[1].val
             IN  /\ Now("Secret")[Copy].val \in 1 .. MaxKeys
                 /\ known # NoObject => Now("Secret")[Copy].val >= known
  <2> DEFINE known == req[p].since[1].val
             key == Now("Secret")[Copy].val
  <2>1. req[p].pc = "inject"
    BY <1>1, GetsInByInject DEF Inject
  <2>2. /\ req[p] \in Request /\ Seen("Secret", "source", req[p].since[1])
        /\ key \in Nat /\ (known \in Nat => known <= key)
    BY <1>1, <2>1, Handled DEF RequestOK, HasKeyOK
  <2>3. key \in 1 .. MaxKeys
    <3>1. key \in Content("Secret")
      BY <1>1, CopySide, Shape DEF IInv, Shapes, Kinds, Object
    <3> QED
      BY <2>2, <3>1, ObjectAssumption DEF Content
  <2>4. known # NoObject => known \in Nat
    <3>1. known # NoEntry
      BY <1>1, <2>2, CacheSeen DEF Kinds, Sides, Earlier
    <3>2. known \in Content("Secret")
      BY <2>2 DEF Request, Object
    <3> QED
      BY <3>1, <3>2, BoundsAssumption DEF Content
  <2> QED
    BY <2>2, <2>3, <2>4
<1>2. ASSUME IInv, [Next]_vars
      PROVE  \A p \in Pods : GetsIn(p) /\ "Secret" \notin meddled =>
                LET known == req[p].since[1].val
                IN  /\ Now("Secret")[Copy].val \in 1 .. MaxKeys
                    /\ known # NoObject => Now("Secret")[Copy].val >= known
  BY <1>1, <1>2
<1> QED
  BY <1>2, Invariant, PTL DEF Spec, AdmittedHasKey

\* A pod that mounts a serve config finds it in its namespace
\* (ensureServeConfigMap before injectSidecar).
THEOREM MountedConfigsExist == Spec => MountedExists
<1>1. ASSUME IInv, [Next]_vars, NEW p \in Pods, GetsIn(p), pod'[p] # "injected",
             "ConfigMap" \notin meddled
      PROVE  Now("ConfigMap")[Copy].val \in 1 .. MaxConfigs
  <2>1. Inject(p) /\ req[p].pc = "inject"
    BY <1>1, GetsInByInject DEF Inject
  <2>2. req[p].config # NoObject
    BY <1>1, <2>1 DEF Inject, Patch, GetsIn, IInv, TypeOK
  <2>3. Now("ConfigMap")[Copy].val \in Nat
    BY <1>1, <2>1, <2>2, Handled DEF RequestOK, MapOK
  <2>4. Now("ConfigMap")[Copy].val \in Content("ConfigMap")
    BY <1>1, CopySide, Shape DEF IInv, Shapes, Kinds, Object
  <2> QED
    BY <2>3, <2>4, ObjectAssumption DEF Content
<1>2. ASSUME IInv, [Next]_vars
      PROVE  \A p \in Pods : GetsIn(p) /\ pod'[p] # "injected" /\ "ConfigMap" \notin meddled =>
                Now("ConfigMap")[Copy].val \in 1 .. MaxConfigs
  BY <1>1, <1>2
<1> QED
  BY <1>2, Invariant, PTL DEF Spec, MountedExists

\* A Secret or serve config that was removed comes back with a new content, or
\* by a request that began before the removal reached the cache: its Create of
\* a copy it did not find brings the source itself back (ensureAuthKeySecret,
\* ensureServeConfigMap, where copy and source are one).
THEOREM RevivedByOldRequests == Spec => OnlyOldRequestsRevive
<1> DEFINE Old(k, i) ==
              \/ made'[k] > made[k]
              \/ \E p \in Pods : /\ req[p] # NoRequest
                                 /\ req[p].since[i].rv < Now(k).source.rv
<1>1. ASSUME IInv, [Next]_vars, NEW k \in Kinds, Now(k).source.val = NoObject,
             Now(k)'.source.val # NoObject
      PROVE  \/ made'[k] > made[k]
             \/ /\ k = "Secret"
                /\ \E p \in Pods : req[p].pc = "writeKey" /\ Now(k)'.source.val = req[p].val
             \/ /\ k = "ConfigMap"
                /\ \E p \in Pods : req[p].pc = "writeMap" /\ Now(k)'.source.val = req[p].val
  <2>1. made[k] \in Nat
    BY <1>1 DEF IInv, TypeOK
  <2> QED
    BY <1>1, <2>1, SourceSteps
<1>2. ASSUME IInv, [Next]_vars, Now("Secret").source.val = NoObject,
             Now("Secret")'.source.val # NoObject
      PROVE  Old("Secret", 1)
  <2> SUFFICES ASSUME NEW p \in Pods, req[p].pc = "writeKey"
               PROVE  req[p] # NoRequest /\ req[p].since[1].rv < Now("Secret").source.rv
    BY <1>1, <1>2 DEF Kinds
  <2>1. req[p] # NoRequest /\ req[p] \in Request /\ req[p].val \in 1 .. MaxKeys
    BY <1>2, Handled DEF NoRequest, RequestOK, ValueOK
  <2>2. PICK s \in Object("Secret") : ReadFrom(req[p], s)
    BY <1>2, Handled DEF RequestOK, ValueOK
  <2>3. /\ Earlier("Secret", "source", req[p].since[1], s) /\ s.val = req[p].val
        /\ Earlier("Secret", "source", s, Now("Secret")["source"])
    BY <1>2, <2>2, CacheSeen DEF ReadFrom, Kinds, Sides
  <2>4. s # Now("Secret")["source"]
    BY <1>2, <2>1, <2>3, BoundsAssumption, ObjectAssumption
  <2>5. /\ req[p].since[1].rv \in Nat /\ s.rv \in Nat /\ Now("Secret")["source"].rv \in Nat
    BY <1>2, <2>1, Shape DEF Request, Object, IInv, Shapes, Kinds, Sides
  <2> QED
    BY <2>1, <2>3, <2>4, <2>5 DEF Earlier
<1>3. ASSUME IInv, [Next]_vars, Now("ConfigMap").source.val = NoObject,
             Now("ConfigMap")'.source.val # NoObject
      PROVE  Old("ConfigMap", 2)
  <2> SUFFICES ASSUME NEW p \in Pods, req[p].pc = "writeMap"
               PROVE  req[p] # NoRequest /\ req[p].since[2].rv < Now("ConfigMap").source.rv
    BY <1>1, <1>3 DEF Kinds
  <2>1. /\ req[p] # NoRequest /\ req[p] \in Request
        /\ req[p].since[2].val # NoObject
        /\ Seen("ConfigMap", "source", req[p].since[2])
    BY <1>3, Handled DEF NoRequest, RequestOK, MapOK
  <2>2. Earlier("ConfigMap", "source", req[p].since[2], Now("ConfigMap")["source"])
    BY <1>3, <2>1, CacheSeen DEF Kinds, Sides
  <2>3. req[p].since[2] # Now("ConfigMap")["source"]
    BY <1>3, <2>1
  <2>4. req[p].since[2].rv \in Nat /\ Now("ConfigMap")["source"].rv \in Nat
    BY <1>3, <2>1, Shape DEF Request, Object, IInv, Shapes, Kinds, Sides
  <2> QED
    BY <2>1, <2>2, <2>3, <2>4 DEF Earlier
<1>4. ASSUME IInv, [Next]_vars
      PROVE  \A i \in 1 .. 2 :
                LET kind == <<"Secret", "ConfigMap">>[i]
                IN  Now(kind).source.val = NoObject /\ Now(kind)'.source.val # NoObject
                       => \/ made'[kind] > made[kind]
                          \/ \E p \in Pods : req[p] # NoRequest
                                /\ req[p].since[i].rv < Now(kind).source.rv
  <2> SUFFICES ASSUME NEW i \in 1 .. 2, NEW kind, kind = <<"Secret", "ConfigMap">>[i],
                      Now(kind).source.val = NoObject, Now(kind)'.source.val # NoObject
               PROVE  Old(kind, i)
    OBVIOUS
  <2>1. (i = 1 /\ kind = "Secret") \/ (i = 2 /\ kind = "ConfigMap")
    OBVIOUS
  <2> QED
    BY <1>2, <1>3, <1>4, <2>1
<1> QED
  BY <1>4, Invariant, PTL DEF Spec, OnlyOldRequestsRevive
=============================================================================
