-------------------------- MODULE ServeConfigProofs --------------------------
(***************************************************************************)
(* Theorems about ServeConfig, for handlers, tags and names of any number  *)
(* and length.                                                             *)
(***************************************************************************)
EXTENDS ServeConfig, SequenceTheorems, FiniteSetTheorems, TLAPS

Typed ==
    /\ handlers \in Seq(Handlers)
    /\ tags \in Seq(Tags) /\ deviceTags \in Seq(Tags)
    /\ name \in Seq(Characters)
    /\ oauth \in [Parts \X Spellings -> Values]

LEMMA InitTyped == Init => Typed
BY DEF Init, Typed, NoEntries, Values

LEMMA NextTyped == Typed /\ [Next]_vars => Typed'
<1> SUFFICES ASSUME Typed, [Next]_vars PROVE Typed'
  OBVIOUS
<1>1. CASE EditHandlers
  BY <1>1 DEF EditHandlers, Typed
<1>2. CASE EditTags
  <2>1. PICK t \in Tags : \/ tags' = Append(tags, t) /\ UNCHANGED deviceTags
                          \/ deviceTags' = Append(deviceTags, t) /\ UNCHANGED tags
    BY <1>2 DEF EditTags
  <2>2. Append(tags, t) \in Seq(Tags) /\ Append(deviceTags, t) \in Seq(Tags)
    BY DEF Typed
  <2>3. tags' \in Seq(Tags) /\ deviceTags' \in Seq(Tags)
    BY <2>1, <2>2 DEF Typed
  <2> QED
    BY <1>2, <2>3 DEF EditTags, Typed
<1>3. CASE EditName
  BY <1>3 DEF EditName, Typed
<1>4. CASE EditOAuth
  BY <1>4 DEF EditOAuth, Typed
<1>5. CASE UNCHANGED vars
  BY <1>5 DEF vars, Typed
<1> QED
  BY <1>1, <1>2, <1>3, <1>4, <1>5 DEF Next

\* The lists are lists of what the edits add.
THEOREM TypeCorrect == Spec => []Typed
BY InitTyped, NextTyped, PTL DEF Spec

-----------------------------------------------------------------------------
(* Numbers.  Induction over them goes by the least counterexample, which   *)
(* exists as there is no endless descent among finite sets.                *)

LEMMA Least ==
    ASSUME NEW T \in SUBSET Nat, T # {}
    PROVE  \E m \in T : \A k \in T : m <= k
<1> DEFINE Below == {0 .. m : m \in T}
<1>1. \A m \in Nat : 0 .. m \in FiniteSubsetsOf(Nat)
  BY FS_Interval DEF FiniteSubsetsOf
<1>2. Below \subseteq FiniteSubsetsOf(Nat) /\ Below # {}
  BY <1>1
<1>3. IsWellFoundedOn(StrictSubsetOrdering(Nat), FiniteSubsetsOf(Nat))
  BY FS_StrictSubsetOrderingWellFounded
<1> HIDE DEF Below
<1>4. PICK x \in Below : \A y \in Below : <<y, x>> \notin StrictSubsetOrdering(Nat)
  BY <1>2, <1>3, WFMin
<1>5. PICK m \in T : x = 0 .. m
  BY DEF Below
<1>6. ASSUME NEW k \in T, k < m
      PROVE  FALSE
  <2>1. 0 .. k \subseteq 0 .. m /\ 0 .. k # 0 .. m
    BY <1>6
  <2>2. <<0 .. k, 0 .. m>> \in StrictSubsetOrdering(Nat)
    BY <2>1 DEF StrictSubsetOrdering
  <2>3. 0 .. k \in Below
    BY DEF Below
  <2> QED
    BY <1>4, <1>5, <2>2, <2>3
<1> QED
  BY <1>6

\* Induction up to n, for a set: what holds of 0 and of each successor.
LEMMA UpTo ==
    ASSUME NEW n \in Nat, NEW G, 0 \in G,
           \A k \in Nat \ {0} : k <= n /\ k - 1 \in G => k \in G
    PROVE  n \in G
<1> DEFINE bad == {k \in 0 .. n : k \notin G}
<1> SUFFICES ASSUME bad # {} PROVE FALSE
  OBVIOUS
<1>1. PICK k \in bad : \A l \in bad : k <= l
  <2>1. bad \in SUBSET Nat
    OBVIOUS
  <2> QED
    BY <2>1, Least
<1>2. k \in Nat \ {0} /\ k <= n /\ k - 1 \in 0 .. n
  OBVIOUS
<1>3. k - 1 \notin bad
  BY <1>1, <1>2
<1> QED
  BY <1>2, <1>3

\* The largest element of a set of indices.
LEMMA MaxOf ==
    ASSUME NEW n \in Nat, NEW S \in SUBSET (1 .. n), S # {}
    PROVE  Max(S) \in S /\ \A y \in S : y <= Max(S)
<1> DEFINE bounds == {b \in Nat : \A y \in S : y <= b}
<1>1. n \in bounds
  OBVIOUS
<1>2. PICK m \in bounds : \A b \in bounds : m <= b
  BY <1>1, Least
<1>3. m \in S
  <2> SUFFICES ASSUME m \notin S PROVE FALSE
    OBVIOUS
  <2>1. \A y \in S : y < m
    OBVIOUS
  <2>2. PICK y \in S : TRUE
    OBVIOUS
  <2>3. m \in Nat /\ y \in Nat /\ y < m
    BY <2>1
  <2>4. m - 1 \in Nat /\ \A z \in S : z <= m - 1
    BY <2>1, <2>3
  <2>5. m - 1 \in bounds
    BY <2>4
  <2> QED
    BY <1>2, <2>3, <2>5
<1>4. \A y \in S : m >= y
  OBVIOUS
<1> QED
  BY <1>3, <1>4 DEF Max

LEMMA SetOfSequence ==
    ASSUME NEW E, NEW s \in Seq(E)
    PROVE  IsFiniteSet(ToSet(s)) /\ Cardinality(ToSet(s)) <= Len(s)
<1>1. s \in Surjection(1 .. Len(s), ToSet(s)) /\ Len(s) \in Nat
  BY DEF Surjection, ToSet
<1>2. \A n \in Nat : IsFiniteSet(1 .. n) /\ Cardinality(1 .. n) = n
  BY FS_Interval
<1> QED
  BY <1>1, <1>2, FS_Surjection

-----------------------------------------------------------------------------
(* Tags, credentials and names.                                            *)

\* tagsEqual tells two lists apart exactly when they differ as sets, as long as
\* the list of the Tailnet repeats no tag: the PodReconciler neither misses a
\* change of spec.tags nor sets the tags of a device for ever.
THEOREM TagsAreSets == Spec => []TagsEqualAsSets
<1>1. Typed => TagsEqualAsSets
  <2> SUFFICES ASSUME Typed, Distinct(tags)
               PROVE  TagsEqual(deviceTags, tags)
                        <=> Distinct(deviceTags) /\ ToSet(deviceTags) = ToSet(tags)
    BY DEF TagsEqualAsSets
  <2> DEFINE A == ToSet(tags)
             B == ToSet(deviceTags)
  <2>1. /\ IsFiniteSet(A) /\ Cardinality(A) = Len(tags) /\ Cardinality(A) \in Nat
        /\ IsFiniteSet(B) /\ Cardinality(B) <= Len(deviceTags) /\ Cardinality(B) \in Nat
        /\ Len(deviceTags) \in Nat
    BY SetOfSequence, FS_CardinalityType DEF Typed, Distinct
  <2> HIDE DEF A, B
  <2>2. ASSUME Len(deviceTags) = Len(tags), A \subseteq B
        PROVE  Distinct(deviceTags) /\ B = A
    <3>1. Cardinality(A) <= Cardinality(B) /\ (Cardinality(A) = Cardinality(B) => A = B)
      BY <2>1, <2>2, FS_Subset
    <3>2. Cardinality(A) = Cardinality(B) /\ Cardinality(B) = Len(deviceTags)
      BY <2>1, <2>2, <3>1
    <3> QED
      BY <3>1, <3>2 DEF Distinct, B
  <2>3. ASSUME Distinct(deviceTags), B = A
        PROVE  Len(deviceTags) = Len(tags) /\ A \subseteq B
    BY <2>1, <2>3 DEF Distinct, B
  <2> QED
    BY <2>2, <2>3 DEF TagsEqual, A, B
<1> QED
  BY <1>1, TypeCorrect, PTL

\* With credentials that do for the pods all three reconcilers use the same.
THEOREM ControllersAgreeOnCredentials == Spec => []CredentialsAgree
<1>1. \A S \in SUBSET Spellings : 1 \in S => Min(S) = 1
  <2> SUFFICES ASSUME NEW S \in SUBSET Spellings, 1 \in S PROVE Min(S) = 1
    OBVIOUS
  <2>1. \A y \in S : y \in Nat /\ 1 <= y
    BY DEF Spellings
  <2>2. \A x : (x \in S /\ \A y \in S : x =< y) <=> x = 1
    BY <2>1
  <2> QED
    BY <2>2 DEF Min
<1>2. Typed => CredentialsAgree
  <2> SUFFICES ASSUME Typed PROVE CredentialsAgree
    OBVIOUS
  <2>1. \A part \in Parts : 1 \in Set(part) <=> oauth[<<part, 1>>] = "set"
    BY DEF Set, Spellings
  <2>2. \A part \in Parts : Set(part) \in SUBSET Spellings
    BY DEF Set
  <2>3. PodClient => /\ TailnetClient /\ TailserveClient
                     /\ \A part \in Parts : Chosen(part) = 1
    BY <1>1, <2>1, <2>2 DEF PodClient, TailnetClient, TailserveClient, Chosen
  <2>4. ASSUME \A part \in Parts : /\ oauth[<<part, 1>>] # "empty"
                                   /\ Set(part) \subseteq {1}
        PROVE  (PodClient <=> TailnetClient) /\ (PodClient <=> TailserveClient)
    <3>1. \A part \in Parts : oauth[<<part, 1>>] \in Values
      BY DEF Typed, Spellings
    <3>2. PodClient <=> TailnetClient
      BY <2>4, <3>1 DEF PodClient, TailnetClient, Values
    <3>3. PodClient <=> TailserveClient
      BY <2>1, <2>4 DEF PodClient, TailserveClient
    <3> QED
      BY <3>2, <3>3
  <2> QED
    BY <2>3, <2>4 DEF CredentialsAgree
<1> QED
  BY <1>2, TypeCorrect, PTL

\* validateServiceName refuses none of the names that the CRD's pattern admits
\* but the long ones, and accepts nothing else but for capitals.
THEOREM NamesFollowTheCRD == Spec => []NamesAreOfTheCRD
<1>1. Typed => NamesAreOfTheCRD
  <2> DEFINE n == Len(name)
             low == [i \in DOMAIN name |-> IF name[i] = "capital" THEN "letter" ELSE name[i]]
  <2> SUFFICES ASSUME Typed PROVE NamesAreOfTheCRD
    OBVIOUS
  <2>1. /\ name \in Seq(Characters) /\ n \in Nat /\ DOMAIN name = 1 .. n
        /\ \A i \in 1 .. n : name[i] \in Characters
        /\ name # <<>> => 1 \in 1 .. n /\ n \in 1 .. n
    BY DEF Typed
  <2>2. ASSUME MatchesPattern(name)
        PROVE  ValidServiceName(name) <=> n <= MaxName
    <3>1. \A i \in 1 .. n : name[i] \in {"letter", "hyphen"}
      BY <2>1, <2>2 DEF MatchesPattern, ToSet
    <3>2. \A i \in 1 .. n : IsAlphaNum(name[i]) \/ name[i] = "hyphen"
      BY <3>1 DEF IsAlphaNum
    <3>3. name # <<>> /\ IsAlphaNum(name[1]) /\ name[n] # "hyphen"
      BY <2>2 DEF MatchesPattern, IsAlphaNum
    <3> QED
      BY <2>1, <3>2, <3>3 DEF ValidServiceName
  <2>3. ASSUME ValidServiceName(name)
        PROVE  MatchesPattern(low)
    <3>1. name # <<>> /\ \A i \in 1 .. n : name[i] \in {"letter", "capital", "hyphen"}
      BY <2>1, <2>3 DEF ValidServiceName, IsAlphaNum
    <3>2. \A i \in 1 .. n : low[i] \in {"letter", "hyphen"}
      BY <2>1, <3>1
    <3>3. low[1] = "letter" /\ low[n] = "letter"
      BY <2>1, <2>3, <3>1 DEF ValidServiceName, IsAlphaNum
    <3>4. low \in Seq({"letter", "hyphen"}) /\ Len(low) = n /\ DOMAIN low = 1 .. n
      BY <2>1, <3>2
    <3>5. low # <<>>
      <4>1. n # 0
        BY <2>1, <3>1
      <4> HIDE DEF low
      <4> QED
        BY <3>4, <4>1
    <3>6. ToSet(low) \subseteq {"letter", "hyphen"}
      BY <3>2, <3>4 DEF ToSet
    <3> QED
      BY <3>3, <3>4, <3>5, <3>6 DEF MatchesPattern
  <2> QED
    BY <2>2, <2>3 DEF NamesAreOfTheCRD
<1> QED
  BY <1>1, TypeCorrect, PTL

-----------------------------------------------------------------------------
(* The loops.  Each is a fold: a function of the indices that were seen,   *)
(* given by one round of the loop.  There is such a function, as what the  *)
(* loop is to compute is one, and no other, by induction over the indices. *)

LEMMA FirstIndices ==
    ASSUME NEW k \in Nat \ {0}
    PROVE  Max(1 .. k) = k /\ (1 .. k) \ {Max(1 .. k)} = 1 .. (k - 1) /\ 1 .. k # {}
<1>1. PICK S : S = 1 .. k
  OBVIOUS
<1>2. Max(1 .. k) = k
  <2>1. S \in SUBSET (1 .. k) /\ S # {} /\ k \in Nat
    BY <1>1
  <2>2. Max(S) \in S /\ \A y \in S : y <= Max(S)
    BY <2>1, MaxOf
  <2>3. Max(S) = k
    BY <1>1, <2>2
  <2> QED
    BY <1>1, <2>3
<1>3. (1 .. k) \ {k} = 1 .. (k - 1) /\ k \in 1 .. k
  OBVIOUS
<1> QED
  BY <1>2, <1>3

\* The largest index among those with a property, with and without the largest.
LEMMA MaxWithoutMax ==
    ASSUME NEW n \in Nat, NEW X \in SUBSET (1 .. n), NEW S \in SUBSET X, S # {}
    PROVE  /\ Max(X) \in S => Max(S) = Max(X)
           /\ Max(X) \notin S => S \subseteq X \ {Max(X)}
<1>1. /\ Max(X) \in X /\ \A y \in X : y <= Max(X)
      /\ Max(S) \in S /\ \A y \in S : y <= Max(S)
  <2>1. X # {} /\ S \in SUBSET (1 .. n)
    OBVIOUS
  <2> QED
    BY <2>1, MaxOf
<1> DEFINE x == Max(X)
           m == Max(S)
<1>2. /\ x \in X /\ \A y \in X : y <= x
      /\ m \in S /\ \A y \in S : y <= m
  BY <1>1
<1> HIDE DEF x, m
<1>3. m \in X /\ \A y \in X : y \in Nat
  BY <1>2
<1>4. x \in S => m <= x /\ x <= m
  BY <1>2, <1>3
<1>5. x \in S => m = x
  BY <1>2, <1>3, <1>4
<1>6. x \notin S => S \subseteq X \ {x}
  OBVIOUS
<1> QED
  BY <1>5, <1>6 DEF x, m

-----------------------------------------------------------------------------
(* The handlers.  What the loops write under a key they overwrite, so that *)
(* of each key the last write counts.                                      *)

LastWrites(key, val, X) ==
    [q \in {key[i] : i \in X} |-> val[Max({i \in X : key[i] = q})]]

LEMMA WriteRound ==
    ASSUME NEW n \in Nat, NEW key, NEW val, NEW X \in SUBSET (1 .. n), X # {}
    PROVE  LastWrites(key, val, X)
             = Put(LastWrites(key, val, X \ {Max(X)}), key[Max(X)], val[Max(X)])
<1> DEFINE m == Max(X)
           Y == X \ {m}
           At(Z, q) == {i \in Z : key[i] = q}
           Keys(Z) == {key[i] : i \in Z}
           f == Put(LastWrites(key, val, Y), key[m], val[m])
<1>1. m \in X
  BY MaxOf
<1>2. f = [q \in Keys(Y) \cup {key[m]} |->
             IF q = key[m] THEN val[m] ELSE val[Max(At(Y, q))]]
  BY DEF LastWrites, Put
<1>3. Keys(Y) \cup {key[m]} = Keys(X)
  <2> HIDE DEF m
  <2> QED
    BY <1>1
<1>4. ASSUME NEW q \in Keys(X)
      PROVE  val[Max(At(X, q))] = IF q = key[m] THEN val[m] ELSE val[Max(At(Y, q))]
  <2>1. At(X, q) \in SUBSET X /\ At(X, q) # {}
    OBVIOUS
  <2>2. CASE q = key[m]
    <3>1. m \in At(X, q)
      BY <1>1, <2>2
    <3>2. Max(At(X, q)) = m
      BY <2>1, <3>1, MaxWithoutMax
    <3> QED
      BY <2>2, <3>2
  <2>3. CASE q # key[m]
    <3> HIDE DEF m
    <3>1. At(X, q) = At(Y, q)
      BY <2>3
    <3> QED
      BY <2>3, <3>1
  <2> QED
    BY <2>2, <2>3
<1>5. LastWrites(key, val, X) = [q \in Keys(X) |-> val[Max(At(X, q))]]
  BY DEF LastWrites
<1> HIDE DEF m, Y, At, Keys
<1> QED
  BY <1>2, <1>3, <1>4, <1>5 DEF f, m, Y

LEMMA WriteNothing ==
    ASSUME NEW key, NEW val
    PROVE  LastWrites(key, val, {}) = <<>>
BY DEF LastWrites

\* The routes of a web handler.
Paths(rs) == [i \in DOMAIN rs |-> PathOf(rs[i])]

Backends(rs) == [i \in DOMAIN rs |-> rs[i].backend]

IsRouteMap(rs, it) ==
    it = [X \in SUBSET DOMAIN rs |->
            IF X = {} THEN <<>>
            ELSE Put(it[X \ {Max(X)}], PathOf(rs[Max(X)]), rs[Max(X)].backend)]

LEMMA RoutesFold ==
    ASSUME NEW h, h.routes # <<>>
    PROVE  WebEntry(h) = (CHOOSE it : IsRouteMap(h.routes, it))[DOMAIN h.routes]
BY DEF WebEntry, FoldLeft, MapThenFoldSet, IsRouteMap

LEMMA RouteRound ==
    ASSUME NEW E, NEW rs \in Seq(E), NEW X \in SUBSET DOMAIN rs, X # {}
    PROVE  LastWrites(Paths(rs), Backends(rs), X)
             = Put(LastWrites(Paths(rs), Backends(rs), X \ {Max(X)}),
                   PathOf(rs[Max(X)]), rs[Max(X)].backend)
<1>1. Len(rs) \in Nat /\ X \in SUBSET (1 .. Len(rs))
  OBVIOUS
<1>2. Max(X) \in DOMAIN rs
  BY <1>1, MaxOf
<1>3. Paths(rs)[Max(X)] = PathOf(rs[Max(X)]) /\ Backends(rs)[Max(X)] = rs[Max(X)].backend
  BY <1>2 DEF Paths, Backends
<1> DEFINE key == Paths(rs)
           val == Backends(rs)
<1>4. \A k, v : LastWrites(k, v, X)
                  = Put(LastWrites(k, v, X \ {Max(X)}), k[Max(X)], v[Max(X)])
  BY <1>1, WriteRound, Zenon
<1>5. LastWrites(key, val, X)
        = Put(LastWrites(key, val, X \ {Max(X)}), key[Max(X)], val[Max(X)])
  <2> HIDE DEF key, val
  <2> QED
    BY <1>4
<1> QED
  BY <1>3, <1>5

LEMMA RoutesAreWritten ==
    ASSUME NEW E, NEW h, h.routes \in Seq(E), h.routes # <<>>
    PROVE  WebEntry(h) = LastWrites(Paths(h.routes), Backends(h.routes),
                                    DOMAIN h.routes)
<1> DEFINE rs == h.routes
           n == Len(rs)
           Written(X) == LastWrites(Paths(rs), Backends(rs), X)
           written == [X \in SUBSET DOMAIN rs |-> Written(X)]
           it == CHOOSE f : IsRouteMap(rs, f)
<1>1. n \in Nat /\ DOMAIN rs = 1 .. n /\ rs \in Seq(E)
  OBVIOUS
<1> HIDE DEF rs, n
<1>2. IsRouteMap(rs, written)
  <2> SUFFICES ASSUME NEW X \in SUBSET DOMAIN rs
               PROVE  Written(X) = IF X = {} THEN <<>>
                                   ELSE Put(written[X \ {Max(X)}], PathOf(rs[Max(X)]),
                                            rs[Max(X)].backend)
    BY DEF IsRouteMap
  <2>1. CASE X = {}
    BY <2>1, WriteNothing
  <2>2. CASE X # {}
    <3>1. written[X \ {Max(X)}] = Written(X \ {Max(X)})
      OBVIOUS
    <3> QED
      BY <1>1, <2>2, <3>1, RouteRound
  <2> QED
    BY <2>1, <2>2
<1> HIDE DEF written, it
<1>3. IsRouteMap(rs, it)
  BY <1>2 DEF it
<1> DEFINE G == {k \in Nat : k <= n => it[1 .. k] = Written(1 .. k)}
<1>4. 0 \in G
  <2>1. 1 .. 0 = {}
    OBVIOUS
  <2> QED
    BY <1>3, <2>1, WriteNothing DEF IsRouteMap
<1>5. ASSUME NEW k \in Nat \ {0}, k <= n, k - 1 \in G
      PROVE  k \in G
  <2>1. 1 .. k \in SUBSET DOMAIN rs /\ it[1 .. (k - 1)] = Written(1 .. (k - 1))
    BY <1>1, <1>5
  <2>2. Max(1 .. k) = k /\ (1 .. k) \ {Max(1 .. k)} = 1 .. (k - 1) /\ 1 .. k # {}
    BY FirstIndices
  <2>3. it[1 .. k] = Put(it[1 .. (k - 1)], PathOf(rs[k]), rs[k].backend)
    BY <1>3, <2>1, <2>2 DEF IsRouteMap
  <2>4. Written(1 .. k) = Put(Written(1 .. (k - 1)), PathOf(rs[k]), rs[k].backend)
    BY <1>1, <2>1, <2>2, RouteRound
  <2> QED
    BY <2>1, <2>3, <2>4
<1>6. it[1 .. n] = Written(1 .. n)
  <2> HIDE DEF G
  <2>1. n \in G
    BY <1>1, <1>4, <1>5, UpTo
  <2> QED
    BY <1>1, <2>1 DEF G
<1>7. WebEntry(h) = it[DOMAIN rs]
  BY RoutesFold DEF it, rs
<1> QED
  BY <1>1, <1>6, <1>7 DEF rs

\* The config of the handlers.
Ports(hs) == [i \in DOMAIN hs |-> hs[i].port]

TCPEntries(hs) == [i \in DOMAIN hs |-> TCPEntry(hs[i])]

WebEntries(hs) == [i \in DOMAIN hs |-> WebEntry(hs[i])]

WebOnes(hs, X) == {i \in X : IsWeb(hs[i])}

Declared(hs, X) ==
    [TCP |-> LastWrites(Ports(hs), TCPEntries(hs), X),
     Web |-> LastWrites(Ports(hs), WebEntries(hs), WebOnes(hs, X))]

IsConfig(hs, it) ==
    it = [X \in SUBSET DOMAIN hs |->
            IF X = {} THEN [TCP |-> <<>>, Web |-> <<>>]
            ELSE AddHandler(it[X \ {Max(X)}], hs[Max(X)])]

LEMMA ConfigFold ==
    ASSUME NEW hs
    PROVE  BuildServiceConfig(hs) = (CHOOSE it : IsConfig(hs, it))[DOMAIN hs]
BY DEF BuildServiceConfig, FoldLeft, MapThenFoldSet, IsConfig

LEMMA HandlerRound ==
    ASSUME NEW n \in Nat, NEW hs, DOMAIN hs = 1 .. n,
           NEW X \in SUBSET (1 .. n), X # {}
    PROVE  Declared(hs, X) = AddHandler(Declared(hs, X \ {Max(X)}), hs[Max(X)])
<1> DEFINE m == Max(X)
           Y == X \ {m}
           ports == Ports(hs)
           tcp == TCPEntries(hs)
           web == WebEntries(hs)
           W == WebOnes(hs, X)
<1>1. m \in X /\ m \in 1 .. n
  BY MaxOf
<1>2. /\ ports[m] = hs[m].port /\ tcp[m] = TCPEntry(hs[m])
      /\ web[m] = WebEntry(hs[m])
  <2> HIDE DEF m
  <2> QED
    BY <1>1 DEF Ports, TCPEntries, WebEntries
<1> HIDE DEF ports, tcp, web
<1>3. LastWrites(ports, tcp, X) = Put(LastWrites(ports, tcp, Y), ports[m], tcp[m])
  <2>1. n \in Nat /\ X \in SUBSET (1 .. n) /\ X # {}
    OBVIOUS
  <2>2. LastWrites(ports, tcp, X)
          = Put(LastWrites(ports, tcp, X \ {Max(X)}), ports[Max(X)], tcp[Max(X)])
    BY ONLY <2>1, WriteRound, Zenon
  <2> QED
    BY <2>2
<1>4. CASE IsWeb(hs[m])
  <2>1. W \in SUBSET (1 .. n) /\ W # {} /\ m \in W
    <3> HIDE DEF m
    <3> QED
      BY <1>1, <1>4 DEF WebOnes
  <2>2. Max(W) = m
    <3>1. W \in SUBSET X
      BY DEF WebOnes
    <3> HIDE DEF W
    <3> QED
      BY <2>1, <3>1, MaxWithoutMax
  <2>3. W \ {m} = WebOnes(hs, Y)
    <3> HIDE DEF m
    <3> QED
      BY DEF WebOnes
  <2>4. LastWrites(ports, web, W)
          = Put(LastWrites(ports, web, W \ {Max(W)}), ports[Max(W)], web[Max(W)])
    <3>1. PICK Z : Z = W
      OBVIOUS
    <3> HIDE DEF W
    <3>2. n \in Nat /\ Z \in SUBSET (1 .. n) /\ Z # {}
      BY <2>1, <3>1
    <3>3. LastWrites(ports, web, Z)
            = Put(LastWrites(ports, web, Z \ {Max(Z)}), ports[Max(Z)], web[Max(Z)])
      BY ONLY <3>2, WriteRound, Zenon
    <3> QED
      BY <3>1, <3>3
  <2>5. LastWrites(ports, web, W)
          = Put(LastWrites(ports, web, WebOnes(hs, Y)), ports[m], web[m])
    <3> HIDE DEF W, Y, m
    <3> QED
      BY <2>2, <2>3, <2>4
  <2> HIDE DEF m, Y, W
  <2> QED
    BY <1>2, <1>3, <1>4, <2>5 DEF Declared, AddHandler, ports, tcp, web, W, m, Y
<1>5. CASE ~IsWeb(hs[m])
  <2>1. W = WebOnes(hs, Y)
    <3> HIDE DEF m
    <3> QED
      BY <1>5 DEF WebOnes
  <2> HIDE DEF m, Y, W
  <2> QED
    BY <1>2, <1>3, <1>5, <2>1 DEF Declared, AddHandler, ports, tcp, web, W, m, Y
<1> QED
  BY <1>4, <1>5

LEMMA ConfigIsDeclared ==
    ASSUME NEW E, NEW hs \in Seq(E)
    PROVE  BuildServiceConfig(hs) = Declared(hs, DOMAIN hs)
<1> DEFINE n == Len(hs)
           declared == [X \in SUBSET DOMAIN hs |-> Declared(hs, X)]
           it == CHOOSE f : IsConfig(hs, f)
<1>1. n \in Nat /\ DOMAIN hs = 1 .. n
  OBVIOUS
<1> HIDE DEF n
<1>2. Declared(hs, {}) = [TCP |-> <<>>, Web |-> <<>>]
  BY WriteNothing DEF Declared, WebOnes
<1>3. IsConfig(hs, declared)
  <2> SUFFICES ASSUME NEW X \in SUBSET DOMAIN hs
               PROVE  Declared(hs, X) = IF X = {} THEN [TCP |-> <<>>, Web |-> <<>>]
                                        ELSE AddHandler(declared[X \ {Max(X)}], hs[Max(X)])
    BY DEF IsConfig
  <2>1. CASE X = {}
    BY <1>2, <2>1
  <2>2. CASE X # {}
    <3>1. declared[X \ {Max(X)}] = Declared(hs, X \ {Max(X)})
      OBVIOUS
    <3> QED
      BY <1>1, <2>2, <3>1, HandlerRound
  <2> QED
    BY <2>1, <2>2
<1> HIDE DEF declared, it
<1>4. IsConfig(hs, it)
  BY <1>3 DEF it
<1> DEFINE G == {k \in Nat : k <= n => it[1 .. k] = Declared(hs, 1 .. k)}
<1>5. 0 \in G
  <2>1. 1 .. 0 = {}
    OBVIOUS
  <2> QED
    BY <1>2, <1>4, <2>1 DEF IsConfig
<1>6. ASSUME NEW k \in Nat \ {0}, k <= n, k - 1 \in G
      PROVE  k \in G
  <2>1. 1 .. k \in SUBSET DOMAIN hs /\ it[1 .. (k - 1)] = Declared(hs, 1 .. (k - 1))
    BY <1>1, <1>6
  <2>2. Max(1 .. k) = k /\ (1 .. k) \ {Max(1 .. k)} = 1 .. (k - 1) /\ 1 .. k # {}
    BY FirstIndices
  <2>3. it[1 .. k] = AddHandler(it[1 .. (k - 1)], hs[k])
    BY <1>4, <2>1, <2>2 DEF IsConfig
  <2>4. Declared(hs, 1 .. k) = AddHandler(Declared(hs, 1 .. (k - 1)), hs[k])
    <3>1. PICK S : S = 1 .. k
      OBVIOUS
    <3>2. S \in SUBSET (1 .. n) /\ S # {}
      BY <1>1, <2>1, <2>2, <3>1
    <3>3. Declared(hs, S) = AddHandler(Declared(hs, S \ {Max(S)}), hs[Max(S)])
      BY <1>1, <3>2, HandlerRound
    <3> QED
      BY <2>2, <3>1, <3>3
  <2> QED
    BY <2>1, <2>3, <2>4
<1>7. it[1 .. n] = Declared(hs, 1 .. n)
  <2> HIDE DEF G
  <2>1. n \in G
    BY <1>1, <1>5, <1>6, UpTo
  <2> QED
    BY <1>1, <2>1 DEF G
<1> QED
  BY <1>1, <1>7, ConfigFold DEF it

\* buildServiceConfig leaves for each port what its last handler says, and under
\* "Web" the routes of the port's last web handler, of each path the last route.
THEOREM LastHandlersCount == Spec => []LastOnesCount
<1>1. Typed => LastOnesCount
  <2> DEFINE hs == handlers
             D == DOMAIN hs
             On(p) == {i \in D : hs[i].port = p}
             WebOn(p) == {i \in On(p) : IsWeb(hs[i])}
             ports == {hs[i].port : i \in D}
             At(rs, q) == {k \in DOMAIN rs : rs[k].path = q \/ (q = "/" /\ rs[k].path = "")}
             Web(rs) ==
               IF rs = <<>> THEN DefaultRoutes
               ELSE [q \in {PathOf(rs[k]) : k \in DOMAIN rs} |-> rs[Max(At(rs, q))].backend]
             W == WebOnes(hs, D)
  <2> SUFFICES ASSUME Typed
               PROVE  /\ Config.TCP = [p \in ports |-> TCPEntry(hs[Max(On(p))])]
                      /\ Config.Web = [p \in {q \in ports : WebOn(q) # {}} |->
                                          Web(hs[Max(WebOn(p))].routes)]
    BY DEF LastOnesCount, LastOf
  <2>1. /\ hs \in Seq(Handlers) /\ Len(hs) \in Nat /\ D = 1 .. Len(hs)
        /\ \A i \in D : hs[i] \in Handlers
    BY DEF Typed
  <2> HIDE DEF hs, D
  <2>2. Config = Declared(hs, D)
    BY <2>1, ConfigIsDeclared DEF Config, hs, D
  <2>3. Config.TCP = [p \in ports |-> TCPEntry(hs[Max(On(p))])]
    <3>1. LastWrites(Ports(hs), TCPEntries(hs), D)
            = [p \in {Ports(hs)[i] : i \in D} |->
                 TCPEntries(hs)[Max({i \in D : Ports(hs)[i] = p})]]
      BY DEF LastWrites
    <3>2. {Ports(hs)[i] : i \in D} = ports
      BY DEF Ports, D
    <3>3. ASSUME NEW p \in ports
          PROVE  TCPEntries(hs)[Max({i \in D : Ports(hs)[i] = p})] = TCPEntry(hs[Max(On(p))])
      <4>1. {i \in D : Ports(hs)[i] = p} = On(p)
        BY DEF Ports, D
      <4>2. On(p) \in SUBSET (1 .. Len(hs)) /\ On(p) # {}
        BY <2>1
      <4>3. Max(On(p)) \in D
        <5> HIDE DEF On
        <5> QED
          BY <2>1, <4>2, MaxOf
      <4> HIDE DEF On
      <4> QED
        BY <4>1, <4>3 DEF TCPEntries, D
    <3> HIDE DEF On, ports
    <3> QED
      BY <2>2, <3>1, <3>2, <3>3 DEF Declared
  <2>4. ASSUME NEW h \in Handlers
        PROVE  WebEntry(h) = Web(h.routes)
    <3> DEFINE rs == h.routes
    <3>1. rs \in Seq([path : STRING, backend : STRING])
      BY HandlersAssumption
    <3>2. CASE rs = <<>>
      BY <3>2 DEF WebEntry
    <3>3. CASE rs # <<>>
      <4>1. WebEntry(h) = LastWrites(Paths(rs), Backends(rs), DOMAIN rs)
        BY <3>1, <3>3, RoutesAreWritten
      <4> HIDE DEF rs
      <4>2. {Paths(rs)[k] : k \in DOMAIN rs} = {PathOf(rs[k]) : k \in DOMAIN rs}
        BY DEF Paths
      <4>3. ASSUME NEW q \in {PathOf(rs[k]) : k \in DOMAIN rs}
            PROVE  Backends(rs)[Max({k \in DOMAIN rs : Paths(rs)[k] = q})]
                     = rs[Max(At(rs, q))].backend
        <5>1. {k \in DOMAIN rs : Paths(rs)[k] = q} = At(rs, q)
          BY DEF Paths, PathOf
        <5>2. At(rs, q) \in SUBSET (1 .. Len(rs)) /\ At(rs, q) # {} /\ Len(rs) \in Nat
          <6>1. At(rs, q) # {}
            BY DEF PathOf
          <6>2. Len(rs) \in Nat /\ DOMAIN rs = 1 .. Len(rs)
            BY <3>1
          <6> QED
            BY <6>1, <6>2
        <5>3. Max(At(rs, q)) \in DOMAIN rs
          <6>1. At(rs, q) \subseteq DOMAIN rs
            OBVIOUS
          <6> HIDE DEF At
          <6> QED
            BY <5>2, <6>1, MaxOf
        <5> HIDE DEF At
        <5> QED
          BY <5>1, <5>3 DEF Backends
      <4> HIDE DEF At
      <4>4. WebEntry(h) = [q \in {PathOf(rs[k]) : k \in DOMAIN rs} |->
                              rs[Max(At(rs, q))].backend]
        BY <4>1, <4>2, <4>3 DEF LastWrites
      <4>5. Web(rs) = [q \in {PathOf(rs[k]) : k \in DOMAIN rs} |->
                          rs[Max(At(rs, q))].backend]
        BY <3>3
      <4> HIDE DEF Web
      <4> QED
        BY <4>4, <4>5 DEF rs
    <3> HIDE DEF At
    <3> QED
      BY <3>2, <3>3
  <2> HIDE DEF Web
  <2>5. Config.Web = [p \in {q \in ports : WebOn(q) # {}} |->
                         Web(hs[Max(WebOn(p))].routes)]
    <3>1. LastWrites(Ports(hs), WebEntries(hs), W)
            = [p \in {Ports(hs)[i] : i \in W} |->
                 WebEntries(hs)[Max({i \in W : Ports(hs)[i] = p})]]
      BY DEF LastWrites
    <3>2. {Ports(hs)[i] : i \in W} = {q \in ports : WebOn(q) # {}}
      BY DEF Ports, D, WebOnes
    <3>3. ASSUME NEW p \in {q \in ports : WebOn(q) # {}}
          PROVE  WebEntries(hs)[Max({i \in W : Ports(hs)[i] = p})]
                   = Web(hs[Max(WebOn(p))].routes)
      <4>1. {i \in W : Ports(hs)[i] = p} = WebOn(p)
        BY DEF Ports, D, WebOnes
      <4>2. WebOn(p) \in SUBSET (1 .. Len(hs)) /\ WebOn(p) # {}
        BY <2>1
      <4>3. Max(WebOn(p)) \in D
        <5> HIDE DEF WebOn
        <5> QED
          BY <2>1, <4>2, MaxOf
      <4> HIDE DEF WebOn
      <4>4. WebEntries(hs)[Max(WebOn(p))] = WebEntry(hs[Max(WebOn(p))])
        BY <4>3 DEF WebEntries, D
      <4> QED
        BY <2>1, <2>4, <4>1, <4>3, <4>4
    <3> HIDE DEF WebOn, ports, W
    <3> QED
      BY <2>2, <3>1, <3>2, <3>3 DEF Declared, W
  <2> QED
    BY <2>3, <2>5
<1> QED
  BY <1>1, TypeCorrect, PTL

\* The ports that the ServiceClient asks of Tailscale (extractPorts) are those
\* that the sidecar is told to serve, and when no port is given twice the web
\* ports are those that have routes.
THEOREM PortsAreServed == Spec => []AskedIsServed
<1>1. Typed => AskedIsServed
  <2> DEFINE hs == handlers
             D == DOMAIN hs
             W == WebOnes(hs, D)
             given == [i \in D |-> hs[i].port]
  <2> SUFFICES ASSUME Typed, hs # <<>>
               PROVE  /\ ExtractPorts(hs) = DOMAIN Config.TCP
                      /\ Distinct(given) =>
                           DOMAIN Config.Web =
                              {p \in DOMAIN Config.TCP :
                                 Config.TCP[p].kind \in {"HTTP", "HTTPS"}}
    BY DEF AskedIsServed
  <2>1. hs \in Seq(Handlers) /\ Len(hs) \in Nat /\ D = 1 .. Len(hs)
    BY DEF Typed
  <2>2. /\ Config.TCP = LastWrites(Ports(hs), TCPEntries(hs), D)
        /\ Config.Web = LastWrites(Ports(hs), WebEntries(hs), W)
    BY <2>1, ConfigIsDeclared DEF Config, Declared
  <2> HIDE DEF hs, D, W
  <2>3. DOMAIN Config.TCP = {hs[i].port : i \in D}
    BY <2>2 DEF LastWrites, Ports, D
  <2>4. DOMAIN Config.Web = {hs[i].port : i \in W}
    BY <2>2 DEF LastWrites, Ports, D, W, WebOnes
  <2>5. ExtractPorts(hs) = DOMAIN Config.TCP
    BY <2>3 DEF ExtractPorts, D
  <2>6. ASSUME Distinct(given)
        PROVE  \A i, j \in D : hs[i].port = hs[j].port => i = j
    <3>1. given \in Seq({hs[i].port : i \in D}) /\ Len(given) = Len(hs)
      BY <2>1
    <3>2. given \in Surjection(D, ToSet(given))
      BY <2>1 DEF Surjection, ToSet
    <3>3. Cardinality(D) = Len(hs) /\ IsFiniteSet(D)
      <4>1. \A n \in Nat : IsFiniteSet(1 .. n) /\ Cardinality(1 .. n) = n
        BY FS_Interval
      <4> QED
        BY <2>1, <4>1
    <3> HIDE DEF given
    <3>4. Cardinality(ToSet(given)) = Cardinality(D)
      BY <2>6, <3>1, <3>3 DEF Distinct
    <3>5. given \in Injection(D, ToSet(given))
      BY <3>2, <3>3, <3>4, FS_Surjection
    <3>6. \A i, j \in D : given[i] = given[j] => i = j
      BY <3>5 DEF Injection, IsInjective
    <3> QED
      BY <3>6 DEF given
  <2>7. ASSUME Distinct(given), NEW i \in D
        PROVE  Config.TCP[hs[i].port].kind \in {"HTTP", "HTTPS"} <=> i \in W
    <3>1. {j \in D : Ports(hs)[j] = hs[i].port} = {i}
      BY <2>6, <2>7 DEF Ports, D
    <3>2. Max({i}) = i
      BY <2>1 DEF Max
    <3>3. Config.TCP[hs[i].port] = TCPEntry(hs[i])
      <4>1. hs[i].port \in {Ports(hs)[j] : j \in D}
        BY DEF Ports, D
      <4>2. LastWrites(Ports(hs), TCPEntries(hs), D)[hs[i].port]
              = TCPEntries(hs)[Max({j \in D : Ports(hs)[j] = hs[i].port})]
        BY <4>1 DEF LastWrites
      <4>3. TCPEntries(hs)[i] = TCPEntry(hs[i])
        BY DEF TCPEntries, D
      <4> QED
        BY <2>2, <3>1, <3>2, <4>2, <4>3
    <3>4. TCPEntry(hs[i]).kind \in {"HTTP", "HTTPS"} <=> IsWeb(hs[i])
      <4>1. CASE hs[i].protocol = "http"
        <5>1. TCPEntry(hs[i]) = [kind |-> "HTTP"]
          BY <4>1 DEF TCPEntry, IsWeb
        <5>2. TCPEntry(hs[i]).kind = "HTTP"
          BY <5>1
        <5> QED
          BY <4>1, <5>2 DEF IsWeb
      <4>2. CASE hs[i].protocol = "https"
        <5>1. TCPEntry(hs[i]) = [kind |-> "HTTPS"]
          BY <4>2 DEF TCPEntry, IsWeb
        <5>2. TCPEntry(hs[i]).kind = "HTTPS"
          BY <5>1
        <5> QED
          BY <4>2, <5>2 DEF IsWeb
      <4>3. CASE ~IsWeb(hs[i]) /\ hs[i].proxy = NoProxy
        <5>1. TCPEntry(hs[i]) = [kind |-> "nothing"]
          BY <4>3 DEF TCPEntry, IsWeb
        <5> QED
          BY <4>3, <5>1
      <4>4. CASE ~IsWeb(hs[i]) /\ hs[i].proxy # NoProxy
        <5>1. TCPEntry(hs[i]).kind = "TCPForward"
          BY <4>4 DEF TCPEntry, IsWeb
        <5> QED
          BY <4>4, <5>1
      <4> QED
        BY <4>1, <4>2, <4>3, <4>4 DEF IsWeb
    <3> QED
      BY <3>3, <3>4 DEF W, WebOnes
  <2>8. W \subseteq D
    BY DEF W, WebOnes
  <2> QED
    BY <2>3, <2>4, <2>5, <2>7, <2>8
<1> QED
  BY <1>1, TypeCorrect, PTL
=============================================================================
