--------------------------- MODULE CelTypesProofs ---------------------------
(***************************************************************************)
(* The conversions of types, for every set of names and every depth: plain *)
(* types come back from a configuration (PlainTypesSurvive), the two ways  *)
(* back from cel::Type agree (ReportsAgree), and what is reported fits the *)
(* type of a variable (StillAssignable) and that of an extension's result  *)
(* (AdaptersReport).                                                       *)
(*                                                                         *)
(* The conversions and the sets of types are recursive functions.  What    *)
(* each of them is at an argument (GetNameOf, ToTypeInfoOf, and so on) is  *)
(* proved by induction on the depth: a function on the types of a depth    *)
(* exists, and any two agree where both are defined.  For that, each set   *)
(* of types is cut into layers, with the parameters of a type in the layer *)
(* below it (PyCelTypesLayered, InfosLayered, CelTypesLayered,             *)
(* AllTypesLayered).                                                       *)
(***************************************************************************)
EXTENDS CelTypes, SequenceTheorems, WellFoundedInduction, TLAPS

\* A set of natural numbers has a least one.
LEMMA Least ==
  ASSUME NEW T \in SUBSET Nat, T # {}
  PROVE  \E m \in T : \A k \in T : m <= k
<1>. DEFINE R == OpToRel(<, Nat)
<1>1. IsWellFoundedOn(R, Nat)
  BY NatLessThanWellFounded
<1>2. \A x, y \in Nat : y < x => <<y, x>> \in R
  BY DEF OpToRel
<1>. HIDE DEF R
<1>3. PICK m \in T : \A y \in T : ~(<<y, m>> \in R)
  BY <1>1, WFMin
<1>4. ASSUME NEW k \in T PROVE m <= k
  <2>1. k \in Nat /\ m \in Nat
    OBVIOUS
  <2>2. ~(k < m)
    BY <1>2, <1>3, <2>1, Zenon
  <2>. QED  BY <2>1, <2>2
<1>. QED  BY <1>4

\* Induction up to a depth, for the depths of a set.
LEMMA UpTo ==
  ASSUME NEW N \in Nat, NEW T, 0 \in T, \A d \in 1..N : d - 1 \in T => d \in T
  PROVE  \A d \in 0..N : d \in T
<1>. DEFINE Rest == {d \in 0..N : d \notin T}
<1>1. CASE Rest # {}
  <2>1. Rest \in SUBSET Nat
    OBVIOUS
  <2>. HIDE DEF Rest
  <2>2. PICK m \in Rest : \A k \in Rest : m <= k
    BY <1>1, <2>1, Least
  <2>3. m \in 1..N /\ m - 1 \in 0..N /\ ~(m <= m - 1) /\ m \notin T
    BY DEF Rest
  <2>4. m - 1 \in T
    BY <2>2, <2>3 DEF Rest
  <2>. QED  BY <2>3, <2>4
<1>2. CASE Rest = {}
  BY <1>2
<1>. QED  BY <1>1, <1>2

\* The types of a depth are made of those of the depth before.
LEMMA PyCelTypesOf ==
  /\ PyCelTypesUpTo[0] = FlatTypes
  /\ \A d \in 1..MaxTypeDepth : PyCelTypesUpTo[d] = TypesOver(PyCelTypesUpTo[d - 1])
<1>. DEFINE Is(f, N) == f = [d \in 0..N |-> IF d = 0 THEN FlatTypes ELSE TypesOver(f[d - 1])]
            T == {N \in 0..MaxTypeDepth : \E f : Is(f, N)}
<1>1. 0 \in T
  <2>1. PICK f : f = [d \in {0} |-> FlatTypes]
    OBVIOUS
  <2>2. 0..0 = {0} /\ \A d \in {0} : d = 0
    OBVIOUS
  <2>3. Is(f, 0)
    BY <2>1, <2>2, Zenon
  <2>. QED  BY <2>3, TypesAreNamed
<1>2. ASSUME NEW N \in 1..MaxTypeDepth, N - 1 \in T PROVE N \in T
  <2>1. PICK f : Is(f, N - 1)
    BY <1>2
  <2>2. PICK g : g = [d \in 0..N |-> IF d = 0 THEN FlatTypes ELSE TypesOver(f[d - 1])]
    OBVIOUS
  <2>3. \A d \in 0..(N - 1) : d \in 0..N
    OBVIOUS
  <2>4. \A d \in 0..(N - 1) : g[d] = f[d]
    BY <2>1, <2>2, <2>3, Zenon
  <2>5. \A d \in 0..N : d # 0 => d - 1 \in 0..(N - 1)
    OBVIOUS
  <2>6. \A d \in 0..N : (IF d = 0 THEN FlatTypes ELSE TypesOver(f[d - 1]))
                          = (IF d = 0 THEN FlatTypes ELSE TypesOver(g[d - 1]))
    BY <2>4, <2>5
  <2>7. Is(g, N)
    BY <2>2, <2>6, Zenon
  <2>8. N \in 0..MaxTypeDepth
    OBVIOUS
  <2>. QED  BY <2>7, <2>8, Zenon
<1>3. \E f : Is(f, MaxTypeDepth)
  <2>1. MaxTypeDepth \in Nat /\ MaxTypeDepth \in 0..MaxTypeDepth
    BY TypesAreNamed
  <2>2. \A d \in 1..MaxTypeDepth : d - 1 \in T => d \in T
    BY <1>2
  <2>. HIDE DEF T
  <2>3. \A d \in 0..MaxTypeDepth : d \in T
    BY <1>1, <2>1, <2>2, UpTo
  <2>. QED  BY <2>1, <2>3, Zenon DEF T
<1>4. PyCelTypesUpTo = CHOOSE f : Is(f, MaxTypeDepth)
  BY DEF PyCelTypesUpTo
<1>5. Is(PyCelTypesUpTo, MaxTypeDepth)
  BY <1>3, <1>4, Zenon
<1>6. 0 \in 0..MaxTypeDepth /\ \A d \in 1..MaxTypeDepth : d \in 0..MaxTypeDepth /\ d # 0
  BY TypesAreNamed
<1>. QED  BY <1>5, <1>6, Zenon

\* What a type may be that is made of the types of a set.
LEMMA TypesOverOf ==
  ASSUME NEW S, NEW t \in TypesOver(S)
  PROVE  \/ t \in S
         \/ \E u \in S : t = ListType(u)
         \/ \E k \in {"string", "dyn"}, u \in S : t = MapType(Scalar(k), u)
         \/ \E u \in S : t = TypeType(u)
         \/ \E n \in OpaqueNames, u \in S : t = AbstractType(<<n>>, <<u>>)
  BY DEF TypesOver

\* Its parameters are of that set, where the keys of maps are.
LEMMA TypesOverParams ==
  ASSUME NEW S, \A k \in Scalars : Scalar(k) \in S, NEW t \in TypesOver(S), t \notin S,
         NEW i \in DOMAIN t.params
  PROVE  t.params[i] \in S
<1>1. CASE \E u \in S : t = ListType(u) \/ t = TypeType(u)
  BY <1>1 DEF ListType, TypeType, Record
<1>2. CASE \E k \in {"string", "dyn"}, u \in S : t = MapType(Scalar(k), u)
  <2>1. PICK k \in {"string", "dyn"}, u \in S : t = MapType(Scalar(k), u)
    BY <1>2
  <2>2. t.params = <<Scalar(k), u>>
    BY <2>1 DEF MapType, Scalar, Record
  <2>. QED  BY <2>1, <2>2 DEF Scalars, ScalarNames
<1>3. CASE \E n \in OpaqueNames, u \in S : t = AbstractType(<<n>>, <<u>>)
  BY <1>3 DEF AbstractType, Record
<1>. QED  BY <1>1, <1>2, <1>3, TypesOverOf

\* The parameters of a type are types of the depth before.
LEMMA PyCelTypesLayered ==
  /\ MaxTypeDepth \in Nat /\ PyCelTypes = PyCelTypesUpTo[MaxTypeDepth]
  /\ \A t \in PyCelTypesUpTo[0] : t.params = <<>>
  /\ \A d \in 1..MaxTypeDepth :
       /\ PyCelTypesUpTo[d - 1] \subseteq PyCelTypesUpTo[d]
       /\ \A t \in PyCelTypesUpTo[d] :
            \A i \in DOMAIN t.params : t.params[i] \in PyCelTypesUpTo[d - 1]
  /\ \A d \in 0..MaxTypeDepth : FlatTypes \subseteq PyCelTypesUpTo[d]
<1>. DEFINE U == PyCelTypesUpTo
            Fine(d) == /\ \A t \in U[d] : \A i \in DOMAIN t.params : d # 0 /\ t.params[i] \in U[d - 1]
                       /\ FlatTypes \subseteq U[d]
            T == {d \in 0..MaxTypeDepth : Fine(d)}
<1>1. \A t \in U[0] : t.params = <<>>
  BY PyCelTypesOf DEF FlatTypes, Scalar, Error, Unknown, Type, MessageType, AbstractType, Record
<1>2. ASSUME NEW d \in 1..MaxTypeDepth PROVE U[d - 1] \subseteq U[d]
  <2>1. U[d - 1] \subseteq TypesOver(U[d - 1])
    BY DEF TypesOver
  <2>2. U[d] = TypesOver(U[d - 1])
    BY PyCelTypesOf, Zenon
  <2>. QED  BY <2>1, <2>2, Zenon
<1>3. 0 \in T
  BY <1>1, PyCelTypesOf, TypesAreNamed
<1>4. ASSUME NEW d \in 1..MaxTypeDepth, d - 1 \in T PROVE d \in T
  <2>1. \A k \in Scalars : Scalar(k) \in U[d - 1]
    BY <1>4 DEF FlatTypes
  <2>2. ASSUME NEW t \in U[d], NEW i \in DOMAIN t.params PROVE t.params[i] \in U[d - 1]
    <3>1. CASE t \in U[d - 1]
      <4>1. d - 1 # 0 /\ t.params[i] \in U[(d - 1) - 1]
        BY <1>4, <3>1
      <4>2. d - 1 \in 1..MaxTypeDepth
        BY <4>1, TypesAreNamed
      <4>. QED  BY <1>2, <4>1, <4>2
    <3>2. CASE t \notin U[d - 1]
      <4>1. t \in TypesOver(U[d - 1])
        BY PyCelTypesOf, Zenon
      <4>. QED  BY <2>1, <3>2, <4>1, TypesOverParams, Zenon
    <3>. QED  BY <3>1, <3>2
  <2>3. FlatTypes \subseteq U[d]
    BY <1>2, <1>4
  <2>. QED  BY <2>2, <2>3
<1>5. \A d \in 0..MaxTypeDepth : d \in T
  <2>. HIDE DEF T
  <2>. QED  BY <1>3, <1>4, UpTo, TypesAreNamed
<1>6. ASSUME NEW d \in 1..MaxTypeDepth, NEW t \in U[d], NEW i \in DOMAIN t.params
      PROVE  t.params[i] \in U[d - 1]
  <2>1. d \in T
    BY <1>5, TypesAreNamed
  <2>. QED  BY <2>1
<1>7. \A d \in 0..MaxTypeDepth : FlatTypes \subseteq U[d]
  BY <1>5
<1>. HIDE DEF T
<1>. QED  BY <1>1, <1>2, <1>6, <1>7, TypesAreNamed DEF PyCelTypes

\* So are the type infos that are written.
LEMMA WrittenInfosOf ==
  /\ WrittenInfosUpTo[0] = FlatInfos
  /\ \A d \in 1..MaxTypeDepth : WrittenInfosUpTo[d] = InfosOver(WrittenInfosUpTo[d - 1])
<1>. DEFINE Is(f, N) == f = [d \in 0..N |-> IF d = 0 THEN FlatInfos ELSE InfosOver(f[d - 1])]
            T == {N \in 0..MaxTypeDepth : \E f : Is(f, N)}
<1>1. 0 \in T
  <2>1. PICK f : f = [d \in {0} |-> FlatInfos]
    OBVIOUS
  <2>2. 0..0 = {0} /\ \A d \in {0} : d = 0
    OBVIOUS
  <2>3. Is(f, 0)
    BY <2>1, <2>2, Zenon
  <2>. QED  BY <2>3, TypesAreNamed
<1>2. ASSUME NEW N \in 1..MaxTypeDepth, N - 1 \in T PROVE N \in T
  <2>1. PICK f : Is(f, N - 1)
    BY <1>2
  <2>2. PICK g : g = [d \in 0..N |-> IF d = 0 THEN FlatInfos ELSE InfosOver(f[d - 1])]
    OBVIOUS
  <2>3. \A d \in 0..(N - 1) : d \in 0..N
    OBVIOUS
  <2>4. \A d \in 0..(N - 1) : g[d] = f[d]
    BY <2>1, <2>2, <2>3, Zenon
  <2>5. \A d \in 0..N : d # 0 => d - 1 \in 0..(N - 1)
    OBVIOUS
  <2>6. \A d \in 0..N : (IF d = 0 THEN FlatInfos ELSE InfosOver(f[d - 1]))
                          = (IF d = 0 THEN FlatInfos ELSE InfosOver(g[d - 1]))
    BY <2>4, <2>5
  <2>7. Is(g, N)
    BY <2>2, <2>6, Zenon
  <2>8. N \in 0..MaxTypeDepth
    OBVIOUS
  <2>. QED  BY <2>7, <2>8, Zenon
<1>3. \E f : Is(f, MaxTypeDepth)
  <2>1. MaxTypeDepth \in Nat /\ MaxTypeDepth \in 0..MaxTypeDepth
    BY TypesAreNamed
  <2>2. \A d \in 1..MaxTypeDepth : d - 1 \in T => d \in T
    BY <1>2
  <2>. HIDE DEF T
  <2>3. \A d \in 0..MaxTypeDepth : d \in T
    BY <1>1, <2>1, <2>2, UpTo
  <2>. QED  BY <2>1, <2>3, Zenon DEF T
<1>4. WrittenInfosUpTo = CHOOSE f : Is(f, MaxTypeDepth)
  BY DEF WrittenInfosUpTo
<1>5. Is(WrittenInfosUpTo, MaxTypeDepth)
  BY <1>3, <1>4, Zenon
<1>6. 0 \in 0..MaxTypeDepth /\ \A d \in 1..MaxTypeDepth : d \in 0..MaxTypeDepth /\ d # 0
  BY TypesAreNamed
<1>. QED  BY <1>5, <1>6, Zenon

\* GetName is what its definition says.
LEMMA GetNameOf ==
  \A t \in PyCelTypes : GetName[t] = t.name \o [i \in DOMAIN t.params |-> GetName[t.params[i]]]
<1>. DEFINE N == MaxTypeDepth
            G(ps, t) == t.name \o ps
            H(f, t) == G([i \in DOMAIN t.params |-> f[t.params[i]]], t)
            Is(f, S) == f = [t \in S |-> H(f, t)]
            T == {d \in 0..N : \E f : Is(f, PyCelTypesUpTo[d])}
<1>1. ASSUME NEW f, NEW g, NEW t \in PyCelTypesUpTo[0] PROVE H(f, t) = H(g, t)
  BY PyCelTypesLayered
<1>2. ASSUME NEW d \in 1..N, NEW f, NEW g, \A t \in PyCelTypesUpTo[d - 1] : f[t] = g[t], NEW t \in PyCelTypesUpTo[d]
      PROVE  H(f, t) = H(g, t)
  BY <1>2, PyCelTypesLayered
<1>3. N \in Nat /\ PyCelTypes = PyCelTypesUpTo[N]
  BY PyCelTypesLayered
<1>. HIDE DEF H
<1>4. 0 \in T
  <2>1. PICK f : f = [t \in PyCelTypesUpTo[0] |-> H({}, t)]
    OBVIOUS
  <2>2. Is(f, PyCelTypesUpTo[0])
    BY <1>1, <2>1, Zenon
  <2>. QED  BY <1>3, <2>2
<1>5. ASSUME NEW d \in 1..N, d - 1 \in T PROVE d \in T
  <2>1. PICK f : Is(f, PyCelTypesUpTo[d - 1])
    BY <1>5
  <2>2. PICK g : g = [t \in PyCelTypesUpTo[d] |-> H(f, t)]
    OBVIOUS
  <2>3. \A t \in PyCelTypesUpTo[d - 1] : t \in PyCelTypesUpTo[d]
    BY PyCelTypesLayered
  <2>4. \A t \in PyCelTypesUpTo[d - 1] : f[t] = g[t]
    BY <2>1, <2>2, <2>3, Zenon
  <2>5. \A t \in PyCelTypesUpTo[d] : H(f, t) = H(g, t)
    BY <1>2, <2>4
  <2>6. Is(g, PyCelTypesUpTo[d])
    BY <2>2, <2>5, Zenon
  <2>. QED  BY <2>6
<1>6. \E f : Is(f, PyCelTypesUpTo[N])
  <2>1. N \in 0..N
    BY <1>3
  <2>. HIDE DEF T, N
  <2>2. N \in T
    BY <1>3, <1>4, <1>5, <2>1, UpTo
  <2>. QED  BY <2>2, Zenon DEF T
<1>7. GetName = CHOOSE f : Is(f, PyCelTypes)
  BY DEF GetName, H, G
<1>8. Is(GetName, PyCelTypesUpTo[N])
  BY <1>3, <1>6, <1>7, Zenon
<1>. QED  BY <1>3, <1>8, Zenon DEF H, G

\* ToTypeInfo is what its definition says.
LEMMA ToTypeInfoOf ==
  \A t \in PyCelTypes : ToTypeInfo[t] = 
    Info(InfoName(t), [i \in DOMAIN t.params |-> ToTypeInfo[t.params[i]]])
<1>. DEFINE N == MaxTypeDepth
            G(ps, t) == Info(InfoName(t), ps)
            H(f, t) == G([i \in DOMAIN t.params |-> f[t.params[i]]], t)
            Is(f, S) == f = [t \in S |-> H(f, t)]
            T == {d \in 0..N : \E f : Is(f, PyCelTypesUpTo[d])}
<1>1. ASSUME NEW f, NEW g, NEW t \in PyCelTypesUpTo[0] PROVE H(f, t) = H(g, t)
  BY PyCelTypesLayered
<1>2. ASSUME NEW d \in 1..N, NEW f, NEW g, \A t \in PyCelTypesUpTo[d - 1] : f[t] = g[t], NEW t \in PyCelTypesUpTo[d]
      PROVE  H(f, t) = H(g, t)
  BY <1>2, PyCelTypesLayered
<1>3. N \in Nat /\ PyCelTypes = PyCelTypesUpTo[N]
  BY PyCelTypesLayered
<1>. HIDE DEF H
<1>4. 0 \in T
  <2>1. PICK f : f = [t \in PyCelTypesUpTo[0] |-> H({}, t)]
    OBVIOUS
  <2>2. Is(f, PyCelTypesUpTo[0])
    BY <1>1, <2>1, Zenon
  <2>. QED  BY <1>3, <2>2
<1>5. ASSUME NEW d \in 1..N, d - 1 \in T PROVE d \in T
  <2>1. PICK f : Is(f, PyCelTypesUpTo[d - 1])
    BY <1>5
  <2>2. PICK g : g = [t \in PyCelTypesUpTo[d] |-> H(f, t)]
    OBVIOUS
  <2>3. \A t \in PyCelTypesUpTo[d - 1] : t \in PyCelTypesUpTo[d]
    BY PyCelTypesLayered
  <2>4. \A t \in PyCelTypesUpTo[d - 1] : f[t] = g[t]
    BY <2>1, <2>2, <2>3, Zenon
  <2>5. \A t \in PyCelTypesUpTo[d] : H(f, t) = H(g, t)
    BY <1>2, <2>4
  <2>6. Is(g, PyCelTypesUpTo[d])
    BY <2>2, <2>5, Zenon
  <2>. QED  BY <2>6
<1>6. \E f : Is(f, PyCelTypesUpTo[N])
  <2>1. N \in 0..N
    BY <1>3
  <2>. HIDE DEF T, N
  <2>2. N \in T
    BY <1>3, <1>4, <1>5, <2>1, UpTo
  <2>. QED  BY <2>2, Zenon DEF T
<1>7. ToTypeInfo = CHOOSE f : Is(f, PyCelTypes)
  BY DEF ToTypeInfo, H, G
<1>8. Is(ToTypeInfo, PyCelTypesUpTo[N])
  BY <1>3, <1>6, <1>7, Zenon
<1>. QED  BY <1>3, <1>8, Zenon DEF H, G

---------------------------------------------------------------------------
(***************************************************************************)
(* What types and type infos look like.                                    *)
(***************************************************************************)
\* A type is flat or made of types of the depth before.
LEMMA TypesByDepth ==
  ASSUME NEW d \in 0..MaxTypeDepth, NEW t \in PyCelTypesUpTo[d]
  PROVE  \/ t \in FlatTypes
         \/ /\ d # 0
            /\ \/ \E u \in PyCelTypesUpTo[d - 1] : t = ListType(u)
               \/ \E k \in {"string", "dyn"}, u \in PyCelTypesUpTo[d - 1] : t = MapType(Scalar(k), u)
               \/ \E u \in PyCelTypesUpTo[d - 1] : t = TypeType(u)
               \/ \E n \in OpaqueNames, u \in PyCelTypesUpTo[d - 1] : t = AbstractType(<<n>>, <<u>>)
<1>. DEFINE U == PyCelTypesUpTo
            Over(S, x) == \/ \E u \in S : x = ListType(u)
                          \/ \E k \in {"string", "dyn"}, u \in S : x = MapType(Scalar(k), u)
                          \/ \E u \in S : x = TypeType(u)
                          \/ \E n \in OpaqueNames, u \in S : x = AbstractType(<<n>>, <<u>>)
            T == {e \in 0..MaxTypeDepth : \A x \in U[e] : x \in FlatTypes \/ (e # 0 /\ Over(U[e - 1], x))}
<1>1. 0 \in T
  BY PyCelTypesOf, TypesAreNamed
<1>2. ASSUME NEW e \in 1..MaxTypeDepth, e - 1 \in T PROVE e \in T
  <2>1. ASSUME NEW x \in U[e] PROVE x \in FlatTypes \/ Over(U[e - 1], x)
    <3>1. x \in U[e - 1] \/ Over(U[e - 1], x)
      <4>1. x \in TypesOver(U[e - 1])
        BY PyCelTypesOf, Zenon
      <4>. QED  BY <4>1, TypesOverOf
    <3>2. CASE x \in U[e - 1]
      <4>1. x \in FlatTypes \/ (e - 1 # 0 /\ Over(U[(e - 1) - 1], x))
        BY <1>2, <3>2
      <4>2. e - 1 # 0 => \A u \in U[(e - 1) - 1] : u \in U[e - 1]
        BY PyCelTypesLayered
      <4>3. e - 1 # 0 /\ Over(U[(e - 1) - 1], x) => Over(U[e - 1], x)
        BY <4>2, Zenon
      <4>. HIDE DEF Over
      <4>. QED  BY <4>1, <4>3
    <3>. HIDE DEF Over
    <3>. QED  BY <3>1, <3>2
  <2>2. e \in 0..MaxTypeDepth /\ e # 0
    OBVIOUS
  <2>. HIDE DEF Over
  <2>. QED  BY <2>1, <2>2
<1>3. \A e \in 0..MaxTypeDepth : e \in T
  <2>. HIDE DEF T
  <2>. QED  BY <1>1, <1>2, UpTo, TypesAreNamed
<1>. QED  BY <1>3, Zenon

\* Every type of a depth is a type.
LEMMA TypesOfDepth ==
  \A d \in 0..MaxTypeDepth : PyCelTypesUpTo[d] \subseteq PyCelTypes
<1>. DEFINE Rest(d) == PyCelTypesUpTo[MaxTypeDepth - d] \subseteq PyCelTypes
            R == {d \in 0..MaxTypeDepth : Rest(d)}
<1>1. 0 \in R
  BY PyCelTypesLayered
<1>2. ASSUME NEW d \in 1..MaxTypeDepth, d - 1 \in R PROVE d \in R
  <2>1. /\ MaxTypeDepth - (d - 1) \in 1..MaxTypeDepth
        /\ (MaxTypeDepth - (d - 1)) - 1 = MaxTypeDepth - d
    BY TypesAreNamed
  <2>. QED  BY <1>2, <2>1, PyCelTypesLayered
<1>3. \A d \in 0..MaxTypeDepth : d \in R
  <2>. HIDE DEF R
  <2>. QED  BY <1>1, <1>2, UpTo, TypesAreNamed
<1>4. ASSUME NEW d \in 0..MaxTypeDepth PROVE PyCelTypesUpTo[d] \subseteq PyCelTypes
  <2>1. MaxTypeDepth - d \in 0..MaxTypeDepth /\ MaxTypeDepth - (MaxTypeDepth - d) = d
    BY TypesAreNamed
  <2>2. MaxTypeDepth - d \in R
    <3>. HIDE DEF R
    <3>. QED  BY <1>3, <2>1, Zenon
  <2>. QED  BY <2>1, <2>2
<1>. QED  BY <1>4

---------------------------------------------------------------------------
(***************************************************************************)
(* The infos that TypeInfoToType takes, by depth, and what it makes of     *)
(* them.                                                                   *)
(***************************************************************************)
InfosUpTo(d) == WrittenInfosUpTo[d] \cup {ToTypeInfo[t] : t \in PyCelTypesUpTo[d]}

\* What a type info may be that is made of the infos of a set.
LEMMA InfosOverOf ==
  ASSUME NEW S, NEW t \in InfosOver(S)
  PROVE  \/ t \in S
         \/ \E n \in {"list", "type"} \cup OpaqueNames, i \in S : t = Info(<<n>>, <<i>>)
         \/ \E k \in {"string", "double"}, i \in S :
              t = Info(<<"map">>, <<Info(<<k>>, <<>>), i>>)
<1>1. ASSUME NEW u
      PROVE  u \in InfosOver(S) <=>
               \/ u \in S
               \/ \E n \in {"list", "type"} \cup OpaqueNames, i \in S : u = Info(<<n>>, <<i>>)
               \/ \E k \in {"string", "double"}, i \in S :
                    u = Info(<<"map">>, <<Info(<<k>>, <<>>), i>>)
  BY DEF InfosOver
<1>. QED  BY <1>1, Zenon

\* Its parameters are of that set, where the keys of maps are.
LEMMA InfosOverParams ==
  ASSUME NEW S, \A k \in Scalars : Info(<<k>>, <<>>) \in S, NEW t \in InfosOver(S), t \notin S,
         NEW i \in DOMAIN t.params
  PROVE  t.params[i] \in S
<1>1. CASE \E n \in {"list", "type"} \cup OpaqueNames, u \in S : t = Info(<<n>>, <<u>>)
  BY <1>1 DEF Info, Record
<1>2. CASE \E k \in {"string", "double"}, u \in S :
             t = Info(<<"map">>, <<Info(<<k>>, <<>>), u>>)
  <2>1. PICK k \in {"string", "double"}, u \in S : t = Info(<<"map">>, <<Info(<<k>>, <<>>), u>>)
    BY <1>2
  <2>2. t.params = <<Info(<<k>>, <<>>), u>>
    BY <2>1 DEF Info, Record
  <2>3. k \in Scalars
    BY DEF Scalars, ScalarNames
  <2>. QED  BY <2>1, <2>2, <2>3
<1>. QED  BY <1>1, <1>2, InfosOverOf, Zenon

\* The parameters of a type info are type infos of the depth before.
LEMMA InfosLayered ==
  /\ MaxTypeDepth \in Nat /\ TypeInfos = InfosUpTo(MaxTypeDepth)
  /\ \A i \in InfosUpTo(0) : i.params = <<>>
  /\ \A d \in 1..MaxTypeDepth :
       /\ InfosUpTo(d - 1) \subseteq InfosUpTo(d)
       /\ \A i \in InfosUpTo(d) : \A j \in DOMAIN i.params : i.params[j] \in InfosUpTo(d - 1)
  /\ FlatInfos \subseteq InfosUpTo(0)
<1>. DEFINE U == WrittenInfosUpTo
            Fine(d) == /\ \A t \in U[d] : \A i \in DOMAIN t.params : d # 0 /\ t.params[i] \in U[d - 1]
                       /\ FlatInfos \subseteq U[d]
            T == {d \in 0..MaxTypeDepth : Fine(d)}
<1>1. \A t \in U[0] : t.params = <<>>
  BY WrittenInfosOf DEF FlatInfos, Info, Record
<1>2. ASSUME NEW d \in 1..MaxTypeDepth PROVE U[d - 1] \subseteq U[d]
  <2>1. U[d - 1] \subseteq InfosOver(U[d - 1])
    BY DEF InfosOver
  <2>2. U[d] = InfosOver(U[d - 1])
    BY WrittenInfosOf, Zenon
  <2>. QED  BY <2>1, <2>2, Zenon
<1>3. 0 \in T
  BY <1>1, WrittenInfosOf, TypesAreNamed
<1>4. ASSUME NEW d \in 1..MaxTypeDepth, d - 1 \in T PROVE d \in T
  <2>1. \A k \in Scalars : Info(<<k>>, <<>>) \in U[d - 1]
    BY <1>4 DEF FlatInfos
  <2>2. ASSUME NEW t \in U[d], NEW i \in DOMAIN t.params PROVE t.params[i] \in U[d - 1]
    <3>1. CASE t \in U[d - 1]
      <4>1. d - 1 # 0 /\ t.params[i] \in U[(d - 1) - 1]
        BY <1>4, <3>1
      <4>2. d - 1 \in 1..MaxTypeDepth
        BY <4>1, TypesAreNamed
      <4>. QED  BY <1>2, <4>1, <4>2
    <3>2. CASE t \notin U[d - 1]
      <4>1. t \in InfosOver(U[d - 1])
        BY WrittenInfosOf, Zenon
      <4>. QED  BY <2>1, <3>2, <4>1, InfosOverParams, Zenon
    <3>. QED  BY <3>1, <3>2
  <2>3. FlatInfos \subseteq U[d]
    BY <1>2, <1>4
  <2>. QED  BY <2>2, <2>3
<1>5. \A d \in 0..MaxTypeDepth : d \in T
  <2>. HIDE DEF T
  <2>. QED  BY <1>3, <1>4, UpTo, TypesAreNamed
<1>7. ASSUME NEW d \in 0..MaxTypeDepth, NEW t \in PyCelTypesUpTo[d]
      PROVE  /\ ToTypeInfo[t].params = [j \in DOMAIN t.params |-> ToTypeInfo[t.params[j]]]
             /\ DOMAIN ToTypeInfo[t].params = DOMAIN t.params
  <2>1. ToTypeInfo[t] = Info(InfoName(t), [j \in DOMAIN t.params |-> ToTypeInfo[t.params[j]]])
    BY TypesOfDepth, ToTypeInfoOf
  <2>. QED  BY <2>1 DEF Info, Record
<1>8. ASSUME NEW i \in InfosUpTo(0) PROVE i.params = <<>>
  <2>1. CASE \E t \in PyCelTypesUpTo[0] : i = ToTypeInfo[t]
    <3>1. PICK t \in PyCelTypesUpTo[0] : i = ToTypeInfo[t]
      BY <2>1
    <3>2. t.params = <<>> /\ 0 \in 0..MaxTypeDepth
      BY PyCelTypesLayered
    <3>3. i.params = [j \in DOMAIN t.params |-> ToTypeInfo[t.params[j]]]
      BY <1>7, <3>1, <3>2
    <3>. QED  BY <3>2, <3>3
  <2>. QED  BY <1>1, <2>1 DEF InfosUpTo
<1>9. ASSUME NEW d \in 1..MaxTypeDepth PROVE InfosUpTo(d - 1) \subseteq InfosUpTo(d)
  BY <1>2, PyCelTypesLayered DEF InfosUpTo
<1>10. ASSUME NEW d \in 1..MaxTypeDepth, NEW i \in InfosUpTo(d), NEW j \in DOMAIN i.params
       PROVE  i.params[j] \in InfosUpTo(d - 1)
  <2>1. CASE \E t \in PyCelTypesUpTo[d] : i = ToTypeInfo[t]
    <3>1. PICK t \in PyCelTypesUpTo[d] : i = ToTypeInfo[t]
      BY <2>1
    <3>2. d \in 0..MaxTypeDepth
      OBVIOUS
    <3>3. /\ i.params = [k \in DOMAIN t.params |-> ToTypeInfo[t.params[k]]]
          /\ DOMAIN i.params = DOMAIN t.params
      BY <1>7, <3>1, <3>2
    <3>4. t.params[j] \in PyCelTypesUpTo[d - 1] /\ i.params[j] = ToTypeInfo[t.params[j]]
      BY <3>3, PyCelTypesLayered
    <3>. QED  BY <3>4 DEF InfosUpTo
  <2>2. CASE i \in U[d]
    BY <1>5, <2>2 DEF InfosUpTo
  <2>. QED  BY <2>1, <2>2 DEF InfosUpTo
<1>11. FlatInfos \subseteq InfosUpTo(0)
  BY WrittenInfosOf DEF InfosUpTo
<1>12. TypeInfos = InfosUpTo(MaxTypeDepth)
  BY DEF TypeInfos, InfosUpTo, WrittenInfos, PyCelTypes
<1>. QED  BY <1>8, <1>9, <1>10, <1>11, <1>12, TypesAreNamed

\* TypeInfoToType is what its definition says.
LEMMA TypeInfoToTypeOf ==
  \A t \in TypeInfos : TypeInfoToType[t] = TypeOfInfo(t, [i \in DOMAIN t.params |-> TypeInfoToType[t.params[i]]])
<1>. DEFINE N == MaxTypeDepth
            G(ps, t) == TypeOfInfo(t, ps)
            H(f, t) == G([i \in DOMAIN t.params |-> f[t.params[i]]], t)
            Is(f, S) == f = [t \in S |-> H(f, t)]
            T == {d \in 0..N : \E f : Is(f, InfosUpTo(d))}
<1>1. ASSUME NEW f, NEW g, NEW t \in InfosUpTo(0) PROVE H(f, t) = H(g, t)
  BY InfosLayered
<1>2. ASSUME NEW d \in 1..N, NEW f, NEW g, \A t \in InfosUpTo(d - 1) : f[t] = g[t], NEW t \in InfosUpTo(d)
      PROVE  H(f, t) = H(g, t)
  BY <1>2, InfosLayered
<1>3. N \in Nat /\ TypeInfos = InfosUpTo(N)
  BY InfosLayered
<1>. HIDE DEF H
<1>4. 0 \in T
  <2>1. PICK f : f = [t \in InfosUpTo(0) |-> H({}, t)]
    OBVIOUS
  <2>2. Is(f, InfosUpTo(0))
    BY <1>1, <2>1, Zenon
  <2>. QED  BY <1>3, <2>2
<1>5. ASSUME NEW d \in 1..N, d - 1 \in T PROVE d \in T
  <2>1. PICK f : Is(f, InfosUpTo(d - 1))
    BY <1>5
  <2>2. PICK g : g = [t \in InfosUpTo(d) |-> H(f, t)]
    OBVIOUS
  <2>3. \A t \in InfosUpTo(d - 1) : t \in InfosUpTo(d)
    BY InfosLayered
  <2>4. \A t \in InfosUpTo(d - 1) : f[t] = g[t]
    BY <2>1, <2>2, <2>3, Zenon
  <2>5. \A t \in InfosUpTo(d) : H(f, t) = H(g, t)
    BY <1>2, <2>4
  <2>6. Is(g, InfosUpTo(d))
    BY <2>2, <2>5, Zenon
  <2>. QED  BY <2>6
<1>6. \E f : Is(f, InfosUpTo(N))
  <2>1. N \in 0..N
    BY <1>3
  <2>. HIDE DEF T, N
  <2>2. N \in T
    BY <1>3, <1>4, <1>5, <2>1, UpTo
  <2>. QED  BY <2>2, Zenon DEF T
<1>7. TypeInfoToType = CHOOSE f : Is(f, TypeInfos)
  BY DEF TypeInfoToType, H, G
<1>8. Is(TypeInfoToType, InfosUpTo(N))
  BY <1>3, <1>6, <1>7, Zenon
<1>. QED  BY <1>3, <1>8, Zenon DEF H, G


---------------------------------------------------------------------------
(***************************************************************************)
(* The conversions, form by form.                                          *)
(***************************************************************************)
\* A flat type is a scalar, one of three names, a message or an abstract type.
LEMMA FlatForms ==
  ASSUME NEW t \in FlatTypes
  PROVE  /\ t.params = <<>>
         /\ \/ \E k \in Scalars : t = Scalar(k)
            \/ t \in {Error, Unknown, Type}
            \/ \E n \in KnownMessages \cup LostMessages :
                 /\ n \notin {"google.protobuf.Timestamp", "google.protobuf.Duration"}
                 /\ t = Record("message", <<n>>, <<>>)
            \/ \E n \in OpaqueNames : t = Record("type", <<n>>, <<>>)
<1>1. \/ \E k \in Scalars : t = Scalar(k)
      \/ t \in {Error, Unknown, Type}
      \/ \E n \in KnownMessages \cup LostMessages : t = MessageType(<<n>>)
      \/ \E n \in OpaqueNames : t = AbstractType(<<n>>, <<>>)
  BY DEF FlatTypes
<1>2. CASE \E n \in KnownMessages \cup LostMessages : t = MessageType(<<n>>)
  <2>1. PICK n \in KnownMessages \cup LostMessages : t = MessageType(<<n>>)
    BY <1>2
  <2>2. \/ t = Scalar("timestamp") \/ t = Scalar("duration")
        \/ /\ n \notin {"google.protobuf.Timestamp", "google.protobuf.Duration"}
           /\ t = Record("message", <<n>>, <<>>)
    BY <2>1 DEF MessageType
  <2>3. "timestamp" \in Scalars /\ "duration" \in Scalars
    BY DEF Scalars, ScalarNames
  <2>4. Record("message", <<n>>, <<>>).params = <<>> /\ \A k : Scalar(k).params = <<>>
    BY DEF Scalar, Record
  <2>. QED  BY <2>2, <2>3, <2>4, Zenon
<1>3. (\A k : Scalar(k).params = <<>>) /\ Error.params = <<>> /\ Unknown.params = <<>>
       /\ Type.params = <<>> /\ \A n : AbstractType(n, <<>>).params = <<>>
  BY DEF Scalar, Error, Unknown, Type, AbstractType, Record
<1>4. CASE ~ \E n \in KnownMessages \cup LostMessages : t = MessageType(<<n>>)
  BY <1>1, <1>3, <1>4 DEF AbstractType
<1>. QED  BY <1>2, <1>4

\* What ToTypeInfo makes of the types without parameters.
LEMMA FlatInfoOf ==
  ASSUME NEW t \in PyCelTypes, t.params = <<>>
  PROVE  ToTypeInfo[t] = Info(IF t.kind \in Scalars \cup {"list", "map"} THEN <<t.kind>> ELSE t.name \o <<>>,
                              <<>>)
<1>1. [i \in DOMAIN t.params |-> ToTypeInfo[t.params[i]]] = <<>>
  OBVIOUS
<1>2. [i \in DOMAIN t.params |-> GetName[t.params[i]]] = <<>>
  OBVIOUS
<1>3. ToTypeInfo[t] = Info(InfoName(t), <<>>) /\ GetName[t] = t.name \o <<>>
  BY <1>1, <1>2, ToTypeInfoOf, GetNameOf, Zenon
<1>. QED  BY <1>3 DEF InfoName

\* What ToTypeInfo makes of a type with one parameter.
LEMMA UnaryInfoOf ==
  ASSUME NEW t \in PyCelTypes, NEW u, t.params = <<u>>
  PROVE  ToTypeInfo[t] = Info(IF t.kind \in Scalars \cup {"list", "map"} THEN <<t.kind>>
                                ELSE t.name \o <<GetName[u]>>,
                              <<ToTypeInfo[u]>>)
<1>1. [i \in DOMAIN t.params |-> ToTypeInfo[t.params[i]]] = <<ToTypeInfo[u]>>
  OBVIOUS
<1>2. [i \in DOMAIN t.params |-> GetName[t.params[i]]] = <<GetName[u]>>
  OBVIOUS
<1>3. ToTypeInfo[t] = Info(InfoName(t), <<ToTypeInfo[u]>>) /\ GetName[t] = t.name \o <<GetName[u]>>
  BY <1>1, <1>2, ToTypeInfoOf, GetNameOf, Zenon
<1>. QED  BY <1>3 DEF InfoName

\* Two sequences of one element make a pair.
LEMMA PairOf ==
  ASSUME NEW a, NEW b
  PROVE  <<a>> \o <<b>> = <<a, b>>
<1>. DEFINE s == <<a>>
            t == <<b>>
            p == <<a, b>>
            q == s \o t
            S == {a, b}
<1>1. /\ s \in Seq(S) /\ t \in Seq(S) /\ p \in Seq(S)
      /\ Len(s) = 1 /\ Len(t) = 1 /\ Len(p) = 2
      /\ s[1] = a /\ t[1] = b /\ p[1] = a /\ p[2] = b
  OBVIOUS
<1>. HIDE DEF s, t, p, q, S
<1>2. q \in Seq(S) /\ Len(q) = 2 /\ q[1] = a /\ q[2] = b
  BY <1>1, ConcatProperties DEF q
<1>3. \A i \in 1..Len(q) : q[i] = p[i]
  BY <1>1, <1>2
<1>4. q = p
  BY <1>1, <1>2, <1>3, SeqEqual
<1>. QED  BY <1>4, Zenon DEF s, t, p, q

\* ToTypeInfo of a scalar.
LEMMA ScalarInfoOf ==
  ASSUME NEW k \in Scalars, Scalar(k) \in PyCelTypes
  PROVE  ToTypeInfo[Scalar(k)] = Info(<<k>>, <<>>)
<1>1. Scalar(k).params = <<>> /\ Scalar(k).kind = k
  BY DEF Scalar, Record
<1>. QED  BY <1>1, FlatInfoOf

\* ToTypeInfo of the other types without parameters: their name.
LEMMA NamedInfoOf ==
  ASSUME NEW n, NEW k \in {"error", "unknown", "message", "type"}, Record(k, <<n>>, <<>>) \in PyCelTypes
  PROVE  ToTypeInfo[Record(k, <<n>>, <<>>)] = Info(<<n>>, <<>>)
<1>. DEFINE t == Record(k, <<n>>, <<>>)
<1>1. t.params = <<>> /\ t.kind \notin Scalars \cup {"list", "map"} /\ t.name = <<n>>
  BY DEF Record, Scalars, ScalarNames
<1>2. <<n>> \o <<>> = <<n>>
  OBVIOUS
<1>. HIDE DEF t
<1>3. t \in PyCelTypes
  BY DEF t
<1>4. ToTypeInfo[t] = Info(<<n>>, <<>>)
  BY <1>1, <1>2, <1>3, FlatInfoOf
<1>. QED  BY <1>4, Zenon DEF t

\* ToTypeInfo of a list.
LEMMA ListInfoOf ==
  ASSUME NEW u, ListType(u) \in PyCelTypes
  PROVE  ToTypeInfo[ListType(u)] = Info(<<"list">>, <<ToTypeInfo[u]>>)
<1>1. ListType(u).params = <<u>> /\ ListType(u).kind = "list"
  BY DEF ListType, Record
<1>. QED  BY <1>1, UnaryInfoOf

\* ToTypeInfo of a type with a parameter: the printed name, and the parameter.
LEMMA TypeInfoOf ==
  ASSUME NEW n, NEW u, AbstractType(<<n>>, <<u>>) \in PyCelTypes
  PROVE  ToTypeInfo[AbstractType(<<n>>, <<u>>)] = Info(<<n, GetName[u]>>, <<ToTypeInfo[u]>>)
<1>. DEFINE t == AbstractType(<<n>>, <<u>>)
<1>1. t.params = <<u>> /\ t.kind \notin Scalars \cup {"list", "map"} /\ t.name = <<n>>
  BY DEF AbstractType, Record, Scalars, ScalarNames
<1>2. <<n>> \o <<GetName[u]>> = <<n, GetName[u]>>
  BY PairOf, Zenon
<1>. HIDE DEF t
<1>3. t \in PyCelTypes
  BY DEF t
<1>4. ToTypeInfo[t] = Info(<<n, GetName[u]>>, <<ToTypeInfo[u]>>)
  BY <1>1, <1>2, <1>3, UnaryInfoOf
<1>. QED  BY <1>4, Zenon DEF t

\* ToTypeInfo of a map.
LEMMA MapInfoOf ==
  ASSUME NEW k \in {"string", "dyn"}, NEW u, MapType(Scalar(k), u) \in PyCelTypes
  PROVE  ToTypeInfo[MapType(Scalar(k), u)] = Info(<<"map">>, <<Info(<<k>>, <<>>), ToTypeInfo[u]>>)
<1>. DEFINE t == MapType(Scalar(k), u)
<1>1. t.params = <<Scalar(k), u>> /\ t.kind = "map"
  BY DEF MapType, Scalar, Record
<1>2. Scalar(k) \in PyCelTypes /\ k \in Scalars
  <2>1. k \in Scalars
    BY DEF Scalars, ScalarNames
  <2>2. Scalar(k) \in FlatTypes
    BY <2>1 DEF FlatTypes
  <2>. QED  BY <2>1, <2>2, PyCelTypesLayered
<1>3. ToTypeInfo[Scalar(k)] = Info(<<k>>, <<>>)
  BY <1>2, ScalarInfoOf, Zenon
<1>. HIDE DEF t
<1>4. [i \in DOMAIN t.params |-> ToTypeInfo[t.params[i]]] = <<ToTypeInfo[Scalar(k)], ToTypeInfo[u]>>
  BY <1>1
<1>5. t \in PyCelTypes
  BY DEF t
<1>6. ToTypeInfo[t] = Info(InfoName(t), <<ToTypeInfo[Scalar(k)], ToTypeInfo[u]>>)
  BY <1>4, <1>5, ToTypeInfoOf, Zenon
<1>7. InfoName(t) = <<"map">>
  BY <1>1 DEF InfoName
<1>. QED  BY <1>3, <1>6, <1>7, Zenon DEF t

\* A type is flat or made of other types.
LEMMA TypeForms ==
  ASSUME NEW t \in PyCelTypes
  PROVE  \/ t \in FlatTypes
         \/ \E u \in PyCelTypes :
              \/ t = ListType(u)
              \/ \E k \in {"string", "dyn"} : t = MapType(Scalar(k), u)
              \/ t = TypeType(u)
              \/ \E n \in OpaqueNames : t = AbstractType(<<n>>, <<u>>)
<1>1. MaxTypeDepth \in 0..MaxTypeDepth /\ t \in PyCelTypesUpTo[MaxTypeDepth]
  BY PyCelTypesLayered
<1>2. MaxTypeDepth # 0 => \A u \in PyCelTypesUpTo[MaxTypeDepth - 1] : u \in PyCelTypes
  BY TypesOfDepth, TypesAreNamed
<1>. DEFINE U == PyCelTypesUpTo[MaxTypeDepth - 1]
            Of(u) == \/ t = ListType(u)
                     \/ \E k \in {"string", "dyn"} : t = MapType(Scalar(k), u)
                     \/ t = TypeType(u)
                     \/ \E n \in OpaqueNames : t = AbstractType(<<n>>, <<u>>)
<1>3. \/ t \in FlatTypes
      \/ /\ MaxTypeDepth # 0
         /\ \/ \E u \in U : t = ListType(u)
            \/ \E k \in {"string", "dyn"}, u \in U : t = MapType(Scalar(k), u)
            \/ \E u \in U : t = TypeType(u)
            \/ \E n \in OpaqueNames, u \in U : t = AbstractType(<<n>>, <<u>>)
  BY <1>1, TypesByDepth, Zenon
<1>4. t \in FlatTypes \/ (MaxTypeDepth # 0 /\ \E u \in U : Of(u))
  <2>. HIDE DEF U
  <2>. QED  BY <1>3, Zenon
<1>. HIDE DEF Of
<1>5. t \in FlatTypes \/ \E u \in PyCelTypes : Of(u)
  BY <1>2, <1>4
<1>. QED  BY <1>5, Zenon DEF Of

\* The parameters that the infos of lists, maps and types have.
LEMMA InfoShape ==
  ASSUME NEW i \in TypeInfos
  PROVE  /\ i.name = <<"list">> => i.params = <<>> \/ \E u : i.params = <<u>>
         /\ i.name = <<"map">> => i.params = <<>> \/ \E u, v : i.params = <<u, v>>
         /\ i.name = <<"type">> => i.params = <<>> \/ \E u : i.params = <<u>>
<1>. DEFINE Fine(x) == \/ x.params = <<>>
                       \/ x.name # <<"map">> /\ \E u : x.params = <<u>>
                       \/ x.name = <<"map">> /\ \E u, v : x.params = <<u, v>>
            W == WrittenInfosUpTo
            T == {d \in 0..MaxTypeDepth : \A x \in W[d] : Fine(x)}
<1>1. 0 \in T
  BY WrittenInfosOf, TypesAreNamed DEF FlatInfos, Info, Record
<1>2. ASSUME NEW d \in 1..MaxTypeDepth, d - 1 \in T PROVE d \in T
  <2>1. ASSUME NEW x \in W[d] PROVE Fine(x)
    <3>1. x \in InfosOver(W[d - 1])
      BY WrittenInfosOf, Zenon
    <3>2. CASE \E n \in {"list", "type"} \cup OpaqueNames, u \in W[d - 1] : x = Info(<<n>>, <<u>>)
      <4>1. PICK n \in {"list", "type"} \cup OpaqueNames, u \in W[d - 1] : x = Info(<<n>>, <<u>>)
        BY <3>2
      <4>2. n # "map" /\ x.name = <<n>> /\ x.params = <<u>>
        BY <4>1, TypesAreNamed DEF Info, Record
      <4>. QED  BY <4>2
    <3>3. CASE \E k \in {"string", "double"}, u \in W[d - 1] :
                 x = Info(<<"map">>, <<Info(<<k>>, <<>>), u>>)
      BY <3>3 DEF Info, Record
    <3>4. CASE x \in W[d - 1]
      BY <1>2, <3>4
    <3>. HIDE DEF Fine
    <3>. QED  BY <3>1, <3>2, <3>3, <3>4, InfosOverOf, Zenon
  <2>. HIDE DEF Fine
  <2>. QED  BY <2>1
<1>3. ASSUME NEW x \in WrittenInfos PROVE Fine(x)
  <2>1. \A d \in 0..MaxTypeDepth : d \in T
    <3>. HIDE DEF T
    <3>. QED  BY <1>1, <1>2, UpTo, TypesAreNamed
  <2>. HIDE DEF Fine
  <2>. QED  BY <2>1, TypesAreNamed DEF WrittenInfos
<1>4. ASSUME NEW t \in PyCelTypes PROVE Fine(ToTypeInfo[t])
  <2>1. CASE t \in FlatTypes
    <3>1. t.params = <<>>
      BY <2>1, FlatForms
    <3>2. \E n : ToTypeInfo[t] = Info(n, <<>>)
      BY <3>1, FlatInfoOf, Zenon
    <3>. QED  BY <3>2 DEF Info, Record
  <2>2. ASSUME NEW n, NEW p, n # <<"map">>, ToTypeInfo[t] = Info(n, <<p>>)
        PROVE  Fine(ToTypeInfo[t])
    BY <2>2 DEF Info, Record
  <2>3. ASSUME NEW u, NEW k \in {"string", "dyn"}, t = MapType(Scalar(k), u)
        PROVE  Fine(ToTypeInfo[t])
    <3>1. ToTypeInfo[t] = Info(<<"map">>, <<Info(<<k>>, <<>>), ToTypeInfo[u]>>)
      BY <2>3, MapInfoOf, Zenon
    <3>. QED  BY <3>1 DEF Info, Record
  <2>4. <<"list">> # <<"map">> /\ \A n, m : <<n, m>> # <<"map">>
    OBVIOUS
  <2>. HIDE DEF Fine
  <2>5. ASSUME NEW u, t = ListType(u) PROVE Fine(ToTypeInfo[t])
    <3>1. ToTypeInfo[t] = Info(<<"list">>, <<ToTypeInfo[u]>>)
      BY <2>5, ListInfoOf, Zenon
    <3>. QED  BY <2>2, <2>4, <3>1, Zenon
  <2>7. ASSUME NEW u, NEW n, t = AbstractType(<<n>>, <<u>>) PROVE Fine(ToTypeInfo[t])
    <3>1. ToTypeInfo[t] = Info(<<n, GetName[u]>>, <<ToTypeInfo[u]>>)
      BY <2>7, TypeInfoOf, Zenon
    <3>. QED  BY <2>2, <2>4, <3>1, Zenon
  <2>8. \A u : TypeType(u) = AbstractType(<<"TYPE">>, <<u>>)
    BY DEF TypeType, AbstractType
  <2>. QED  BY <2>1, <2>3, <2>5, <2>7, <2>8, TypeForms, Zenon
<1>5. Fine(i)
  <2>. HIDE DEF Fine
  <2>. QED  BY <1>3, <1>4 DEF TypeInfos
<1>6. <<"list">> # <<"map">> /\ <<"type">> # <<"map">>
  OBVIOUS
<1>. QED  BY <1>5, <1>6, Zenon

---------------------------------------------------------------------------
(***************************************************************************)
(* The types of cel-cpp, by depth: one more than the infos, for a list     *)
(* without a parameter has one.                                            *)
(***************************************************************************)
Dyn == Record("dyn", <<>>, <<>>)

CelTypesUpTo(d) ==
  {c \in CelTypesMade : c.params = <<>>}
    \cup (IF d = 0 THEN {} ELSE {TypeInfoToType[i] : i \in InfosUpTo(d - 1)})

\* What TypeOfInfo makes of the name of a scalar.
LEMMA ScalarOfInfo ==
  ASSUME NEW i, NEW ps, NEW k \in Scalars, i.name = <<k>>
  PROVE  TypeOfInfo(i, ps) = Record(k, <<>>, <<>>)
<1>1. \A n \in Scalars :
        /\ n \notin {"list", "map", "type", "google.protobuf.Any"}
        /\ n \notin Wrappers /\ n \notin KnownMessages
  BY TypesAreNamed DEF Scalars, ScalarNames, Wrappers
<1>2. \A n : i.name = <<n>> => i.name[1] = n
  OBVIOUS
<1>3. \E n \in Scalars : i.name = <<n>>
  OBVIOUS
<1>4. TypeOfInfo(i, ps) = Record(i.name[1], <<>>, <<>>)
  BY <1>1, <1>2, <1>3 DEF TypeOfInfo
<1>. QED  BY <1>2, <1>4, Zenon

\* What TypeOfInfo makes, by the name it is given.
LEMMA TypeOfInfoForms ==
  ASSUME NEW i, NEW ps
  PROVE  LET c == TypeOfInfo(i, ps)
         IN \/ \E k \in Scalars : i.name = <<k>> /\ c = Record(k, <<>>, <<>>)
            \/ i.name = <<"list">> /\ c = Record("list", <<>>, IF ps = <<>> THEN <<Dyn>> ELSE ps)
            \/ i.name = <<"map">> /\ c = Record("map", <<>>, IF ps = <<>> THEN <<Dyn, Dyn>> ELSE ps)
            \/ i.name = <<"type">> /\ c = Record("type", <<>>, ps)
            \/ \E n \in {"google.protobuf.Any"} : i.name = <<n>> /\ c = Record("any", <<n>>, <<>>)
            \/ \E n \in Wrappers : i.name = <<n>> /\ c = Record("wrapper", <<n>>, <<>>)
            \/ \E n \in KnownMessages :
                 /\ i.name = <<n>>
                 /\ c = IF MessageType(<<n>>).kind = "message"
                          THEN Record("message", <<n>>, <<>>)
                          ELSE Record(MessageType(<<n>>).kind, <<>>, <<>>)
            \/ c = Record("opaque", i.name, ps)
<1>. DEFINE c == TypeOfInfo(i, ps)
<1>1. CASE \E k \in Scalars : i.name = <<k>>
  BY <1>1, ScalarOfInfo, Zenon
<1>2. CASE ~ \E k \in Scalars : i.name = <<k>>
  BY <1>2 DEF TypeOfInfo, Dyn
<1>. QED  BY <1>1, <1>2

\* Its parameters are those it is given, or DYN.
LEMMA TypeOfInfoParams ==
  ASSUME NEW i, NEW ps
  PROVE  TypeOfInfo(i, ps).params \in {<<>>, <<Dyn>>, <<Dyn, Dyn>>} \/ TypeOfInfo(i, ps).params = ps
<1>. DEFINE c == TypeOfInfo(i, ps)
<1>1. \E k, n : \/ c = Record(k, n, <<>>)
               \/ c = Record(k, n, IF ps = <<>> THEN <<Dyn>> ELSE ps)
               \/ c = Record(k, n, IF ps = <<>> THEN <<Dyn, Dyn>> ELSE ps)
               \/ c = Record(k, n, ps)
  BY TypeOfInfoForms, Zenon
<1>. HIDE DEF c
<1>2. PICK k, n : \/ c = Record(k, n, <<>>)
                  \/ c = Record(k, n, IF ps = <<>> THEN <<Dyn>> ELSE ps)
                  \/ c = Record(k, n, IF ps = <<>> THEN <<Dyn, Dyn>> ELSE ps)
                  \/ c = Record(k, n, ps)
  BY <1>1, Zenon
<1>3. c.params \in {<<>>, <<Dyn>>, <<Dyn, Dyn>>} \/ c.params = ps
  BY <1>2 DEF Record
<1>. QED  BY <1>3, Zenon DEF c

\* Every type info of a depth is a type info.
LEMMA InfosOfDepth ==
  \A d \in 0..MaxTypeDepth : InfosUpTo(d) \subseteq TypeInfos
<1>. DEFINE Rest(d) == InfosUpTo(MaxTypeDepth - d) \subseteq TypeInfos
            R == {d \in 0..MaxTypeDepth : Rest(d)}
<1>1. 0 \in R
  BY InfosLayered
<1>2. ASSUME NEW d \in 1..MaxTypeDepth, d - 1 \in R PROVE d \in R
  <2>1. /\ MaxTypeDepth - (d - 1) \in 1..MaxTypeDepth
        /\ (MaxTypeDepth - (d - 1)) - 1 = MaxTypeDepth - d
    BY TypesAreNamed
  <2>. QED  BY <1>2, <2>1, InfosLayered
<1>3. \A d \in 0..MaxTypeDepth : d \in R
  <2>. HIDE DEF R
  <2>. QED  BY <1>1, <1>2, UpTo, TypesAreNamed
<1>4. ASSUME NEW d \in 0..MaxTypeDepth PROVE InfosUpTo(d) \subseteq TypeInfos
  <2>1. MaxTypeDepth - d \in 0..MaxTypeDepth /\ MaxTypeDepth - (MaxTypeDepth - d) = d
    BY TypesAreNamed
  <2>2. MaxTypeDepth - d \in R
    <3>. HIDE DEF R
    <3>. QED  BY <1>3, <2>1, Zenon
  <2>. QED  BY <2>1, <2>2
<1>. QED  BY <1>4

\* DYN is a type that is made.
LEMMA DynMade == Dyn \in CelTypesMade /\ Dyn.params = <<>>
<1>. DEFINE i == Info(<<"dyn">>, <<>>)
<1>1. i \in TypeInfos /\ i.name = <<"dyn">>
  <2>1. "dyn" \in Scalars
    BY DEF Scalars, ScalarNames
  <2>2. i \in FlatInfos
    BY <2>1 DEF FlatInfos
  <2>3. i \in InfosUpTo(0)
    BY <2>2, InfosLayered
  <2>4. i.name = <<"dyn">>
    BY DEF Info, Record
  <2>. QED  BY <2>3, <2>4, InfosOfDepth, TypesAreNamed
<1>. HIDE DEF i
<1>2. PICK ps : TypeInfoToType[i] = TypeOfInfo(i, ps)
  BY <1>1, TypeInfoToTypeOf
<1>3. "dyn" \in Scalars
  BY DEF Scalars, ScalarNames
<1>4. TypeInfoToType[i] = Dyn
  BY <1>1, <1>2, <1>3, ScalarOfInfo, Zenon DEF Dyn
<1>5. Dyn.params = <<>>
  BY DEF Dyn, Record
<1>. QED  BY <1>1, <1>4, <1>5 DEF CelTypesMade

\* The parameters of a type of cel-cpp are types of the depth before.
LEMMA CelTypesLayered ==
  /\ MaxTypeDepth + 1 \in Nat /\ CelTypesMade = CelTypesUpTo(MaxTypeDepth + 1)
  /\ \A c \in CelTypesUpTo(0) : c.params = <<>>
  /\ \A d \in 1..(MaxTypeDepth + 1) :
       /\ CelTypesUpTo(d - 1) \subseteq CelTypesUpTo(d)
       /\ \A c \in CelTypesUpTo(d) : \A j \in DOMAIN c.params : c.params[j] \in CelTypesUpTo(d - 1)
<1>1. \A c \in CelTypesUpTo(0) : c.params = <<>>
  BY DEF CelTypesUpTo
<1>2. \A d \in 1..(MaxTypeDepth + 1) :
        /\ d # 0 /\ d - 1 \in 0..MaxTypeDepth
        /\ d - 1 # 0 => d - 1 \in 1..MaxTypeDepth
  BY TypesAreNamed
<1>3. ASSUME NEW d \in 1..(MaxTypeDepth + 1) PROVE CelTypesUpTo(d - 1) \subseteq CelTypesUpTo(d)
  BY <1>2, InfosLayered DEF CelTypesUpTo
<1>4. ASSUME NEW d \in 1..(MaxTypeDepth + 1), NEW c \in CelTypesUpTo(d), NEW j \in DOMAIN c.params
      PROVE  c.params[j] \in CelTypesUpTo(d - 1)
  <2>1. CASE c.params = <<>>
    BY <2>1
  <2>2. CASE \E i \in InfosUpTo(d - 1) : c = TypeInfoToType[i]
    <3>1. PICK i \in InfosUpTo(d - 1) : c = TypeInfoToType[i]
      BY <2>2
    <3>2. i \in TypeInfos
      BY <1>2, InfosOfDepth
    <3>3. Dyn \in CelTypesUpTo(d - 1)
      BY DynMade DEF CelTypesUpTo
    <3>4. ASSUME NEW x, NEW k \in DOMAIN i.params, i.params[k] = x
          PROVE  TypeInfoToType[x] \in CelTypesUpTo(d - 1)
      <4>1. d - 1 # 0
        BY <1>2, InfosLayered, <3>4
      <4>2. x \in InfosUpTo((d - 1) - 1)
        BY <1>2, InfosLayered, <3>4, <4>1
      <4>. QED  BY <4>1, <4>2 DEF CelTypesUpTo
    <3>5. c.params \in {<<>>, <<Dyn>>, <<Dyn, Dyn>>}
            \/ c.params = [k \in DOMAIN i.params |-> TypeInfoToType[i.params[k]]]
      <4>. DEFINE ps == [k \in DOMAIN i.params |-> TypeInfoToType[i.params[k]]]
      <4>1. c = TypeOfInfo(i, ps)
        BY <3>1, <3>2, TypeInfoToTypeOf
      <4>. HIDE DEF ps
      <4>2. c.params \in {<<>>, <<Dyn>>, <<Dyn, Dyn>>} \/ c.params = ps
        BY <4>1, TypeOfInfoParams
      <4>. QED  BY <4>2 DEF ps
    <3>6. CASE c.params \in {<<>>, <<Dyn>>, <<Dyn, Dyn>>}
      BY <3>3, <3>6
    <3>7. CASE c.params = [k \in DOMAIN i.params |-> TypeInfoToType[i.params[k]]]
      <4>1. j \in DOMAIN i.params /\ c.params[j] = TypeInfoToType[i.params[j]]
        BY <3>7
      <4>. QED  BY <3>4, <4>1
    <3>. QED  BY <3>5, <3>6, <3>7
  <2>. QED  BY <1>2, <2>1, <2>2 DEF CelTypesUpTo
<1>5. CelTypesMade = CelTypesUpTo(MaxTypeDepth + 1)
  <2>1. MaxTypeDepth + 1 # 0 /\ (MaxTypeDepth + 1) - 1 = MaxTypeDepth
    BY TypesAreNamed
  <2>2. TypeInfos = InfosUpTo((MaxTypeDepth + 1) - 1)
    BY <2>1, InfosLayered
  <2>. QED  BY <2>1, <2>2 DEF CelTypesUpTo, CelTypesMade
<1>. QED  BY <1>1, <1>3, <1>4, <1>5, TypesAreNamed

\* FromCelType is what its definition says.
LEMMA FromCelTypeOf ==
  \A t \in CelTypesMade : FromCelType[t] = OfCelType(t, [i \in DOMAIN t.params |-> FromCelType[t.params[i]]])
<1>. DEFINE N == MaxTypeDepth + 1
            G(ps, t) == OfCelType(t, ps)
            H(f, t) == G([i \in DOMAIN t.params |-> f[t.params[i]]], t)
            Is(f, S) == f = [t \in S |-> H(f, t)]
            T == {d \in 0..N : \E f : Is(f, CelTypesUpTo(d))}
<1>1. ASSUME NEW f, NEW g, NEW t \in CelTypesUpTo(0) PROVE H(f, t) = H(g, t)
  BY CelTypesLayered
<1>2. ASSUME NEW d \in 1..N, NEW f, NEW g, \A t \in CelTypesUpTo(d - 1) : f[t] = g[t], NEW t \in CelTypesUpTo(d)
      PROVE  H(f, t) = H(g, t)
  BY <1>2, CelTypesLayered
<1>3. N \in Nat /\ CelTypesMade = CelTypesUpTo(N)
  BY CelTypesLayered
<1>. HIDE DEF H
<1>4. 0 \in T
  <2>1. PICK f : f = [t \in CelTypesUpTo(0) |-> H({}, t)]
    OBVIOUS
  <2>2. Is(f, CelTypesUpTo(0))
    BY <1>1, <2>1, Zenon
  <2>. QED  BY <1>3, <2>2
<1>5. ASSUME NEW d \in 1..N, d - 1 \in T PROVE d \in T
  <2>1. PICK f : Is(f, CelTypesUpTo(d - 1))
    BY <1>5
  <2>2. PICK g : g = [t \in CelTypesUpTo(d) |-> H(f, t)]
    OBVIOUS
  <2>3. \A t \in CelTypesUpTo(d - 1) : t \in CelTypesUpTo(d)
    BY CelTypesLayered
  <2>4. \A t \in CelTypesUpTo(d - 1) : f[t] = g[t]
    BY <2>1, <2>2, <2>3, Zenon
  <2>5. \A t \in CelTypesUpTo(d) : H(f, t) = H(g, t)
    BY <1>2, <2>4
  <2>6. Is(g, CelTypesUpTo(d))
    BY <2>2, <2>5, Zenon
  <2>. QED  BY <2>6
<1>6. \E f : Is(f, CelTypesUpTo(N))
  <2>1. N \in 0..N
    BY <1>3
  <2>. HIDE DEF T, N
  <2>2. N \in T
    BY <1>3, <1>4, <1>5, <2>1, UpTo
  <2>. QED  BY <2>2, Zenon DEF T
<1>7. FromCelType = CHOOSE f : Is(f, CelTypesMade)
  BY DEF FromCelType, H, G
<1>8. Is(FromCelType, CelTypesUpTo(N))
  BY <1>3, <1>6, <1>7, Zenon
<1>. QED  BY <1>3, <1>8, Zenon DEF H, G

\* FromTypeProto is what its definition says.
LEMMA FromTypeProtoOf ==
  \A t \in CelTypesMade : FromTypeProto[t] = OfTypeProto(t, [i \in DOMAIN t.params |-> FromTypeProto[t.params[i]]])
<1>. DEFINE N == MaxTypeDepth + 1
            G(ps, t) == OfTypeProto(t, ps)
            H(f, t) == G([i \in DOMAIN t.params |-> f[t.params[i]]], t)
            Is(f, S) == f = [t \in S |-> H(f, t)]
            T == {d \in 0..N : \E f : Is(f, CelTypesUpTo(d))}
<1>1. ASSUME NEW f, NEW g, NEW t \in CelTypesUpTo(0) PROVE H(f, t) = H(g, t)
  BY CelTypesLayered
<1>2. ASSUME NEW d \in 1..N, NEW f, NEW g, \A t \in CelTypesUpTo(d - 1) : f[t] = g[t], NEW t \in CelTypesUpTo(d)
      PROVE  H(f, t) = H(g, t)
  BY <1>2, CelTypesLayered
<1>3. N \in Nat /\ CelTypesMade = CelTypesUpTo(N)
  BY CelTypesLayered
<1>. HIDE DEF H
<1>4. 0 \in T
  <2>1. PICK f : f = [t \in CelTypesUpTo(0) |-> H({}, t)]
    OBVIOUS
  <2>2. Is(f, CelTypesUpTo(0))
    BY <1>1, <2>1, Zenon
  <2>. QED  BY <1>3, <2>2
<1>5. ASSUME NEW d \in 1..N, d - 1 \in T PROVE d \in T
  <2>1. PICK f : Is(f, CelTypesUpTo(d - 1))
    BY <1>5
  <2>2. PICK g : g = [t \in CelTypesUpTo(d) |-> H(f, t)]
    OBVIOUS
  <2>3. \A t \in CelTypesUpTo(d - 1) : t \in CelTypesUpTo(d)
    BY CelTypesLayered
  <2>4. \A t \in CelTypesUpTo(d - 1) : f[t] = g[t]
    BY <2>1, <2>2, <2>3, Zenon
  <2>5. \A t \in CelTypesUpTo(d) : H(f, t) = H(g, t)
    BY <1>2, <2>4
  <2>6. Is(g, CelTypesUpTo(d))
    BY <2>2, <2>5, Zenon
  <2>. QED  BY <2>6
<1>6. \E f : Is(f, CelTypesUpTo(N))
  <2>1. N \in 0..N
    BY <1>3
  <2>. HIDE DEF T, N
  <2>2. N \in T
    BY <1>3, <1>4, <1>5, <2>1, UpTo
  <2>. QED  BY <2>2, Zenon DEF T
<1>7. FromTypeProto = CHOOSE f : Is(f, CelTypesMade)
  BY DEF FromTypeProto, H, G
<1>8. Is(FromTypeProto, CelTypesUpTo(N))
  BY <1>3, <1>6, <1>7, Zenon
<1>. QED  BY <1>3, <1>8, Zenon DEF H, G

\* The types of cel-cpp, without the infos they were made of.
LEMMA MadeForms ==
  ASSUME NEW c \in CelTypesMade
  PROVE  /\ \A j \in DOMAIN c.params : c.params[j] \in CelTypesMade
         /\ \/ \E k \in Scalars : c = Record(k, <<>>, <<>>)
            \/ \E u : c = Record("list", <<>>, <<u>>)
            \/ \E u, v : c = Record("map", <<>>, <<u, v>>)
            \/ c = Record("type", <<>>, <<>>)
            \/ \E u : c = Record("type", <<>>, <<u>>)
            \/ c = Record("any", <<"google.protobuf.Any">>, <<>>)
            \/ \E n \in Wrappers : c = Record("wrapper", <<n>>, <<>>)
            \/ \E n \in KnownMessages : c = Record("message", <<n>>, <<>>)
            \/ \E n, ps : c = Record("opaque", n, ps)
<1>1. ASSUME NEW j \in DOMAIN c.params PROVE c.params[j] \in CelTypesMade
  <2>1. MaxTypeDepth + 1 \in 1..(MaxTypeDepth + 1)
    BY TypesAreNamed
  <2>. QED  BY <2>1, CelTypesLayered
<1>2. PICK i \in TypeInfos : c = TypeInfoToType[i]
  BY DEF CelTypesMade
<1>. DEFINE ps == [j \in DOMAIN i.params |-> TypeInfoToType[i.params[j]]]
            P(u) == TypeInfoToType[u]
<1>3. c = TypeOfInfo(i, ps)
  BY <1>2, TypeInfoToTypeOf
<1>4. /\ i.params = <<>> => ps = <<>>
      /\ \A u : i.params = <<u>> => ps = <<P(u)>>
      /\ \A u, v : i.params = <<u, v>> => ps = <<P(u), P(v)>>
  OBVIOUS
<1>5. \A u, v : <<u>> # <<>> /\ <<u, v>> # <<>>
  OBVIOUS
<1>. HIDE DEF ps, P
<1>6. ASSUME i.name = <<"list">>, c = Record("list", <<>>, IF ps = <<>> THEN <<Dyn>> ELSE ps)
      PROVE  \E u : c = Record("list", <<>>, <<u>>)
  <2>1. i.params = <<>> \/ \E u : i.params = <<u>>
    BY <1>6, InfoShape, Zenon
  <2>. QED  BY <1>4, <1>5, <1>6, <2>1, Zenon
<1>7. ASSUME i.name = <<"map">>, c = Record("map", <<>>, IF ps = <<>> THEN <<Dyn, Dyn>> ELSE ps)
      PROVE  \E u, v : c = Record("map", <<>>, <<u, v>>)
  <2>1. CASE i.params = <<>>
    BY <1>4, <1>7, <2>1, Zenon
  <2>2. ASSUME NEW u, NEW v, i.params = <<u, v>>
        PROVE  c = Record("map", <<>>, <<P(u), P(v)>>)
    <3>1. ps = <<P(u), P(v)>> /\ ps # <<>>
      BY <1>4, <1>5, <2>2, Zenon
    <3>. QED  BY <1>7, <3>1
  <2>3. i.params = <<>> \/ \E u, v : i.params = <<u, v>>
    BY <1>7, InfoShape, Zenon
  <2>. QED  BY <2>1, <2>2, <2>3, Zenon
<1>8. ASSUME i.name = <<"type">>, c = Record("type", <<>>, ps)
      PROVE  c = Record("type", <<>>, <<>>) \/ \E u : c = Record("type", <<>>, <<u>>)
  <2>1. i.params = <<>> \/ \E u : i.params = <<u>>
    BY <1>8, InfoShape, Zenon
  <2>. QED  BY <1>4, <1>8, <2>1, Zenon
<1>9. \A n : MessageType(n).kind \in Scalars \/ MessageType(n).kind = "message"
  BY DEF MessageType, Scalar, Record, Scalars, ScalarNames
<1>10. ASSUME NEW n \in KnownMessages, c = IF MessageType(<<n>>).kind = "message"
                                             THEN Record("message", <<n>>, <<>>)
                                             ELSE Record(MessageType(<<n>>).kind, <<>>, <<>>)
       PROVE  c = Record("message", <<n>>, <<>>) \/ \E k \in Scalars : c = Record(k, <<>>, <<>>)
  BY <1>9, <1>10, Zenon
<1>11. \/ \E k \in Scalars : c = Record(k, <<>>, <<>>)
       \/ i.name = <<"list">> /\ c = Record("list", <<>>, IF ps = <<>> THEN <<Dyn>> ELSE ps)
       \/ i.name = <<"map">> /\ c = Record("map", <<>>, IF ps = <<>> THEN <<Dyn, Dyn>> ELSE ps)
       \/ i.name = <<"type">> /\ c = Record("type", <<>>, ps)
       \/ c = Record("any", <<"google.protobuf.Any">>, <<>>)
       \/ \E n \in Wrappers : c = Record("wrapper", <<n>>, <<>>)
       \/ \E n \in KnownMessages : c = IF MessageType(<<n>>).kind = "message"
                                         THEN Record("message", <<n>>, <<>>)
                                         ELSE Record(MessageType(<<n>>).kind, <<>>, <<>>)
       \/ c = Record("opaque", i.name, ps)
  BY <1>3, TypeOfInfoForms, Zenon
<1>. QED  BY <1>1, <1>6, <1>7, <1>8, <1>10, <1>11, Zenon

\* Their kinds, and the parameters that go with them.
LEMMA MadeKinds ==
  ASSUME NEW c \in CelTypesMade
  PROVE  \/ c.kind \in Scalars /\ c.params = <<>>
         \/ c.kind = "list" /\ \E u : c.params = <<u>>
         \/ c.kind = "map" /\ \E u, v : c.params = <<u, v>>
         \/ c.kind = "type" /\ (c.params = <<>> \/ \E u : c.params = <<u>>)
         \/ /\ c.kind \in {"any", "wrapper", "message"} /\ c.params = <<>>
            /\ c.kind # "message" => \E n \in Wrappers \cup {"google.protobuf.Any"} : c.name = <<n>>
         \/ c.kind = "opaque"
<1>1. \A k, n, ps : Record(k, n, ps).kind = k /\ Record(k, n, ps).params = ps
  BY DEF Record
<1>2. CASE \E k \in Scalars : c = Record(k, <<>>, <<>>)
  BY <1>1, <1>2
<1>3. CASE \E u : c = Record("list", <<>>, <<u>>)
  BY <1>1, <1>3
<1>4. CASE \E u, v : c = Record("map", <<>>, <<u, v>>)
  BY <1>1, <1>4
<1>5. CASE c = Record("type", <<>>, <<>>)
  BY <1>1, <1>5
<1>6. CASE \E u : c = Record("type", <<>>, <<u>>)
  BY <1>1, <1>6
<1>7. CASE \/ c = Record("any", <<"google.protobuf.Any">>, <<>>)
           \/ \E n \in Wrappers : c = Record("wrapper", <<n>>, <<>>)
           \/ \E n \in KnownMessages : c = Record("message", <<n>>, <<>>)
  <2>1. PICK k \in {"any", "wrapper", "message"} : \E n : c = Record(k, n, <<>>)
    BY <1>7, Zenon
  <2>2. c.kind # "message" => \E n \in Wrappers \cup {"google.protobuf.Any"} : c.name = <<n>>
    BY <1>7 DEF Record
  <2>. QED  BY <1>1, <2>1, <2>2
<1>8. CASE \E n, ps : c = Record("opaque", n, ps)
  BY <1>1, <1>8
<1>9. \/ \E k \in Scalars : c = Record(k, <<>>, <<>>)
      \/ \E u : c = Record("list", <<>>, <<u>>)
      \/ \E u, v : c = Record("map", <<>>, <<u, v>>)
      \/ c = Record("type", <<>>, <<>>)
      \/ \E u : c = Record("type", <<>>, <<u>>)
      \/ c = Record("any", <<"google.protobuf.Any">>, <<>>)
      \/ \E n \in Wrappers : c = Record("wrapper", <<n>>, <<>>)
      \/ \E n \in KnownMessages : c = Record("message", <<n>>, <<>>)
      \/ \E n, ps : c = Record("opaque", n, ps)
  BY MadeForms
<1>. QED  BY <1>2, <1>3, <1>4, <1>5, <1>6, <1>7, <1>8, <1>9

\* What OfCelType makes has only parameters that it is given.
LEMMA FromParams ==
  ASSUME NEW c \in CelTypesMade, NEW ps, ps = [k \in DOMAIN c.params |-> ps[k]],
         NEW j \in DOMAIN OfCelType(c, ps).params
  PROVE  \E k \in DOMAIN c.params : OfCelType(c, ps).params[j] = ps[k]
<1>. DEFINE t == OfCelType(c, ps)
<1>1. \A k \in Scalars : k \notin {"list", "map", "type", "any", "wrapper", "message", "opaque"}
  BY DEF Scalars, ScalarNames
<1>2. CASE c.kind \in Scalars
  <2>1. t = Scalar(c.kind)
    BY <1>1, <1>2 DEF OfCelType
  <2>2. t.params = <<>>
    BY <2>1 DEF Scalar, Record
  <2>. QED  BY <2>2
<1>3. ASSUME NEW u, c.kind = "list", c.params = <<u>> PROVE \E k \in DOMAIN c.params : t.params[j] = ps[k]
  <2>1. t = ListType(ps[1])
    BY <1>1, <1>3 DEF OfCelType
  <2>2. t.params = <<ps[1]>>
    BY <2>1 DEF ListType, Record
  <2>. QED  BY <1>3, <2>2
<1>4. ASSUME NEW u, NEW v, c.kind = "map", c.params = <<u, v>>
      PROVE  \E k \in DOMAIN c.params : t.params[j] = ps[k]
  <2>1. t = MapType(ps[1], ps[2])
    BY <1>1, <1>4 DEF OfCelType
  <2>2. t.params = <<ps[1], ps[2]>> \/ t.params = <<>>
    BY <2>1 DEF MapType, Unsupported, Record
  <2>. QED  BY <1>4, <2>2
<1>5. CASE c.kind \in {"any", "wrapper", "message"}
  <2>1. t = MessageType(c.name)
    BY <1>1, <1>5 DEF OfCelType
  <2>2. t.params = <<>>
    BY <2>1 DEF MessageType, Scalar, Record
  <2>. QED  BY <2>2
<1>6. CASE c.kind = "type" /\ (c.params = <<>> \/ \E u : c.params = <<u>>)
  <2>1. t = IF ps = <<>> THEN Type ELSE TypeType(ps[1])
    BY <1>1, <1>6 DEF OfCelType
  <2>2. c.params = <<>> => ps = <<>>
    OBVIOUS
  <2>3. t.params = <<>> \/ (t.params = <<ps[1]>> /\ \E u : c.params = <<u>>)
    BY <1>6, <2>1, <2>2 DEF Type, TypeType, Record
  <2>. QED  BY <2>3
<1>7. CASE c.kind = "opaque"
  <2>1. t = AbstractType(c.name, ps)
    BY <1>1, <1>7 DEF OfCelType
  <2>2. t.params = ps
    BY <2>1 DEF AbstractType, Record
  <2>. QED  BY <2>2
<1>. DEFINE Form(x) == \/ x.kind \in Scalars
                       \/ x.kind = "list" /\ \E u : x.params = <<u>>
                       \/ x.kind = "map" /\ \E u, v : x.params = <<u, v>>
                       \/ x.kind = "type" /\ (x.params = <<>> \/ \E u : x.params = <<u>>)
                       \/ x.kind \in {"any", "wrapper", "message"}
                       \/ x.kind = "opaque"
<1>8. Form(c)
  BY MadeKinds
<1>. QED  BY <1>2, <1>3, <1>4, <1>5, <1>6, <1>7, <1>8, Zenon

\* Once more for the other conversion. What OfTypeProto makes has only parameters that it is given.
LEMMA ProtoParams ==
  ASSUME NEW c \in CelTypesMade, NEW ps, ps = [k \in DOMAIN c.params |-> ps[k]],
         NEW j \in DOMAIN OfTypeProto(c, ps).params
  PROVE  \E k \in DOMAIN c.params : OfTypeProto(c, ps).params[j] = ps[k]
<1>. DEFINE t == OfTypeProto(c, ps)
<1>1. \A k \in Scalars : k \notin {"list", "map", "type", "any", "wrapper", "message", "opaque"}
  BY DEF Scalars, ScalarNames
<1>2. CASE c.kind \in Scalars
  <2>1. t = Scalar(c.kind)
    BY <1>1, <1>2 DEF OfTypeProto
  <2>2. t.params = <<>>
    BY <2>1 DEF Scalar, Record
  <2>. QED  BY <2>2
<1>3. ASSUME NEW u, c.kind = "list", c.params = <<u>> PROVE \E k \in DOMAIN c.params : t.params[j] = ps[k]
  <2>1. t = ListType(ps[1])
    BY <1>1, <1>3 DEF OfTypeProto
  <2>2. t.params = <<ps[1]>>
    BY <2>1 DEF ListType, Record
  <2>. QED  BY <1>3, <2>2
<1>4. ASSUME NEW u, NEW v, c.kind = "map", c.params = <<u, v>>
      PROVE  \E k \in DOMAIN c.params : t.params[j] = ps[k]
  <2>1. t = MapType(ps[1], ps[2])
    BY <1>1, <1>4 DEF OfTypeProto
  <2>2. t.params = <<ps[1], ps[2]>> \/ t.params = <<>>
    BY <2>1 DEF MapType, Unsupported, Record
  <2>. QED  BY <1>4, <2>2
<1>5. CASE c.kind \in {"any", "wrapper", "message"}
  <2>1. t \in {MessageType(c.name), Error, Scalar(WrappedKind(c.name))}
    BY <1>1, <1>5 DEF OfTypeProto
  <2>2. t.params = <<>>
    BY <2>1 DEF MessageType, Error, Scalar, Record
  <2>. QED  BY <2>2
<1>6. CASE c.kind = "type" /\ (c.params = <<>> \/ \E u : c.params = <<u>>)
  <2>1. t = IF ps = <<>> THEN Type ELSE TypeType(ps[1])
    BY <1>1, <1>6 DEF OfTypeProto
  <2>2. c.params = <<>> => ps = <<>>
    OBVIOUS
  <2>3. t.params = <<>> \/ (t.params = <<ps[1]>> /\ \E u : c.params = <<u>>)
    BY <1>6, <2>1, <2>2 DEF Type, TypeType, Record
  <2>. QED  BY <2>3
<1>7. CASE c.kind = "opaque"
  <2>1. t = AbstractType(c.name, ps)
    BY <1>1, <1>7 DEF OfTypeProto
  <2>2. t.params = ps
    BY <2>1 DEF AbstractType, Record
  <2>. QED  BY <2>2
<1>. DEFINE Form(x) == \/ x.kind \in Scalars
                       \/ x.kind = "list" /\ \E u : x.params = <<u>>
                       \/ x.kind = "map" /\ \E u, v : x.params = <<u, v>>
                       \/ x.kind = "type" /\ (x.params = <<>> \/ \E u : x.params = <<u>>)
                       \/ x.kind \in {"any", "wrapper", "message"}
                       \/ x.kind = "opaque"
<1>8. Form(c)
  BY MadeKinds
<1>. QED  BY <1>2, <1>3, <1>4, <1>5, <1>6, <1>7, <1>8, Zenon

---------------------------------------------------------------------------
(***************************************************************************)
(* All the types, by depth, and what is in them.                           *)
(***************************************************************************)
AllTypesUpTo(d) ==
  PyCelTypesUpTo[IF d = 0 THEN 0 ELSE d - 1]
    \cup {FromTypeProto[c] : c \in CelTypesUpTo(d)} \cup {FromCelType[c] : c \in CelTypesUpTo(d)}

\* Every type of cel-cpp of a depth is one that is made.
LEMMA CelTypesOfDepth ==
  \A d \in 0..(MaxTypeDepth + 1) : CelTypesUpTo(d) \subseteq CelTypesMade
<1>1. ASSUME NEW d \in 0..(MaxTypeDepth + 1) PROVE CelTypesUpTo(d) \subseteq CelTypesMade
  <2>1. d # 0 => d - 1 \in 0..MaxTypeDepth
    BY TypesAreNamed
  <2>. QED  BY <2>1, InfosOfDepth DEF CelTypesUpTo, CelTypesMade
<1>. QED  BY <1>1

\* The parameters of a type are types of the depth before.
LEMMA AllTypesLayered ==
  /\ MaxTypeDepth + 1 \in Nat /\ AllTypes = AllTypesUpTo(MaxTypeDepth + 1)
  /\ \A t \in AllTypesUpTo(0) : DOMAIN t.params = {}
  /\ \A d \in 1..(MaxTypeDepth + 1) :
       /\ AllTypesUpTo(d - 1) \subseteq AllTypesUpTo(d)
       /\ \A t \in AllTypesUpTo(d) : \A i \in DOMAIN t.params : t.params[i] \in AllTypesUpTo(d - 1)
<1>. DEFINE N == MaxTypeDepth
            Py(d) == PyCelTypesUpTo[IF d = 0 THEN 0 ELSE d - 1]
<1>1. /\ \A t \in Py(0) : DOMAIN t.params = {}
      /\ \A d \in 1..(N + 1) : /\ Py(d - 1) \subseteq Py(d)
                               /\ \A t \in Py(d) : \A i \in DOMAIN t.params : t.params[i] \in Py(d - 1)
  <2>1. ASSUME NEW d \in 1..(N + 1)
        PROVE  /\ Py(d - 1) \subseteq Py(d)
               /\ \A t \in Py(d) : \A i \in DOMAIN t.params : t.params[i] \in Py(d - 1)
    <3>1. CASE d = 1
      BY <3>1, PyCelTypesLayered
    <3>2. CASE d # 1
      <4>1. d - 1 \in 1..N /\ d # 0 /\ d - 1 # 0
        BY <3>2, TypesAreNamed
      <4>. QED  BY <4>1, PyCelTypesLayered
    <3>. QED  BY <3>1, <3>2
  <2>. QED  BY <2>1, PyCelTypesLayered
<1>2. Py(N + 1) = PyCelTypes
  <2>1. N + 1 # 0 /\ (N + 1) - 1 = N
    BY TypesAreNamed
  <2>. QED  BY <2>1, PyCelTypesLayered
<1>3. ASSUME NEW d \in 0..(N + 1), NEW c \in CelTypesUpTo(d),
             NEW t \in {FromTypeProto[c], FromCelType[c]}, NEW i \in DOMAIN t.params
      PROVE  d # 0 /\ \E x \in CelTypesUpTo(d - 1) : t.params[i] \in {FromTypeProto[x], FromCelType[x]}
  <2>1. c \in CelTypesMade
    BY CelTypesOfDepth
  <2>2. \E k \in DOMAIN c.params : t.params[i] \in {FromTypeProto[c.params[k]], FromCelType[c.params[k]]}
    <3>1. CASE t = FromTypeProto[c]
      <4>. DEFINE ps == [k \in DOMAIN c.params |-> FromTypeProto[c.params[k]]]
      <4>1. t = OfTypeProto(c, ps)
        BY <2>1, <3>1, FromTypeProtoOf
      <4>2. ps = [k \in DOMAIN c.params |-> ps[k]] /\ \A k \in DOMAIN c.params : ps[k] = FromTypeProto[c.params[k]]
        OBVIOUS
      <4>. HIDE DEF ps
      <4>3. \E k \in DOMAIN c.params : t.params[i] = ps[k]
        BY <2>1, <4>1, <4>2, ProtoParams
      <4>. QED  BY <4>2, <4>3
    <3>2. CASE t = FromCelType[c]
      <4>. DEFINE ps == [k \in DOMAIN c.params |-> FromCelType[c.params[k]]]
      <4>1. t = OfCelType(c, ps)
        BY <2>1, <3>2, FromCelTypeOf
      <4>2. ps = [k \in DOMAIN c.params |-> ps[k]] /\ \A k \in DOMAIN c.params : ps[k] = FromCelType[c.params[k]]
        OBVIOUS
      <4>. HIDE DEF ps
      <4>3. \E k \in DOMAIN c.params : t.params[i] = ps[k]
        BY <2>1, <4>1, <4>2, FromParams
      <4>. QED  BY <4>2, <4>3
    <3>. QED  BY <3>1, <3>2
  <2>3. PICK k \in DOMAIN c.params : t.params[i] \in {FromTypeProto[c.params[k]], FromCelType[c.params[k]]}
    BY <2>2
  <2>4. d # 0
    BY <2>3, CelTypesLayered
  <2>5. c.params[k] \in CelTypesUpTo(d - 1)
    <3>1. d \in 1..(N + 1)
      BY <2>4, TypesAreNamed
    <3>. QED  BY <2>3, <3>1, CelTypesLayered
  <2>. QED  BY <2>3, <2>4, <2>5
<1>. DEFINE Made(d) == {FromTypeProto[c] : c \in CelTypesUpTo(d)} \cup {FromCelType[c] : c \in CelTypesUpTo(d)}
<1>4. \A d : AllTypesUpTo(d) = Py(d) \cup Made(d)
  BY DEF AllTypesUpTo
<1>5. ASSUME NEW t \in Made(0) PROVE DOMAIN t.params = {}
  <2>1. PICK c \in CelTypesUpTo(0) : t \in {FromTypeProto[c], FromCelType[c]}
    OBVIOUS
  <2>2. 0 \in 0..(N + 1) /\ ~(0 # 0)
    BY TypesAreNamed
  <2>3. \A i \in DOMAIN t.params : FALSE
    BY <1>3, <2>1, <2>2, Zenon
  <2>. QED  BY <2>3
<1>6. ASSUME NEW d \in 1..(N + 1), NEW t \in Made(d), NEW i \in DOMAIN t.params
      PROVE  t.params[i] \in Made(d - 1)
  <2>1. PICK c \in CelTypesUpTo(d) : t \in {FromTypeProto[c], FromCelType[c]}
    OBVIOUS
  <2>2. d \in 0..(N + 1)
    OBVIOUS
  <2>3. \E x \in CelTypesUpTo(d - 1) : t.params[i] \in {FromTypeProto[x], FromCelType[x]}
    BY <1>3, <2>1, <2>2
  <2>. QED  BY <2>3
<1>7. ASSUME NEW d \in 1..(N + 1) PROVE Made(d - 1) \subseteq Made(d)
  BY CelTypesLayered
<1>8. AllTypes = Py(N + 1) \cup Made(N + 1)
  BY <1>2, CelTypesLayered DEF AllTypes, ReportedTypes
<1>9. N + 1 \in Nat
  BY TypesAreNamed
<1>. HIDE DEF Py, Made, N
<1>10. AllTypes = AllTypesUpTo(N + 1)
  BY <1>4, <1>8
<1>11. \A t \in AllTypesUpTo(0) : DOMAIN t.params = {}
  BY <1>1, <1>4, <1>5
<1>12. ASSUME NEW d \in 1..(N + 1)
       PROVE  /\ AllTypesUpTo(d - 1) \subseteq AllTypesUpTo(d)
              /\ \A t \in AllTypesUpTo(d) : \A i \in DOMAIN t.params : t.params[i] \in AllTypesUpTo(d - 1)
  BY <1>1, <1>4, <1>6, <1>7
<1>. QED  BY <1>9, <1>10, <1>11, <1>12 DEF N

\* KindsIn is what its definition says.
LEMMA KindsInOf ==
  \A t \in AllTypes : KindsIn[t] = {t.kind} \cup UNION {KindsIn[t.params[i]] : i \in DOMAIN t.params}
<1>. DEFINE N == MaxTypeDepth + 1
            H(f, t) == {t.kind} \cup UNION {f[t.params[i]] : i \in DOMAIN t.params}
            Is(f, S) == f = [t \in S |-> H(f, t)]
            T == {d \in 0..N : \E f : Is(f, AllTypesUpTo(d))}
<1>1. ASSUME NEW f, NEW g, NEW t \in AllTypesUpTo(0) PROVE H(f, t) = H(g, t)
  BY AllTypesLayered
<1>2. ASSUME NEW d \in 1..N, NEW f, NEW g, \A t \in AllTypesUpTo(d - 1) : f[t] = g[t], NEW t \in AllTypesUpTo(d)
      PROVE  H(f, t) = H(g, t)
  BY <1>2, AllTypesLayered
<1>3. N \in Nat /\ AllTypes = AllTypesUpTo(N)
  BY AllTypesLayered
<1>. HIDE DEF H
<1>4. 0 \in T
  <2>1. PICK f : f = [t \in AllTypesUpTo(0) |-> H({}, t)]
    OBVIOUS
  <2>2. Is(f, AllTypesUpTo(0))
    BY <1>1, <2>1, Zenon
  <2>. QED  BY <1>3, <2>2
<1>5. ASSUME NEW d \in 1..N, d - 1 \in T PROVE d \in T
  <2>1. PICK f : Is(f, AllTypesUpTo(d - 1))
    BY <1>5
  <2>2. PICK g : g = [t \in AllTypesUpTo(d) |-> H(f, t)]
    OBVIOUS
  <2>3. \A t \in AllTypesUpTo(d - 1) : t \in AllTypesUpTo(d)
    BY AllTypesLayered
  <2>4. \A t \in AllTypesUpTo(d - 1) : f[t] = g[t]
    BY <2>1, <2>2, <2>3, Zenon
  <2>5. \A t \in AllTypesUpTo(d) : H(f, t) = H(g, t)
    BY <1>2, <2>4
  <2>6. Is(g, AllTypesUpTo(d))
    BY <2>2, <2>5, Zenon
  <2>. QED  BY <2>6
<1>6. \E f : Is(f, AllTypesUpTo(N))
  <2>1. N \in 0..N
    BY <1>3
  <2>. HIDE DEF T, N
  <2>2. N \in T
    BY <1>3, <1>4, <1>5, <2>1, UpTo
  <2>. QED  BY <2>2, Zenon DEF T
<1>7. KindsIn = CHOOSE f : Is(f, AllTypes)
  BY DEF KindsIn, H
<1>8. Is(KindsIn, AllTypesUpTo(N))
  BY <1>3, <1>6, <1>7, Zenon
<1>. QED  BY <1>3, <1>8, Zenon DEF H

\* NamesIn is what its definition says.
LEMMA NamesInOf ==
  \A t \in AllTypes : NamesIn[t] = {t.name} \cup UNION {NamesIn[t.params[i]] : i \in DOMAIN t.params}
<1>. DEFINE N == MaxTypeDepth + 1
            H(f, t) == {t.name} \cup UNION {f[t.params[i]] : i \in DOMAIN t.params}
            Is(f, S) == f = [t \in S |-> H(f, t)]
            T == {d \in 0..N : \E f : Is(f, AllTypesUpTo(d))}
<1>1. ASSUME NEW f, NEW g, NEW t \in AllTypesUpTo(0) PROVE H(f, t) = H(g, t)
  BY AllTypesLayered
<1>2. ASSUME NEW d \in 1..N, NEW f, NEW g, \A t \in AllTypesUpTo(d - 1) : f[t] = g[t], NEW t \in AllTypesUpTo(d)
      PROVE  H(f, t) = H(g, t)
  BY <1>2, AllTypesLayered
<1>3. N \in Nat /\ AllTypes = AllTypesUpTo(N)
  BY AllTypesLayered
<1>. HIDE DEF H
<1>4. 0 \in T
  <2>1. PICK f : f = [t \in AllTypesUpTo(0) |-> H({}, t)]
    OBVIOUS
  <2>2. Is(f, AllTypesUpTo(0))
    BY <1>1, <2>1, Zenon
  <2>. QED  BY <1>3, <2>2
<1>5. ASSUME NEW d \in 1..N, d - 1 \in T PROVE d \in T
  <2>1. PICK f : Is(f, AllTypesUpTo(d - 1))
    BY <1>5
  <2>2. PICK g : g = [t \in AllTypesUpTo(d) |-> H(f, t)]
    OBVIOUS
  <2>3. \A t \in AllTypesUpTo(d - 1) : t \in AllTypesUpTo(d)
    BY AllTypesLayered
  <2>4. \A t \in AllTypesUpTo(d - 1) : f[t] = g[t]
    BY <2>1, <2>2, <2>3, Zenon
  <2>5. \A t \in AllTypesUpTo(d) : H(f, t) = H(g, t)
    BY <1>2, <2>4
  <2>6. Is(g, AllTypesUpTo(d))
    BY <2>2, <2>5, Zenon
  <2>. QED  BY <2>6
<1>6. \E f : Is(f, AllTypesUpTo(N))
  <2>1. N \in 0..N
    BY <1>3
  <2>. HIDE DEF T, N
  <2>2. N \in T
    BY <1>3, <1>4, <1>5, <2>1, UpTo
  <2>. QED  BY <2>2, Zenon DEF T
<1>7. NamesIn = CHOOSE f : Is(f, AllTypes)
  BY DEF NamesIn, H
<1>8. Is(NamesIn, AllTypesUpTo(N))
  BY <1>3, <1>6, <1>7, Zenon
<1>. QED  BY <1>3, <1>8, Zenon DEF H

---------------------------------------------------------------------------
(***************************************************************************)
(* The way of a type through a configuration.                              *)
(***************************************************************************)
\* TypeInfoToType of a scalar's info.
LEMMA ScalarMade ==
  ASSUME NEW k \in Scalars, Info(<<k>>, <<>>) \in TypeInfos
  PROVE  TypeInfoToType[Info(<<k>>, <<>>)] = Record(k, <<>>, <<>>)
<1>. DEFINE i == Info(<<k>>, <<>>)
<1>1. i.name = <<k>>
  BY DEF Info, Record
<1>. HIDE DEF i
<1>2. i \in TypeInfos
  BY DEF i
<1>3. PICK ps : TypeInfoToType[i] = TypeOfInfo(i, ps)
  BY <1>2, TypeInfoToTypeOf
<1>4. TypeInfoToType[i] = Record(k, <<>>, <<>>)
  BY <1>1, <1>3, ScalarOfInfo, Zenon
<1>. QED  BY <1>4, Zenon DEF i

\* TypeInfoToType of the info of a list with a parameter.
LEMMA ListMade ==
  ASSUME NEW p, Info(<<"list">>, <<p>>) \in TypeInfos
  PROVE  TypeInfoToType[Info(<<"list">>, <<p>>)] = Record("list", <<>>, <<TypeInfoToType[p]>>)
<1>. DEFINE i == Info(<<"list">>, <<p>>)
            ps == [j \in DOMAIN i.params |-> TypeInfoToType[i.params[j]]]
            q == TypeInfoToType[p]
<1>1. i.name = <<"list">> /\ i.params = <<p>>
  BY DEF Info, Record
<1>. HIDE DEF i
<1>2. ps = <<q>>
  BY <1>1
<1>3. TypeInfoToType[i] = TypeOfInfo(i, ps)
  BY TypeInfoToTypeOf DEF i
<1>. HIDE DEF ps, q
<1>4. "list" \notin Scalars /\ "list" \notin KnownMessages /\ "list" \notin Wrappers
  BY TypesAreNamed DEF Scalars, ScalarNames, Wrappers
<1>5. TypeOfInfo(i, ps) = Record("list", <<>>, ps)
  BY <1>1, <1>2, <1>4 DEF TypeOfInfo
<1>6. TypeInfoToType[i] = Record("list", <<>>, <<q>>)
  BY <1>2, <1>3, <1>5, Zenon
<1>. QED  BY <1>6, Zenon DEF i, q

\* TypeInfoToType of the info of a map with parameters.
LEMMA MapMade ==
  ASSUME NEW k, NEW p, Info(<<"map">>, <<k, p>>) \in TypeInfos
  PROVE  TypeInfoToType[Info(<<"map">>, <<k, p>>)]
           = Record("map", <<>>, <<TypeInfoToType[k], TypeInfoToType[p]>>)
<1>. DEFINE i == Info(<<"map">>, <<k, p>>)
            ps == [j \in DOMAIN i.params |-> TypeInfoToType[i.params[j]]]
            q == TypeInfoToType[p]
            r == TypeInfoToType[k]
<1>1. i.name = <<"map">> /\ i.params = <<k, p>>
  BY DEF Info, Record
<1>. HIDE DEF i
<1>2. ps = <<r, q>>
  BY <1>1
<1>3. TypeInfoToType[i] = TypeOfInfo(i, ps)
  BY TypeInfoToTypeOf DEF i
<1>. HIDE DEF ps, q, r
<1>4. "map" \notin Scalars /\ "map" \notin KnownMessages /\ "map" \notin Wrappers
  BY TypesAreNamed DEF Scalars, ScalarNames, Wrappers
<1>5. TypeOfInfo(i, ps) = Record("map", <<>>, ps)
  BY <1>1, <1>2, <1>4 DEF TypeOfInfo
<1>6. TypeInfoToType[i] = Record("map", <<>>, <<r, q>>)
  BY <1>2, <1>3, <1>5, Zenon
<1>. QED  BY <1>6, Zenon DEF i, q, r

\* TypeInfoToType of the name of a message that the pool has.
LEMMA MessageMade ==
  ASSUME NEW n \in KnownMessages, Info(<<n>>, <<>>) \in TypeInfos,
         n \notin {"google.protobuf.Timestamp", "google.protobuf.Duration"}
  PROVE  \E k \in {"any", "wrapper", "message"} :
           /\ TypeInfoToType[Info(<<n>>, <<>>)] = Record(k, <<n>>, <<>>)
           /\ k = "wrapper" => n \in Wrappers
           /\ k = "any" => n = "google.protobuf.Any"
<1>. DEFINE i == Info(<<n>>, <<>>)
            ps == [j \in DOMAIN i.params |-> TypeInfoToType[i.params[j]]]
<1>1. i.name = <<n>> /\ i.params = <<>>
  BY DEF Info, Record
<1>. HIDE DEF i
<1>2. ps = <<>>
  BY <1>1
<1>3. TypeInfoToType[i] = TypeOfInfo(i, ps)
  BY TypeInfoToTypeOf DEF i
<1>. HIDE DEF ps
<1>4. n \notin Scalars /\ n \notin {"list", "map", "type"}
  BY TypesAreNamed DEF Scalars, ScalarNames
<1>5. MessageType(<<n>>).kind = "message"
  BY DEF MessageType, Record
<1>6. CASE n = "google.protobuf.Any"
  <2>1. TypeOfInfo(i, ps) = Record("any", i.name, <<>>)
    BY <1>1, <1>4, <1>6 DEF TypeOfInfo, Wrappers
  <2>. QED  BY <1>1, <1>3, <1>6, <2>1, Zenon DEF i
<1>7. CASE n \in Wrappers
  <2>1. TypeOfInfo(i, ps) = Record("wrapper", i.name, <<>>)
    BY <1>1, <1>4, <1>7 DEF TypeOfInfo, Wrappers
  <2>. QED  BY <1>1, <1>3, <1>7, <2>1, Zenon DEF i
<1>8. CASE n # "google.protobuf.Any" /\ n \notin Wrappers
  <2>1. TypeOfInfo(i, ps) = Record("message", i.name, <<>>)
    BY <1>1, <1>2, <1>4, <1>5, <1>8 DEF TypeOfInfo
  <2>. QED  BY <1>1, <1>3, <2>1, Zenon DEF i
<1>. QED  BY <1>6, <1>7, <1>8

\* FromCelType, form by form.
LEMMA ScalarConverted ==
  ASSUME NEW k \in Scalars, Record(k, <<>>, <<>>) \in CelTypesMade
  PROVE  FromCelType[Record(k, <<>>, <<>>)] = Scalar(k)
<1>. DEFINE c == Record(k, <<>>, <<>>)
<1>1. c.kind = k
  BY DEF Record
<1>. HIDE DEF c
<1>2. PICK ps : FromCelType[c] = OfCelType(c, ps)
  BY FromCelTypeOf DEF c
<1>3. \A n \in Scalars : n \notin {"list", "map", "type", "any", "wrapper", "message", "opaque"}
  BY DEF Scalars, ScalarNames
<1>4. OfCelType(c, ps) = Scalar(k)
  BY <1>1, <1>3 DEF OfCelType
<1>. QED  BY <1>2, <1>4, Zenon DEF c

\* FromCelType of a list.
LEMMA ListConverted ==
  ASSUME NEW u, Record("list", <<>>, <<u>>) \in CelTypesMade
  PROVE  FromCelType[Record("list", <<>>, <<u>>)] = ListType(FromCelType[u])
<1>. DEFINE c == Record("list", <<>>, <<u>>)
            ps == [j \in DOMAIN c.params |-> FromCelType[c.params[j]]]
            q == FromCelType[u]
<1>1. c.kind = "list" /\ c.params = <<u>>
  BY DEF Record
<1>. HIDE DEF c
<1>2. ps = <<q>>
  BY <1>1
<1>3. FromCelType[c] = OfCelType(c, ps)
  BY FromCelTypeOf DEF c
<1>. HIDE DEF ps, q
<1>4. \A k \in Scalars : k # "list"
  BY DEF Scalars, ScalarNames
<1>5. OfCelType(c, ps) = ListType(ps[1])
  BY <1>1, <1>4 DEF OfCelType
<1>6. ps[1] = q
  BY <1>2
<1>7. FromCelType[c] = ListType(q)
  BY <1>3, <1>5, <1>6, Zenon
<1>. QED  BY <1>7, Zenon DEF c, q

\* FromCelType of a map.
LEMMA MapConverted ==
  ASSUME NEW u, NEW v, Record("map", <<>>, <<u, v>>) \in CelTypesMade
  PROVE  FromCelType[Record("map", <<>>, <<u, v>>)] = MapType(FromCelType[u], FromCelType[v])
<1>. DEFINE c == Record("map", <<>>, <<u, v>>)
            ps == [j \in DOMAIN c.params |-> FromCelType[c.params[j]]]
            q == FromCelType[u]
            r == FromCelType[v]
<1>1. c.kind = "map" /\ c.params = <<u, v>>
  BY DEF Record
<1>. HIDE DEF c
<1>2. ps = <<q, r>>
  BY <1>1
<1>3. FromCelType[c] = OfCelType(c, ps)
  BY FromCelTypeOf DEF c
<1>. HIDE DEF ps, q, r
<1>4. \A k \in Scalars : k # "map"
  BY DEF Scalars, ScalarNames
<1>5. OfCelType(c, ps) = MapType(ps[1], ps[2])
  BY <1>1, <1>4 DEF OfCelType
<1>6. ps[1] = q /\ ps[2] = r
  BY <1>2
<1>7. FromCelType[c] = MapType(q, r)
  BY <1>3, <1>5, <1>6, Zenon
<1>. QED  BY <1>7, Zenon DEF c, q, r

\* FromTypeProto, form by form.
LEMMA ScalarReported ==
  ASSUME NEW k \in Scalars, Record(k, <<>>, <<>>) \in CelTypesMade
  PROVE  FromTypeProto[Record(k, <<>>, <<>>)] = Scalar(k)
<1>. DEFINE c == Record(k, <<>>, <<>>)
<1>1. c.kind = k
  BY DEF Record
<1>. HIDE DEF c
<1>2. PICK ps : FromTypeProto[c] = OfTypeProto(c, ps)
  BY FromTypeProtoOf DEF c
<1>3. \A n \in Scalars : n \notin {"list", "map", "type", "any", "wrapper", "message", "opaque"}
  BY DEF Scalars, ScalarNames
<1>4. OfTypeProto(c, ps) = Scalar(k)
  BY <1>1, <1>3 DEF OfTypeProto
<1>. QED  BY <1>2, <1>4, Zenon DEF c

\* FromTypeProto of a list.
LEMMA ListReported ==
  ASSUME NEW u, Record("list", <<>>, <<u>>) \in CelTypesMade
  PROVE  FromTypeProto[Record("list", <<>>, <<u>>)] = ListType(FromTypeProto[u])
<1>. DEFINE c == Record("list", <<>>, <<u>>)
            ps == [j \in DOMAIN c.params |-> FromTypeProto[c.params[j]]]
            q == FromTypeProto[u]
<1>1. c.kind = "list" /\ c.params = <<u>>
  BY DEF Record
<1>. HIDE DEF c
<1>2. ps = <<q>>
  BY <1>1
<1>3. FromTypeProto[c] = OfTypeProto(c, ps)
  BY FromTypeProtoOf DEF c
<1>. HIDE DEF ps, q
<1>4. \A k \in Scalars : k # "list"
  BY DEF Scalars, ScalarNames
<1>5. OfTypeProto(c, ps) = ListType(ps[1])
  BY <1>1, <1>4 DEF OfTypeProto
<1>6. ps[1] = q
  BY <1>2
<1>7. FromTypeProto[c] = ListType(q)
  BY <1>3, <1>5, <1>6, Zenon
<1>. QED  BY <1>7, Zenon DEF c, q

\* FromTypeProto of a map.
LEMMA MapReported ==
  ASSUME NEW u, NEW v, Record("map", <<>>, <<u, v>>) \in CelTypesMade
  PROVE  FromTypeProto[Record("map", <<>>, <<u, v>>)] = MapType(FromTypeProto[u], FromTypeProto[v])
<1>. DEFINE c == Record("map", <<>>, <<u, v>>)
            ps == [j \in DOMAIN c.params |-> FromTypeProto[c.params[j]]]
            q == FromTypeProto[u]
            r == FromTypeProto[v]
<1>1. c.kind = "map" /\ c.params = <<u, v>>
  BY DEF Record
<1>. HIDE DEF c
<1>2. ps = <<q, r>>
  BY <1>1
<1>3. FromTypeProto[c] = OfTypeProto(c, ps)
  BY FromTypeProtoOf DEF c
<1>. HIDE DEF ps, q, r
<1>4. \A k \in Scalars : k # "map"
  BY DEF Scalars, ScalarNames
<1>5. OfTypeProto(c, ps) = MapType(ps[1], ps[2])
  BY <1>1, <1>4 DEF OfTypeProto
<1>6. ps[1] = q /\ ps[2] = r
  BY <1>2
<1>7. FromTypeProto[c] = MapType(q, r)
  BY <1>3, <1>5, <1>6, Zenon
<1>. QED  BY <1>7, Zenon DEF c, q, r

\* Whatever is in a parameter of a type is in the type.
LEMMA PartsOf ==
  ASSUME NEW t \in AllTypes, NEW j \in DOMAIN t.params
  PROVE  KindsIn[t.params[j]] \subseteq KindsIn[t] /\ NamesIn[t.params[j]] \subseteq NamesIn[t]
<1>1. KindsIn[t] = {t.kind} \cup UNION {KindsIn[t.params[i]] : i \in DOMAIN t.params}
  BY KindsInOf
<1>2. NamesIn[t] = {t.name} \cup UNION {NamesIn[t.params[i]] : i \in DOMAIN t.params}
  BY NamesInOf
<1>. QED  BY <1>1, <1>2

\* The kind and the name of a type are in it.
LEMMA OwnKindAndName ==
  ASSUME NEW t \in AllTypes
  PROVE  t.kind \in KindsIn[t] /\ t.name \in NamesIn[t]
<1>1. KindsIn[t] = {t.kind} \cup UNION {KindsIn[t.params[i]] : i \in DOMAIN t.params}
  BY KindsInOf
<1>2. NamesIn[t] = {t.name} \cup UNION {NamesIn[t.params[i]] : i \in DOMAIN t.params}
  BY NamesInOf
<1>. QED  BY <1>1, <1>2

\* The conversions of a type are defined.
LEMMA OnTheWay ==
  ASSUME NEW t \in PyCelTypes
  PROVE  /\ ToTypeInfo[t] \in TypeInfos /\ TypeInfoToType[ToTypeInfo[t]] \in CelTypesMade
         /\ t \in AllTypes
<1>1. ToTypeInfo[t] \in TypeInfos
  BY DEF TypeInfos
<1>. QED  BY <1>1 DEF CelTypesMade, AllTypes

\* A plain type comes back from a configuration as it was: ToTypeInfo,
\* TypeInfoToType and FromCelType in a row, which is what NewEnv and the
\* constructor of an environment do to the type of a variable.
THEOREM PlainTypesSurvive ==
  \A t \in PyCelTypes : Plain(t) => FromCelType[TypeInfoToType[ToTypeInfo[t]]] = t
<1>. DEFINE Way(t) == FromCelType[TypeInfoToType[ToTypeInfo[t]]]
            U == PyCelTypesUpTo
            T == {d \in 0..MaxTypeDepth : \A t \in U[d] : Plain(t) => Way(t) = t}
<1>1. ASSUME NEW k \in Scalars, Scalar(k) \in PyCelTypes PROVE Way(Scalar(k)) = Scalar(k)
  <2>1. ToTypeInfo[Scalar(k)] = Info(<<k>>, <<>>)
    BY <1>1, ScalarInfoOf, Zenon
  <2>2. TypeInfoToType[ToTypeInfo[Scalar(k)]] = Record(k, <<>>, <<>>)
    BY <1>1, <2>1, OnTheWay, ScalarMade
  <2>. QED  BY <1>1, <2>2, OnTheWay, ScalarConverted
<1>2. ASSUME NEW t \in FlatTypes, t \in PyCelTypes, Plain(t) PROVE Way(t) = t
  <2>1. /\ t.kind \in Scalars \cup {"list", "map", "message"}
        /\ \A n \in LostMessages : t.name # <<n>>
    BY <1>2, OnTheWay, OwnKindAndName DEF Plain
  <2>2. t \notin {Error, Unknown, Type} /\ \A n \in OpaqueNames : t # Record("type", <<n>>, <<>>)
    BY <2>1 DEF Error, Unknown, Type, Record, Scalars, ScalarNames
  <2>3. CASE \E n \in KnownMessages \cup LostMessages :
               /\ n \notin {"google.protobuf.Timestamp", "google.protobuf.Duration"}
               /\ t = Record("message", <<n>>, <<>>)
    <3>1. PICK n \in KnownMessages \cup LostMessages :
            /\ n \notin {"google.protobuf.Timestamp", "google.protobuf.Duration"}
            /\ t = Record("message", <<n>>, <<>>)
      BY <2>3
    <3>2. n \in KnownMessages
      BY <2>1, <3>1 DEF Record
    <3>3. ToTypeInfo[t] = Info(<<n>>, <<>>)
      BY <1>2, <3>1, NamedInfoOf
    <3>4. PICK k \in {"any", "wrapper", "message"} :
            TypeInfoToType[ToTypeInfo[t]] = Record(k, <<n>>, <<>>)
      BY <1>2, <3>1, <3>2, <3>3, OnTheWay, MessageMade
    <3>. DEFINE c == Record(k, <<n>>, <<>>)
    <3>5. c \in CelTypesMade
      BY <1>2, <3>4, OnTheWay
    <3>6. c.kind = k /\ c.name = <<n>> /\ k \notin Scalars
      BY DEF Record, Scalars, ScalarNames
    <3>. HIDE DEF c
    <3>7. PICK ps : FromCelType[c] = OfCelType(c, ps)
      BY <3>5, FromCelTypeOf
    <3>8. OfCelType(c, ps) = MessageType(<<n>>)
      BY <3>6 DEF OfCelType
    <3>9. MessageType(<<n>>) = t
      BY <3>1 DEF MessageType
    <3>. QED  BY <3>4, <3>7, <3>8, <3>9 DEF c
  <2>4. CASE \E k \in Scalars : t = Scalar(k)
    BY <1>1, <1>2, <2>4
  <2>. QED  BY <2>2, <2>3, <2>4, FlatForms
<1>3. 0 \in T
  <2>1. 0 \in 0..MaxTypeDepth /\ U[0] = FlatTypes /\ U[0] \subseteq PyCelTypes
    BY TypesAreNamed, PyCelTypesOf, TypesOfDepth
  <2>. HIDE DEF Way
  <2>. QED  BY <1>2, <2>1
<1>4. ASSUME NEW d \in 1..MaxTypeDepth, d - 1 \in T PROVE d \in T
  <2>1. d \in 0..MaxTypeDepth /\ d - 1 \in 0..MaxTypeDepth
    BY TypesAreNamed
  <2>2. ASSUME NEW t \in U[d], Plain(t) PROVE Way(t) = t
    <3>1. t \in PyCelTypes
      BY <2>1, TypesOfDepth
    <3>2. \A j \in DOMAIN t.params : Plain(t.params[j])
      BY <2>2, <3>1, OnTheWay, PartsOf DEF Plain
    <3>3. t.kind \in Scalars \cup {"list", "map", "message"}
      BY <2>2, <3>1, OnTheWay, OwnKindAndName DEF Plain
    <3>4. ASSUME NEW u \in U[d - 1], t = ListType(u) PROVE Way(t) = t
      <4>1. t.params = <<u>>
        BY <3>4 DEF ListType, Record
      <4>2. 1 \in DOMAIN t.params /\ t.params[1] = u
        BY <4>1
      <4>3. Way(u) = u
        <5>1. Plain(u)
          BY <3>2, <4>2
        <5>. HIDE DEF Way
        <5>. QED  BY <1>4, <5>1
      <4>4. ToTypeInfo[t] = Info(<<"list">>, <<ToTypeInfo[u]>>)
        BY <3>1, <3>4, ListInfoOf, Zenon
      <4>5. TypeInfoToType[ToTypeInfo[t]] = Record("list", <<>>, <<TypeInfoToType[ToTypeInfo[u]]>>)
        BY <3>1, <4>4, OnTheWay, ListMade
      <4>6. Way(t) = ListType(Way(u))
        BY <3>1, <4>5, OnTheWay, ListConverted
      <4>. QED  BY <3>4, <4>3, <4>6, Zenon
    <3>5. ASSUME NEW k \in {"string", "dyn"}, NEW u \in U[d - 1], t = MapType(Scalar(k), u) PROVE Way(t) = t
      <4>1. t.params = <<Scalar(k), u>>
        BY <3>5 DEF MapType, Scalar, Record
      <4>2. 2 \in DOMAIN t.params /\ t.params[2] = u
        BY <4>1
      <4>3. Way(u) = u
        <5>1. Plain(u)
          BY <3>2, <4>2
        <5>. HIDE DEF Way
        <5>. QED  BY <1>4, <5>1
      <4>4. k \in Scalars
        BY DEF Scalars, ScalarNames
      <4>5. Scalar(k) \in PyCelTypes
        <5>1. Scalar(k) \in FlatTypes
          BY <4>4 DEF FlatTypes
        <5>. QED  BY <5>1, PyCelTypesLayered
      <4>6. ToTypeInfo[t] = Info(<<"map">>, <<ToTypeInfo[Scalar(k)], ToTypeInfo[u]>>)
        BY <3>1, <3>5, <4>4, <4>5, MapInfoOf, ScalarInfoOf
      <4>7. TypeInfoToType[ToTypeInfo[t]]
              = Record("map", <<>>, <<TypeInfoToType[ToTypeInfo[Scalar(k)]], TypeInfoToType[ToTypeInfo[u]]>>)
        BY <3>1, <4>6, OnTheWay, MapMade
      <4>8. Way(t) = MapType(Way(Scalar(k)), Way(u))
        BY <3>1, <4>7, OnTheWay, MapConverted
      <4>9. Way(Scalar(k)) = Scalar(k)
        BY <1>1, <4>4, <4>5, Zenon
      <4>. QED  BY <3>5, <4>3, <4>8, <4>9, Zenon
    <3>6. \A u, n : TypeType(u).kind = "type" /\ AbstractType(n, <<u>>).kind = "type"
      BY DEF TypeType, AbstractType, Record
    <3>7. "type" \notin Scalars \cup {"list", "map", "message"}
      BY DEF Scalars, ScalarNames
    <3>8. \/ t \in FlatTypes
          \/ \E u \in U[d - 1] : t = ListType(u)
          \/ \E k \in {"string", "dyn"}, u \in U[d - 1] : t = MapType(Scalar(k), u)
          \/ \E u \in U[d - 1] : t = TypeType(u)
          \/ \E n \in OpaqueNames, u \in U[d - 1] : t = AbstractType(<<n>>, <<u>>)
      <4>1. \/ t \in FlatTypes
            \/ /\ d # 0
               /\ \/ \E u \in U[d - 1] : t = ListType(u)
                  \/ \E k \in {"string", "dyn"}, u \in U[d - 1] : t = MapType(Scalar(k), u)
                  \/ \E u \in U[d - 1] : t = TypeType(u)
                  \/ \E n \in OpaqueNames, u \in U[d - 1] : t = AbstractType(<<n>>, <<u>>)
        BY <2>1, <2>2, TypesByDepth, Zenon
      <4>. HIDE DEF U
      <4>. QED  BY <4>1, Zenon
    <3>9. (\A u : t # TypeType(u)) /\ \A n, u : t # AbstractType(n, <<u>>)
      BY <3>3, <3>6, <3>7
    <3>10. t \in FlatTypes => Way(t) = t
      BY <1>2, <2>2, <3>1, Zenon
    <3>. HIDE DEF Way, U
    <3>. QED  BY <3>4, <3>5, <3>8, <3>9, <3>10, Zenon
  <2>. HIDE DEF Way
  <2>. QED  BY <2>1, <2>2
<1>5. \A d \in 0..MaxTypeDepth : d \in T
  <2>. HIDE DEF T
  <2>. QED  BY <1>3, <1>4, UpTo, TypesAreNamed
<1>. QED  BY <1>5, PyCelTypesLayered, TypesAreNamed

\* What OfCelType makes has all the parameters that it is given, unless it is
\* what MapType throws.
LEMMA KeepsParams ==
  ASSUME NEW c \in CelTypesMade, NEW ps, ps = [k \in DOMAIN c.params |-> ps[k]], NEW j \in DOMAIN c.params
  PROVE  \/ OfCelType(c, ps) = Unsupported
         \/ j \in DOMAIN OfCelType(c, ps).params /\ OfCelType(c, ps).params[j] = ps[j]
<1>. DEFINE t == OfCelType(c, ps)
            Has == t = Unsupported \/ (j \in DOMAIN t.params /\ t.params[j] = ps[j])
<1>1. \A k \in Scalars : k \notin {"list", "map", "type", "any", "wrapper", "message", "opaque"}
  BY DEF Scalars, ScalarNames
<1>2. c.params # <<>>
  OBVIOUS
<1>3. ASSUME NEW u, c.kind = "list", c.params = <<u>> PROVE Has
  <2>1. t = ListType(ps[1])
    BY <1>1, <1>3 DEF OfCelType
  <2>2. t.params = <<ps[1]>>
    BY <2>1 DEF ListType, Record
  <2>. QED  BY <1>3, <2>2
<1>4. ASSUME NEW u, NEW v, c.kind = "map", c.params = <<u, v>> PROVE Has
  <2>1. t = MapType(ps[1], ps[2])
    BY <1>1, <1>4 DEF OfCelType
  <2>2. t = Unsupported \/ t = Record("map", <<"MAP">>, <<ps[1], ps[2]>>)
    BY <2>1 DEF MapType
  <2>3. t = Unsupported \/ t.params = <<ps[1], ps[2]>>
    BY <2>2 DEF Record
  <2>. QED  BY <1>4, <2>3
<1>5. ASSUME NEW u, c.kind = "type", c.params = <<u>> PROVE Has
  <2>1. DOMAIN ps = {1} /\ ps # <<>>
    BY <1>5
  <2>2. t = TypeType(ps[1])
    BY <1>1, <1>5, <2>1 DEF OfCelType
  <2>3. t.params = <<ps[1]>>
    BY <2>2 DEF TypeType, Record
  <2>. QED  BY <1>5, <2>3
<1>6. ASSUME c.kind = "opaque" PROVE Has
  <2>1. t = AbstractType(c.name, ps)
    BY <1>1, <1>6 DEF OfCelType
  <2>2. t.params = ps
    BY <2>1 DEF AbstractType, Record
  <2>. QED  BY <2>2
<1>. HIDE DEF Has
<1>7. Has
  BY <1>2, <1>3, <1>4, <1>5, <1>6, MadeKinds
<1>. QED  BY <1>7, Zenon DEF Has

\* Of parameters that are the same, the two conversions make the same, unless
\* it is of Any or of a wrapper.
LEMMA SameWays ==
  ASSUME NEW c \in CelTypesMade, c.kind \notin {"any", "wrapper"}, NEW ps
  PROVE  OfTypeProto(c, ps) = OfCelType(c, ps)
<1>1. \A k \in Scalars : k \notin {"list", "map", "type", "any", "wrapper", "message", "opaque"}
  BY DEF Scalars, ScalarNames
<1>2. \/ c.kind \in Scalars
      \/ c.kind \in {"list", "map", "type", "message", "opaque"}
  BY MadeKinds
<1>3. CASE c.kind \in Scalars
  BY <1>1, <1>3 DEF OfTypeProto, OfCelType
<1>4. CASE c.kind \in {"list", "map", "type", "message", "opaque"}
  BY <1>1, <1>4 DEF OfTypeProto, OfCelType
<1>. QED  BY <1>2, <1>3, <1>4

\* A type that FromTypeProto and FromCelType may disagree about: Any or a wrapper
\* is in it, or a map that PyCelType does not have.
Excepted(t) ==
  \/ \E n \in Wrappers \cup {"google.protobuf.Any"} : <<n>> \in NamesIn[t]
  \/ "unsupported" \in KindsIn[t]

\* The two conversions agree about a type if they do about its parameters.
LEMMA ReportsStep ==
  ASSUME NEW c \in CelTypesMade,
         \A j \in DOMAIN c.params :
           FromTypeProto[c.params[j]] = FromCelType[c.params[j]] \/ Excepted(FromCelType[c.params[j]])
  PROVE  FromTypeProto[c] = FromCelType[c] \/ Excepted(FromCelType[c])
<1>. DEFINE ps == [j \in DOMAIN c.params |-> FromCelType[c.params[j]]]
            qs == [j \in DOMAIN c.params |-> FromTypeProto[c.params[j]]]
            t == FromCelType[c]
<1>1. t = OfCelType(c, ps) /\ FromTypeProto[c] = OfTypeProto(c, qs)
  BY FromCelTypeOf, FromTypeProtoOf
<1>2. t \in AllTypes
  BY DEF AllTypes
<1>3. \A j \in DOMAIN c.params : c.params[j] \in CelTypesMade
  BY MadeForms
<1>4. ps = [k \in DOMAIN c.params |-> ps[k]]
  OBVIOUS
<1>5. CASE c.kind \in {"any", "wrapper"}
  <2>1. PICK n \in Wrappers \cup {"google.protobuf.Any"} : c.name = <<n>>
    <3>1. \A k \in Scalars : k \notin {"any", "wrapper"}
      BY DEF Scalars, ScalarNames
    <3>. QED  BY <1>5, <3>1, MadeKinds
  <2>2. n \notin {"google.protobuf.Timestamp", "google.protobuf.Duration"}
    BY DEF Wrappers
  <2>3. \A k \in Scalars : k \notin {"any", "wrapper"}
    BY DEF Scalars, ScalarNames
  <2>. HIDE DEF ps, t
  <2>4. t = MessageType(<<n>>)
    BY <1>1, <1>5, <2>1, <2>3 DEF OfCelType
  <2>5. t.name = <<n>>
    BY <2>2, <2>4 DEF MessageType, Record
  <2>6. <<n>> \in NamesIn[t]
    BY <1>2, <2>5, OwnKindAndName
  <2>. QED  BY <2>6, Zenon DEF Excepted, t
<1>6. CASE c.kind \notin {"any", "wrapper"} /\ ps = qs
  <2>. HIDE DEF ps, qs
  <2>1. OfTypeProto(c, ps) = OfCelType(c, ps)
    BY <1>6, SameWays
  <2>. QED  BY <1>1, <1>6, <2>1, Zenon
<1>7. CASE ps # qs
  <2>1. PICK j \in DOMAIN c.params : FromTypeProto[c.params[j]] # FromCelType[c.params[j]]
    BY <1>7
  <2>2. Excepted(ps[j])
    BY <2>1
  <2>. HIDE DEF ps, qs, t
  <2>3. t = Unsupported \/ (j \in DOMAIN t.params /\ t.params[j] = ps[j])
    BY <1>1, <1>4, KeepsParams
  <2>4. CASE t = Unsupported
    <3>1. t.kind = "unsupported"
      BY <2>4 DEF Unsupported, Record
    <3>2. "unsupported" \in KindsIn[t]
      BY <1>2, <3>1, OwnKindAndName
    <3>. QED  BY <3>2, Zenon DEF Excepted, t
  <2>5. CASE j \in DOMAIN t.params /\ t.params[j] = ps[j]
    <3>1. KindsIn[ps[j]] \subseteq KindsIn[t] /\ NamesIn[ps[j]] \subseteq NamesIn[t]
      BY <1>2, <2>5, PartsOf
    <3>2. Excepted(t)
      BY <2>2, <3>1 DEF Excepted
    <3>. QED  BY <3>2, Zenon DEF t
  <2>. QED  BY <2>3, <2>4, <2>5
<1>. QED  BY <1>5, <1>6, <1>7

\* What an expression reports is what its values are converted to: FromTypeProto
\* and FromCelType make the same type of a cel::Type, unless Any, a wrapper or a
\* map that PyCelType does not have is somewhere in it.
THEOREM ReportsAgree ==
  \A c \in CelTypesMade : FromTypeProto[c] = FromCelType[c] \/ Excepted(FromCelType[c])
<1>. DEFINE N == MaxTypeDepth + 1
            Agree(c) == FromTypeProto[c] = FromCelType[c] \/ Excepted(FromCelType[c])
            T == {d \in 0..N : \A c \in CelTypesUpTo(d) : Agree(c)}
<1>1. N \in Nat /\ CelTypesMade = CelTypesUpTo(N)
  BY CelTypesLayered
<1>2. ASSUME NEW c \in CelTypesMade, \A j \in DOMAIN c.params : Agree(c.params[j]) PROVE Agree(c)
  BY <1>2, ReportsStep
<1>. HIDE DEF Agree
<1>3. 0 \in T
  <2>1. ASSUME NEW c \in CelTypesUpTo(0) PROVE Agree(c)
    <3>1. c.params = <<>> /\ c \in CelTypesMade
      BY <1>1, CelTypesLayered, CelTypesOfDepth
    <3>. QED  BY <1>2, <3>1
  <2>. QED  BY <1>1, <2>1
<1>4. ASSUME NEW d \in 1..N, d - 1 \in T PROVE d \in T
  <2>1. ASSUME NEW c \in CelTypesUpTo(d) PROVE Agree(c)
    <3>1. c \in CelTypesMade
      BY <1>1, CelTypesOfDepth
    <3>2. \A j \in DOMAIN c.params : c.params[j] \in CelTypesUpTo(d - 1)
      BY CelTypesLayered
    <3>. QED  BY <1>2, <1>4, <3>1, <3>2
  <2>. QED  BY <2>1
<1>5. \A d \in 0..N : d \in T
  <2>. HIDE DEF T, N
  <2>. QED  BY <1>1, <1>3, <1>4, UpTo
<1>6. \A c \in CelTypesMade : Agree(c)
  <2>1. N \in 0..N
    BY <1>1
  <2>2. N \in T
    BY <1>5, <2>1
  <2>. QED  BY <1>1, <2>2
<1>. QED  BY <1>6 DEF Agree

---------------------------------------------------------------------------
(***************************************************************************)
(* What a program is told of the types it has declared.                    *)
(***************************************************************************)
\* The parameters of a reported type are reported types.
LEMMA ReportedParams ==
  ASSUME NEW r \in ReportedTypes, NEW i \in DOMAIN r.params
  PROVE  r.params[i] \in ReportedTypes
<1>1. PICK c \in CelTypesMade : r = FromTypeProto[c]
  BY DEF ReportedTypes
<1>. DEFINE ps == [j \in DOMAIN c.params |-> FromTypeProto[c.params[j]]]
<1>2. r = OfTypeProto(c, ps)
  BY <1>1, FromTypeProtoOf
<1>3. ps = [k \in DOMAIN c.params |-> ps[k]] /\ \A k \in DOMAIN c.params : ps[k] = FromTypeProto[c.params[k]]
  OBVIOUS
<1>. HIDE DEF ps
<1>4. PICK k \in DOMAIN c.params : r.params[i] = ps[k]
  BY <1>2, <1>3, ProtoParams
<1>5. c.params[k] \in CelTypesMade
  BY MadeForms
<1>. QED  BY <1>3, <1>4, <1>5 DEF ReportedTypes

\* Parameters are types of the same sort.
LEMMA ParamsToo ==
  /\ \A t \in PyCelTypes : \A i \in DOMAIN t.params : t.params[i] \in PyCelTypes
  /\ \A r \in ReportedTypes : \A i \in DOMAIN r.params : r.params[i] \in ReportedTypes
<1>1. ASSUME NEW t \in PyCelTypes, NEW i \in DOMAIN t.params PROVE t.params[i] \in PyCelTypes
  <2>1. MaxTypeDepth \in Nat /\ t \in PyCelTypesUpTo[MaxTypeDepth]
    BY PyCelTypesLayered
  <2>2. MaxTypeDepth # 0
    BY <2>1, PyCelTypesLayered
  <2>3. MaxTypeDepth \in 1..MaxTypeDepth /\ MaxTypeDepth - 1 \in 0..MaxTypeDepth
    BY <2>1, <2>2
  <2>4. t.params[i] \in PyCelTypesUpTo[MaxTypeDepth - 1]
    BY <2>1, <2>3, PyCelTypesLayered
  <2>. QED  BY <2>3, <2>4, TypesOfDepth
<1>. QED  BY <1>1, ReportedParams

\* ToCelType is what its definition says.
LEMMA ToCelTypeOf ==
  \A t \in PyCelTypes : ToCelType[t] = OfPyCelType(t, [i \in DOMAIN t.params |-> ToCelType[t.params[i]]])
<1>. DEFINE N == MaxTypeDepth
            L(d) == PyCelTypesUpTo[d]
            G(ps, t) == OfPyCelType(t, ps)
            H(f, t) == G([i \in DOMAIN t.params |-> f[t.params[i]]], t)
            Is(f, S) == f = [t \in S |-> H(f, t)]
            T == {d \in 0..N : \E f : Is(f, L(d))}
<1>1. ASSUME NEW f, NEW g, NEW t \in L(0) PROVE H(f, t) = H(g, t)
  BY PyCelTypesLayered
<1>2. ASSUME NEW d \in 1..N, NEW f, NEW g, \A y \in L(d - 1) : f[y] = g[y], NEW t \in L(d)
      PROVE  H(f, t) = H(g, t)
  BY <1>2, PyCelTypesLayered
<1>3. N \in Nat /\ PyCelTypes = L(N)
  BY PyCelTypesLayered
<1>4. \A d \in 1..N : L(d - 1) \subseteq L(d)
  BY PyCelTypesLayered
<1>. HIDE DEF H, L
<1>5. 0 \in T
  <2>1. PICK f : f = [t \in L(0) |-> H({}, t)]
    OBVIOUS
  <2>2. Is(f, L(0))
    BY <1>1, <2>1, Zenon
  <2>. QED  BY <1>3, <2>2
<1>6. ASSUME NEW d \in 1..N, d - 1 \in T PROVE d \in T
  <2>1. PICK f : Is(f, L(d - 1))
    BY <1>6
  <2>2. PICK g : g = [t \in L(d) |-> H(f, t)]
    OBVIOUS
  <2>3. \A y \in L(d - 1) : y \in L(d)
    BY <1>4
  <2>4. \A y \in L(d - 1) : f[y] = g[y]
    BY <2>1, <2>2, <2>3, Zenon
  <2>5. \A y \in L(d) : H(f, y) = H(g, y)
    BY <1>2, <2>4
  <2>6. Is(g, L(d))
    BY <2>2, <2>5, Zenon
  <2>. QED  BY <2>6
<1>7. \E f : Is(f, L(N))
  <2>1. N \in 0..N
    BY <1>3
  <2>. HIDE DEF T, N
  <2>2. N \in T
    BY <1>3, <1>5, <1>6, <2>1, UpTo
  <2>. QED  BY <2>2, Zenon DEF T
<1>8. ToCelType = CHOOSE f : Is(f, PyCelTypes)
  BY DEF ToCelType, H, G
<1>9. Is(ToCelType, L(N))
  BY <1>3, <1>7, <1>8, Zenon
<1>. QED  BY <1>3, <1>9, Zenon DEF H, G

\* IsAssignableFrom is what its definition says.
LEMMA IsAssignableFromOf ==
  \A pair \in PyCelTypes \X (PyCelTypes \cup ReportedTypes) : IsAssignableFrom[pair] = (
    /\ pair[1].kind = pair[2].kind
    /\ \/ pair[1].kind = "message" /\ pair[1].name = pair[2].name
       \/ pair[1].kind # "message" /\ pair[1].params = <<>>
       \/ /\ pair[1].kind # "message"
          /\ DOMAIN pair[1].params = DOMAIN pair[2].params
          /\ \A i \in DOMAIN pair[1].params : IsAssignableFrom[<<pair[1].params[i], pair[2].params[i]>>])
<1>. DEFINE N == MaxTypeDepth
            L(d) == PyCelTypesUpTo[d] \X (PyCelTypes \cup ReportedTypes)
            H(f, pair) ==
              /\ pair[1].kind = pair[2].kind
              /\ \/ pair[1].kind = "message" /\ pair[1].name = pair[2].name
                 \/ pair[1].kind # "message" /\ pair[1].params = <<>>
                 \/ /\ pair[1].kind # "message"
                    /\ DOMAIN pair[1].params = DOMAIN pair[2].params
                    /\ \A i \in DOMAIN pair[1].params : f[<<pair[1].params[i], pair[2].params[i]>>]
            Is(f, S) == f = [pair \in S |-> H(f, pair)]
            T == {d \in 0..N : \E f : Is(f, L(d))}
<1>1. ASSUME NEW f, NEW g, NEW pair \in L(0) PROVE H(f, pair) = H(g, pair)
  BY PyCelTypesLayered
<1>2. ASSUME NEW d \in 1..N, NEW f, NEW g, \A y \in L(d - 1) : f[y] = g[y], NEW pair \in L(d)
      PROVE  H(f, pair) = H(g, pair)
  <2>1. \A i \in DOMAIN pair[1].params : pair[1].params[i] \in PyCelTypesUpTo[d - 1]
    BY PyCelTypesLayered
  <2>2. \A i \in DOMAIN pair[2].params : pair[2].params[i] \in PyCelTypes \cup ReportedTypes
    BY ParamsToo
  <2>3. \A t \in PyCelTypesUpTo[d - 1], u \in PyCelTypes \cup ReportedTypes : f[<<t, u>>] = g[<<t, u>>]
    BY <1>2
  <2>. QED  BY <2>1, <2>2, <2>3
<1>3. N \in Nat /\ PyCelTypes \X (PyCelTypes \cup ReportedTypes) = L(N)
  BY PyCelTypesLayered
<1>4. \A d \in 1..N : L(d - 1) \subseteq L(d)
  BY PyCelTypesLayered
<1>. HIDE DEF H, L
<1>5. 0 \in T
  <2>1. PICK f : f = [pair \in L(0) |-> H({}, pair)]
    OBVIOUS
  <2>2. Is(f, L(0))
    BY <1>1, <2>1, Zenon
  <2>. QED  BY <1>3, <2>2
<1>6. ASSUME NEW d \in 1..N, d - 1 \in T PROVE d \in T
  <2>1. PICK f : Is(f, L(d - 1))
    BY <1>6
  <2>2. PICK g : g = [pair \in L(d) |-> H(f, pair)]
    OBVIOUS
  <2>3. \A y \in L(d - 1) : y \in L(d)
    BY <1>4
  <2>4. \A y \in L(d - 1) : f[y] = g[y]
    BY <2>1, <2>2, <2>3, Zenon
  <2>5. \A y \in L(d) : H(f, y) = H(g, y)
    BY <1>2, <2>4
  <2>6. Is(g, L(d))
    BY <2>2, <2>5, Zenon
  <2>. QED  BY <2>6
<1>7. \E f : Is(f, L(N))
  <2>1. N \in 0..N
    BY <1>3
  <2>. HIDE DEF T, N
  <2>2. N \in T
    BY <1>3, <1>5, <1>6, <2>1, UpTo
  <2>. QED  BY <2>2, Zenon DEF T
<1>8. IsAssignableFrom = CHOOSE f : Is(f, PyCelTypes \X (PyCelTypes \cup ReportedTypes))
  BY DEF IsAssignableFrom, H
<1>9. Is(IsAssignableFrom, L(N))
  BY <1>3, <1>7, <1>8, Zenon
<1>. QED  BY <1>3, <1>9, Zenon DEF H

\* Covers is what its definition says.
LEMMA CoversOf ==
  \A pair \in PyCelTypes \X ReportedTypes : Covers[pair] = (
    \/ pair[2].kind = "dyn"
    \/ /\ pair[2].kind = pair[1].kind /\ pair[2].name = pair[1].name
       /\ DOMAIN pair[2].params = DOMAIN pair[1].params
       /\ \A i \in DOMAIN pair[2].params : Covers[<<pair[1].params[i], pair[2].params[i]>>])
<1>. DEFINE N == MaxTypeDepth
            L(d) == PyCelTypesUpTo[d] \X ReportedTypes
            H(f, pair) ==
              \/ pair[2].kind = "dyn"
              \/ /\ pair[2].kind = pair[1].kind /\ pair[2].name = pair[1].name
                 /\ DOMAIN pair[2].params = DOMAIN pair[1].params
                 /\ \A i \in DOMAIN pair[2].params : f[<<pair[1].params[i], pair[2].params[i]>>]
            Is(f, S) == f = [pair \in S |-> H(f, pair)]
            T == {d \in 0..N : \E f : Is(f, L(d))}
<1>1. ASSUME NEW f, NEW g, NEW pair \in L(0) PROVE H(f, pair) = H(g, pair)
  <2>1. DOMAIN pair[1].params = {}
    BY PyCelTypesLayered
  <2>. QED  BY <2>1
<1>2. ASSUME NEW d \in 1..N, NEW f, NEW g, \A y \in L(d - 1) : f[y] = g[y], NEW pair \in L(d)
      PROVE  H(f, pair) = H(g, pair)
  <2>1. \A i \in DOMAIN pair[1].params : pair[1].params[i] \in PyCelTypesUpTo[d - 1]
    BY PyCelTypesLayered
  <2>2. \A i \in DOMAIN pair[2].params : pair[2].params[i] \in ReportedTypes
    BY ParamsToo
  <2>3. \A t \in PyCelTypesUpTo[d - 1], u \in ReportedTypes : f[<<t, u>>] = g[<<t, u>>]
    BY <1>2
  <2>. QED  BY <2>1, <2>2, <2>3
<1>3. N \in Nat /\ PyCelTypes \X ReportedTypes = L(N)
  BY PyCelTypesLayered
<1>4. \A d \in 1..N : L(d - 1) \subseteq L(d)
  BY PyCelTypesLayered
<1>. HIDE DEF H, L
<1>5. 0 \in T
  <2>1. PICK f : f = [pair \in L(0) |-> H({}, pair)]
    OBVIOUS
  <2>2. Is(f, L(0))
    BY <1>1, <2>1, Zenon
  <2>. QED  BY <1>3, <2>2
<1>6. ASSUME NEW d \in 1..N, d - 1 \in T PROVE d \in T
  <2>1. PICK f : Is(f, L(d - 1))
    BY <1>6
  <2>2. PICK g : g = [pair \in L(d) |-> H(f, pair)]
    OBVIOUS
  <2>3. \A y \in L(d - 1) : y \in L(d)
    BY <1>4
  <2>4. \A y \in L(d - 1) : f[y] = g[y]
    BY <2>1, <2>2, <2>3, Zenon
  <2>5. \A y \in L(d) : H(f, y) = H(g, y)
    BY <1>2, <2>4
  <2>6. Is(g, L(d))
    BY <2>2, <2>5, Zenon
  <2>. QED  BY <2>6
<1>7. \E f : Is(f, L(N))
  <2>1. N \in 0..N
    BY <1>3
  <2>. HIDE DEF T, N
  <2>2. N \in T
    BY <1>3, <1>5, <1>6, <2>1, UpTo
  <2>. QED  BY <2>2, Zenon DEF T
<1>8. Covers = CHOOSE f : Is(f, PyCelTypes \X ReportedTypes)
  BY DEF Covers, H
<1>9. Is(Covers, L(N))
  BY <1>3, <1>7, <1>8, Zenon
<1>. QED  BY <1>3, <1>9, Zenon DEF H

\* TypeInfoToType of a name that nothing is known by.
LEMMA OpaqueMade ==
  ASSUME NEW n, NEW ps, Info(n, ps) \in TypeInfos,
         \A m \in Scalars \cup {"list", "map", "type", "google.protobuf.Any"} \cup Wrappers \cup KnownMessages :
           n # <<m>>
  PROVE  TypeInfoToType[Info(n, ps)] = Record("opaque", n, [j \in DOMAIN ps |-> TypeInfoToType[ps[j]]])
<1>. DEFINE i == Info(n, ps)
            qs == [j \in DOMAIN ps |-> TypeInfoToType[ps[j]]]
<1>1. i.name = n /\ i.params = ps
  BY DEF Info, Record
<1>. HIDE DEF i
<1>2. TypeInfoToType[i] = TypeOfInfo(i, qs)
  <2>1. TypeInfoToType[i] = TypeOfInfo(i, [j \in DOMAIN i.params |-> TypeInfoToType[i.params[j]]])
    BY TypeInfoToTypeOf DEF i
  <2>. QED  BY <1>1, <2>1, Zenon
<1>. HIDE DEF qs
<1>3. TypeOfInfo(i, qs) = Record("opaque", n, qs)
  BY <1>1 DEF TypeOfInfo
<1>. QED  BY <1>2, <1>3, Zenon DEF i, qs

\* FromTypeProto of a message of the pool.
LEMMA MessageReported ==
  ASSUME NEW n, Record("message", n, <<>>) \in CelTypesMade
  PROVE  FromTypeProto[Record("message", n, <<>>)] = MessageType(n)
<1>. DEFINE c == Record("message", n, <<>>)
<1>1. c.kind = "message" /\ c.name = n
  BY DEF Record
<1>. HIDE DEF c
<1>2. PICK ps : FromTypeProto[c] = OfTypeProto(c, ps)
  BY FromTypeProtoOf DEF c
<1>3. "message" \notin Scalars
  BY DEF Scalars, ScalarNames
<1>4. OfTypeProto(c, ps) = MessageType(n)
  BY <1>1, <1>3 DEF OfTypeProto
<1>. QED  BY <1>2, <1>4, Zenon DEF c

\* FromTypeProto of an abstract type.
LEMMA OpaqueReported ==
  ASSUME NEW n, NEW us, Record("opaque", n, us) \in CelTypesMade
  PROVE  FromTypeProto[Record("opaque", n, us)]
           = AbstractType(n, [j \in DOMAIN us |-> FromTypeProto[us[j]]])
<1>. DEFINE c == Record("opaque", n, us)
            qs == [j \in DOMAIN us |-> FromTypeProto[us[j]]]
<1>1. c.kind = "opaque" /\ c.name = n /\ c.params = us
  BY DEF Record
<1>. HIDE DEF c
<1>2. FromTypeProto[c] = OfTypeProto(c, qs)
  <2>1. FromTypeProto[c] = OfTypeProto(c, [j \in DOMAIN c.params |-> FromTypeProto[c.params[j]]])
    BY FromTypeProtoOf DEF c
  <2>. QED  BY <1>1, <2>1, Zenon
<1>. HIDE DEF qs
<1>3. "opaque" \notin Scalars
  BY DEF Scalars, ScalarNames
<1>4. OfTypeProto(c, qs) = AbstractType(n, qs)
  BY <1>1, <1>3 DEF OfTypeProto
<1>. QED  BY <1>2, <1>4, Zenon DEF c, qs

\* IsAssignableFrom of two types.
LEMMA AssignablePair ==
  ASSUME NEW t \in PyCelTypes, NEW u \in ReportedTypes
  PROVE  IsAssignableFrom[<<t, u>>] =
           (/\ t.kind = u.kind
            /\ \/ t.kind = "message" /\ t.name = u.name
               \/ t.kind # "message" /\ t.params = <<>>
               \/ /\ t.kind # "message"
                  /\ DOMAIN t.params = DOMAIN u.params
                  /\ \A i \in DOMAIN t.params : IsAssignableFrom[<<t.params[i], u.params[i]>>])
<1>. DEFINE pair == <<t, u>>
<1>1. pair[1] = t /\ pair[2] = u /\ pair \in PyCelTypes \X (PyCelTypes \cup ReportedTypes)
  OBVIOUS
<1>. HIDE DEF pair
<1>2. IsAssignableFrom[pair] =
        (/\ pair[1].kind = pair[2].kind
         /\ \/ pair[1].kind = "message" /\ pair[1].name = pair[2].name
            \/ pair[1].kind # "message" /\ pair[1].params = <<>>
            \/ /\ pair[1].kind # "message"
               /\ DOMAIN pair[1].params = DOMAIN pair[2].params
               /\ \A i \in DOMAIN pair[1].params :
                    IsAssignableFrom[<<pair[1].params[i], pair[2].params[i]>>])
  BY <1>1, IsAssignableFromOf, Zenon
<1>3. IsAssignableFrom[pair] =
        (/\ t.kind = u.kind
         /\ \/ t.kind = "message" /\ t.name = u.name
            \/ t.kind # "message" /\ t.params = <<>>
            \/ /\ t.kind # "message"
               /\ DOMAIN t.params = DOMAIN u.params
               /\ \A i \in DOMAIN t.params : IsAssignableFrom[<<t.params[i], u.params[i]>>])
  BY <1>1, <1>2
<1>. QED  BY <1>3 DEF pair

\* Covers of two types.
LEMMA CoveredPair ==
  ASSUME NEW t \in PyCelTypes, NEW r \in ReportedTypes
  PROVE  Covers[<<t, r>>] =
           (\/ r.kind = "dyn"
            \/ /\ r.kind = t.kind /\ r.name = t.name
               /\ DOMAIN r.params = DOMAIN t.params
               /\ \A i \in DOMAIN r.params : Covers[<<t.params[i], r.params[i]>>])
<1>. DEFINE pair == <<t, r>>
<1>1. pair[1] = t /\ pair[2] = r /\ pair \in PyCelTypes \X ReportedTypes
  OBVIOUS
<1>. HIDE DEF pair
<1>2. Covers[pair] =
        (\/ pair[2].kind = "dyn"
         \/ /\ pair[2].kind = pair[1].kind /\ pair[2].name = pair[1].name
            /\ DOMAIN pair[2].params = DOMAIN pair[1].params
            /\ \A i \in DOMAIN pair[2].params : Covers[<<pair[1].params[i], pair[2].params[i]>>])
  BY <1>1, CoversOf, Zenon
<1>3. Covers[pair] =
        (\/ r.kind = "dyn"
         \/ /\ r.kind = t.kind /\ r.name = t.name
            /\ DOMAIN r.params = DOMAIN t.params
            /\ \A i \in DOMAIN r.params : Covers[<<t.params[i], r.params[i]>>])
  BY <1>1, <1>2
<1>. QED  BY <1>3 DEF pair

\* A type without parameters is assignable from any type of its kind.
LEMMA BareAssignable ==
  ASSUME NEW t \in PyCelTypes, NEW u \in ReportedTypes,
         t.kind = u.kind, t.kind # "message", t.params = <<>>
  PROVE  IsAssignableFrom[<<t, u>>]
BY AssignablePair

\* A message is assignable from the message of its name.
LEMMA MessageAssignable ==
  ASSUME NEW t \in PyCelTypes, NEW u \in ReportedTypes,
         t.kind = "message", u.kind = "message", t.name = u.name
  PROVE  IsAssignableFrom[<<t, u>>]
BY AssignablePair

\* Another type with parameters is assignable from one whose parameters fit.
LEMMA PartsAssignable ==
  ASSUME NEW t \in PyCelTypes, NEW u \in ReportedTypes,
         t.kind = u.kind, t.kind # "message", DOMAIN t.params = DOMAIN u.params,
         \A i \in DOMAIN t.params : IsAssignableFrom[<<t.params[i], u.params[i]>>]
  PROVE  IsAssignableFrom[<<t, u>>]
<1>. DEFINE pair == <<t, u>>
<1>1. pair[1] = t /\ pair[2] = u /\ pair \in PyCelTypes \X (PyCelTypes \cup ReportedTypes)
  OBVIOUS
<1>. HIDE DEF pair
<1>2. IsAssignableFrom[pair] =
        (/\ pair[1].kind = pair[2].kind
         /\ \/ pair[1].kind = "message" /\ pair[1].name = pair[2].name
            \/ pair[1].kind # "message" /\ pair[1].params = <<>>
            \/ /\ pair[1].kind # "message"
               /\ DOMAIN pair[1].params = DOMAIN pair[2].params
               /\ \A i \in DOMAIN pair[1].params :
                    IsAssignableFrom[<<pair[1].params[i], pair[2].params[i]>>])
  BY <1>1, IsAssignableFromOf, Zenon
<1>3. /\ pair[1].kind = pair[2].kind /\ pair[1].kind # "message"
      /\ DOMAIN pair[1].params = DOMAIN pair[2].params
      /\ \A i \in DOMAIN pair[1].params : IsAssignableFrom[<<pair[1].params[i], pair[2].params[i]>>]
  BY <1>1
<1>4. IsAssignableFrom[pair]
  BY <1>2, <1>3, Zenon
<1>. QED  BY <1>4 DEF pair

\* What a compiled expression that is a variable of a type reports.
Reported(t) == FromTypeProto[TypeInfoToType[ToTypeInfo[t]]]

\* A type with a name in it that cel-cpp has something else for.
Changes(t) ==
  \E n \in LostMessages \cup Wrappers \cup {"google.protobuf.Any"} : <<n>> \in NamesIn[t]

\* What is reported of a scalar, of a list and of a map.
LEMMA ReportedForms ==
  /\ \A k \in Scalars : Scalar(k) \in PyCelTypes => Reported(Scalar(k)) = Scalar(k)
  /\ \A u : ListType(u) \in PyCelTypes => Reported(ListType(u)) = ListType(Reported(u))
  /\ \A k \in {"string", "dyn"} : \A u :
       MapType(Scalar(k), u) \in PyCelTypes => Reported(MapType(Scalar(k), u)) = MapType(Scalar(k), Reported(u))
<1>1. ASSUME NEW k \in Scalars, Scalar(k) \in PyCelTypes PROVE Reported(Scalar(k)) = Scalar(k)
  <2>1. ToTypeInfo[Scalar(k)] = Info(<<k>>, <<>>)
    BY <1>1, ScalarInfoOf, Zenon
  <2>2. TypeInfoToType[ToTypeInfo[Scalar(k)]] = Record(k, <<>>, <<>>)
    BY <1>1, <2>1, OnTheWay, ScalarMade
  <2>3. FromTypeProto[Record(k, <<>>, <<>>)] = Scalar(k)
    BY <1>1, <2>2, OnTheWay, ScalarReported
  <2>. QED  BY <2>2, <2>3, Zenon DEF Reported
<1>2. ASSUME NEW u, ListType(u) \in PyCelTypes PROVE Reported(ListType(u)) = ListType(Reported(u))
  <2>1. ToTypeInfo[ListType(u)] = Info(<<"list">>, <<ToTypeInfo[u]>>)
    BY <1>2, ListInfoOf, Zenon
  <2>2. TypeInfoToType[ToTypeInfo[ListType(u)]] = Record("list", <<>>, <<TypeInfoToType[ToTypeInfo[u]]>>)
    BY <1>2, <2>1, OnTheWay, ListMade
  <2>3. FromTypeProto[Record("list", <<>>, <<TypeInfoToType[ToTypeInfo[u]]>>)]
          = ListType(FromTypeProto[TypeInfoToType[ToTypeInfo[u]]])
    BY <1>2, <2>2, OnTheWay, ListReported
  <2>. QED  BY <2>2, <2>3, Zenon DEF Reported
<1>3. ASSUME NEW k \in {"string", "dyn"}, NEW u, MapType(Scalar(k), u) \in PyCelTypes
      PROVE  Reported(MapType(Scalar(k), u)) = MapType(Scalar(k), Reported(u))
  <2>. DEFINE t == MapType(Scalar(k), u)
              v == TypeInfoToType[ToTypeInfo[u]]
  <2>1. k \in Scalars
    BY DEF Scalars, ScalarNames
  <2>2. Scalar(k) \in PyCelTypes
    <3>1. Scalar(k) \in FlatTypes
      BY <2>1 DEF FlatTypes
    <3>. QED  BY <3>1, PyCelTypesLayered
  <2>3. ToTypeInfo[t] = Info(<<"map">>, <<Info(<<k>>, <<>>), ToTypeInfo[u]>>)
    BY <1>3, MapInfoOf, Zenon
  <2>4. TypeInfoToType[ToTypeInfo[t]] = Record("map", <<>>, <<TypeInfoToType[Info(<<k>>, <<>>)], v>>)
    BY <1>3, <2>3, OnTheWay, MapMade
  <2>5. FromTypeProto[TypeInfoToType[ToTypeInfo[t]]]
          = MapType(FromTypeProto[TypeInfoToType[Info(<<k>>, <<>>)]], FromTypeProto[v])
    BY <1>3, <2>4, OnTheWay, MapReported
  <2>6. ToTypeInfo[Scalar(k)] = Info(<<k>>, <<>>)
    BY <2>1, <2>2, ScalarInfoOf, Zenon
  <2>7. FromTypeProto[TypeInfoToType[Info(<<k>>, <<>>)]] = Scalar(k)
    BY <1>1, <2>1, <2>2, <2>6, Zenon DEF Reported
  <2>. QED  BY <2>5, <2>7, Zenon DEF Reported
<1>. QED  BY <1>1, <1>2, <1>3, Zenon

\* What is reported of a type is a reported type.
LEMMA ReportedIsOne ==
  ASSUME NEW t \in PyCelTypes
  PROVE  Reported(t) \in ReportedTypes
BY OnTheWay DEF Reported, ReportedTypes

\* What is reported of a type that is only a name to cel-cpp: an abstract type of
\* that name.
LEMMA NameReported ==
  ASSUME NEW t \in PyCelTypes, NEW n, NEW ps, ToTypeInfo[t] = Info(n, ps),
         \A m \in Scalars \cup {"list", "map", "type", "google.protobuf.Any"} \cup Wrappers \cup KnownMessages :
           n # <<m>>
  PROVE  \E qs : /\ Reported(t) = AbstractType(n, qs)
                 /\ DOMAIN qs = DOMAIN ps
                 /\ \A j \in DOMAIN ps : qs[j] = FromTypeProto[TypeInfoToType[ps[j]]]
<1>. DEFINE us == [j \in DOMAIN ps |-> TypeInfoToType[ps[j]]]
            qs == [j \in DOMAIN us |-> FromTypeProto[us[j]]]
<1>1. DOMAIN us = DOMAIN ps /\ \A j \in DOMAIN ps : us[j] = TypeInfoToType[ps[j]]
  OBVIOUS
<1>2. TypeInfoToType[ToTypeInfo[t]] = Record("opaque", n, us)
  <2>1. Info(n, ps) \in TypeInfos
    BY OnTheWay
  <2>. QED  BY <2>1, OpaqueMade, Zenon
<1>. HIDE DEF us
<1>3. FromTypeProto[Record("opaque", n, us)] = AbstractType(n, qs)
  <2>1. Record("opaque", n, us) \in CelTypesMade
    BY <1>2, OnTheWay
  <2>. QED  BY <2>1, OpaqueReported, Zenon
<1>4. DOMAIN qs = DOMAIN ps /\ \A j \in DOMAIN ps : qs[j] = FromTypeProto[TypeInfoToType[ps[j]]]
  BY <1>1
<1>. HIDE DEF qs
<1>5. Reported(t) = AbstractType(n, qs)
  BY <1>2, <1>3, Zenon DEF Reported
<1>. QED  BY <1>4, <1>5, Zenon

\* A message of the pool is reported as it is.
LEMMA MessageComesBack ==
  ASSUME NEW n \in KnownMessages, NEW t \in PyCelTypes, t = Record("message", <<n>>, <<>>),
         n \notin {"google.protobuf.Timestamp", "google.protobuf.Duration", "google.protobuf.Any"},
         n \notin Wrappers
  PROVE  TypeInfoToType[ToTypeInfo[t]] = t /\ Reported(t) = t
<1>1. ToTypeInfo[t] = Info(<<n>>, <<>>)
  BY NamedInfoOf
<1>2. TypeInfoToType[ToTypeInfo[t]] = t
  <2>1. PICK k \in {"any", "wrapper", "message"} :
          /\ TypeInfoToType[ToTypeInfo[t]] = Record(k, <<n>>, <<>>)
          /\ k = "wrapper" => n \in Wrappers
          /\ k = "any" => n = "google.protobuf.Any"
    BY <1>1, OnTheWay, MessageMade
  <2>. QED  BY <2>1
<1>3. Reported(t) = MessageType(<<n>>)
  <2>1. Record("message", <<n>>, <<>>) \in CelTypesMade
    BY <1>2, OnTheWay
  <2>2. FromTypeProto[Record("message", <<n>>, <<>>)] = MessageType(<<n>>)
    BY <2>1, MessageReported, Zenon
  <2>. QED  BY <1>2, <2>2, Zenon DEF Reported
<1>4. Reported(t) = t
  BY <1>3 DEF MessageType
<1>. QED  BY <1>2, <1>4

\* A type without parameters is assignable from what is reported of it.
LEMMA FlatAssignable ==
  ASSUME NEW t \in PyCelTypes, t \in FlatTypes, ~Changes(t), KindsIn[t] \cap {"error", "unknown"} = {}
  PROVE  IsAssignableFrom[<<t, Reported(t)>>]
<1>1. t.params = <<>> /\ Reported(t) \in ReportedTypes
  BY FlatForms, ReportedIsOne
<1>2. t.name \in NamesIn[t] /\ t.kind \in KindsIn[t]
  BY OnTheWay, OwnKindAndName
<1>3. \A n \in LostMessages \cup Wrappers \cup {"google.protobuf.Any"} : t.name # <<n>>
  BY <1>2 DEF Changes
<1>4. ASSUME NEW k \in Scalars, t = Scalar(k) PROVE IsAssignableFrom[<<t, Reported(t)>>]
  <2>1. Reported(t) = t
    BY <1>4, ReportedForms
  <2>2. t.kind # "message"
    BY <1>4 DEF Scalar, Record, Scalars, ScalarNames
  <2>. QED  BY <1>1, <2>1, <2>2, BareAssignable
<1>5. t \notin {Error, Unknown}
  BY <1>2 DEF Error, Unknown, Record
<1>6. ASSUME NEW n, t = Record("type", <<n>>, <<>>), n = "TYPE" \/ n \in OpaqueNames
      PROVE  IsAssignableFrom[<<t, Reported(t)>>]
  <2>1. ToTypeInfo[t] = Info(<<n>>, <<>>)
    BY <1>6, NamedInfoOf
  <2>2. n \notin Scalars \cup {"list", "map", "type", "google.protobuf.Any"} \cup Wrappers \cup KnownMessages
    <3>1. n \notin Wrappers \cup {"google.protobuf.Any"}
      BY <1>3, <1>6 DEF Record
    <3>. QED  BY <1>6, <3>1, TypesAreNamed DEF Scalars, ScalarNames
  <2>3. \A m \in Scalars \cup {"list", "map", "type", "google.protobuf.Any"} \cup Wrappers \cup KnownMessages :
          <<n>> # <<m>>
    BY <2>2
  <2>4. PICK qs : Reported(t) = AbstractType(<<n>>, qs)
    BY <2>1, <2>3, NameReported, Zenon
  <2>5. t.kind = "type" /\ Reported(t).kind = "type"
    BY <1>6, <2>4 DEF AbstractType, Record
  <2>. QED  BY <1>1, <2>5, BareAssignable
<1>7. ASSUME NEW n \in KnownMessages \cup LostMessages, t = Record("message", <<n>>, <<>>),
             n \notin {"google.protobuf.Timestamp", "google.protobuf.Duration"}
      PROVE  IsAssignableFrom[<<t, Reported(t)>>]
  <2>1. n \in KnownMessages /\ n \notin Wrappers /\ n # "google.protobuf.Any"
    BY <1>3, <1>7 DEF Record
  <2>2. Reported(t) = t
    BY <1>7, <2>1, MessageComesBack
  <2>3. t.kind = "message"
    BY <1>7 DEF Record
  <2>. QED  BY <1>1, <2>2, <2>3, MessageAssignable
<1>8. Type = Record("type", <<"TYPE">>, <<>>)
  BY DEF Type
<1>9. \/ \E k \in Scalars : t = Scalar(k)
      \/ t \in {Error, Unknown, Type}
      \/ \E n \in KnownMessages \cup LostMessages :
           /\ n \notin {"google.protobuf.Timestamp", "google.protobuf.Duration"}
           /\ t = Record("message", <<n>>, <<>>)
      \/ \E n \in OpaqueNames : t = Record("type", <<n>>, <<>>)
  BY FlatForms
<1>10. t = Type => IsAssignableFrom[<<t, Reported(t)>>]
  BY <1>6, <1>8, Zenon
<1>11. t \in {Error, Unknown, Type} => t = Type
  BY <1>5
<1>. QED  BY <1>4, <1>6, <1>7, <1>9, <1>10, <1>11, Zenon

\* A type is assignable from what is reported of it if its parameters are.
LEMMA AssignableStep ==
  ASSUME NEW t \in PyCelTypes, ~Changes(t), KindsIn[t] \cap {"error", "unknown"} = {},
         \A j \in DOMAIN t.params : IsAssignableFrom[<<t.params[j], Reported(t.params[j])>>]
  PROVE  IsAssignableFrom[<<t, Reported(t)>>]
<1>1. Reported(t) \in ReportedTypes
  BY ReportedIsOne
<1>2. ASSUME NEW u \in PyCelTypes, t = ListType(u) PROVE IsAssignableFrom[<<t, Reported(t)>>]
  <2>. DEFINE r == Reported(t)
              q == Reported(u)
  <2>1. r = ListType(q)
    BY <1>2, ReportedForms, Zenon
  <2>. HIDE DEF r, q
  <2>2. t.kind = "list" /\ t.params = <<u>> /\ r.kind = "list" /\ r.params = <<q>>
    BY <1>2, <2>1 DEF ListType, Record
  <2>3. IsAssignableFrom[<<t.params[1], Reported(t.params[1])>>]
    BY <2>2
  <2>4. t.params[1] = u /\ r.params[1] = q
    BY <2>2
  <2>5. IsAssignableFrom[<<t.params[1], r.params[1]>>]
    BY <2>3, <2>4, Zenon DEF q
  <2>6. DOMAIN t.params = {1} /\ DOMAIN r.params = {1}
    BY <2>2
  <2>7. \A i \in DOMAIN t.params : IsAssignableFrom[<<t.params[i], r.params[i]>>]
    BY <2>5, <2>6
  <2>8. IsAssignableFrom[<<t, r>>]
    BY <1>1, <2>2, <2>6, <2>7, PartsAssignable DEF r
  <2>. QED  BY <2>8 DEF r
<1>3. ASSUME NEW k \in {"string", "dyn"}, NEW u \in PyCelTypes, t = MapType(Scalar(k), u)
      PROVE  IsAssignableFrom[<<t, Reported(t)>>]
  <2>. DEFINE r == Reported(t)
              q == Reported(u)
              s == Scalar(k)
  <2>1. r = MapType(s, q)
    BY <1>3, ReportedForms, Zenon
  <2>2. s \in PyCelTypes /\ Reported(s) = s /\ s.kind \in {"string", "dyn"}
    <3>1. k \in Scalars
      BY DEF Scalars, ScalarNames
    <3>2. Scalar(k) \in FlatTypes
      BY <3>1 DEF FlatTypes
    <3>3. Scalar(k) \in PyCelTypes
      BY <3>2, PyCelTypesLayered
    <3>4. Scalar(k).kind = k
      BY DEF Scalar, Record
    <3>. QED  BY <3>1, <3>3, <3>4, ReportedForms
  <2>3. t = MapType(s, u)
    BY <1>3
  <2>. HIDE DEF r, q, s
  <2>4. t.kind = "map" /\ t.params = <<s, u>> /\ r.kind = "map" /\ r.params = <<s, q>>
    BY <2>1, <2>2, <2>3 DEF MapType, Record
  <2>5. /\ IsAssignableFrom[<<t.params[1], Reported(t.params[1])>>]
        /\ IsAssignableFrom[<<t.params[2], Reported(t.params[2])>>]
    BY <2>4
  <2>6. t.params[1] = s /\ t.params[2] = u /\ r.params[1] = s /\ r.params[2] = q
    BY <2>4
  <2>7. IsAssignableFrom[<<t.params[1], r.params[1]>>] /\ IsAssignableFrom[<<t.params[2], r.params[2]>>]
    BY <2>2, <2>5, <2>6, Zenon DEF q
  <2>8. DOMAIN t.params = {1, 2} /\ DOMAIN r.params = {1, 2}
    BY <2>4
  <2>9. \A i \in DOMAIN t.params : IsAssignableFrom[<<t.params[i], r.params[i]>>]
    BY <2>7, <2>8
  <2>10. IsAssignableFrom[<<t, r>>]
    BY <1>1, <2>4, <2>8, <2>9, PartsAssignable DEF r
  <2>. QED  BY <2>10 DEF r
<1>4. ASSUME NEW n, NEW u \in PyCelTypes, t = AbstractType(<<n>>, <<u>>)
      PROVE  IsAssignableFrom[<<t, Reported(t)>>]
  <2>. DEFINE r == Reported(t)
              g == <<n, GetName[u]>>
              i == ToTypeInfo[u]
              ps == <<i>>
  <2>1. ToTypeInfo[t] = Info(g, ps)
    BY <1>4, TypeInfoOf, Zenon
  <2>2. \A m \in Scalars \cup {"list", "map", "type", "google.protobuf.Any"} \cup Wrappers \cup KnownMessages :
          g # <<m>>
    OBVIOUS
  <2>. HIDE DEF g, i, ps
  <2>3. PICK qs : /\ Reported(t) = AbstractType(g, qs)
                  /\ DOMAIN qs = DOMAIN ps
                  /\ \A j \in DOMAIN ps : qs[j] = FromTypeProto[TypeInfoToType[ps[j]]]
    BY <2>1, <2>2, NameReported
  <2>4. DOMAIN qs = {1} /\ qs[1] = FromTypeProto[TypeInfoToType[i]]
    BY <2>3 DEF ps
  <2>5. qs[1] = Reported(u)
    BY <2>4, Zenon DEF Reported, i
  <2>6. r = AbstractType(g, qs)
    BY <2>3
  <2>. HIDE DEF r
  <2>7. t.kind = "type" /\ t.params = <<u>> /\ r.kind = "type" /\ r.params = qs
    BY <1>4, <2>6 DEF AbstractType, Record
  <2>8. IsAssignableFrom[<<t.params[1], Reported(t.params[1])>>]
    BY <2>7
  <2>9. t.params[1] = u /\ r.params[1] = Reported(u)
    BY <2>5, <2>7
  <2>10. IsAssignableFrom[<<t.params[1], r.params[1]>>]
    BY <2>8, <2>9, Zenon
  <2>11. DOMAIN t.params = {1} /\ DOMAIN r.params = {1}
    BY <2>4, <2>7
  <2>12. \A j \in DOMAIN t.params : IsAssignableFrom[<<t.params[j], r.params[j]>>]
    BY <2>10, <2>11
  <2>13. IsAssignableFrom[<<t, r>>]
    BY <1>1, <2>7, <2>11, <2>12, PartsAssignable DEF r
  <2>. QED  BY <2>13 DEF r
<1>5. \A u : TypeType(u) = AbstractType(<<"TYPE">>, <<u>>)
  BY DEF TypeType, AbstractType
<1>6. t \in FlatTypes => IsAssignableFrom[<<t, Reported(t)>>]
  BY FlatAssignable
<1>. QED  BY <1>2, <1>3, <1>4, <1>5, <1>6, TypeForms, Zenon

\* What a program is told of a variable fits what it has declared: the type is
\* assignable from the reported one, unless a name is in it that cel-cpp has
\* something else for (Any, a wrapper, a message that the pool does not have), or
\* ERROR or UNKNOWN, which are names to cel-cpp as well.
THEOREM StillAssignable ==
  \A t \in PyCelTypes :
    \/ IsAssignableFrom[<<t, Reported(t)>>]
    \/ KindsIn[t] \cap {"error", "unknown"} # {}
    \/ Changes(t)
<1>. DEFINE N == MaxTypeDepth
            U == PyCelTypesUpTo
            Fits(t) == \/ IsAssignableFrom[<<t, Reported(t)>>]
                       \/ KindsIn[t] \cap {"error", "unknown"} # {}
                       \/ Changes(t)
            T == {d \in 0..N : \A t \in U[d] : Fits(t)}
<1>1. N \in Nat /\ PyCelTypes = U[N]
  BY PyCelTypesLayered
<1>2. ASSUME NEW t \in PyCelTypes, \A j \in DOMAIN t.params : Fits(t.params[j]) PROVE Fits(t)
  <2>1. CASE ~Changes(t) /\ KindsIn[t] \cap {"error", "unknown"} = {}
    <3>1. ASSUME NEW j \in DOMAIN t.params
          PROVE  ~Changes(t.params[j]) /\ KindsIn[t.params[j]] \cap {"error", "unknown"} = {}
      <4>1. KindsIn[t.params[j]] \subseteq KindsIn[t] /\ NamesIn[t.params[j]] \subseteq NamesIn[t]
        BY OnTheWay, PartsOf
      <4>. QED  BY <2>1, <4>1 DEF Changes
    <3>2. \A j \in DOMAIN t.params : IsAssignableFrom[<<t.params[j], Reported(t.params[j])>>]
      BY <1>2, <3>1, Zenon
    <3>. QED  BY <2>1, <3>2, AssignableStep
  <2>. QED  BY <2>1, Zenon
<1>. HIDE DEF Fits
<1>3. 0 \in T
  <2>1. ASSUME NEW t \in U[0] PROVE Fits(t)
    <3>1. t.params = <<>> /\ t \in PyCelTypes
      BY <1>1, PyCelTypesLayered, TypesOfDepth
    <3>. QED  BY <1>2, <3>1
  <2>. QED  BY <1>1, <2>1
<1>4. ASSUME NEW d \in 1..N, d - 1 \in T PROVE d \in T
  <2>1. ASSUME NEW t \in U[d] PROVE Fits(t)
    <3>1. t \in PyCelTypes
      BY <1>1, TypesOfDepth
    <3>2. \A j \in DOMAIN t.params : t.params[j] \in U[d - 1]
      BY PyCelTypesLayered
    <3>. QED  BY <1>2, <1>4, <3>1, <3>2
  <2>. QED  BY <2>1
<1>5. \A d \in 0..N : d \in T
  <2>. HIDE DEF T, N
  <2>. QED  BY <1>1, <1>3, <1>4, UpTo
<1>6. \A t \in PyCelTypes : Fits(t)
  <2>1. N \in 0..N
    BY <1>1
  <2>2. N \in T
    BY <1>5, <2>1
  <2>. QED  BY <1>1, <2>2
<1>. QED  BY <1>6 DEF Fits

---------------------------------------------------------------------------
(***************************************************************************)
(* What a program is told of the functions of an extension.                *)
(***************************************************************************)
\* What is made of a scalar, of a list and of a map on the way through a
\* configuration.
LEMMA MadeOfForms ==
  /\ \A k \in Scalars : Scalar(k) \in PyCelTypes => TypeInfoToType[ToTypeInfo[Scalar(k)]] = Record(k, <<>>, <<>>)
  /\ \A u : ListType(u) \in PyCelTypes =>
       TypeInfoToType[ToTypeInfo[ListType(u)]] = Record("list", <<>>, <<TypeInfoToType[ToTypeInfo[u]]>>)
  /\ \A k \in {"string", "dyn"} : \A u : MapType(Scalar(k), u) \in PyCelTypes =>
       TypeInfoToType[ToTypeInfo[MapType(Scalar(k), u)]]
         = Record("map", <<>>, <<Record(k, <<>>, <<>>), TypeInfoToType[ToTypeInfo[u]]>>)
<1>1. ASSUME NEW k \in Scalars, Scalar(k) \in PyCelTypes
      PROVE  TypeInfoToType[ToTypeInfo[Scalar(k)]] = Record(k, <<>>, <<>>)
  <2>1. ToTypeInfo[Scalar(k)] = Info(<<k>>, <<>>)
    BY <1>1, ScalarInfoOf, Zenon
  <2>. QED  BY <1>1, <2>1, OnTheWay, ScalarMade
<1>2. ASSUME NEW u, ListType(u) \in PyCelTypes
      PROVE  TypeInfoToType[ToTypeInfo[ListType(u)]] = Record("list", <<>>, <<TypeInfoToType[ToTypeInfo[u]]>>)
  <2>1. ToTypeInfo[ListType(u)] = Info(<<"list">>, <<ToTypeInfo[u]>>)
    BY <1>2, ListInfoOf, Zenon
  <2>. QED  BY <1>2, <2>1, OnTheWay, ListMade
<1>3. ASSUME NEW k \in {"string", "dyn"}, NEW u, MapType(Scalar(k), u) \in PyCelTypes
      PROVE  TypeInfoToType[ToTypeInfo[MapType(Scalar(k), u)]]
               = Record("map", <<>>, <<Record(k, <<>>, <<>>), TypeInfoToType[ToTypeInfo[u]]>>)
  <2>1. k \in Scalars
    BY DEF Scalars, ScalarNames
  <2>2. Scalar(k) \in FlatTypes
    BY <2>1 DEF FlatTypes
  <2>3. Scalar(k) \in PyCelTypes
    BY <2>2, PyCelTypesLayered
  <2>4. ToTypeInfo[MapType(Scalar(k), u)] = Info(<<"map">>, <<Info(<<k>>, <<>>), ToTypeInfo[u]>>)
    BY <1>3, MapInfoOf, Zenon
  <2>5. TypeInfoToType[ToTypeInfo[MapType(Scalar(k), u)]]
          = Record("map", <<>>, <<TypeInfoToType[Info(<<k>>, <<>>)], TypeInfoToType[ToTypeInfo[u]]>>)
    BY <1>3, <2>4, OnTheWay, MapMade
  <2>6. ToTypeInfo[Scalar(k)] = Info(<<k>>, <<>>)
    BY <2>1, <2>3, ScalarInfoOf, Zenon
  <2>7. TypeInfoToType[Info(<<k>>, <<>>)] = Record(k, <<>>, <<>>)
    BY <1>1, <2>1, <2>3, <2>6, Zenon
  <2>. QED  BY <2>5, <2>7, Zenon
<1>. QED  BY <1>1, <1>2, <1>3, Zenon

\* DYN covers every type.
LEMMA DynCovers ==
  ASSUME NEW t \in PyCelTypes, NEW r \in ReportedTypes, r.kind = "dyn"
  PROVE  Covers[<<t, r>>]
BY CoveredPair

\* A type covers one of its kind and name if its parameters cover those.
LEMMA PartsCovered ==
  ASSUME NEW t \in PyCelTypes, NEW r \in ReportedTypes,
         r.kind = t.kind, r.name = t.name, DOMAIN r.params = DOMAIN t.params,
         \A i \in DOMAIN r.params : Covers[<<t.params[i], r.params[i]>>]
  PROVE  Covers[<<t, r>>]
<1>. DEFINE pair == <<t, r>>
<1>1. pair[1] = t /\ pair[2] = r /\ pair \in PyCelTypes \X ReportedTypes
  OBVIOUS
<1>. HIDE DEF pair
<1>2. Covers[pair] =
        (\/ pair[2].kind = "dyn"
         \/ /\ pair[2].kind = pair[1].kind /\ pair[2].name = pair[1].name
            /\ DOMAIN pair[2].params = DOMAIN pair[1].params
            /\ \A i \in DOMAIN pair[2].params : Covers[<<pair[1].params[i], pair[2].params[i]>>])
  BY <1>1, CoversOf, Zenon
<1>3. /\ pair[2].kind = pair[1].kind /\ pair[2].name = pair[1].name
      /\ DOMAIN pair[2].params = DOMAIN pair[1].params
      /\ \A i \in DOMAIN pair[2].params : Covers[<<pair[1].params[i], pair[2].params[i]>>]
  BY <1>1
<1>4. Covers[pair]
  BY <1>2, <1>3, Zenon
<1>. QED  BY <1>4 DEF pair

\* A type without parameters covers itself.
LEMMA BareCovered ==
  ASSUME NEW t \in PyCelTypes, t \in ReportedTypes, t.params = <<>>
  PROVE  Covers[<<t, t>>]
<1>1. \A i \in DOMAIN t.params : Covers[<<t.params[i], t.params[i]>>]
  OBVIOUS
<1>. QED  BY <1>1, PartsCovered

\* Lists and maps of the types of a depth are types of the next one.
LEMMA Deeper ==
  ASSUME NEW d \in 1..MaxTypeDepth, NEW u \in PyCelTypesUpTo[d - 1]
  PROVE  /\ ListType(u) \in PyCelTypesUpTo[d]
         /\ \A k \in {"string", "dyn"} : MapType(Scalar(k), u) \in PyCelTypesUpTo[d]
<1>1. PyCelTypesUpTo[d] = TypesOver(PyCelTypesUpTo[d - 1])
  BY PyCelTypesOf, Zenon
<1>2. \A S : \A v \in S : ListType(v) \in TypesOver(S) /\ \A k \in {"string", "dyn"} : MapType(Scalar(k), v) \in TypesOver(S)
  BY DEF TypesOver
<1>. QED  BY <1>1, <1>2, Zenon

\* What the adapter makes of a type is what a configuration would make of a type
\* that covers it.
Adapted(t, s) == ToCelType[t] = TypeInfoToType[ToTypeInfo[s]] /\ Covers[<<t, Reported(s)>>]

\* For the kinds that ToCelType has no case for, that type is DYN.
LEMMA DynAdapted ==
  ASSUME NEW t \in PyCelTypes, t.kind \in {"null", "error", "unknown", "type"}
  PROVE  Scalar("dyn") \in FlatTypes /\ Adapted(t, Scalar("dyn"))
<1>. DEFINE s == Scalar("dyn")
<1>1. "dyn" \in Scalars
  BY DEF Scalars, ScalarNames
<1>2. s \in FlatTypes
  BY <1>1 DEF FlatTypes
<1>3. s \in PyCelTypes
  BY <1>2, PyCelTypesLayered
<1>4. Reported(s) = s /\ s.kind = "dyn" /\ Reported(s) \in ReportedTypes
  <2>1. s.kind = "dyn"
    BY DEF Scalar, Record
  <2>. QED  BY <1>1, <1>3, <2>1, ReportedForms, ReportedIsOne
<1>5. TypeInfoToType[ToTypeInfo[s]] = Record("dyn", <<>>, <<>>)
  BY <1>1, <1>3, MadeOfForms, Zenon
<1>. HIDE DEF s
<1>6. ToCelType[t] = Record("dyn", <<>>, <<>>)
  <2>1. PICK ps : ToCelType[t] = OfPyCelType(t, ps)
    BY ToCelTypeOf
  <2>2. t.kind \notin Scalars \ {"null"} /\ t.kind \notin {"message", "list", "map"}
    BY DEF Scalars, ScalarNames
  <2>3. OfPyCelType(t, ps) = Record("dyn", <<>>, <<>>)
    BY <2>2 DEF OfPyCelType
  <2>. QED  BY <2>1, <2>3, Zenon
<1>7. Covers[<<t, Reported(s)>>]
  BY <1>4, DynCovers
<1>. QED  BY <1>2, <1>5, <1>6, <1>7, Zenon DEF Adapted, s

\* The adapter finds what it makes.
LEMMA Found ==
  ASSUME NEW t \in PyCelTypes, NEW s \in PyCelTypes, Adapted(t, s)
  PROVE  ToCelType[t] # NotFound
<1>1. ToCelType[t] \in CelTypesMade
  BY OnTheWay DEF Adapted
<1>2. NotFound.kind = "not_found" /\ "not_found" \notin Scalars
  BY DEF NotFound, Record, Scalars, ScalarNames
<1>3. \/ ToCelType[t].kind \in Scalars
      \/ ToCelType[t].kind \in {"list", "map", "type", "any", "wrapper", "message", "opaque"}
  BY <1>1, MadeKinds
<1>. QED  BY <1>2, <1>3

\* What the adapter makes of a type without parameters.
LEMMA FlatAdapted ==
  ASSUME NEW t \in PyCelTypes, t \in FlatTypes, ~Changes(t)
  PROVE  \E s \in FlatTypes : Adapted(t, s)
<1>1. t.params = <<>> /\ Reported(t) \in ReportedTypes
  BY FlatForms, ReportedIsOne
<1>2. \A n \in LostMessages \cup Wrappers \cup {"google.protobuf.Any"} : t.name # <<n>>
  BY OnTheWay, OwnKindAndName DEF Changes
<1>3. PICK ps : ToCelType[t] = OfPyCelType(t, ps)
  BY ToCelTypeOf
<1>4. ASSUME NEW k \in Scalars, t = Scalar(k) PROVE \E s \in FlatTypes : Adapted(t, s)
  <2>1. t.kind = k
    BY <1>4 DEF Scalar, Record
  <2>2. CASE k = "null"
    BY <2>1, <2>2, DynAdapted
  <2>3. CASE k # "null"
    <3>1. OfPyCelType(t, ps) = Record(k, <<>>, <<>>)
      BY <2>1, <2>3 DEF OfPyCelType, Scalars, ScalarNames
    <3>2. TypeInfoToType[ToTypeInfo[t]] = Record(k, <<>>, <<>>)
      BY <1>4, MadeOfForms, Zenon
    <3>3. Reported(t) = t
      BY <1>4, ReportedForms
    <3>4. Covers[<<t, Reported(t)>>]
      BY <1>1, <3>3, BareCovered
    <3>. QED  BY <1>3, <3>1, <3>2, <3>4, Zenon DEF Adapted
  <2>. QED  BY <2>2, <2>3
<1>5. ASSUME t.kind \in {"error", "unknown", "type"} PROVE \E s \in FlatTypes : Adapted(t, s)
  BY <1>5, DynAdapted
<1>6. ASSUME NEW n \in KnownMessages \cup LostMessages, t = Record("message", <<n>>, <<>>),
             n \notin {"google.protobuf.Timestamp", "google.protobuf.Duration"}
      PROVE  \E s \in FlatTypes : Adapted(t, s)
  <2>1. n \in KnownMessages /\ n \notin Wrappers /\ n # "google.protobuf.Any"
    BY <1>2, <1>6 DEF Record
  <2>2. Reported(t) = t
    BY <1>6, <2>1, MessageComesBack
  <2>3. t.kind = "message" /\ t.name[1] = n
    BY <1>6 DEF Record
  <2>4. OfPyCelType(t, ps) = TypeInfoToType[ToTypeInfo[t]]
    BY <2>1, <2>3 DEF OfPyCelType, Scalars, ScalarNames
  <2>5. Covers[<<t, Reported(t)>>]
    BY <1>1, <2>2, BareCovered
  <2>. QED  BY <1>3, <2>4, <2>5, Zenon DEF Adapted
<1>7. t \in {Error, Unknown, Type} => t.kind \in {"error", "unknown", "type"}
  BY DEF Error, Unknown, Type, Record
<1>8. \A n : Record("type", n, <<>>).kind \in {"error", "unknown", "type"}
  BY DEF Record
<1>9. \/ \E k \in Scalars : t = Scalar(k)
      \/ t \in {Error, Unknown, Type}
      \/ \E n \in KnownMessages \cup LostMessages :
           /\ n \notin {"google.protobuf.Timestamp", "google.protobuf.Duration"}
           /\ t = Record("message", <<n>>, <<>>)
      \/ \E n \in OpaqueNames : t = Record("type", <<n>>, <<>>)
  BY FlatForms
<1>. QED  BY <1>4, <1>5, <1>6, <1>7, <1>8, <1>9, Zenon

\* What the adapter makes of a type whose parameters it has made something of.
LEMMA AdaptedStep ==
  ASSUME NEW d \in 1..MaxTypeDepth, NEW t \in PyCelTypesUpTo[d], ~Changes(t),
         \A j \in DOMAIN t.params : \E s \in PyCelTypesUpTo[d - 1] : Adapted(t.params[j], s)
  PROVE  \E s \in PyCelTypesUpTo[d] : Adapted(t, s)
<1>. DEFINE U == PyCelTypesUpTo
<1>1. d \in 0..MaxTypeDepth /\ d - 1 \in 0..MaxTypeDepth
  BY TypesAreNamed
<1>2. t \in PyCelTypes /\ U[d] \subseteq PyCelTypes /\ U[d - 1] \subseteq PyCelTypes /\ FlatTypes \subseteq U[d]
  BY <1>1, TypesOfDepth, PyCelTypesLayered
<1>3. ASSUME NEW u \in U[d - 1], t = ListType(u) PROVE \E s \in U[d] : Adapted(t, s)
  <2>1. t.kind = "list" /\ t.name = <<"LIST">> /\ t.params = <<u>>
    BY <1>3 DEF ListType, Record
  <2>2. PICK v \in U[d - 1] : Adapted(u, v)
    <3>1. 1 \in DOMAIN t.params /\ t.params[1] = u
      BY <2>1
    <3>. QED  BY <3>1
  <2>3. u \in PyCelTypes /\ v \in PyCelTypes
    BY <1>2
  <2>. DEFINE s == ListType(v)
              a == ToCelType[u]
              ps == [i \in DOMAIN t.params |-> ToCelType[t.params[i]]]
  <2>4. s \in U[d] /\ s \in PyCelTypes
    BY <1>2, Deeper
  <2>5. a # NotFound
    BY <2>2, <2>3, Found
  <2>6. ps = <<a>>
    BY <2>1
  <2>7. ToCelType[t] = OfPyCelType(t, ps)
    BY <1>2, ToCelTypeOf
  <2>. HIDE DEF ps, a
  <2>8. OfPyCelType(t, ps) = Record("list", <<>>, ps)
    <3>1. NotFound \notin Range(ps)
      BY <2>5, <2>6 DEF Range
    <3>. QED  BY <2>1, <3>1 DEF OfPyCelType, Scalars, ScalarNames
  <2>9. TypeInfoToType[ToTypeInfo[s]] = Record("list", <<>>, <<TypeInfoToType[ToTypeInfo[v]]>>)
    BY <2>4, MadeOfForms, Zenon
  <2>10. ToCelType[t] = TypeInfoToType[ToTypeInfo[s]]
    BY <2>2, <2>6, <2>7, <2>8, <2>9, Zenon DEF Adapted, a
  <2>. DEFINE r == Reported(s)
              q == Reported(v)
  <2>11. r = ListType(q) /\ r \in ReportedTypes
    BY <2>4, ReportedForms, ReportedIsOne, Zenon
  <2>12. Covers[<<u, q>>]
    BY <2>2, Zenon DEF Adapted
  <2>. HIDE DEF s, r, q
  <2>13. r.kind = "list" /\ r.name = <<"LIST">> /\ r.params = <<q>>
    BY <2>11 DEF ListType, Record
  <2>14. DOMAIN r.params = {1} /\ DOMAIN t.params = {1} /\ t.params[1] = u /\ r.params[1] = q
    BY <2>1, <2>13
  <2>15. \A i \in DOMAIN r.params : Covers[<<t.params[i], r.params[i]>>]
    BY <2>12, <2>14
  <2>16. Covers[<<t, r>>]
    BY <1>2, <2>1, <2>11, <2>13, <2>14, <2>15, PartsCovered
  <2>. QED  BY <2>4, <2>10, <2>16, Zenon DEF Adapted, r
<1>4. ASSUME NEW k \in {"string", "dyn"}, NEW u \in U[d - 1], t = MapType(Scalar(k), u)
      PROVE  \E s \in U[d] : Adapted(t, s)
  <2>. DEFINE x == Scalar(k)
  <2>1. k \in Scalars /\ k # "null" /\ k \notin {"message", "list", "map"}
    BY DEF Scalars, ScalarNames
  <2>2. x \in PyCelTypes /\ x.kind = k /\ x.params = <<>>
    <3>1. x \in FlatTypes
      BY <2>1 DEF FlatTypes
    <3>2. x.kind = k /\ x.params = <<>>
      BY DEF Scalar, Record
    <3>. QED  BY <3>1, <3>2, PyCelTypesLayered
  <2>3. Reported(x) = x /\ x \in ReportedTypes
    <3>1. Reported(x) = x
      BY <2>1, <2>2, ReportedForms
    <3>. QED  BY <2>2, <3>1, ReportedIsOne
  <2>4. ToCelType[x] = Record(k, <<>>, <<>>)
    <3>1. PICK qs : ToCelType[x] = OfPyCelType(x, qs)
      BY <2>2, ToCelTypeOf
    <3>. HIDE DEF x
    <3>2. OfPyCelType(x, qs) = Record(k, <<>>, <<>>)
      BY <2>1, <2>2 DEF OfPyCelType
    <3>. QED  BY <3>1, <3>2, Zenon
  <2>5. PICK v \in U[d - 1] : Adapted(u, v)
    <3>1. t.params = <<x, u>>
      BY <1>4 DEF MapType, Scalar, Record
    <3>2. 2 \in DOMAIN t.params /\ t.params[2] = u
      BY <3>1
    <3>. QED  BY <3>2
  <2>6. u \in PyCelTypes /\ v \in PyCelTypes
    BY <1>2
  <2>. DEFINE s == MapType(Scalar(k), v)
              a == ToCelType[u]
              b == ToCelType[x]
              ps == [i \in DOMAIN t.params |-> ToCelType[t.params[i]]]
              r == Reported(s)
              q == Reported(v)
  <2>7. s \in U[d] /\ s \in PyCelTypes
    BY <1>2, Deeper
  <2>8. r = MapType(x, q) /\ r \in ReportedTypes
    BY <2>7, ReportedForms, ReportedIsOne, Zenon
  <2>9. TypeInfoToType[ToTypeInfo[s]] = Record("map", <<>>, <<Record(k, <<>>, <<>>), TypeInfoToType[ToTypeInfo[v]]>>)
    BY <2>7, MadeOfForms, Zenon
  <2>10. t = MapType(x, u)
    BY <1>4
  <2>. HIDE DEF s, r, q, x, ps
  <2>11. t.kind = "map" /\ t.name = <<"MAP">> /\ t.params = <<x, u>>
    BY <2>2, <2>10 DEF MapType, Record
  <2>12. r.kind = "map" /\ r.name = <<"MAP">> /\ r.params = <<x, q>>
    BY <2>2, <2>8 DEF MapType, Record
  <2>13. a # NotFound
    BY <2>5, <2>6, Found
  <2>14. b # NotFound
    <3>1. Record(k, <<>>, <<>>).kind = k /\ NotFound.kind = "not_found" /\ k # "not_found"
      BY DEF NotFound, Record
    <3>. QED  BY <2>4, <3>1
  <2>15. ps = <<b, a>>
    BY <2>11 DEF ps
  <2>16. ToCelType[t] = OfPyCelType(t, ps)
    BY <1>2, ToCelTypeOf DEF ps
  <2>. HIDE DEF a, b
  <2>17. OfPyCelType(t, ps) = Record("map", <<>>, ps)
    <3>1. NotFound \notin Range(ps)
      BY <2>13, <2>14, <2>15 DEF Range
    <3>. QED  BY <2>11, <3>1 DEF OfPyCelType, Scalars, ScalarNames
  <2>18. a = TypeInfoToType[ToTypeInfo[v]] /\ b = Record(k, <<>>, <<>>)
    BY <2>4, <2>5, Zenon DEF Adapted, a, b
  <2>19. ToCelType[t] = TypeInfoToType[ToTypeInfo[s]]
    BY <2>9, <2>15, <2>16, <2>17, <2>18, Zenon
  <2>20. Covers[<<u, q>>]
    BY <2>5, Zenon DEF Adapted, q
  <2>21. Covers[<<x, x>>]
    BY <2>2, <2>3, BareCovered
  <2>22. /\ DOMAIN r.params = {1, 2} /\ DOMAIN t.params = {1, 2}
         /\ t.params[1] = x /\ r.params[1] = x /\ t.params[2] = u /\ r.params[2] = q
    BY <2>11, <2>12
  <2>23. \A i \in DOMAIN r.params : Covers[<<t.params[i], r.params[i]>>]
    BY <2>20, <2>21, <2>22
  <2>24. Covers[<<t, r>>]
    BY <1>2, <2>8, <2>11, <2>12, <2>22, <2>23, PartsCovered
  <2>. QED  BY <2>7, <2>19, <2>24, Zenon DEF Adapted, r
<1>5. ASSUME NEW n, NEW ps, t = AbstractType(n, ps) PROVE \E s \in U[d] : Adapted(t, s)
  <2>1. t.kind = "type"
    BY <1>5 DEF AbstractType, Record
  <2>. QED  BY <1>2, <2>1, DynAdapted
<1>6. \A u : TypeType(u) = AbstractType(<<"TYPE">>, <<u>>)
  BY DEF TypeType, AbstractType
<1>7. t \in FlatTypes => \E s \in U[d] : Adapted(t, s)
  BY <1>2, FlatAdapted
<1>8. \/ t \in FlatTypes
      \/ \E u \in U[d - 1] : t = ListType(u)
      \/ \E k \in {"string", "dyn"}, u \in U[d - 1] : t = MapType(Scalar(k), u)
      \/ \E u \in U[d - 1] : t = TypeType(u)
      \/ \E n \in OpaqueNames, u \in U[d - 1] : t = AbstractType(<<n>>, <<u>>)
  <2>1. \/ t \in FlatTypes
        \/ /\ d # 0
           /\ \/ \E u \in U[d - 1] : t = ListType(u)
              \/ \E k \in {"string", "dyn"}, u \in U[d - 1] : t = MapType(Scalar(k), u)
              \/ \E u \in U[d - 1] : t = TypeType(u)
              \/ \E n \in OpaqueNames, u \in U[d - 1] : t = AbstractType(<<n>>, <<u>>)
    BY <1>1, TypesByDepth, Zenon
  <2>. HIDE DEF U
  <2>. QED  BY <2>1, Zenon
<1>9. \E s \in U[d] : Adapted(t, s)
  <2>. HIDE DEF U
  <2>. QED  BY <1>3, <1>4, <1>5, <1>6, <1>7, <1>8, Zenon
<1>. QED  BY <1>9

\* A program is told no more of the result of an extension's function than its
\* return type: ToCelType makes a type of it (never NotFound), and where that is
\* reported as something else it is DYN, unless a name is in the return type that
\* cel-cpp has something else for.
THEOREM AdaptersReport ==
  \A t \in PyCelTypes :
    \/ ToCelType[t] \in CelTypesMade /\ Covers[<<t, FromTypeProto[ToCelType[t]]>>]
    \/ Changes(t)
<1>. DEFINE N == MaxTypeDepth
            U == PyCelTypesUpTo
            Told(S, t) == Changes(t) \/ \E s \in S : Adapted(t, s)
            T == {d \in 0..N : \A t \in U[d] : Told(U[d], t)}
<1>1. N \in Nat /\ PyCelTypes = U[N]
  BY PyCelTypesLayered
<1>2. 0 \in T
  <2>1. 0 \in 0..N /\ U[0] = FlatTypes /\ U[0] \subseteq PyCelTypes
    BY <1>1, PyCelTypesOf, TypesOfDepth
  <2>2. \A t \in U[0] : Told(FlatTypes, t)
    BY <2>1, FlatAdapted
  <2>. QED  BY <2>1, <2>2
<1>3. ASSUME NEW d \in 1..N, d - 1 \in T PROVE d \in T
  <2>1. ASSUME NEW t \in U[d], ~Changes(t) PROVE \E s \in U[d] : Adapted(t, s)
    <3>1. d \in 0..N /\ t \in PyCelTypes
      BY TypesOfDepth
    <3>2. \A j \in DOMAIN t.params : t.params[j] \in U[d - 1]
      BY PyCelTypesLayered
    <3>3. ASSUME NEW j \in DOMAIN t.params PROVE ~Changes(t.params[j])
      <4>1. NamesIn[t.params[j]] \subseteq NamesIn[t]
        BY <3>1, OnTheWay, PartsOf
      <4>. QED  BY <2>1, <4>1 DEF Changes
    <3>4. \A j \in DOMAIN t.params : \E s \in U[d - 1] : Adapted(t.params[j], s)
      BY <1>3, <3>2, <3>3
    <3>. QED  BY <2>1, <3>4, AdaptedStep
  <2>. QED  BY <2>1
<1>4. \A d \in 0..N : d \in T
  <2>. HIDE DEF T, N
  <2>. QED  BY <1>1, <1>2, <1>3, UpTo
<1>5. ASSUME NEW t \in PyCelTypes, ~Changes(t)
      PROVE  ToCelType[t] \in CelTypesMade /\ Covers[<<t, FromTypeProto[ToCelType[t]]>>]
  <2>1. N \in T
    BY <1>1, <1>4
  <2>2. PICK s \in PyCelTypes : Adapted(t, s)
    BY <1>1, <1>5, <2>1
  <2>3. ToCelType[t] \in CelTypesMade
    BY <2>2, OnTheWay DEF Adapted
  <2>4. Covers[<<t, FromTypeProto[ToCelType[t]]>>]
    BY <2>2, Zenon DEF Adapted, Reported
  <2>. QED  BY <2>3, <2>4
<1>. QED  BY <1>5, Zenon
=============================================================================
