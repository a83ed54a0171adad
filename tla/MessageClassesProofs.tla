------------------------ MODULE MessageClassesProofs ------------------------
(***************************************************************************)
(* Proofs about MessageClasses for any finite sets of threads and types.   *)
(* Shape is inductive by itself; the count of the references rests on it,  *)
(* and that a borrowed class is alive rests on both.                       *)
(***************************************************************************)
EXTENDS MessageClasses, FiniteSetTheorems, TLAPS

\* The types of all but refs, whose values are natural numbers only because
\* references are counted right.
Types0 ==
  /\ pc \in [Threads -> {"idle", "python", "emplace", "create"}]
  /\ type \in [Threads -> Types]
  /\ own \in [Threads -> Known]
  /\ using \in [Threads -> Known]
  /\ classes \in [Types -> Known]
  /\ factory \in 0..MaxFactories
  /\ named \in [Classes -> Types]
  /\ made \in Known
  /\ refs \in [Classes -> Int]

Messages == [factory : 0..MaxFactories, type : Types, class : Known]

\* What a thread has in its hands: a new reference while it is in "emplace",
\* the class that the map has for its type while it is in "create".
Shape ==
  /\ Types0
  /\ given \subseteq Messages
  /\ \A t \in Threads :
       /\ pc[t] = "emplace" => own[t] # 0
       /\ pc[t] # "emplace" => own[t] = 0
       /\ pc[t] = "create" => using[t] # 0 /\ using[t] = classes[type[t]]

\* Messages of this factory have the classes of the map.
GivenInv ==
  /\ OneClassPerType
  /\ \A g \in given :
       /\ g.factory <= factory
       /\ g.factory = factory => classes[g.type] = g.class /\ g.class # 0

-----------------------------------------------------------------------------
(* Shape.                                                                  *)

\* Every step keeps Shape.
LEMMA ShapeStep == Shape /\ [Next]_vars => Shape'
<1>. SUFFICES ASSUME Shape, [Next]_vars PROVE Shape'
  OBVIOUS
<1>1. ASSUME NEW t \in Threads, NotFound(t) PROVE Shape'
  BY <1>1 DEF NotFound, Shape, Types0
<1>2. ASSUME NEW t \in Threads, NEW y \in Types, FromString(t, y) PROVE Shape'
  <2>1. Types0'
    BY <1>2 DEF FromString, Shape, Types0
  <2>. QED  BY <1>2, <2>1 DEF FromString, Shape, Types0
<1>3. ASSUME NEW t \in Threads, NEW c \in Classes, Found(t, c) PROVE Shape'
  <2>1. c \in Known /\ c # 0
    BY BoundsAssumption DEF Known, Classes
  <2>2. made' \in Known /\ named' \in [Classes -> Types]
    BY <1>3, <2>1 DEF Found, Shape, Types0
  <2>3. refs' \in [Classes -> Int]
    BY <1>3 DEF Found, Shape, Types0
  <2>4. own' \in [Threads -> Known] /\ own'[t] = c
    BY <1>3, <2>1 DEF Found, Shape, Types0
  <2>5. Types0'
    BY <1>3, <2>2, <2>3, <2>4 DEF Found, Shape, Types0
  <2>6. pc'[t] = "emplace" /\ \A u \in Threads \ {t} : pc'[u] = pc[u] /\ own'[u] = own[u]
    BY <1>3 DEF Found, Shape, Types0
  <2>. QED  BY <1>3, <2>1, <2>4, <2>5, <2>6 DEF Found, Shape
<1>4. ASSUME NEW t \in Threads, Emplace(t) PROVE Shape'
  <2>1. /\ pc[t] = "emplace" /\ own[t] \in Known /\ own[t] # 0
        /\ type[t] \in Types /\ classes[type[t]] \in Known /\ 0 \in Known
    BY <1>4, BoundsAssumption DEF Emplace, Shape, Types0, Known
  <2>2. /\ pc' = [pc EXCEPT ![t] = "create"] /\ own' = [own EXCEPT ![t] = 0]
        /\ UNCHANGED <<type, factory, named, made, given>>
    BY <1>4 DEF Emplace
  <2>3. PICK k \in Known :
          /\ k # 0
          /\ using' = [using EXCEPT ![t] = k]
          /\ classes' = [classes EXCEPT ![type[t]] = k]
          /\ classes[type[t]] \in {0, k}
    <3>1. CASE classes[type[t]] = 0
      BY <1>4, <2>1, <3>1 DEF Emplace
    <3>2. CASE classes[type[t]] # 0
      <4>1. classes = [classes EXCEPT ![type[t]] = classes[type[t]]]
        BY DEF Shape, Types0
      <4>. QED  BY <1>4, <2>1, <3>2, <4>1 DEF Emplace
    <3>. QED  BY <3>1, <3>2
  <2>4. refs' \in [Classes -> Int]
    <3>1. CASE UNCHANGED refs
      BY <3>1 DEF Shape, Types0
    <3>2. CASE refs' = [refs EXCEPT ![own[t]] = @ - 1]
      <4>1. own[t] \in Classes
        BY <2>1, BoundsAssumption DEF Known, Classes
      <4>. QED  BY <3>2, <4>1 DEF Shape, Types0
    <3>. QED  BY <1>4, <3>1, <3>2 DEF Emplace
  <2>5. Types0'
    BY <2>1, <2>2, <2>3, <2>4 DEF Shape, Types0
  <2>6. /\ pc'[t] = "create" /\ own'[t] = 0 /\ using'[t] = k
        /\ classes'[type[t]] = k
        /\ \A u \in Threads \ {t} :
             pc'[u] = pc[u] /\ own'[u] = own[u] /\ using'[u] = using[u]
        /\ \A y \in Types : classes[y] # 0 => classes'[y] = classes[y]
    BY <2>1, <2>2, <2>3 DEF Shape, Types0
  <2>7. \A u \in Threads : type[u] \in Types
    BY DEF Shape, Types0
  <2>. QED  BY <2>2, <2>3, <2>5, <2>6, <2>7 DEF Shape
<1>5. ASSUME NEW t \in Threads, Create(t) PROVE Shape'
  <2>1. [factory |-> factory, type |-> type[t], class |-> using[t]] \in Messages
    BY DEF Shape, Types0, Messages
  <2>2. given' \subseteq Messages
    BY <1>5, <2>1 DEF Create, Shape
  <2>3. 0 \in Known
    BY BoundsAssumption DEF Known
  <2>4. Types0'
    BY <1>5, <2>3 DEF Create, Shape, Types0
  <2>. QED  BY <1>5, <2>2, <2>4 DEF Create, Shape, Types0
<1>6. CASE Destroy
  <2>1. \A c \in Classes :
          refs[c] - Cardinality({y \in Types : classes[y] = c}) \in Int
    <3>1. \A c \in Classes : IsFiniteSet({y \in Types : classes[y] = c})
      BY FiniteAssumption, FS_Subset
    <3>. QED  BY <3>1, FS_CardinalityType DEF Shape, Types0
  <2>2. refs' \in [Classes -> Int] /\ 0 \in Known /\ factory' \in 0..MaxFactories
    BY <1>6, <2>1, BoundsAssumption DEF Destroy, Shape, Types0, Known
  <2>3. Types0'
    BY <1>6, <2>2 DEF Destroy, Shape, Types0
  <2>. QED  BY <1>6, <2>3 DEF Destroy, Shape
<1>7. CASE UNCHANGED vars
  BY <1>7 DEF vars, Shape, Types0
<1>. QED  BY <1>1, <1>2, <1>3, <1>4, <1>5, <1>6, <1>7 DEF Next

\* Shape holds of every state.
LEMMA ShapeInvariant == Spec => []Shape
<1>1. Init => Shape
  BY BoundsAssumption DEF Init, Shape, Types0, Known, Messages
<1>. QED  BY <1>1, ShapeStep, PTL DEF Spec

-----------------------------------------------------------------------------
(* The map is a cache.                                                     *)

\* A type's class, once found, is the same until the factory is destroyed
\* (py_message_factory.cc:86-118), in any build.
THEOREM CacheImplemented == Spec => IsOnceCache
<1>1. Init => Cache!Init
  BY DEF Init, Cache!Init
<1>2. Shape /\ [Next]_vars => [Cache!Next]_<<classes, factory>>
  <2>. SUFFICES ASSUME Shape, [Next]_vars
                PROVE  Cache!Next \/ UNCHANGED <<classes, factory>>
    OBVIOUS
  <2>1. ASSUME NEW t \in Threads, Emplace(t)
        PROVE  Cache!Next \/ UNCHANGED <<classes, factory>>
    <3>1. CASE classes[type[t]] # 0
      BY <2>1, <3>1 DEF Emplace
    <3>2. CASE classes[type[t]] = 0
      <4>1. own[t] \in Classes /\ type[t] \in Types
        BY <2>1, BoundsAssumption DEF Emplace, Shape, Types0, Known, Classes
      <4>2. Cache!Fill(type[t], own[t])
        BY <2>1, <3>2 DEF Emplace, Cache!Fill
      <4>. QED  BY <4>1, <4>2 DEF Cache!Next
    <3>. QED  BY <3>1, <3>2
  <2>2. ASSUME NEW t \in Threads, NEW y \in Types, FromString(t, y)
        PROVE  UNCHANGED <<classes, factory>>
    BY <2>2 DEF FromString
  <2>3. ASSUME NEW t \in Threads, NEW c \in Classes, Found(t, c)
        PROVE  UNCHANGED <<classes, factory>>
    BY <2>3 DEF Found
  <2>4. ASSUME NEW t \in Threads, NotFound(t) \/ Create(t)
        PROVE  UNCHANGED <<classes, factory>>
    BY <2>4 DEF NotFound, Create
  <2>5. CASE Destroy
    BY <2>5 DEF Destroy, Cache!Next, Cache!Destroy
  <2>6. CASE UNCHANGED vars
    BY <2>6 DEF vars
  <2>. QED  BY <2>1, <2>2, <2>3, <2>4, <2>5, <2>6 DEF Next
<1>. QED  BY <1>1, <1>2, ShapeInvariant, PTL DEF Spec, IsOnceCache, Cache!Spec

\* Two messages of one type, made with one factory, have the same class
\* (py_message_factory.cc:112-116).
THEOREM OneClass == Spec => []OneClassPerType
<1>1. Init => GivenInv
  BY DEF Init, GivenInv, OneClassPerType
<1>2. Shape /\ GivenInv /\ [Next]_vars => GivenInv'
  <2>. SUFFICES ASSUME Shape, GivenInv, [Next]_vars PROVE GivenInv'
    OBVIOUS
  <2>0. /\ factory \in Int
        /\ \A g \in given : g.factory \in Int /\ g.type \in Types
    BY BoundsAssumption DEF Shape, Types0, Messages
  <2>1. ASSUME NEW t \in Threads, Emplace(t) PROVE GivenInv'
    <3>1. \A y \in Types : classes[y] # 0 => classes'[y] = classes[y]
      BY <2>1 DEF Emplace, Shape, Types0
    <3>. QED  BY <2>0, <2>1, <3>1 DEF Emplace, GivenInv, OneClassPerType
  <2>2. ASSUME NEW t \in Threads, Create(t) PROVE GivenInv'
    <3>. DEFINE new == [factory |-> factory, type |-> type[t], class |-> using[t]]
    <3>1. UNCHANGED <<classes, factory>> /\ \A g \in given' : g \in given \/ g = new
      BY <2>2 DEF Create
    <3>2. classes[new.type] = new.class /\ new.class # 0 /\ new.factory = factory
      BY <2>2 DEF Create, Shape
    <3>. HIDE DEF new
    <3>. QED  BY <2>0, <3>1, <3>2 DEF GivenInv, OneClassPerType
  <2>3. ASSUME NEW t \in Threads, NEW y \in Types, FromString(t, y) PROVE GivenInv'
    BY <2>3 DEF FromString, GivenInv, OneClassPerType
  <2>4. ASSUME NEW t \in Threads, NEW c \in Classes, Found(t, c) PROVE GivenInv'
    BY <2>4 DEF Found, GivenInv, OneClassPerType
  <2>5. ASSUME NEW t \in Threads, NotFound(t) PROVE GivenInv'
    BY <2>5 DEF NotFound, GivenInv, OneClassPerType
  <2>6. CASE Destroy
    <3>1. given' = given /\ factory' = factory + 1
      BY <2>6 DEF Destroy
    <3>2. \A g \in given : g.factory <= factory' /\ g.factory # factory'
      BY <2>0, <3>1 DEF GivenInv
    <3>. QED  BY <3>1, <3>2 DEF GivenInv, OneClassPerType
  <2>7. CASE UNCHANGED vars
    BY <2>7 DEF vars, GivenInv, OneClassPerType
  <2>. QED  BY <2>1, <2>2, <2>3, <2>4, <2>5, <2>6, <2>7 DEF Next
<1>3. GivenInv => OneClassPerType
  BY DEF GivenInv
<1>. QED  BY <1>1, <1>2, <1>3, ShapeInvariant, PTL DEF Spec

-----------------------------------------------------------------------------
(* The references.                                                         *)

\* Entries and holders are finite sets.
LEMMA Finite ==
  ASSUME NEW c
  PROVE  /\ IsFiniteSet(Entries(c)) /\ Cardinality(Entries(c)) \in Nat
         /\ IsFiniteSet(Holders(c)) /\ Cardinality(Holders(c)) \in Nat
<1>1. Entries(c) \in SUBSET Types /\ Holders(c) \in SUBSET Threads
  BY DEF Entries, Holders
<1>2. IsFiniteSet(Entries(c)) /\ IsFiniteSet(Holders(c))
  BY <1>1, FiniteAssumption, FS_Subset
<1>. QED  BY <1>2, FS_CardinalityType

\* The reference that Python returns is in the hands of the thread.
LEMMA FoundCounts ==
  ASSUME Shape, ReferencesAccounted, NEW t \in Threads, NEW k \in Classes, Found(t, k)
  PROVE  ReferencesAccounted'
<1>1. own[t] = 0 /\ k # 0
  BY BoundsAssumption DEF Found, Shape, Classes
<1>2. own' = [own EXCEPT ![t] = k] /\ refs' = [refs EXCEPT ![k] = @ + 1]
      /\ UNCHANGED classes
  BY DEF Found
<1>3. ASSUME NEW c \in Classes
      PROVE  refs'[c] = Cardinality(Entries(c)') + Cardinality(Holders(c)')
  <2>1. Entries(c)' = Entries(c)
    BY <1>2 DEF Entries
  <2>2. CASE c = k
    <3>1. Holders(c)' = Holders(c) \cup {t} /\ t \notin Holders(c)
      BY <1>1, <1>2, <2>2 DEF Holders, Shape, Types0
    <3>2. Cardinality(Holders(c)') = Cardinality(Holders(c)) + 1
      BY <3>1, Finite, FS_AddElement
    <3>3. refs'[c] = refs[c] + 1
      BY <1>2, <2>2 DEF Shape, Types0
    <3>. QED  BY <2>1, <3>2, <3>3, Finite DEF ReferencesAccounted
  <2>3. CASE c # k
    <3>1. Holders(c)' = Holders(c)
      BY <1>1, <1>2, <2>3, BoundsAssumption DEF Holders, Shape, Types0, Classes
    <3>2. refs'[c] = refs[c]
      BY <1>2, <2>3 DEF Shape, Types0
    <3>. QED  BY <2>1, <3>1, <3>2 DEF ReferencesAccounted
  <2>. QED  BY <2>2, <2>3
<1>. QED  BY <1>3 DEF ReferencesAccounted

\* It goes from there into the map, or is dropped.
LEMMA EmplaceCounts ==
  ASSUME Shape, ReferencesAccounted, NEW t \in Threads, Emplace(t)
  PROVE  ReferencesAccounted'
<1>. DEFINE k == own[t]
            y == type[t]
<1>1. k \in Classes /\ k # 0 /\ y \in Types
  BY BoundsAssumption DEF Emplace, Shape, Types0, Classes, Known
<1>2. own' = [own EXCEPT ![t] = 0]
  BY DEF Emplace
<1>3. ASSUME NEW c \in Classes
      PROVE  Holders(c)' = IF c = k THEN Holders(c) \ {t} ELSE Holders(c)
  BY <1>2, <1>3, BoundsAssumption DEF Holders, Shape, Types0, Classes
<1>4. t \in Holders(k)
  BY DEF Holders
<1>5. Cardinality(Holders(k) \ {t}) = Cardinality(Holders(k)) - 1
  BY <1>4, Finite, FS_RemoveElement
<1>6. CASE classes[y] = 0
  <2>1. classes' = [classes EXCEPT ![y] = k] /\ UNCHANGED refs
    BY <1>6 DEF Emplace
  <2>2. ASSUME NEW c \in Classes
        PROVE  refs'[c] = Cardinality(Entries(c)') + Cardinality(Holders(c)')
    <3>1. CASE c = k
      <4>1. Entries(c)' = Entries(c) \cup {y} /\ y \notin Entries(c)
        BY <1>1, <1>6, <2>1, <3>1 DEF Entries, Shape, Types0
      <4>2. Cardinality(Entries(c)') = Cardinality(Entries(c)) + 1
        BY <4>1, Finite, FS_AddElement
      <4>3. Cardinality(Holders(c)') = Cardinality(Holders(c)) - 1
        BY <1>1, <1>3, <1>5, <3>1
      <4>4. refs[c] = Cardinality(Entries(c)) + Cardinality(Holders(c))
        BY DEF ReferencesAccounted
      <4>. QED  BY <2>1, <4>2, <4>3, <4>4, Finite
    <3>2. CASE c # k
      <4>1. Entries(c)' = Entries(c)
        BY <1>1, <1>6, <2>1, <2>2, <3>2, BoundsAssumption
           DEF Entries, Shape, Types0, Classes
      <4>2. Holders(c)' = Holders(c)
        BY <1>3, <3>2
      <4>. QED  BY <2>1, <4>1, <4>2 DEF ReferencesAccounted
    <3>. QED  BY <3>1, <3>2
  <2>. QED  BY <2>2 DEF ReferencesAccounted
<1>7. CASE classes[y] # 0
  <2>1. UNCHANGED classes /\ refs' = [refs EXCEPT ![k] = @ - 1]
    BY <1>7 DEF Emplace
  <2>2. ASSUME NEW c \in Classes
        PROVE  refs'[c] = Cardinality(Entries(c)') + Cardinality(Holders(c)')
    <3>1. Entries(c)' = Entries(c)
      BY <2>1 DEF Entries
    <3>2. refs[c] = Cardinality(Entries(c)) + Cardinality(Holders(c))
      BY DEF ReferencesAccounted
    <3>3. CASE c = k
      <4>1. Cardinality(Holders(c)') = Cardinality(Holders(c)) - 1
        BY <1>1, <1>3, <1>5, <3>3
      <4>2. refs'[c] = refs[c] - 1
        BY <1>1, <2>1, <3>3 DEF Shape, Types0
      <4>. QED  BY <3>1, <3>2, <4>1, <4>2, Finite
    <3>4. CASE c # k
      <4>1. Holders(c)' = Holders(c) /\ refs'[c] = refs[c]
        BY <1>1, <1>3, <2>1, <3>4 DEF Shape, Types0
      <4>. QED  BY <3>1, <3>2, <4>1
    <3>. QED  BY <3>3, <3>4
  <2>. QED  BY <2>2 DEF ReferencesAccounted
<1>. QED  BY <1>6, <1>7

\* The destructor drops the references of the map.
LEMMA DestroyCounts ==
  ASSUME Shape, ReferencesAccounted, Destroy
  PROVE  ReferencesAccounted'
<1>1. ASSUME NEW c \in Classes
      PROVE  refs'[c] = Cardinality(Entries(c)') + Cardinality(Holders(c)')
  <2>1. refs'[c] = refs[c] - Cardinality(Entries(c))
    BY DEF Destroy, Entries
  <2>2. Entries(c)' = {} /\ Holders(c)' = Holders(c)
    BY BoundsAssumption DEF Destroy, Entries, Holders, Classes
  <2>3. Cardinality(Entries(c)') = 0
    BY <2>2, FS_EmptySet
  <2>. QED  BY <2>1, <2>2, <2>3, Finite DEF ReferencesAccounted
<1>. QED  BY <1>1 DEF ReferencesAccounted

\* Every reference to a class is accounted for (py_message_factory.cc:54-118).
THEOREM References == Spec => []ReferencesAccounted
<1>1. Init => ReferencesAccounted
  <2>. SUFFICES ASSUME Init, NEW c \in Classes
                PROVE  refs[c] = Cardinality(Entries(c)) + Cardinality(Holders(c))
    BY DEF ReferencesAccounted
  <2>1. Entries(c) = {} /\ Holders(c) = {}
    BY BoundsAssumption DEF Init, Entries, Holders, Classes
  <2>. QED  BY <2>1, FS_EmptySet DEF Init
<1>2. Shape /\ ReferencesAccounted /\ [Next]_vars => ReferencesAccounted'
  <2>. SUFFICES ASSUME Shape, ReferencesAccounted, [Next]_vars
                PROVE  ReferencesAccounted'
    OBVIOUS
  <2>1. CASE UNCHANGED <<own, classes, refs>>
    BY <2>1 DEF ReferencesAccounted, Entries, Holders
  <2>2. ASSUME NEW t \in Threads, NEW y \in Types, FromString(t, y)
        PROVE  UNCHANGED <<own, classes, refs>>
    BY <2>2 DEF FromString
  <2>3. ASSUME NEW t \in Threads, NotFound(t) \/ Create(t)
        PROVE  UNCHANGED <<own, classes, refs>>
    BY <2>3 DEF NotFound, Create
  <2>4. CASE UNCHANGED vars
    BY <2>1, <2>4 DEF vars
  <2>. QED
    BY <2>1, <2>2, <2>3, <2>4, FoundCounts, EmplaceCounts, DestroyCounts DEF Next
<1>. QED  BY <1>1, <1>2, ShapeInvariant, PTL DEF Spec

\* Reference counts are never negative, and the variables have their types.
THEOREM TypeCorrect == Spec => []TypeOK
<1>1. Shape /\ ReferencesAccounted => TypeOK
  <2>. SUFFICES ASSUME Shape, ReferencesAccounted PROVE TypeOK
    OBVIOUS
  <2>1. \A c \in Classes : refs[c] \in Nat
    BY Finite DEF ReferencesAccounted
  <2>2. refs \in [Classes -> Nat]
    BY <2>1 DEF Shape, Types0
  <2>. QED  BY <2>2 DEF Shape, Types0, TypeOK, Messages
<1>. QED  BY <1>1, ShapeInvariant, References, PTL

\* The class with which FromString makes a message is alive while it does
\* (py_message_factory.cc:127-148).
THEOREM BorrowedAlive == Spec => []BorrowedClassAlive
<1>1. Shape /\ ReferencesAccounted => BorrowedClassAlive
  <2>. SUFFICES ASSUME Shape, ReferencesAccounted, NEW t \in Threads, pc[t] = "create"
                PROVE  using[t] \in Classes /\ refs[using[t]] > 0
    BY DEF BorrowedClassAlive
  <2>1. using[t] \in Classes
    BY BoundsAssumption DEF Shape, Types0, Known, Classes
  <2>2. type[t] \in Entries(using[t])
    BY DEF Entries, Shape, Types0
  <2>3. Cardinality(Entries(using[t])) # 0
    BY <2>2, Finite, FS_EmptySet
  <2>. QED  BY <2>1, <2>3, Finite DEF ReferencesAccounted
<1>. QED  BY <1>1, ShapeInvariant, References, PTL

=============================================================================
