-------------------------- MODULE ValueCacheProofs --------------------------
(***************************************************************************)
(* Proofs about ValueCache for any finite set of threads.  What the cache  *)
(* promises holds where conversions exclude each other: in a free-threaded *)
(* build by the mutex, with the GIL only if no Python code runs in them.   *)
(* No thread uses an object that has been released, in any build.          *)
(***************************************************************************)
EXTENDS ValueCache, FiniteSetTheorems, TLAPS

\* Conversions exclude each other.
Exclusive == FreeThreaded \/ ~PythonRuns

Inside(t) == pc[t] \in {"resolve", "convert"}

\* The types of all but refs, whose values are natural numbers only because
\* there are enough references; objects not made yet are nowhere.
Shape ==
  /\ pc \in [Threads -> {"user", "lock", "resolve", "convert"}]
  /\ call \in [Threads -> Calls]
  /\ slot \in [Slots -> 0..MaxObjects]
  /\ element \in {"none", "value", "error"}
  /\ mutex \in Threads \cup {NoThread}
  /\ stopper \in Threads \cup {NoThread}
  /\ destroyed \in 0..MaxValues
  /\ made \in 0..MaxObjects
  /\ refs \in [Objects -> Int]
  /\ held \in [Threads -> SUBSET Objects]
  /\ \A s \in Slots : slot[s] <= made
  /\ \A t \in Threads : \A o \in held[t] : o <= made
  /\ \A t \in Threads : pc[t] = "convert" => call[t] \in Slots

\* One thread at a time looks up or converts, and what it is about to make is
\* not there yet.
Guarded ==
  /\ \A t, u \in Threads : Inside(t) /\ Inside(u) => t = u
  /\ \A t \in Threads : Inside(t) =>
       /\ FreeThreaded => mutex = t
       /\ call[t] \in Slots => slot[call[t]] = 0
       /\ pc[t] = "resolve" <=> element = "none"

-----------------------------------------------------------------------------
(* Finite sets.                                                            *)

\* There are two slots.
LEMMA SlotsFinite == IsFiniteSet(Slots)
<1>1. IsFiniteSet({} \cup {"value"})
  BY FS_EmptySet, FS_AddElement
<1>2. IsFiniteSet(({} \cup {"value"}) \cup {"plain"})
  BY <1>1, FS_AddElement
<1>3. Slots = ({} \cup {"value"}) \cup {"plain"}
  BY DEF Slots
<1>. QED  BY <1>2, <1>3

\* The slots and the threads that refer to an object can be counted.
LEMMA Finite ==
  ASSUME NEW o
  PROVE  /\ IsFiniteSet(Entries(o)) /\ Cardinality(Entries(o)) \in Nat
         /\ IsFiniteSet(Holders(o)) /\ Cardinality(Holders(o)) \in Nat
<1>1. Entries(o) \in SUBSET Slots /\ Holders(o) \in SUBSET Threads
  BY DEF Entries, Holders
<1>2. IsFiniteSet(Entries(o)) /\ IsFiniteSet(Holders(o))
  BY <1>1, SlotsFinite, FiniteAssumption, FS_Subset
<1>. QED  BY <1>2, FS_CardinalityType

-----------------------------------------------------------------------------
(* Types.                                                                  *)

\* What the binding gives to a thread.
LEMMA GiveShape ==
  ASSUME Shape, NEW t \in Threads, NEW o \in Objects, NEW count \in [Objects -> Int],
         Give(t, o, count)
  PROVE  /\ refs' \in [Objects -> Int]
         /\ held' \in [Threads -> SUBSET Objects]
         /\ \A u \in Threads : \A p \in held'[u] : p \in held[u] \/ (u = t /\ p = o)
BY DEF Give, Shape

\* Every step keeps Shape.
LEMMA ShapeStep == Shape /\ [Next]_vars => Shape'
<1>. SUFFICES ASSUME Shape, [Next]_vars PROVE Shape'
  OBVIOUS
<1>0. \A o \in Objects : o \in Nat /\ o # 0 /\ o \in 0..MaxObjects
  BY BoundsAssumption DEF Objects
<1>1. ASSUME NEW t \in Threads, NEW c \in Calls, Enter(t, c) PROVE Shape'
  BY <1>1 DEF Enter, Goto, Shape
<1>2. ASSUME NEW t \in Threads, Cached(t) PROVE Shape'
  <2>1. CASE UNCHANGED <<refs, held>>
    BY <1>2, <2>1 DEF Cached, Goto, Shape
  <2>2. CASE call[t] \in Slots /\ slot[call[t]] # 0 /\ Give(t, slot[call[t]], refs)
    <3>. DEFINE o == slot[call[t]]
    <3>1. o \in Objects /\ o <= made
      BY <2>2, BoundsAssumption DEF Shape, Objects
    <3>2. refs \in [Objects -> Int]
      BY DEF Shape
    <3>3. /\ refs' \in [Objects -> Int]
          /\ held' \in [Threads -> SUBSET Objects]
          /\ \A u \in Threads : \A p \in held'[u] : p \in held[u] \/ (u = t /\ p = o)
      BY <2>2, <3>1, <3>2, GiveShape
    <3>. QED  BY <1>2, <3>1, <3>3 DEF Cached, Goto, Shape
  <2>. QED  BY <1>2, <2>1, <2>2 DEF Cached
<1>3. ASSUME NEW t \in Threads, NotCached(t) PROVE Shape'
  BY <1>3 DEF NotCached, Goto, Lock, Shape, Calls
<1>4. ASSUME NEW t \in Threads, Resolve(t) PROVE Shape'
  BY <1>4 DEF Resolve, Goto, Unlock, Shape
<1>5. ASSUME NEW t \in Threads, Convert(t) PROVE Shape'
  <2>. DEFINE o == made + 1
  <2>1. o \in Objects /\ made' = o /\ made \in Nat /\ call[t] \in Slots
    BY <1>5, BoundsAssumption DEF Convert, Shape, Objects
  <2>2. [refs EXCEPT ![o] = 1] \in [Objects -> Int]
    BY <2>1 DEF Shape
  <2>3. Give(t, o, [refs EXCEPT ![o] = 1])
    BY <1>5 DEF Convert
  <2>4. /\ refs' \in [Objects -> Int]
        /\ held' \in [Threads -> SUBSET Objects]
        /\ \A u \in Threads : \A p \in held'[u] : p \in held[u] \/ (u = t /\ p = o)
    BY <2>1, <2>2, <2>3, GiveShape
  <2>5. \A u \in Threads : \A p \in held[u] : p <= made /\ p \in Objects
    BY DEF Shape
  <2>6. \A u \in Threads : \A p \in held'[u] : p <= made'
    BY <1>0, <2>1, <2>4, <2>5
  <2>7. slot' = [slot EXCEPT ![call[t]] = o] /\ pc' = [pc EXCEPT ![t] = "user"]
        /\ mutex' = NoThread /\ UNCHANGED <<call, element, stopper, destroyed>>
    BY <1>5 DEF Convert, Goto, Unlock
  <2>8. \A s \in Slots : slot'[s] <= made' /\ slot'[s] \in 0..MaxObjects
    BY <1>0, <2>1, <2>7 DEF Shape
  <2>9. made' \in 0..MaxObjects
    BY <1>0, <2>1
  <2>. HIDE DEF o
  <2>. QED  BY <2>4, <2>6, <2>7, <2>8, <2>9 DEF Shape
<1>6. ASSUME NEW t \in Threads, ConvertFails(t) PROVE Shape'
  BY <1>6, BoundsAssumption DEF ConvertFails, Goto, Unlock, Shape
<1>7. ASSUME NEW t \in Threads, NEW o \in Objects, Release(t, o) PROVE Shape'
  BY <1>7 DEF Release, Shape
<1>8. ASSUME NEW t \in Threads, Destroy(t) PROVE Shape'
  <2>1. \A o \in Objects : refs[o] - Cardinality({s \in Slots : slot[s] = o}) \in Int
    <3>1. \A o \in Objects : Cardinality(Entries(o)) \in Nat
      BY Finite
    <3>. QED  BY <3>1 DEF Entries, Shape
  <2>2. refs' \in [Objects -> Int] /\ destroyed' \in 0..MaxValues
    BY <1>8, <2>1, BoundsAssumption DEF Destroy, Shape
  <2>. QED  BY <1>8, <2>2, BoundsAssumption DEF Destroy, Fresh, Shape
<1>9. ASSUME NEW t \in Threads, StopWorld(t) \/ StartWorld(t) PROVE Shape'
  BY <1>9 DEF StopWorld, StartWorld, Shape
<1>10. CASE UNCHANGED vars
  BY <1>10 DEF vars, Shape
<1>. QED
  BY <1>1, <1>2, <1>3, <1>4, <1>5, <1>6, <1>7, <1>8, <1>9, <1>10 DEF Next, Method

\* Shape holds of every state.
LEMMA ShapeInvariant == Spec => []Shape
<1>1. Init => Shape
  BY BoundsAssumption DEF Init, Fresh, Shape, Slots, Calls, Objects
<1>. QED  BY <1>1, ShapeStep, PTL DEF Spec

-----------------------------------------------------------------------------
(* Exclusion.                                                              *)

\* A thread that takes the lock finds nobody inside.
LEMMA NobodyInside ==
  ASSUME Exclusive, Shape, Guarded, NEW t \in Threads, NotCached(t),
         NEW u \in Threads, Inside(u)
  PROVE  FALSE
<1>1. CASE FreeThreaded
  BY <1>1, ThreadsAssumption DEF NotCached, Unlocked, Guarded
<1>2. CASE ~FreeThreaded
  BY <1>2 DEF Exclusive, NotCached, MayRun, InPython, Inside
<1>. QED  BY <1>1, <1>2

\* Every step keeps Guarded.
LEMMA GuardedStep ==
  ASSUME Exclusive, Shape, Guarded, [Next]_vars
  PROVE  Guarded'
<1>1. ASSUME NEW t \in Threads, NEW c \in Calls, Enter(t, c) PROVE Guarded'
  <2>1. ~Inside(t) /\ ~Inside(t)' /\ UNCHANGED <<mutex, slot, element>>
    BY <1>1 DEF Enter, Goto, Inside, Shape
  <2>2. \A u \in Threads \ {t} : pc'[u] = pc[u] /\ call'[u] = call[u]
    BY <1>1 DEF Enter, Goto, Shape
  <2>. QED  BY <2>1, <2>2 DEF Guarded, Inside
<1>2. ASSUME NEW t \in Threads, Cached(t) PROVE Guarded'
  <2>1. ~Inside(t)' /\ UNCHANGED <<mutex, slot, element, call>>
    BY <1>2 DEF Cached, Goto, Inside, Shape
  <2>2. \A u \in Threads \ {t} : pc'[u] = pc[u]
    BY <1>2 DEF Cached, Goto, Shape
  <2>. QED  BY <2>1, <2>2 DEF Guarded, Inside
<1>3. ASSUME NEW t \in Threads, NotCached(t) PROVE Guarded'
  <2>1. \A u \in Threads : ~Inside(u)
    BY <1>3, NobodyInside
  <2>2. \A u \in Threads \ {t} : pc'[u] = pc[u]
    BY <1>3 DEF NotCached, Goto, Shape
  <2>3. \A u \in Threads : Inside(u)' => u = t
    BY <2>1, <2>2 DEF Inside
  <2>4. /\ FreeThreaded => mutex' = t
        /\ call'[t] \in Slots => slot'[call'[t]] = 0
        /\ pc'[t] = "resolve" <=> element' = "none"
    BY <1>3 DEF NotCached, Goto, Lock, Shape
  <2>. QED  BY <2>3, <2>4 DEF Guarded
<1>4. ASSUME NEW t \in Threads, Resolve(t) PROVE Guarded'
  <2>1. Inside(t) /\ \A u \in Threads : Inside(u) => u = t
    BY <1>4 DEF Resolve, Inside, Guarded
  <2>2. \A u \in Threads \ {t} : pc'[u] = pc[u]
    BY <1>4 DEF Resolve, Goto, Shape
  <2>3. \A u \in Threads : Inside(u)' => u = t
    BY <2>1, <2>2 DEF Inside
  <2>4. Inside(t)' =>
          /\ FreeThreaded => mutex' = t
          /\ call'[t] \in Slots => slot'[call'[t]] = 0
          /\ pc'[t] = "resolve" <=> element' = "none"
    BY <1>4, <2>1 DEF Resolve, Goto, Guarded, Inside, Shape
  <2>. QED  BY <2>3, <2>4 DEF Guarded
<1>5. ASSUME NEW t \in Threads, Convert(t) \/ ConvertFails(t) PROVE Guarded'
  <2>1. Inside(t) /\ \A u \in Threads : Inside(u) => u = t
    BY <1>5 DEF Convert, ConvertFails, Inside, Guarded
  <2>2. pc' = [pc EXCEPT ![t] = "user"]
    BY <1>5 DEF Convert, ConvertFails, Goto
  <2>3. \A u \in Threads : ~Inside(u)'
    BY <2>1, <2>2 DEF Inside, Shape
  <2>. QED  BY <2>3 DEF Guarded
<1>6. ASSUME NEW t \in Threads, NEW o \in Objects, Release(t, o) PROVE Guarded'
  BY <1>6 DEF Release, Guarded, Inside
<1>7. ASSUME NEW t \in Threads, Destroy(t) PROVE Guarded'
  <2>1. \A u \in Threads : ~Inside(u)'
    BY <1>7 DEF Destroy, Inside
  <2>. QED  BY <2>1 DEF Guarded
<1>8. ASSUME NEW t \in Threads, StopWorld(t) \/ StartWorld(t) PROVE Guarded'
  BY <1>8 DEF StopWorld, StartWorld, Guarded, Inside
<1>9. CASE UNCHANGED vars
  BY <1>9 DEF vars, Guarded, Inside
<1>. QED
  BY <1>1, <1>2, <1>3, <1>4, <1>5, <1>6, <1>7, <1>8, <1>9 DEF Next, Method

\* Where conversions exclude each other, Guarded holds of every state.
LEMMA GuardedInvariant ==
  ASSUME Exclusive PROVE Spec => []Guarded
<1>1. Init => Guarded
  BY DEF Init, Guarded, Inside
<1>2. Shape /\ Guarded /\ [Next]_vars => Guarded'
  BY GuardedStep
<1>. QED  BY <1>1, <1>2, ShapeInvariant, PTL DEF Spec

-----------------------------------------------------------------------------
(* The cache.                                                              *)

\* In a free-threaded build, and with the GIL for values whose conversion runs
\* no Python code, an object once made is kept for the lifetime of the value
\* (py_cel_value.h:39-40, free_threading_mutex.h:43-45).
THEOREM KeptForLife ==
  ASSUME Exclusive PROVE Spec => CachedForLife
<1>1. Init => Cache!Init
  BY DEF Init, Cache!Init
<1>2. Shape /\ Guarded /\ [Next]_vars => [Cache!Next]_<<slot, destroyed>>
  <2>. SUFFICES ASSUME Shape, Guarded, [Next]_vars
                PROVE  Cache!Next \/ UNCHANGED <<slot, destroyed>>
    OBVIOUS
  <2>1. ASSUME NEW t \in Threads, Convert(t) PROVE Cache!Next
    <3>1. call[t] \in Slots /\ slot[call[t]] = 0
      BY <2>1 DEF Convert, Guarded, Inside, Shape
    <3>2. made + 1 \in Objects
      BY <2>1, BoundsAssumption DEF Convert, Shape, Objects
    <3>3. Cache!Fill(call[t], made + 1)
      BY <2>1, <3>1 DEF Convert, Cache!Fill
    <3>. QED  BY <3>1, <3>2, <3>3 DEF Cache!Next
  <2>2. ASSUME NEW t \in Threads, ConvertFails(t) PROVE UNCHANGED <<slot, destroyed>>
    <3>1. call[t] \in Slots /\ slot[call[t]] = 0
      BY <2>2 DEF ConvertFails, Guarded, Inside, Shape
    <3>2. slot' = [slot EXCEPT ![call[t]] = 0] /\ UNCHANGED destroyed
      BY <2>2 DEF ConvertFails
    <3>. QED  BY <3>1, <3>2 DEF Shape
  <2>3. ASSUME NEW t \in Threads, Destroy(t) PROVE Cache!Next
    BY <2>3 DEF Destroy, Cache!Next, Cache!Destroy
  <2>4. ASSUME NEW t \in Threads, NEW c \in Calls, Enter(t, c)
        PROVE  UNCHANGED <<slot, destroyed>>
    BY <2>4 DEF Enter
  <2>5. ASSUME NEW t \in Threads, NEW o \in Objects, Release(t, o)
        PROVE  UNCHANGED <<slot, destroyed>>
    BY <2>5 DEF Release
  <2>6. ASSUME NEW t \in Threads, Cached(t) \/ NotCached(t) \/ Resolve(t)
        PROVE  UNCHANGED <<slot, destroyed>>
    BY <2>6 DEF Cached, NotCached, Resolve
  <2>7. ASSUME NEW t \in Threads, StopWorld(t) \/ StartWorld(t)
        PROVE  UNCHANGED <<slot, destroyed>>
    BY <2>7 DEF StopWorld, StartWorld
  <2>8. CASE UNCHANGED vars
    BY <2>8 DEF vars
  <2>. QED
    BY <2>1, <2>2, <2>3, <2>4, <2>5, <2>6, <2>7, <2>8 DEF Next, Method
<1>. QED
  BY <1>1, <1>2, ShapeInvariant, GuardedInvariant, PTL DEF Spec, CachedForLife, Cache!Spec

\* Under the same condition an accessor's element is looked up once and stays
\* (py_cel_value.cc:187-203).
THEOREM ElementKept ==
  ASSUME Exclusive PROVE Spec => ElementStays
<1>1. Shape /\ Guarded /\ [Next]_vars =>
        [element # "none" => element' = element \/ destroyed' # destroyed]_vars
  <2>. SUFFICES ASSUME Shape, Guarded, [Next]_vars, element # "none"
                PROVE  element' = element \/ destroyed' # destroyed
    OBVIOUS
  <2>1. ASSUME NEW t \in Threads, Resolve(t) PROVE FALSE
    BY <2>1 DEF Resolve, Guarded, Inside
  <2>2. ASSUME NEW t \in Threads, Destroy(t) PROVE destroyed' # destroyed
    BY <2>2, BoundsAssumption DEF Destroy, Shape
  <2>3. ASSUME NEW t \in Threads, NEW c \in Calls, Enter(t, c) PROVE element' = element
    BY <2>3 DEF Enter
  <2>4. ASSUME NEW t \in Threads, NEW o \in Objects, Release(t, o)
        PROVE  element' = element
    BY <2>4 DEF Release
  <2>5. ASSUME NEW t \in Threads,
               Cached(t) \/ NotCached(t) \/ Convert(t) \/ ConvertFails(t)
        PROVE  element' = element
    BY <2>5 DEF Cached, NotCached, Convert, ConvertFails
  <2>6. ASSUME NEW t \in Threads, StopWorld(t) \/ StartWorld(t)
        PROVE  element' = element
    BY <2>6 DEF StopWorld, StartWorld
  <2>7. CASE UNCHANGED vars
    BY <2>7 DEF vars
  <2>. QED
    BY <2>1, <2>2, <2>3, <2>4, <2>5, <2>6, <2>7 DEF Next, Method
<1>. QED
  BY <1>1, ShapeInvariant, GuardedInvariant, PTL DEF Spec, ElementStays

-----------------------------------------------------------------------------
(* The references.                                                         *)

\* What is kept and held of object o, and what is counted, may differ by d.
Spare(o) == refs[o] - (Cardinality(Entries(o)) + Cardinality(Holders(o)))

\* The slots that refer to an object after a step can be counted ...
LEMMA EntriesNext ==
  ASSUME NEW o PROVE Cardinality(Entries(o)') \in Nat
<1>1. Entries(o)' \in SUBSET Slots
  BY DEF Entries
<1>. QED  BY <1>1, SlotsFinite, FS_Subset, FS_CardinalityType

\* ... and so can the threads.
LEMMA HoldersNext ==
  ASSUME NEW o PROVE Cardinality(Holders(o)') \in Nat
<1>1. Holders(o)' \in SUBSET Threads
  BY DEF Holders
<1>. QED  BY <1>1, FiniteAssumption, FS_Subset, FS_CardinalityType

\* The binding counts what it gives.
LEMMA GiveHolders ==
  ASSUME Shape, NEW t \in Threads, NEW k \in Objects, NEW count \in [Objects -> Int],
         Give(t, k, count), NEW o \in Objects
  PROVE  refs'[o] - Cardinality(Holders(o)') = count[o] - Cardinality(Holders(o))
<1>1. CASE o = k /\ k \notin held[t]
  <2>1. Holders(o)' = Holders(o) \cup {t} /\ t \notin Holders(o)
    BY <1>1 DEF Give, Holders, Shape
  <2>2. Cardinality(Holders(o)') = Cardinality(Holders(o)) + 1
    BY <2>1, Finite, FS_AddElement
  <2>3. refs'[o] = count[o] + 1
    BY <1>1 DEF Give
  <2>4. count[o] \in Int
    OBVIOUS
  <2>. QED  BY <2>2, <2>3, <2>4, Finite
<1>2. CASE ~(o = k /\ k \notin held[t])
  <2>1. Holders(o)' = Holders(o)
    BY <1>2 DEF Give, Holders, Shape
  <2>2. refs'[o] = count[o]
    BY <1>2 DEF Give
  <2>. QED  BY <2>1, <2>2
<1>. QED  BY <1>1, <1>2

\* An object that is not made yet is not referred to.
LEMMA Unmade ==
  ASSUME Shape, NEW o \in Objects, o > made
  PROVE  Entries(o) = {} /\ Holders(o) = {}
<1>1. o \in Nat /\ made \in Nat
  BY BoundsAssumption DEF Objects, Shape
<1>. QED  BY <1>1 DEF Entries, Holders, Shape

\* An object that a slot gives up is one entry less.
LEMMA SlotCount ==
  ASSUME Shape, NEW s \in Slots, NEW k \in 0..MaxObjects,
         slot' = [slot EXCEPT ![s] = k], NEW o \in Objects, o # k
  PROVE  /\ Cardinality(Entries(o)') <= Cardinality(Entries(o))
         /\ slot[s] # o => Entries(o)' = Entries(o)
<1>1. Entries(o)' = Entries(o) \ {s}
  BY DEF Entries, Shape
<1>2. slot[s] # o => s \notin Entries(o)
  BY DEF Entries
<1>3. Cardinality(Entries(o)') <= Cardinality(Entries(o))
  <2>1. IsFiniteSet(Entries(o)) /\ Entries(o)' \in SUBSET Entries(o)
    BY <1>1, Finite
  <2>. QED  BY <2>1, FS_Subset
<1>. QED  BY <1>1, <1>2, <1>3

\* No step takes a spare reference that is not there, and only an overwritten
\* slot leaves one.
LEMMA SpareStep ==
  ASSUME Shape, [Next]_vars, NEW o \in Objects, o <= made \/ Spare(o) = 0
  PROVE  /\ Spare(o)' >= Spare(o)
         /\ Guarded \/ o > made => Spare(o)' = Spare(o)
<1>0. Spare(o) \in Int /\ o \in Nat /\ made \in Nat
  BY Finite, BoundsAssumption DEF Spare, Shape, Objects
<1>1. CASE UNCHANGED <<refs, slot, held>>
  BY <1>0, <1>1 DEF Spare, Entries, Holders
<1>2. ASSUME NEW t \in Threads, Cached(t) PROVE Spare(o)' = Spare(o)
  <2>1. CASE UNCHANGED <<refs, held>>
    BY <1>2, <2>1 DEF Cached, Spare, Entries, Holders
  <2>2. CASE call[t] \in Slots /\ slot[call[t]] # 0 /\ Give(t, slot[call[t]], refs)
    <3>1. slot[call[t]] \in Objects /\ refs \in [Objects -> Int]
      BY <2>2, BoundsAssumption DEF Shape, Objects
    <3>2. refs'[o] - Cardinality(Holders(o)') = refs[o] - Cardinality(Holders(o))
      BY <2>2, <3>1, GiveHolders
    <3>3. Entries(o)' = Entries(o)
      BY <1>2 DEF Cached, Entries
    <3>4. refs'[o] \in Int /\ refs[o] \in Int
      BY <2>2, <3>1, GiveShape
    <3>5. Cardinality(Holders(o)') \in Nat
      BY <2>2, <3>1, HoldersNext
    <3>. QED  BY <3>2, <3>3, <3>4, <3>5, Finite DEF Spare
  <2>. QED  BY <1>2, <2>1, <2>2 DEF Cached
<1>3. ASSUME NEW t \in Threads, Convert(t)
      PROVE  Spare(o)' >= Spare(o) /\ (Guarded \/ o > made => Spare(o)' = Spare(o))
  <2>. DEFINE k == made + 1
              s == call[t]
              count == [refs EXCEPT ![k] = 1]
  <2>1. /\ k \in Objects /\ k \in 0..MaxObjects /\ k # 0 /\ s \in Slots
        /\ count \in [Objects -> Int]
    BY <1>3, BoundsAssumption DEF Convert, Shape, Objects
  <2>2. slot' = [slot EXCEPT ![s] = k] /\ Give(t, k, count)
    BY <1>3 DEF Convert
  <2>3. refs'[o] - Cardinality(Holders(o)') = count[o] - Cardinality(Holders(o))
    BY <2>1, <2>2, GiveHolders
  <2>4. Guarded \/ o > made => slot[s] # o
    BY <1>0, <1>3, <2>1, BoundsAssumption DEF Convert, Guarded, Inside, Shape, Objects
  <2>5. refs'[o] \in Int /\ count[o] \in Int /\ refs[o] \in Int
    BY <2>1, <2>2, GiveShape DEF Shape
  <2>6. Cardinality(Holders(o)') \in Nat
    BY <2>1, <2>2, HoldersNext
  <2>. HIDE DEF count
  <2>7. CASE o = k
    <3>1. Entries(o) = {} /\ Holders(o) = {}
      BY <1>0, <2>7, Unmade
    <3>2. Entries(o)' = {} \cup {s}
      BY <2>1, <2>2, <2>7, <3>1 DEF Entries, Shape
    <3>3. /\ Cardinality(Entries(o)') = 1
          /\ Cardinality(Entries(o)) = 0 /\ Cardinality(Holders(o)) = 0
      <4>1. IsFiniteSet({}) /\ Cardinality({}) = 0
        BY FS_EmptySet
      <4>2. Cardinality({} \cup {s}) = 1
        <5>1. {} \cup {s} = {s}
          OBVIOUS
        <5>. QED  BY <5>1, FS_Singleton
      <4>. QED  BY <3>1, <3>2, <4>1, <4>2
    <3>4. count[o] = 1
      BY <2>1, <2>7 DEF count, Shape
    <3>5. Spare(o) = 0
      BY <1>0, <2>7
    <3>6. Spare(o)' = 0
      BY <2>3, <2>5, <2>6, <3>3, <3>4, Finite DEF Spare
    <3>. QED  BY <3>5, <3>6
  <2>8. CASE o # k
    <3>1. count[o] = refs[o]
      BY <2>8 DEF count, Shape
    <3>2. /\ Cardinality(Entries(o)') <= Cardinality(Entries(o))
          /\ slot[s] # o => Entries(o)' = Entries(o)
      BY <2>1, <2>2, <2>8, SlotCount
    <3>3. Cardinality(Entries(o)') \in Nat
      BY EntriesNext
    <3>. QED  BY <2>3, <2>4, <2>5, <2>6, <3>1, <3>2, <3>3, Finite DEF Spare
  <2>. QED  BY <2>7, <2>8
<1>4. ASSUME NEW t \in Threads, ConvertFails(t)
      PROVE  Spare(o)' >= Spare(o) /\ (Guarded \/ o > made => Spare(o)' = Spare(o))
  <2>1. call[t] \in Slots /\ slot' = [slot EXCEPT ![call[t]] = 0] /\ UNCHANGED <<refs, held>>
    BY <1>4 DEF ConvertFails, Shape
  <2>2. o # 0 /\ 0 \in 0..MaxObjects /\ refs[o] \in Int
    BY BoundsAssumption DEF Objects, Shape
  <2>3. /\ Cardinality(Entries(o)') <= Cardinality(Entries(o))
        /\ slot[call[t]] # o => Entries(o)' = Entries(o)
    BY <2>1, <2>2, SlotCount
  <2>4. Holders(o)' = Holders(o)
    BY <2>1 DEF Holders
  <2>5. Guarded \/ o > made => slot[call[t]] # o
    BY <1>0, <1>4, <2>1, <2>2 DEF ConvertFails, Guarded, Inside, Shape
  <2>6. Cardinality(Entries(o)') \in Nat
    BY EntriesNext
  <2>. QED  BY <2>1, <2>2, <2>3, <2>4, <2>5, <2>6, Finite DEF Spare
<1>5. ASSUME NEW t \in Threads, NEW k \in Objects, Release(t, k)
      PROVE  Spare(o)' = Spare(o)
  <2>1. Entries(o)' = Entries(o)
    BY <1>5 DEF Release, Entries
  <2>2. CASE o = k
    <3>1. Holders(o)' = Holders(o) \ {t} /\ t \in Holders(o)
      BY <1>5, <2>2 DEF Release, Holders, Shape
    <3>2. Cardinality(Holders(o)') = Cardinality(Holders(o)) - 1
      BY <3>1, Finite, FS_RemoveElement
    <3>3. refs'[o] = refs[o] - 1 /\ refs[o] \in Int
      BY <1>5, <2>2 DEF Release, Shape
    <3>. QED  BY <2>1, <3>2, <3>3, Finite DEF Spare
  <2>3. CASE o # k
    <3>1. Holders(o)' = Holders(o) /\ refs'[o] = refs[o]
      BY <1>5, <2>3 DEF Release, Holders, Shape
    <3>. QED  BY <2>1, <3>1 DEF Spare
  <2>. QED  BY <2>2, <2>3
<1>6. ASSUME NEW t \in Threads, Destroy(t) PROVE Spare(o)' = Spare(o)
  <2>1. refs'[o] = refs[o] - Cardinality(Entries(o)) /\ refs[o] \in Int
    BY <1>6 DEF Destroy, Entries, Shape
  <2>2. Entries(o)' = {} /\ Holders(o)' = Holders(o)
    BY <1>6, BoundsAssumption DEF Destroy, Entries, Holders, Objects
  <2>3. Cardinality(Entries(o)') = 0
    BY <2>2, FS_EmptySet
  <2>. QED  BY <2>1, <2>2, <2>3, Finite DEF Spare
<1>7. ASSUME NEW t \in Threads, NEW c \in Calls, Enter(t, c)
      PROVE  UNCHANGED <<refs, slot, held>>
  BY <1>7 DEF Enter
<1>8. ASSUME NEW t \in Threads, NotCached(t) \/ Resolve(t)
      PROVE  UNCHANGED <<refs, slot, held>>
  BY <1>8 DEF NotCached, Resolve
<1>9. ASSUME NEW t \in Threads, StopWorld(t) \/ StartWorld(t)
      PROVE  UNCHANGED <<refs, slot, held>>
  BY <1>9 DEF StopWorld, StartWorld
<1>10. CASE UNCHANGED vars
  BY <1>1, <1>10 DEF vars
<1>. QED
  BY <1>0, <1>1, <1>2, <1>3, <1>4, <1>5, <1>6, <1>7, <1>8, <1>9, <1>10 DEF Next, Method

\* There is a reference for everything that refers to an object.
SpareInv == \A o \in Objects : Spare(o) >= 0 /\ (o > made => Spare(o) = 0)

\* There is no other either.
ExactInv == \A o \in Objects : Spare(o) = 0

\* At first there are no objects.
LEMMA SpareInit == Init => SpareInv /\ ExactInv
<1>. SUFFICES ASSUME Init, NEW o \in Objects PROVE Spare(o) = 0
  BY DEF SpareInv, ExactInv
<1>1. Entries(o) = {} /\ Holders(o) = {}
  BY BoundsAssumption DEF Init, Entries, Holders, Objects
<1>. QED  BY <1>1, FS_EmptySet DEF Init, Spare

\* The number of objects made never shrinks.
LEMMA MadeGrows == Shape /\ [Next]_vars => made' >= made /\ made \in Nat
<1>. SUFFICES ASSUME Shape, [Next]_vars PROVE made' >= made /\ made \in Nat
  OBVIOUS
<1>1. made \in Nat
  BY BoundsAssumption DEF Shape
<1>2. made' = made \/ made' = made + 1
  BY DEF Next, Method, Enter, Cached, NotCached, Resolve, Convert, ConvertFails,
         Release, Destroy, StopWorld, StartWorld, vars
<1>. QED  BY <1>1, <1>2

\* In any build, no object is released while the value or a thread has it
\* (py_cel_value.cc:61-77, 104-147).
THEOREM NoneReleased == Spec => []ReferencesSuffice
<1>1. Init => SpareInv
  BY SpareInit
<1>2. Shape /\ SpareInv /\ [Next]_vars => SpareInv'
  <2>. SUFFICES ASSUME Shape, SpareInv, [Next]_vars, NEW o \in Objects
                PROVE  Spare(o)' >= 0 /\ (o > made' => Spare(o)' = 0)
    BY DEF SpareInv
  <2>1. o \in Nat /\ made \in Nat /\ made' \in Nat /\ made' >= made
    BY MadeGrows, ShapeStep, BoundsAssumption DEF Objects, Shape
  <2>2. o <= made \/ Spare(o) = 0
    BY <2>1 DEF SpareInv
  <2>3. /\ Spare(o)' >= Spare(o)
        /\ Guarded \/ o > made => Spare(o)' = Spare(o)
    BY <2>2, SpareStep
  <2>4. Spare(o) \in Int /\ Spare(o)' \in Int
    <3>1. refs[o] \in Int /\ refs'[o] \in Int
      BY ShapeStep DEF Shape
    <3>. QED  BY <3>1, Finite, EntriesNext, HoldersNext DEF Spare
  <2>. QED  BY <2>1, <2>3, <2>4 DEF SpareInv
<1>3. Shape /\ SpareInv => ReferencesSuffice
  <2>. SUFFICES ASSUME Shape, SpareInv, NEW o \in Objects
                PROVE  refs[o] >= Cardinality(Entries(o)) + Cardinality(Holders(o))
    BY DEF ReferencesSuffice
  <2>1. refs[o] \in Int /\ Spare(o) >= 0
    BY DEF Shape, SpareInv
  <2>. QED  BY <2>1, Finite DEF Spare
<1>. QED  BY <1>1, <1>2, <1>3, ShapeInvariant, PTL DEF Spec

\* Where conversions exclude each other, no reference is lost either.
THEOREM NoneLost ==
  ASSUME Exclusive PROVE Spec => []ReferencesAccounted
<1>1. Init => ExactInv
  BY SpareInit
<1>2. Shape /\ Guarded /\ ExactInv /\ [Next]_vars => ExactInv'
  <2>. SUFFICES ASSUME Shape, Guarded, ExactInv, [Next]_vars, NEW o \in Objects
                PROVE  Spare(o)' = 0
    BY DEF ExactInv
  <2>. QED  BY SpareStep DEF ExactInv
<1>3. Shape /\ ExactInv => ReferencesAccounted
  <2>. SUFFICES ASSUME Shape, ExactInv, NEW o \in Objects
                PROVE  refs[o] = Cardinality(Entries(o)) + Cardinality(Holders(o))
    BY DEF ReferencesAccounted
  <2>1. refs[o] \in Int /\ Spare(o) = 0
    BY DEF Shape, ExactInv
  <2>. QED  BY <2>1, Finite DEF Spare
<1>. QED  BY <1>1, <1>2, <1>3, ShapeInvariant, GuardedInvariant, PTL DEF Spec

\* The variables have their types, and reference counts are never negative.
THEOREM TypeCorrect == Spec => []TypeOK
<1>1. Shape /\ ReferencesSuffice => TypeOK
  <2>. SUFFICES ASSUME Shape, ReferencesSuffice PROVE TypeOK
    OBVIOUS
  <2>1. \A o \in Objects : refs[o] \in Int /\ refs[o] >= 0
    BY Finite DEF Shape, ReferencesSuffice
  <2>2. refs \in [Objects -> Nat]
    BY <2>1 DEF Shape
  <2>. QED  BY <2>2 DEF Shape, TypeOK
<1>. QED  BY <1>1, ShapeInvariant, NoneReleased, PTL

=============================================================================
