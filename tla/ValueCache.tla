----------------------------- MODULE ValueCache -----------------------------
(***************************************************************************)
(* One PyCelValue that threads share, or one element of a list or map      *)
(* (PyCelListItemAccessor, PyCelMapItemAccessor), and the next after it    *)
(* (py_cel_value.cc): the conversion to Python objects on demand, the two  *)
(* objects kept, and FreeThreadingMutex, which guards them in a            *)
(* free-threaded build and is nothing in a build with the GIL.             *)
(*                                                                         *)
(* Python code runs inside Value() where a message is made or a packed     *)
(* element is looked up.  With the GIL, that is where threads switch; all  *)
(* else is one step.  In a free-threaded build Python code is also where a *)
(* thread stops when another one stops the world for a collection: a       *)
(* thread that waits for an absl::Mutex does not.                          *)
(***************************************************************************)
EXTENDS Integers, FiniteSets

CONSTANTS
  Threads,       \* Python threads
  NoThread,      \* nobody
  FreeThreaded,  \* TRUE in a Py_GIL_DISABLED build
  PythonRuns,    \* TRUE if looking up the element and converting it run Python code
  Accessor,      \* TRUE for an element, which must be looked up first
  MaxObjects,    \* bound: Python objects made
  MaxValues      \* bound: PyCelValues destroyed

ASSUME ThreadsAssumption == NoThread \notin Threads
ASSUME BuildAssumption ==
  FreeThreaded \in BOOLEAN /\ PythonRuns \in BOOLEAN /\ Accessor \in BOOLEAN
ASSUME FiniteAssumption == IsFiniteSet(Threads)
ASSUME BoundsAssumption == MaxObjects \in Nat /\ MaxValues \in Nat

VARIABLES
  pc,       \* pc[t]: where thread t is
  call,     \* call[t]: the method t is in
  slot,     \* slot["value"] is object_, slot["plain"] is plain_object_
  element,  \* resolved_ and element_value_: "none" if not resolved
  mutex,    \* the thread that holds mutex_
  stopper,  \* the thread that stops the world
  destroyed,\* PyCelValues destroyed so far
  made,     \* Python objects made
  refs,     \* refs[o]: reference count of object o
  held      \* held[t]: objects that t's Python code refers to

vars == <<pc, call, slot, element, mutex, stopper, destroyed, made, refs, held>>

-----------------------------------------------------------------------------
(* Types.                                                                  *)

Slots   == {"value", "plain"}        \* Value() and PlainValue()
Calls   == Slots \cup {"type"}       \* ... and Type(), ToString()
Objects == 1..MaxObjects

TypeOK ==
  /\ pc \in [Threads -> {"user", "lock", "resolve", "convert"}]
  /\ call \in [Threads -> Calls]
  /\ slot \in [Slots -> 0..MaxObjects]
  /\ element \in {"none", "value", "error"}
  /\ mutex \in Threads \cup {NoThread}
  /\ stopper \in Threads \cup {NoThread}
  /\ destroyed \in 0..MaxValues
  /\ made \in 0..MaxObjects
  /\ refs \in [Objects -> Nat]
  /\ held \in [Threads -> SUBSET Objects]

Fresh == IF Accessor THEN "none" ELSE "value"

Init ==
  /\ pc = [t \in Threads |-> "user"]
  /\ call = [t \in Threads |-> "value"]
  /\ slot = [s \in Slots |-> 0]
  /\ element = Fresh
  /\ mutex = NoThread
  /\ stopper = NoThread
  /\ destroyed = 0
  /\ made = 0
  /\ refs = [o \in Objects |-> 0]
  /\ held = [t \in Threads |-> {}]

-----------------------------------------------------------------------------
(* Helpers.                                                                *)

Goto(t, p) == pc' = [pc EXCEPT ![t] = p]

\* Thread t runs Python code, and stops when the world stops.
InPython(t) ==
  \/ pc[t] = "user"
  \/ PythonRuns /\ pc[t] \in {"resolve", "convert"}

\* With the GIL, native code runs to its end before another thread runs.
MayRun(t) ==
  /\ stopper # NoThread => ~InPython(t)
  /\ FreeThreaded \/ \A u \in Threads \ {t} : pc[u] # "user" => InPython(u) \/ pc[u] = "lock"

Unlocked == FreeThreaded => mutex = NoThread
Lock(t)  == mutex' = IF FreeThreaded THEN t ELSE mutex
Unlock   == mutex' = NoThread

\* Mutant: the binding passes the reference of the cache on.
Give_Steal(t, o, count) ==
  /\ refs' = count
  /\ held' = [held EXCEPT ![t] = @ \cup {o}]

\* The binding returns a new reference (reinterpret_borrow); a thread drops a
\* second reference to an object at once.
Give(t, o, count) ==
  /\ refs' = IF o \in held[t] THEN count ELSE [count EXCEPT ![o] = @ + 1]
  /\ held' = [held EXCEPT ![t] = @ \cup {o}]

-----------------------------------------------------------------------------
(* Actions.                                                                *)

\* Python code calls a method; Type() and ToString() of a PyCelValue that is
\* not an accessor read nothing that changes.
Enter(t, c) ==
  /\ pc[t] = "user" /\ MayRun(t)
  /\ c = "type" => Accessor
  /\ call' = [call EXCEPT ![t] = c]
  /\ Goto(t, "lock")
  /\ UNCHANGED <<slot, element, mutex, stopper, destroyed, made, refs, held>>

\* The lock is taken, the object is there, the lock is released.
Cached(t) ==
  /\ pc[t] = "lock" /\ MayRun(t) /\ Unlocked
  /\ \/ call[t] = "type" /\ element # "none" /\ UNCHANGED <<refs, held>>
     \/ /\ call[t] \in Slots
        /\ slot[call[t]] # 0
        /\ Give(t, slot[call[t]], refs)
  /\ Goto(t, "user")
  /\ UNCHANGED <<call, slot, element, mutex, stopper, destroyed, made>>

\* Mutant: the lock guards the look but not the conversion.
NotCached_Unlock(t) ==
  /\ pc[t] = "lock" /\ MayRun(t) /\ Unlocked
  /\ call[t] \in Slots => slot[call[t]] = 0
  /\ call[t] = "type" => element = "none"
  /\ Goto(t, IF element = "none" THEN "resolve" ELSE "convert")
  /\ UNCHANGED <<call, slot, element, mutex, stopper, destroyed, made, refs, held>>

\* The lock is taken and kept: the element is looked up, or converted.
NotCached(t) ==
  /\ pc[t] = "lock" /\ MayRun(t) /\ Unlocked
  /\ call[t] \in Slots => slot[call[t]] = 0
  /\ call[t] = "type" => element = "none"
  /\ Lock(t)
  /\ Goto(t, IF element = "none" THEN "resolve" ELSE "convert")
  /\ UNCHANGED <<call, slot, element, stopper, destroyed, made, refs, held>>

\* ResolveElementLocked: the element or an ErrorValue, for good.
Resolve(t) ==
  /\ pc[t] = "resolve" /\ MayRun(t)
  /\ element' \in {"value", "error"}
  /\ \/ call[t] = "type" /\ Goto(t, "user") /\ Unlock
     \/ call[t] \in Slots /\ Goto(t, "convert") /\ UNCHANGED mutex
  /\ UNCHANGED <<call, slot, stopper, destroyed, made, refs, held>>

\* CelValueToPyObject makes an object, which is kept and returned.
Convert(t) ==
  /\ pc[t] = "convert" /\ MayRun(t)
  /\ made < MaxObjects
  /\ made' = made + 1
  /\ slot' = [slot EXCEPT ![call[t]] = made + 1]
  /\ Give(t, made + 1, [refs EXCEPT ![made + 1] = 1])
  /\ Goto(t, "user")
  /\ Unlock
  /\ UNCHANGED <<call, element, stopper, destroyed>>

\* ... or returns nullptr, which is kept too, and the binding throws.
ConvertFails(t) ==
  /\ pc[t] = "convert" /\ MayRun(t)
  /\ slot' = [slot EXCEPT ![call[t]] = 0]
  /\ Goto(t, "user")
  /\ Unlock
  /\ UNCHANGED <<call, element, stopper, destroyed, made, refs, held>>

\* Python code drops an object.
Release(t, o) ==
  /\ pc[t] = "user" /\ MayRun(t)
  /\ o \in held[t]
  /\ held' = [held EXCEPT ![t] = @ \ {o}]
  /\ refs' = [refs EXCEPT ![o] = @ - 1]
  /\ UNCHANGED <<pc, call, slot, element, mutex, stopper, destroyed, made>>

\* Mutant: the destructor forgets plain_object_.
Destroy_ValueOnly(t) ==
  /\ MayRun(t)
  /\ \A u \in Threads : pc[u] = "user"
  /\ destroyed < MaxValues
  /\ destroyed' = destroyed + 1
  /\ refs' = [o \in Objects |-> IF slot["value"] = o THEN refs[o] - 1 ELSE refs[o]]
  /\ slot' = [s \in Slots |-> 0]
  /\ element' = Fresh
  /\ UNCHANGED <<pc, call, mutex, stopper, made, held>>

\* ~PyCelValue, when Python code has dropped it; then there is another one.
Destroy(t) ==
  /\ MayRun(t)
  /\ \A u \in Threads : pc[u] = "user"
  /\ destroyed < MaxValues
  /\ destroyed' = destroyed + 1
  /\ refs' = [o \in Objects |-> refs[o] - Cardinality({s \in Slots : slot[s] = o})]
  /\ slot' = [s \in Slots |-> 0]
  /\ element' = Fresh
  /\ UNCHANGED <<pc, call, mutex, stopper, made, held>>

\* A collection in a free-threaded build: t waits until all threads that run
\* are in Python code, and lets them go on.
StopWorld(t) ==
  /\ FreeThreaded
  /\ stopper = NoThread
  /\ InPython(t)
  /\ stopper' = t
  /\ UNCHANGED <<pc, call, slot, element, mutex, destroyed, made, refs, held>>

StartWorld(t) ==
  /\ stopper = t
  /\ \A u \in Threads : InPython(u)
  /\ stopper' = NoThread
  /\ UNCHANGED <<pc, call, slot, element, mutex, destroyed, made, refs, held>>

\* What a thread does in a method once it has called it.
Method(t) ==
  Cached(t) \/ NotCached(t) \/ Resolve(t) \/ Convert(t) \/ ConvertFails(t)

Next ==
  \E t \in Threads :
    \/ Method(t)
    \/ \E c \in Calls : Enter(t, c)
    \/ \E o \in Objects : Release(t, o)
    \/ Destroy(t)
    \/ StopWorld(t)
    \/ StartWorld(t)

Spec == Init /\ [][Next]_vars

-----------------------------------------------------------------------------
(* Properties.                                                             *)

\* "... caches the Python object for the lifetime of the CelValue"
\* (py_cel_value.h:39-40): an object once made is what every later call
\* returns.  py_cel_value.cc:119-147 and its copies in the accessors.
Cache == INSTANCE OnceCache WITH
  Keys <- Slots, Nothing <- 0, cache <- slot, owner <- destroyed
CachedForLife == Cache!Spec

\* An element, or the error in its place, stays what it was found to be: type()
\* and value() of one accessor agree (py_cel_value.cc:187-203, 260-274).
ElementStays ==
  [][element # "none" => element' = element \/ destroyed' # destroyed]_vars

Entries(o) == {s \in Slots : slot[s] = o}
Holders(o) == {t \in Threads : o \in held[t]}

\* Every reference is one that the value or a thread has: none is lost.
ReferencesAccounted ==
  \A o \in Objects : refs[o] = Cardinality(Entries(o)) + Cardinality(Holders(o))

\* No object is released while the value or a thread has it, in any build.
ReferencesSuffice ==
  \A o \in Objects : refs[o] >= Cardinality(Entries(o)) + Cardinality(Holders(o))

\* Nobody waits for a lock whose holder has stopped for somebody who waits for
\* those who do not stop: value() is for "concurrently access[ing] ... shared
\* instances" (cel_parallel_test.py:225-226).
NoStall ==
  ~ \E t, u \in Threads :
      /\ stopper # NoThread
      /\ pc[t] = "lock"
      /\ mutex = u /\ InPython(u)

=============================================================================
