---------------------------- MODULE ArenaRegistry ----------------------------
(***************************************************************************)
(* PyCelArena and its registry (py_cel_arena.cc).                          *)
(*                                                                         *)
(* cel-cpp hands a function a bare protobuf arena; Invoke needs the        *)
(* PyCelArena around it, and looks for it in a thread_local map from       *)
(* addresses to weak pointers.  The map is written by the thread that      *)
(* makes the arena and by the thread that drops the last reference to it,  *)
(* which need not be the same, and an address can be given to a new arena  *)
(* as soon as the old one is gone.                                         *)
(*                                                                         *)
(* FromProtoArena's three answers to a call of a Python function are three *)
(* actions: the arena, the error for an entry whose arena is gone, and the *)
(* error for an address without an entry.                                  *)
(*                                                                         *)
(* Arenas are numbered in the order they are made.  An arena lives as long *)
(* as Python objects (the Arena, activations, values) or evaluations refer *)
(* to it.                                                                  *)
(***************************************************************************)
EXTENDS Integers, Sequences, FiniteSets

CONSTANTS
  Threads,     \* Python threads
  NoThread,    \* the thread of an arena whose thread has ended
  Addresses,   \* addresses the allocator gives to arenas
  MaxArenas,   \* bound: arenas made in a behaviour
  MaxRefs,     \* bound: Python objects that refer to one arena
  MaxNest      \* bound: nested evaluations of one thread

ASSUME ThreadsAssumption == NoThread \notin Threads
ASSUME BoundsAssumption  == MaxArenas \in Nat /\ MaxRefs \in Nat /\ MaxNest \in Nat

VARIABLES
  made,       \* number of arenas made
  address,    \* address[i]: of arena i
  maker,      \* history: maker[i] is the thread that made arena i, while it runs
  remover,    \* history: remover[i] is the thread that destroyed arena i
  refs,       \* refs[i]: Python objects that refer to arena i
  evals,      \* evals[t]: the arenas of thread t's evaluations, innermost last
  registry,   \* registry[t][a]: GetArenaMap() of thread t, 0 for no entry
  instances,  \* instance_count_
  answer      \* answer[t]: history: the last call of FromProtoArena

vars == <<made, address, maker, remover, refs, evals, registry, instances, answer>>

-----------------------------------------------------------------------------
(* Types.                                                                  *)

Arenas  == 1..MaxArenas
Entries == 0..MaxArenas
Results == {"none", "found", "released", "unknown"}
Answers == [asked : Entries, entry : Entries, result : Results, own : BOOLEAN]

TypeOK ==
  /\ made \in Entries
  /\ address \in [Arenas -> Addresses]
  /\ maker \in [Arenas -> Threads \cup {NoThread}]
  /\ remover \in [Arenas -> Threads \cup {NoThread}]
  /\ refs \in [Arenas -> 0..MaxRefs]
  /\ evals \in [Threads -> Seq(Arenas)]
  /\ registry \in [Threads -> [Addresses -> Entries]]
  /\ instances \in Int
  /\ answer \in [Threads -> Answers]

NoAnswer == [asked |-> 0, entry |-> 0, result |-> "none", own |-> FALSE]

Init ==
  /\ made = 0
  /\ \E a \in Addresses : address = [i \in Arenas |-> a]
  /\ maker = [i \in Arenas |-> NoThread]
  /\ remover = [i \in Arenas |-> NoThread]
  /\ refs = [i \in Arenas |-> 0]
  /\ evals = [t \in Threads |-> <<>>]
  /\ registry = [t \in Threads |-> [a \in Addresses |-> 0]]
  /\ instances = 0
  /\ answer = [t \in Threads |-> NoAnswer]

-----------------------------------------------------------------------------
(* Helpers.                                                                *)

Evaluating(t, i) == \E n \in 1..Len(evals[t]) : evals[t][n] = i

\* The shared_ptr's use count is not zero.
Live(i) == refs[i] > 0 \/ \E t \in Threads : Evaluating(t, i)

Inner(t) == evals[t][Len(evals[t])]

Free(a) == \A i \in Arenas : Live(i) => address[i] # a

\* Mutant: the destructor leaves its entry in the map.
Destroy_NoErase(t, i) ==
  /\ registry' = registry
  /\ instances' = instances - 1
  /\ remover' = [remover EXCEPT ![i] = t]

\* Mutant: the destructor does not count.
Destroy_NoCount(t, i) ==
  /\ registry' = [registry EXCEPT ![t][address[i]] = 0]
  /\ instances' = instances
  /\ remover' = [remover EXCEPT ![i] = t]

\* ~PyCelArena, in the thread that drops the last reference.
Destroy(t, i) ==
  /\ registry' = [registry EXCEPT ![t][address[i]] = 0]
  /\ instances' = instances - 1
  /\ remover' = [remover EXCEPT ![i] = t]

\* A reference to arena i has been dropped by thread t.
Dropped(t, i) ==
  IF Live(i)' THEN UNCHANGED <<registry, instances, remover>> ELSE Destroy(t, i)

\* Mutant: raw pointers in the map, nothing to tell a dead arena by.
FromProtoArena_RawPointers(t, a) ==
  LET e == registry[t][a] IN
  [entry |-> e, result |-> IF e = 0 THEN "unknown" ELSE "found"]

FromProtoArena(t, a) ==
  LET e == registry[t][a] IN
  [entry  |-> e,
   result |-> CASE e = 0   -> "unknown"
                [] e # 0 /\ ~Live(e) -> "released"
                [] OTHER   -> "found"]

-----------------------------------------------------------------------------
(* Actions.                                                                *)

\* Mutant: insert() instead of operator[], which keeps an old entry.
NewArena_Insert(t) ==
  /\ made < MaxArenas
  /\ MaxRefs > 0
  /\ made' = made + 1
  /\ \E a \in Addresses :
       /\ Free(a)
       /\ address' = [address EXCEPT ![made'] = a]
       /\ registry' = [registry EXCEPT ![t][a] = IF @ = 0 THEN made' ELSE @]
  /\ maker' = [maker EXCEPT ![made'] = t]
  /\ refs' = [refs EXCEPT ![made'] = 1]
  /\ instances' = instances + 1
  /\ UNCHANGED <<remover, evals, answer>>

\* Arena(), or an Activation or eval() without one.
NewArena(t) ==
  /\ made < MaxArenas
  /\ MaxRefs > 0
  /\ made' = made + 1
  /\ \E a \in Addresses :
       /\ Free(a)
       /\ address' = [address EXCEPT ![made'] = a]
       /\ registry' = [registry EXCEPT ![t][a] = made']
  /\ maker' = [maker EXCEPT ![made'] = t]
  /\ refs' = [refs EXCEPT ![made'] = 1]
  /\ instances' = instances + 1
  /\ UNCHANGED <<remover, evals, answer>>

\* An activation, or an element of a result, takes a reference.
Share(i) ==
  /\ refs[i] > 0
  /\ refs[i] < MaxRefs
  /\ refs' = [refs EXCEPT ![i] = @ + 1]
  /\ UNCHANGED <<made, address, maker, remover, evals, registry, instances, answer>>

\* Mutant: a reference is dropped that nobody has.
Drop_Twice(t, i) ==
  /\ i <= made
  /\ refs' = [refs EXCEPT ![i] = @ - 1]
  /\ UNCHANGED <<made, address, maker, evals, answer>>
  /\ Dropped(t, i)

\* A thread deletes a Python object that refers to an arena.
Drop(t, i) ==
  /\ refs[i] > 0
  /\ refs' = [refs EXCEPT ![i] = @ - 1]
  /\ UNCHANGED <<made, address, maker, evals, answer>>
  /\ Dropped(t, i)

\* PyCelExpression::Eval takes its own reference.
Eval(t, i) ==
  /\ refs[i] > 0
  /\ Len(evals[t]) < MaxNest
  /\ evals' = [evals EXCEPT ![t] = Append(@, i)]
  /\ UNCHANGED <<made, address, maker, remover, refs, registry, instances, answer>>

\* PyCelFunctionAdapter::Invoke asks for the arena of its evaluation.  The
\* innermost evaluation stays: with an arena the Python function runs, and with
\* an error cel-cpp ends the evaluation in a step of its own.
Reply(t) == FromProtoArena(t, address[Inner(t)])

Answered(t) ==
  /\ answer' = [answer EXCEPT ![t] =
       [asked |-> Inner(t), entry |-> Reply(t).entry, result |-> Reply(t).result,
        own |-> maker[Inner(t)] = t]]
  /\ UNCHANGED <<made, address, maker, remover, refs, evals, registry, instances>>

\* The function is called with the arena.
InvokeWithArena(t) ==
  /\ evals[t] # <<>>
  /\ Reply(t).result = "found"
  /\ Answered(t)

\* "PyCelArena released before ...": the entry is about an arena that is gone.
ArenaReleased(t) ==
  /\ evals[t] # <<>>
  /\ Reply(t).result = "released"
  /\ Answered(t)

\* "No PyCelArena found": the thread has no entry for the address.
ArenaUnknown(t) ==
  /\ evals[t] # <<>>
  /\ Reply(t).result = "unknown"
  /\ Answered(t)

Invoke(t) == InvokeWithArena(t) \/ ArenaReleased(t) \/ ArenaUnknown(t)

\* The evaluation returns a value, which keeps the arena, or fails.
FinishEval(t) ==
  /\ evals[t] # <<>>
  /\ evals' = [evals EXCEPT ![t] = SubSeq(@, 1, Len(@) - 1)]
  /\ UNCHANGED <<made, address, maker, answer>>
  /\ \E i \in {Inner(t)} :
       /\ \/ UNCHANGED refs
          \/ refs[i] < MaxRefs /\ refs' = [refs EXCEPT ![i] = @ + 1]
       /\ Dropped(t, i)

\* A thread ends, and its map with it; a new one takes its place.
ReplaceThread(t) ==
  /\ evals[t] = <<>>
  /\ registry' = [registry EXCEPT ![t] = [a \in Addresses |-> 0]]
  /\ maker' = [i \in Arenas |-> IF maker[i] = t THEN NoThread ELSE maker[i]]
  /\ answer' = [answer EXCEPT ![t] = NoAnswer]
  /\ UNCHANGED <<made, address, remover, refs, evals, instances>>

Next ==
  \/ \E t \in Threads : NewArena(t) \/ Invoke(t) \/ FinishEval(t) \/ ReplaceThread(t)
  \/ \E i \in Arenas : Share(i)
  \/ \E t \in Threads, i \in Arenas : Drop(t, i) \/ Eval(t, i)

Spec == Init /\ [][Next]_vars

-----------------------------------------------------------------------------
(* Properties.                                                             *)

\* The arena that FromProtoArena finds is the evaluation's, however often its
\* address was used before (py_cel_arena.cc:72-84).  It does not say that one is
\* found.
FindsTheRightArena ==
  \A t \in Threads :
    answer[t].result = "found" => answer[t].entry = answer[t].asked

\* A thread always finds the arenas that it made itself, whatever other
\* threads drop and wherever (the single-threaded use of README.md:133-150,
\* and every eval() without an arena).  An arena that another thread made may
\* be answered with ArenaReleased or ArenaUnknown.
FindsOwnArenas ==
  \A t \in Threads : answer[t].own => answer[t].result = "found"

\* "PyCelArena released before ..." is the answer of which py_cel_arena.cc:77-78
\* says that it "should never happen as long as the implementation of this
\* class is correct".  It does happen, whenever ArenaReleased is taken: thread t
\* makes an arena, another thread drops its last reference and makes an arena
\* at the same address, and t evaluates with that one.  It happens in no other
\* way: the entry is about an arena that t made and another thread destroyed.
ReleasedIsForeign ==
  \A t \in Threads :
    answer[t].result = "released" =>
      /\ maker[answer[t].entry] = t
      /\ remover[answer[t].entry] \in Threads \ {t}

\* instance_count_ counts the live arenas, no two of them at one address: it is
\* zero when nobody holds a result any more (cel_parallel_test.py:129-130).
InstancesAreLive ==
  /\ instances = Cardinality({i \in Arenas : Live(i)})
  /\ \A i, j \in Arenas :
       Live(i) /\ Live(j) /\ address[i] = address[j] => i = j

\* The inductive invariant: a live arena is in the map of its thread, and an
\* entry is about the last arena that its thread made at that address
\* (py_cel_arena.cc:55-68).
RegistryInv ==
  /\ \A i \in Arenas : Live(i) => i <= made
  /\ \A i, j \in Arenas :
       Live(i) /\ Live(j) /\ address[i] = address[j] => i = j
  /\ \A t \in Threads, a \in Addresses :
       /\ registry[t][a] <= made
       /\ registry[t][a] # 0 => address[registry[t][a]] = a
  /\ \A i \in Arenas : Live(i) /\ maker[i] # NoThread =>
       registry[maker[i]][address[i]] = i

=============================================================================
