--------------------------- MODULE MessageClasses ---------------------------
(***************************************************************************)
(* PyMessageFactory (py_message_factory.cc): the Python classes of message *)
(* types, looked up in Python once and then kept.                          *)
(*                                                                         *)
(* GetMessageClass looks into its map, asks Python without its lock, and   *)
(* looks again.  While Python runs, other threads do the same: in a build  *)
(* with the GIL because Python may switch threads, in a free-threaded one  *)
(* because only the map is locked.  What lies between two calls of Python  *)
(* is one step in either build, for nothing but the map is shared.         *)
(*                                                                         *)
(* Python may give a class that it gave before, or a new one: two threads  *)
(* that race in google.protobuf.message_factory can make two classes.      *)
(***************************************************************************)
EXTENDS Integers, FiniteSets

CONSTANTS
  Threads,       \* Python threads
  Types,         \* names of message types
  MaxClasses,    \* bound: class objects that Python makes
  MaxFactories   \* bound: factories destroyed

ASSUME FiniteAssumption == IsFiniteSet(Threads) /\ IsFiniteSet(Types)
ASSUME BoundsAssumption == MaxClasses \in Nat /\ MaxFactories \in Nat

VARIABLES
  pc,        \* pc[t]: where thread t is
  type,      \* type[t]: the message_type t asks for
  own,       \* own[t]: message_class, a new reference that t must give away
  using,     \* using[t]: the class t makes a message with, a borrowed reference
  classes,   \* message_classes_, 0 for no entry
  factory,   \* the number of factories destroyed so far
  named,     \* named[c]: the type whose class c is
  made,      \* number of classes made
  refs,      \* refs[c]: the references to c that C++ code has
  given      \* history: the factory, type and class of each message

vars == <<pc, type, own, using, classes, factory, named, made, refs, given>>

-----------------------------------------------------------------------------
(* Types.                                                                  *)

Classes == 1..MaxClasses
Known   == 0..MaxClasses

TypeOK ==
  /\ pc \in [Threads -> {"idle", "python", "emplace", "create"}]
  /\ type \in [Threads -> Types]
  /\ own \in [Threads -> Known]
  /\ using \in [Threads -> Known]
  /\ classes \in [Types -> Known]
  /\ factory \in 0..MaxFactories
  /\ named \in [Classes -> Types]
  /\ made \in Known
  /\ refs \in [Classes -> Nat]
  /\ given \subseteq [factory : 0..MaxFactories, type : Types, class : Known]

Init ==
  /\ pc = [t \in Threads |-> "idle"]
  /\ \E y \in Types :
       /\ type = [t \in Threads |-> y]
       /\ named = [c \in Classes |-> y]
  /\ own = [t \in Threads |-> 0]
  /\ using = [t \in Threads |-> 0]
  /\ classes = [y \in Types |-> 0]
  /\ factory = 0
  /\ made = 0
  /\ refs = [c \in Classes |-> 0]
  /\ given = {}

-----------------------------------------------------------------------------
(* Actions.                                                                *)

\* FromString, and GetMessageClass as far as its first look into the map.
FromString(t, y) ==
  /\ pc[t] = "idle"
  /\ type' = [type EXCEPT ![t] = y]
  /\ \/ /\ classes[y] # 0
        /\ using' = [using EXCEPT ![t] = classes[y]]
        /\ pc' = [pc EXCEPT ![t] = "create"]
     \/ /\ classes[y] = 0
        /\ pc' = [pc EXCEPT ![t] = "python"]
        /\ UNCHANGED using
  /\ UNCHANGED <<own, classes, factory, named, made, refs, given>>

\* Python knows no such type, or no class for it: a TypeError.
NotFound(t) ==
  /\ pc[t] = "python"
  /\ pc' = [pc EXCEPT ![t] = "idle"]
  /\ UNCHANGED <<type, own, using, classes, factory, named, made, refs, given>>

\* Python returns a new reference to a class.
Found(t, c) ==
  /\ pc[t] = "python"
  /\ \/ c <= made /\ named[c] = type[t] /\ UNCHANGED <<made, named>>
     \/ /\ c = made + 1
        /\ made' = c
        /\ named' = [named EXCEPT ![c] = type[t]]
  /\ own' = [own EXCEPT ![t] = c]
  /\ refs' = [refs EXCEPT ![c] = @ + 1]
  /\ pc' = [pc EXCEPT ![t] = "emplace"]
  /\ UNCHANGED <<type, using, classes, factory, given>>

\* Mutant: message_classes_[type] = message_class, and the old one let go.
Emplace_Assign(t) ==
  /\ pc[t] = "emplace"
  /\ using' = [using EXCEPT ![t] = own[t]]
  /\ classes' = [classes EXCEPT ![type[t]] = own[t]]
  /\ refs' = [c \in Classes |-> IF c = classes[type[t]] THEN refs[c] - 1 ELSE refs[c]]
  /\ own' = [own EXCEPT ![t] = 0]
  /\ pc' = [pc EXCEPT ![t] = "create"]
  /\ UNCHANGED <<type, factory, named, made, given>>

\* Mutant: the thread's own class is dropped but used when another was faster.
Emplace_UseOwn(t) ==
  /\ pc[t] = "emplace"
  /\ using' = [using EXCEPT ![t] = own[t]]
  /\ \/ /\ classes[type[t]] = 0
        /\ classes' = [classes EXCEPT ![type[t]] = own[t]]
        /\ UNCHANGED refs
     \/ /\ classes[type[t]] # 0
        /\ refs' = [refs EXCEPT ![own[t]] = @ - 1]
        /\ UNCHANGED classes
  /\ own' = [own EXCEPT ![t] = 0]
  /\ pc' = [pc EXCEPT ![t] = "create"]
  /\ UNCHANGED <<type, factory, named, made, given>>

\* Mutant: the reference is dropped although the map has taken it.
Emplace_AlwaysDecref(t) ==
  /\ pc[t] = "emplace"
  /\ LET kept == IF classes[type[t]] = 0 THEN own[t] ELSE classes[type[t]] IN
       /\ classes' = [classes EXCEPT ![type[t]] = kept]
       /\ using' = [using EXCEPT ![t] = kept]
  /\ refs' = [refs EXCEPT ![own[t]] = @ - 1]
  /\ own' = [own EXCEPT ![t] = 0]
  /\ pc' = [pc EXCEPT ![t] = "create"]
  /\ UNCHANGED <<type, factory, named, made, given>>

\* GetMessageClass puts the class into the map, unless another thread was faster.
Emplace(t) ==
  /\ pc[t] = "emplace"
  /\ \/ /\ classes[type[t]] = 0
        /\ classes' = [classes EXCEPT ![type[t]] = own[t]]
        /\ using' = [using EXCEPT ![t] = own[t]]
        /\ UNCHANGED refs
     \/ /\ classes[type[t]] # 0
        /\ using' = [using EXCEPT ![t] = classes[type[t]]]
        /\ refs' = [refs EXCEPT ![own[t]] = @ - 1]
        /\ UNCHANGED classes
  /\ own' = [own EXCEPT ![t] = 0]
  /\ pc' = [pc EXCEPT ![t] = "create"]
  /\ UNCHANGED <<type, factory, named, made, given>>

\* FromString makes a message of that class and merges the bytes into it; both
\* run Python and may raise.
Create(t) ==
  /\ pc[t] = "create"
  /\ \/ UNCHANGED given
     \/ given' = given \cup
          {[factory |-> factory, type |-> type[t], class |-> using[t]]}
  /\ using' = [using EXCEPT ![t] = 0]
  /\ pc' = [pc EXCEPT ![t] = "idle"]
  /\ UNCHANGED <<type, own, classes, factory, named, made, refs>>

\* Mutant: the destructor lets go of nothing.
Destroy_NoDecref ==
  /\ \A t \in Threads : pc[t] = "idle"
  /\ factory < MaxFactories
  /\ factory' = factory + 1
  /\ classes' = [y \in Types |-> 0]
  /\ UNCHANGED <<pc, type, own, using, named, made, refs, given>>

\* ~PyMessageFactory, when no environment, value or evaluation needs it any more.
Destroy ==
  /\ \A t \in Threads : pc[t] = "idle"
  /\ factory < MaxFactories
  /\ factory' = factory + 1
  /\ refs' = [c \in Classes |-> refs[c] - Cardinality({y \in Types : classes[y] = c})]
  /\ classes' = [y \in Types |-> 0]
  /\ UNCHANGED <<pc, type, own, using, named, made, given>>

Next ==
  \/ \E t \in Threads : NotFound(t) \/ Emplace(t) \/ Create(t)
  \/ \E t \in Threads, y \in Types : FromString(t, y)
  \/ \E t \in Threads, c \in Classes : Found(t, c)
  \/ Destroy

Spec == Init /\ [][Next]_vars

-----------------------------------------------------------------------------
(* Properties.                                                             *)

\* A type's class is looked up until it is found and is the same from then on,
\* although the lock is not held while Python looks (py_message_factory.cc:86-118).
Cache == INSTANCE OnceCache WITH
  Keys <- Types, Objects <- Classes, Nothing <- 0, cache <- classes, owner <- factory
IsOnceCache == Cache!Spec

\* All messages of one type that a factory makes have one class: isinstance and
\* == work between the results of two threads (py_message_factory.cc:112-116).
OneClassPerType ==
  \A g, h \in given :
    g.factory = h.factory /\ g.type = h.type => g.class = h.class

\* The reference to the class is borrowed from the map: it stays good while
\* Python code runs, when other threads change the map (py_message_factory.cc:127-148).
BorrowedClassAlive ==
  \A t \in Threads : pc[t] = "create" =>
    /\ using[t] \in Classes
    /\ refs[using[t]] > 0

Entries(c) == {y \in Types : classes[y] = c}
Holders(c) == {t \in Threads : own[t] = c}

\* Every reference that Python gave is in the map, or in the hands of the
\* thread that asked, or was dropped; none is lost or dropped twice.
ReferencesAccounted ==
  \A c \in Classes : refs[c] = Cardinality(Entries(c)) + Cardinality(Holders(c))

=============================================================================
