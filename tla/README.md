# Formal models of cel-python

cel-python wraps the C++ implementation of the Common Expression Language
(cel-cpp) for Python. A Python program makes an environment (`NewEnv`), compiles
expressions in it, and evaluates them, possibly from many threads, with
variables and functions that are Python objects. The directory models the C++
layer in `src/cel_expr_python/` that sits between the interpreter and cel-cpp.

## The system

| Component | State | Operations | Talks to |
|---|---|---|---|
| Environment facade (`py_cel_env.cc`) | a shared pointer to the internals | NewEnv, compile, deserialize, Activation; releases the GIL around compile and deserialize | environment internals, expressions |
| Environment internals (`py_cel_env_internal.cc`) | the configuration, a descriptor pool over a Python pool, a compiler and two runtimes, each built once on demand, the types of the variables, the Python functions | merge of the configuration, GetCompiler, GetRuntime, GetVariableType | cel-cpp, descriptor database, extensions |
| Expressions (`py_cel_expression.cc`) | a parsed or checked expression, a program made on demand under a mutex | Compile, Deserialize, Eval, Serialize, GetReturnType | environment internals, activations, values |
| Descriptor database (`py_descriptor_database.cc`) | a Python descriptor pool | three lookups, called by the protobuf pool with its mutex held | the interpreter (takes the GIL), pending errors |
| Python errors (`py_error_status.cc`) | a thread_local slot with a noted exception | noteAndClear, toStatus, conversion to an exception | everybody |
| Functions (`py_cel_function.cc`) | a reference to a Python function | Invoke: arguments to Python, call, result to CEL | arenas, values, errors |
| Values (`py_cel_value.cc`) | a CEL value, the Python objects made from it (a cache), elements resolved on demand | value, plain_value, type, conversions both ways | message factory, pool, arenas |
| Message factory (`py_message_factory.cc`) | a cache from type names to Python classes | GetMessageClass, FromString | the interpreter |
| Arenas (`py_cel_arena.cc`) | a registry, one per thread, from protobuf arenas to their owners; an instance count | NewArena, destructor, FromProtoArena | functions, values, expressions |
| Activations (`py_cel_activation.cc`) | the variables, functions and arena of an evaluation | constructor | providers, functions, arenas |
| Python extensions (`py_cel_python_extension.cc`) | the declarations a subclass of `CelExtension` returns | ConfigureChecker, ConfigureRuntime | types, functions, environment internals |
| Overloads (`py_cel_overload.cc`, `py_cel_function_decl.cc`) | immutable | constructors from a signature or from an id and parameters | types, environment internals |
| Types (`py_cel_type.cc`) | immutable | conversions to and from CEL types, configuration types and type protos, assignability | values, configuration |
| Free-threading mutex (`free_threading_mutex.h`) | a mutex in a build without a GIL, nothing otherwise | Lock, Unlock | values, message factory |

The difficult part is the boundary between two locking regimes. Python code
holds the GIL; C++ code holds mutexes of its own (an expression's, the
`once_flag`s of the environment, the descriptor pool's) and calls Python back
from below them, on any thread. Whatever is shared is therefore touched by
several threads in orders that depend on where the GIL is given up, and errors
raised in Python below C++ frames that cannot carry them take a detour.

What makes each component correct:

- expressions and environment internals: no deadlock, one builder for the
  compiler and each runtime, one program per expression and from the right
  runtime, the program outlives the evaluations that use it, every call returns;
- errors: an exception of the Python pool is not hidden by a successful
  compilation, and is reported once, in its thread;
- arenas: a function never gets another arena than that of the evaluation that
  calls it, and it gets that one if its thread made it; an arena that another
  thread made may not be found; the instance count is that of the live arenas;
- message factory and values: a class or an object that has been made is the
  one everybody gets, no reference is lost and none is released twice, although
  Python code of other threads runs in the middle of making it;
- conversions of values: what is made of a list or a dict that other threads
  change was in it, every exception of a conversion is cleared or reported as the
  fault of the object that has it, and an object that goes to a function and back
  is the same value;
- configuration and types: an environment made from another one's configuration
  says the same of everything the other one declared, two declarations of one
  thing never replace each other, a type means the same after its way
  through a configuration, cel-cpp and a compiled expression, and a late-bound
  call finds the function that an activation brings for it.

## Modules

| Module | Models | State and code | Steps |
|---|---|---|---|
| `CelLocking` | threads in compile, deserialize and eval, and all locks they meet | `mutex[e]` is `PyCelExpression::mutex_`, `program[e]` is `cel_program_`, `once[f]` a `once_flag` with its `StatusOr`, `pool` the descriptor pool's mutex, `gil` the threads attached to the interpreter, `frames[t]` the evaluations whose raw `Program*` is in use | one per stretch of code between two points at which a thread can wait or another one can run: `Compile`, `EnterOnce`, `FinishBuild`, `Lookup`, `PoolMiss`, `DatabaseReturn`, `Eval`, `ProgramCached`, `ProgramMissing`, `CreateProgram`, `CallPython`, ... |
| `ProgramContract` | what an expression promises about its program | `kind`, `program` | `Create`, `Build` |
| `PendingErrors` | exceptions between PyDescriptorDatabase and the code that reports them | `slot[t]` is the thread_local `PendingPyError()`, `stack[t]` the nested calls of the library | one per piece of code between two places that note, take or report an exception |
| `ArenaRegistry` | PyCelArena, its thread_local map, its count | `registry[t]` is `GetArenaMap()`, `instances` is `instance_count_`, `refs` and `evals` who holds an arena | `NewArena`, `Share`, `Drop`, `Eval`, `InvokeWithArena`, `ArenaReleased`, `ArenaUnknown`, `FinishEval`, `ReplaceThread` |
| `OnceCache` | what a cache of Python objects promises | `cache`, `owner` | `Fill`, `Destroy` |
| `MessageClasses` | PyMessageFactory | `classes` is `message_classes_`, `refs` the references C++ has | `FromString`, `Found`, `NotFound`, `Emplace`, `Create`, `Destroy` |
| `ValueCache` | a PyCelValue or element accessor with its two Python objects, and FreeThreadingMutex | `slot` is `object_` and `plain_object_`, `element` is `resolved_` and `element_value_`, `mutex` is `mutex_`, `stopper` a stop-the-world collection | `Enter`, `Cached`, `NotCached`, `Resolve`, `Convert`, `ConvertFails`, `Release`, `Destroy`, `StopWorld`, `StartWorld` |
| `Conversion` | PyObjectToCelValue and CelValueToPyObject, and what calls them: the value provider, the function adapter, plain_value() | `stack` is the thread's C++ stack with the local variables of each conversion (the size of a list, the position of PyDict_Next, the items converted so far), `step` the next call, result or turn of a loop; `exc` is the thread's Python exception, `slot` its `PendingPyError()`; `contents` are the lists and dicts of the host program | one per case of the two switches and per turn of their loops (`ConvertDyn`, `ConvertNumber`, `ConvertMessage`, `FinishMessage`, `NextItem`, `PutEntry`, `NextPythonItem`, ...), `Provide`, `Invoke`, `CallFunction`, `FunctionReturns`, ..., and `Edit`, what other threads do to a container meanwhile |
| `CelTypes` | PyCelType and its conversions | a type is a record of kind, name and parameters; `ToTypeInfo`, `FromTypeInfo`, `ToCelType`, `FromCelType`, `FromTypeProto`, `IsAssignableFrom` are the functions of these names, `TypeInfoToType` is cel-cpp's | none, it is a module of functions |
| `EnvConfig` | NewEnv, over a chain of environments; what its functions and those of Python extensions and activations are registered as | `config` is `env_config_`, `env` the `variable_types_`, `function_impls_` and `extensions_`, `new` and `impls` the locals `config` and `impls` of NewCelEnvInternal, `left` what its loops have still to do | `NewEnv`, `AddVariable`, `AddExtension`, `MergeContainer`, `AddFunction`, `AddImplementation`, `Construct`; one per turn of a loop, each of which may return an error. `FunctionDescriptor`, `ExtensionDescriptor` and `ActivationDescriptor` are what BuildRuntime, ConfigureRuntime and the constructor of an activation make of an overload |

`CelLocking` composes the environment, the expressions, the descriptor database,
the functions and the value provider, for the locks of one are taken while those
of another are held. The other modules are components of their own: nothing they
keep is read by another one, and what they need of the rest (that Python code
runs at a certain place, that an evaluation holds an arena) is an action.
`ProgramContract` and `OnceCache` are abstract specifications; `CelLocking`
implements the first (`ContractSpec`), `MessageClasses` (`IsOnceCache`) and
`ValueCache` (`CachedForLife`) the second. `MC...` modules hold symmetry sets.
`..._Name` operators next to an action are variants of it with a plausible bug;
no behaviour uses them. They show that a property can tell the difference.

`Conversion` uses the types of `CelTypes` and looks at the errors of
`PendingErrors` from below: there, code that may note, take or report an
exception is one step; here, it is the conversion of every object. The Python
objects that `ValueCache` keeps are the ones that `Conversion` makes.

`PendingErrors` and `CelLocking` share the path of an expression through the
compiler and look at it for different things; locks do not matter for a
thread_local slot, and errors only matter for locks as early returns.

`EnvConfig` uses `CelTypes`. NewEnv runs in one thread and nothing it changes is
visible before it returns, so the order in which a call's variables and
`function_impls` are met (that of an `unordered_map`) is all that is left open.
`declared` is a history variable: what the calls of a chain were given, to
compare with what the newest environment does.

Both `ArenaRegistry` and `PendingErrors` rely on the GIL or thread_local storage
for the atomicity of their steps: an arena's reference count is a `shared_ptr`'s,
and only its own thread reads a map.

## Runs

| Run | Instance | Shows |
|---|---|---|
| `CelLocking` | GIL, 2 threads, 1 expression, nesting 2, 1 lookup or callback per section, no `Any` elements, fairness | `NoDeadlock`, `OneWayLockHierarchy`, `OnceHasOneBuilder`, `ProgramOutlivesEvaluation`, `ContractSpec` hold, and every call comes back (`LibraryAnswers`) |
| `CelLockingFreeThreaded` | no GIL, `Any` elements | the C++ locks alone do not deadlock |
| `CelLockingPacked` | GIL and `Any` elements | **`NoDeadlock` is violated** |
| `PendingErrors` | 2 threads, 3 calls, 2 exceptions | `CheckedCompilesAreClean`, `ReportedOnceInItsThread`, `PendingIsNewest` hold |
| `PendingErrorsStale` | 1 thread, 2 calls, 1 exception | **`ConversionErrorsAreItsOwn` is violated** |
| `ArenaRegistry` | 2 threads, 2 addresses, 3 arenas, 2 references, nesting 2 | `FindsTheRightArena`, `FindsOwnArenas`, `ReleasedIsForeign`, `InstancesAreLive` hold; `ArenaReleased` and `ArenaUnknown` are taken |
| `MessageClasses` | 3 threads, 2 types, 3 classes, a second factory | `OneClassPerType`, `ReferencesAccounted`, `IsOnceCache` hold |
| `ValueCacheFreeThreaded` | no GIL, 3 threads, 3 objects, conversions run Python | `CachedForLife`, `ElementStays`, `ReferencesAccounted` hold |
| `ValueCacheGilOverwrites` | GIL, conversions run Python | **`CachedForLife` is violated** |
| `ValueCacheStall` | no GIL, conversions run Python | **`NoStall` is violated** |
| `Conversion` | no GIL, a list, a dict or both, 3 versions of their contents, 35 variables of all types, 2 callbacks | `ItemsInPlace`, `EntriesAreOfTheDict`, `OnlyIndexErrorsStay`, `ErrorsAreTheirOwn`, `IdentityKeepsValues` hold |
| `EnvConfig` | 4 first configurations, 20 sets of arguments, chains as long as they come; types nested twice | `DeclaredTypesSurvive`, `LateBoundFunctionsMeet`, `ReportedTypesFit`, `ReportedIsConverted`, `RegistrationsAgree`, `AliasesMeanOneThing`, `ImplementationsKept`, `EarlierEntriesStay` hold |

### What the violations say

- `CelLockingPacked`: an element of a result list or map is looked up with the
  GIL held. If it is an `Any`, that is a lookup in the descriptor pool, whose
  mutex may be held by a thread in `PyDescriptorDatabase` that waits for the GIL.
  The one-way order of `py_cel_env.cc:203-209` is broken there.
- `PendingErrorsStale`: NewEnv, GetProgram, an unchecked compile and eval may
  leave an exception in the slot; the conversion of a good message in a later
  evaluation reports it as its own (`py_cel_value.cc:573-575`).
- `ValueCacheGilOverwrites`: with the GIL there is no mutex, and a conversion
  that runs Python code lets another thread convert the same value. Both callers
  keep good objects, two different ones; the first loses its cache reference,
  which nobody ever drops. The element of an accessor is replaced in the same way
  there: `ElementStays` is a property of the free-threaded build only.
- `ValueCacheStall`: without the GIL the mutex is held while Python code runs,
  and those who wait for it do so attached to the interpreter. A collection that
  stops the world meanwhile waits for them for ever.

### An answer that should never happen

`FromProtoArena` answers "PyCelArena released before google::protobuf::Arena." for
an entry whose arena is gone, and says of it (`py_cel_arena.cc:77-78`): "This should
never happen as long as the implementation of this class is correct." It happens in
the run `ArenaRegistry`, where it is an action, `ArenaReleased`, that TLC takes in
many of its states:

1. thread t1 makes an arena, which is entered in its map;
2. t2 drops the last reference to it; the destructor erases from t2's map, where
   there is no such entry, and t1's stays;
3. t2 makes an arena, and the allocator gives it the same address;
4. t1 evaluates with that arena, and a function that it calls is refused.

What is wrong there is that the map is thread_local and an arena is not. The run
and its theorem `ReleasedForeign` show that this is the only way: `ReleasedIsForeign`
says that the entry is about an arena that the asking thread made and another
thread destroyed. So a program whose arenas stay in their threads never sees it.
Without step 1, or with another address in step 3, t1 gets "No PyCelArena found"
(`py_cel_arena.cc:83`, `ArenaUnknown`): an arena is only found in the thread that
made it, which README.md:133-150 of the library does not say. `FindsTheRightArena`
is silent about both answers: it says that an arena that is found is the right one.

### What holds only with exceptions

The properties about types name the types they are not about; each exception is
something the code does, and TLC finds it when the exception is taken out:

- `cel.Type.TYPE`, and a type with parameters other than a list or a map, such as
  `cel.Type.Type(cel.Type.INT)`, has no case of its own in `ToTypeInfo`. It is
  stored under its printed name (`TYPE`, `TYPE<INT>`) with its parameters, which
  comes back as an abstract type of that name; assignability does not look at the
  names of such types, so `ReportedTypesFit` holds for it (`py_cel_type.cc:680`).
  As the type of a parameter it has the kind of an opaque type in a runtime, and
  `LateBoundFunctionsMeet` leaves it out (`Dispatchable`), with wrappers and with
  messages that the pool does not have;
- a DYN parameter is the wildcard of runtimes in a Python extension only: "C++
  runtime dispatcher historically uses kAny for wildcard type"
  (`py_cel_python_extension.cc:121-122`). A function of a configuration, or of an
  activation (`py_cel_activation.cc:68-70`), keeps the kind DYN there, which no
  argument has (`ArgumentsMatch`), so no call finds it. Any is the wildcard in a
  function of a configuration, and the kind of a message in an activation's, which
  the int in an Any does not have. `LateBoundFunctionsMeet` leaves out functions
  with a parameter of either type (`Dispatchable`); `greet3` of the instance is one;
- the IndexError of a list that becomes shorter while it is converted is not
  cleared (`py_cel_value.cc:830`). `OnlyIndexErrorsStay` says that it is the only
  one, and `ErrorsAreTheirOwn` that it is the only one, next to what was pending
  before, which is blamed on another object. Where `SerializePartialToString`
  raises, the error has no fault at all: the exception is cleared before it is
  asked for (`py_cel_value.cc:809-810`);
- an int that a function returns as DYN may have been a uint
  (`py_cel_type.cc:416-431`), and the items of a message's field may fail on
  their way to Python, so that the function gets the text of an error for a list
  (`py_cel_value.cc:395`): `IdentityKeepsValues` is not about either;
- a variable that is a wrapper is reported as the primitive type inside it and
  converted as a message, one that is an `Any` is reported as `ERROR`
  (`py_cel_type.cc:486`, `495`);
- ERROR becomes an abstract type of that name (and UNKNOWN would), and so does a
  message that the pool does not have;
- a map with an unsupported key in a YAML configuration is noticed by the
  constructor, which throws (`py_cel_type.cc:127`).

Chains start with configurations that list a library under its name or under its
alias, not under both (`ListedOnce`). That is an assumption about YAML files, which
nothing in the code enforces: NewEnv looks for the name and then takes the alias
(`py_cel_env_internal.cc:161-183`), so an extension that is added to a configuration
with both is compared with the version of one entry only. NewEnv itself never makes
such a configuration from one that is not (`RegistrationsAgree`).

A clash of an abbreviation with an alias or another abbreviation is accepted by
NewEnv and makes every later compilation fail in `BuildCompiler`.

### Bounds, and why they are enough

Every bound is a CONSTANT with a name: nesting and lookups in `CelLocking`
(`MaxNest`, `MaxLookups`), calls and exceptions in `PendingErrors`, arenas,
references and nesting in `ArenaRegistry`, classes and factories in
`MessageClasses`, objects and values in `ValueCache`, callbacks, versions of
containers and slots of a dict in `Conversion` (`MaxCallbacks`, `MaxVersions`,
`DictSlots`), the depth of types in `CelTypes` (`MaxTypeDepth`, 2: a conversion
treats a parameter as it treats the type itself, so that the second level shows
what every further one does). Each lets its case happen once more than the
hazard needs: two nested evaluations of one expression; a third call after an
exception has been left by one call and passed over by another; a third arena at
an address that two had; a thread that finds a class another one has made
between its own two looks; a variable that is converted after a conversion that
left an exception, and is an argument of the function that is called next; a
dict that loses an entry and is compacted under the position of the iteration.
`EnvConfig` needs no bound on the chain, since configurations only grow; its
arguments (`MCCalls`) have a pair that agrees and one that clashes for whatever
two calls could disagree about. Two threads are enough for every circle of two
locks; where a third could matter (one that looks on while two race) there are
three. The theorems hold for all numbers.

In `Conversion`, containers change only while they are being converted (one that
changed before is another first content), in a free-threaded build at any step
and with the GIL where `ProtoMessageToCelValue` has released it; the run has the
first, which allows every behaviour of the second. The host keeps a reference to
whatever was in its containers, `PyDict_Next` and `PyList_GetItem` are atomic,
no list contains itself and strings have an encoding: what the code does
otherwise is undefined, not a behaviour to check.

`CHECK_DEADLOCK FALSE` is set where a behaviour ends at a bound
(`PendingErrors`, `ArenaRegistry`) or at a crash (`Conversion`, a null pointer
that CPython is given), and for `ValueCache` in a free-threaded build
with Python in conversions, which really can stop: that is the finding of
`ValueCacheStall`.

### Fairness

`CelLocking` assumes for every thread weak fairness of giving the GIL up
(the interpreter's drop request), strong fairness of taking it (a waiting thread
sets that request, and gets the GIL among finitely many others) and strong
fairness of its steps in the library (absl::Mutex and `call_once` queue their
waiters). Nothing is assumed of Python code: a provider or function need not
return, and the property is about a thread that is in library code.

## Proofs

TLAPS proves, for all values of the constants that satisfy the named ASSUMEs
(bounds are naturals, the no-thread constant is no thread, threads and types are
finite where references are counted, no two libraries share a name or an alias,
first configurations and libraries are well formed and callers pass what the
bindings let them, no message or abstract type is named like a kind of CEL type or
is one of the messages that CEL takes for JSON values,
no container of the host program has the name that the model gives to those that
conversions make):

- `CelLockingProofs`: `TypeCorrect`, `LocksHeld`, `LockHierarchy`,
  `DeadlockFree`, `OneBuilder`, and those about programs. `LockInv` says for
  every place in the code which locks a thread there has; types and `LockInv`
  together are inductive, with one lemma per step that takes or frees an
  expression's mutex and a frame lemma (`LockQuiet`) for the others. The
  hierarchy is read off it. Freedom from deadlock gives every waiting thread a
  rank (expression, once_flag, pool, GIL): whoever blocks it has a higher one,
  so a set of threads that all wait for each other would climb for ever. A
  thread at a once_flag waits for a builder by `OneBuilder`. `FramesInv` relates
  the programs evaluations use to those expressions have: a program is made by
  the holder of the mutex only, and while there is none.
- `ArenaRegistryProofs`: `RegistryInv` is inductive. That a live arena is in the
  map of its maker, at an address no other live arena has, is what keeps the
  destructor of another arena at that address from erasing its entry. The count
  takes one step per arena whose liveness changes (`CountInv`). For
  `ReleasedForeign` three more facts are kept: an entry for an arena that is gone
  was left by another thread (`StaleForeign`), a map has only what its own thread
  made (`EntriesOwn`), and somebody destroyed every arena that is gone
  (`GoneRemoved`); once destroyed, an arena is not made again (`RemovedKept`).
- `MessageClassesProofs`: `GivenInv` adds to the types that a message of the
  present factory has the class that is in the map; references are counted as a
  sum over the map and the threads and every step changes both sides alike.
- `ValueCacheProofs`: `Guarded` says that one thread at most is between its look
  at the cache and its answer, and that the cache is empty there. It needs the
  mutex, or that no Python code runs there, which is the assumption `Exclusive`
  of the theorems about the cache. `NoneReleased` does not: `Spare`, the
  references nobody accounts for, may grow when an object is overwritten but
  never falls below zero.
- `PendingErrorsProofs`: all but two steps do the same to a stack, its last call
  goes on or returns (`Settles`), and one lemma says so. `StackInv` orders the
  calls of a stack and has all but the last one in a Python function; types and
  `StackInv` are inductive together. `ErrorSteps` reduces a step to what it does
  to the slots, the exceptions and the reports, from which `Newest` and `Once`
  follow together: that an exception is reported once needs that a slot has the
  newest, and that needs that another thread reports only its own. `CleanInv`
  adds to `CheckedCompilesAreClean` that a compile() that had an exception and is
  still on a stack has something in its thread's slot: only a call above it could
  empty that without ending it, and compile() calls no Python function.
- `ConversionProofs`: `PendingInv` says which exceptions there can be between
  Python code and the code that asks for them, and is inductive by itself
  (`ExceptionsTaken`). `BlameInv` adds what the frames of a dict remember: what is
  converted for a key is the key, and a key that became an error tells of a
  fault of its own while its value is converted; with `PendingInv` it gives
  `FaultsAreOwn`. `NestedInv` (`FramesHold`) is about the containers: it says of
  every frame what it remembers, in terms of the versions its container has had
  since the conversion began, and that frames call each other as the code does.
  Since versions are only added, an edit keeps all of it (`NestedGrows`), and a
  step that returns from a conversion turns the frame below, of which it says
  `Waits`, into the running one. `ListsKeepTheirItems`, `MapsKeepTheirEntries` and
  `ConversionTyped` are read off it. `IdentityHolds` needs what the data in the
  frames have to do with each other. `StandsFor` is the object that is made of a
  value for Python, `Becomes` the value that is made of an object for CEL, and
  that the one undoes the other (`BackAgain`, `AllBackAgain`) is a matter of these
  two only. `ConveyInv` says that values are well made (`Proper`), that each frame
  waits for the conversion that the frame above it does (`Serves`), and that what
  has been made for Python so far stands for its value, item by item. `DynInv`
  says the other half, for the result of a function that returns DYN: each object
  on the way has the type that `TypeOf` finds for it, with no exception but that
  of an item that is gone (`Gone`), for else `ForPyObject` would take the
  exception for an overflow; and what has been made of it so far is what its items
  become. Since nobody else has the containers that a conversion makes
  (`HostsAreNamed`), no edit comes in between.
- `CelTypesProofs`: what the conversions of types do, for any names and any
  depth. The sets of types and the functions on them are recursive; that a
  function's equation holds at each argument is proved by induction on the depth
  (a function with that equation exists on the types up to a depth, and two of
  them agree), for which each set is cut into layers with the parameters of a
  type one layer below it. Then `PlainTypesSurvive`, `ReportsAgree`,
  `StillAssignable` and `AdaptersReport` are inductions over the layers as well,
  with one lemma each for what a conversion does to a type whose parameters
  are as they should be.
- `EnvConfigProofs`: what the properties say of a configuration is said of the
  copy that a call works on. `ExtensionsInv`: the libraries declared before and
  those the call has been through are listed once in the copy. `GrowthInv`: the
  copy is the configuration with additions. `AliasesInv`: aliases mean one thing
  in the copy and in what the call brings. `ImplementationsInv`: what the call
  offers is kept or still to come. `ChainInv` ties the chain together: the
  configuration has the TypeInfo of every variable and overload that was
  declared (`DeclaredInv`), the copy that of every argument the call has been
  through, and the environment has the types and libraries of its configuration
  (`EnvInv`). With the theorems about types it gives `DeclaredTypes`, `Reports`
  and `ReportedFit`; for `LateBound`, the descriptors that three constructors
  make of one overload are compared parameter by parameter (`DispatchedKind`), and
  the activation's one with the kinds of the arguments (`ArgumentsTaken`).

Several of the theorems are about no property of a run: `LockInv`, `RegistryInv`
and `NestedInv`, the inductive invariants that checked ones follow from;
`BorrowedClassAlive` and `ReferencesSuffice`, which follow from
`ReferencesAccounted` where that holds (`ReferencesSuffice` is proved for builds
with the GIL too, where it does not); and the four about types, which
`EnvConfig` looks at through its own properties.

Proofs and what stood in their way have corrected `Conversion`. Its `TypeOK` had
bounded the position of PyDict_Next by a version of the dict that it need not fit,
which three versions (`MaxVersions`) do not show and four do: a dict is compacted
under the position. It now says what the code relies on, that the position was a
slot of the dict at some moment of the conversion. `IdentityHolds` needed the value
of every wrapper message and the answer for every object: the value in an
`Int32Value` is now one that an int can have, and `ConvertMessage` raises for an
object that is no message, whatever its type, as the code does.

Only model-checked: liveness (`LibraryAnswers`), which these provers do not
reach. Every other property that a passing run checks is a theorem, in
`ContractSpec`, `IsOnceCache` and `CachedForLife` as the refinement of an abstract
specification.

## Not modelled

- The type that a value reports (`ForCelValue`), which only reads, and the
  accessors that `value()` of a list or map returns as items: `ValueCache` has
  one of them, `Conversion` the items of `plain_value()`.
- Defects of a single call that no step of somebody else makes worse: references
  that are never released (the result of MergeFromString and the module in
  `py_message_factory.cc:40,50,147`, a dict that is given up half-way and the repr
  of an error's context in `py_cel_value.cc:424`), a list that contains itself
  (`py_cel_value.cc:832`), strings without an encoding (`652`), bytes that end at
  a zero byte (`666`, which `Conversion` has as `Cut`), nanos of 64 bits kept in 32
  (`769`), keys that only Python takes for equal (`450`), ids in `function_impls`
  that no overload has (`py_cel_env_internal.cc:243`), and the result of
  InsertFunction, which nobody asks for (`py_cel_activation.cc:75`).
- A method that Python code calls on a value from inside the value's own
  conversion (a finalizer that reaches it).
- References to intermediate objects of a conversion, and the table of exception
  classes (`py_error_status.cc`).
- What cel-cpp, protobuf and pybind11 do inside; they appear as the calls and
  callbacks they make.
- Types with type parameters (`py_cel_type.cc:569`), wrappers but two, and the
  messages that CEL takes for JSON values (`OtherMessagesLeftOut`). Errors of
  `cel::TypeInfoToType`, which is total in the model: the constructor's test of
  `type.ok()` (`py_cel_env_internal.cc:126`) never fails there, so that every
  variable has an entry in `variable_types_`. Refusals by the registry of cel-cpp of
  a descriptor that is registered twice, which would fail the whole runtime
  (`py_cel_env_internal.cc:330-343`).
- C++ extensions, options, samples and scripts, which keep no state.

## Plan

1. `CelLocking`, `PendingErrors`, `ArenaRegistry`, `MessageClasses`, `ValueCache`,
   `CelTypes`, `EnvConfig` and proofs: done.
2. `Conversion`, for the conversions of `py_cel_value.cc` and the containers that
   change under them, and proofs about its exceptions: done.
3. The names of a program at evaluation: the descriptors of late-bound functions,
   of Python extensions and of an activation's functions, in `EnvConfig`: done.
4. Proofs about `PendingErrors`: done.
5. Proofs of `ItemsInPlace`, `EntriesAreOfTheDict` and the properties about types:
   done.
6. A proof of `IdentityKeepsValues`: done.
7. Open: nested calls in `ValueCache`, a method of a value that Python code calls
   from inside the value's own conversion.
