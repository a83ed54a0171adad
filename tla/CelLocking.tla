----------------------------- MODULE CelLocking -----------------------------
(***************************************************************************)
(* Threads that compile, deserialize and evaluate expressions of one       *)
(* PyCelEnvInternal, and the four kinds of lock they meet, in the order    *)
(* the code takes them:                                                    *)
(*                                                                         *)
(*   PyCelExpression::mutex_                 (py_cel_expression.cc:162)    *)
(*     -> compiler_once_ / *_runtime_once_   (py_cel_env_internal.cc)      *)
(*       -> DescriptorPool::mutex_           (protobuf)                    *)
(*         -> the GIL                                                      *)
(*                                                                         *)
(* A thread at pc "python" runs, or waits to run, Python code: user code   *)
(* when frames[t] is empty, otherwise a value provider or a function that  *)
(* an evaluation called back.  Every pc in PyStates needs the GIL; being   *)
(* there without it is waiting for it (gil_scoped_acquire, or the          *)
(* destructor of gil_scoped_release).                                      *)
(***************************************************************************)
EXTENDS Integers, Sequences

CONSTANTS
  Threads,         \* Python threads
  Exprs,           \* slots for Expression objects that stay referenced
  NoThread,        \* "nobody holds this mutex"
  FreeThreaded,    \* TRUE in a Py_GIL_DISABLED build: the GIL excludes nobody
  PackedElements,  \* TRUE if list and map results hold google.protobuf.Any
                   \* elements, which list.Get / map.Get resolve in the pool
  MaxNest,         \* bound: evaluations one thread has suspended in callbacks
  MaxLookups       \* bound: type lookups and callbacks of one section of code

ASSUME ThreadsAssumption == NoThread \notin Threads
ASSUME BuildAssumption   == FreeThreaded \in BOOLEAN /\ PackedElements \in BOOLEAN
ASSUME BoundsAssumption  == MaxNest \in Nat /\ MaxLookups \in Nat

VARIABLES
  pc,        \* pc[t]: where thread t is
  job,       \* job[t]: the section of library code t is in
  expr,      \* expr[t]: the expression t evaluates
  want,      \* want[t]: the kind of expression t compiles
  todo,      \* todo[t]: lookups and callbacks left in the section
  frames,    \* frames[t]: the evaluations of t that have their program
  gil,       \* the threads attached to the interpreter
  pool,      \* holder of the descriptor pool's mutex
  mutex,     \* mutex[e]: holder of PyCelExpression::mutex_
  once,      \* once[f]: the once_flag f and the StatusOr it guards
  kind,      \* kind[e]: which alternative expr_ holds
  program,   \* program[e]: cel_program_
  packed     \* TRUE once an evaluation has returned a list or map of Any elements

threadVars == <<pc, job, expr, want, todo, frames>>
vars == <<threadVars, gil, pool, mutex, once, kind, program, packed>>

-----------------------------------------------------------------------------
(* Types.                                                                  *)

Kinds     == {"parsed", "checked"}                 \* ParsedExpr, CheckedExpr
Modes     == {"standard", "ignoreWarnings"}        \* RuntimeMode
OnceFlags == {"compiler"} \cup Modes
PyStates  == {"python", "database", "status", "adapter"}
PCs       == PyStates \cup {"once", "exprLock", "work", "poolWait"}
Jobs      == {"none", "compiler", "parse", "check", "checked", "runtime",
              "program", "evaluate", "convert", "access"}

\* A Program: gen tells one CreateProgram from the next (0 is a null
\* cel_program_), mode is the runtime it was created from.
Programs == [gen : Nat, mode : Modes \cup {"none"}]
NoProgram == [gen |-> 0, mode |-> "none"]

\* An evaluation in progress: the const cel::Program* GetProgram returned.
Frames == [expr : Exprs, gen : Nat, todo : 0..MaxLookups]

TypeOK ==
  /\ pc \in [Threads -> PCs]
  /\ job \in [Threads -> Jobs]
  /\ expr \in [Threads -> Exprs]
  /\ want \in [Threads -> Kinds]
  /\ todo \in [Threads -> 0..MaxLookups]
  /\ frames \in [Threads -> Seq(Frames)]
  /\ gil \subseteq Threads
  /\ pool \in Threads \cup {NoThread}
  /\ mutex \in [Exprs -> Threads \cup {NoThread}]
  /\ once \in [OnceFlags -> {"fresh", "running", "ok", "error"}]
  /\ kind \in [Exprs -> Kinds \cup {"none"}]
  /\ program \in [Exprs -> Programs]
  /\ packed \in BOOLEAN

Init ==
  /\ pc = [t \in Threads |-> "python"]
  /\ job = [t \in Threads |-> "none"]
  /\ \E e \in Exprs : expr = [t \in Threads |-> e]
  /\ want = [t \in Threads |-> "parsed"]
  /\ todo = [t \in Threads |-> 0]
  /\ frames = [t \in Threads |-> <<>>]
  /\ gil = {}
  /\ pool = NoThread
  /\ mutex = [e \in Exprs |-> NoThread]
  /\ once = [f \in OnceFlags |-> "fresh"]
  /\ kind = [e \in Exprs |-> "none"]
  /\ program = [e \in Exprs |-> NoProgram]
  /\ packed = FALSE

-----------------------------------------------------------------------------
(* Helpers.                                                                *)

Goto(t, p)  == pc' = [pc EXCEPT ![t] = p]
Become(t, j) == job' = [job EXCEPT ![t] = j]
Detach(t)   == gil' = gil \ {t}                  \* gil_scoped_release
Running(t)  == pc[t] = "python" /\ t \in gil     \* t executes Python code

\* Mutant: every expression asks for the standard runtime.
ModeOf_AlwaysStandard(k) == "standard"

\* The runtime that fits the expression's kind.
ModeOf(k) == IF k = "parsed" THEN "ignoreWarnings" ELSE "standard"

\* The once_flag thread t is at, or inside of.
OnceOf(t) == IF job[t] = "compiler" THEN "compiler" ELSE ModeOf(kind[expr[t]])

Budget(t) == \E n \in 0..MaxLookups : todo' = [todo EXCEPT ![t] = n]

Depth(t) == Len(frames[t])
Top(t)   == frames[t][Depth(t)]
Push(t, f) == frames' = [frames EXCEPT ![t] = Append(@, f)]
Pop(t)   == frames' = [frames EXCEPT ![t] = SubSeq(@, 1, Depth(t) - 1)]

\* A call is over: its thread goes back to the Python code that made it, and
\* waits for the GIL there.
GoBack(t) == Goto(t, "python") /\ Become(t, "none")

-----------------------------------------------------------------------------
(* The GIL.                                                                *)

\* gil_scoped_acquire, ~gil_scoped_release, or the interpreter's loop taking
\* the GIL back.
TakeGil(t) ==
  /\ pc[t] \in PyStates
  /\ t \notin gil
  /\ FreeThreaded \/ gil = {}
  /\ gil' = gil \cup {t}
  /\ UNCHANGED <<threadVars, pool, mutex, once, kind, program, packed>>

\* The interpreter switches threads between two bytecodes.
YieldGil(t) ==
  /\ pc[t] \in {"python", "database", "status"}
  /\ t \in gil
  /\ Detach(t)
  /\ UNCHANGED <<threadVars, pool, mutex, once, kind, program, packed>>

-----------------------------------------------------------------------------
(* call_once, for the compiler and for the runtime of either mode.         *)

\* Mutant: an unsynchronized "if it is not built, build it".
EnterOnce_CheckThenAct(t) ==
  /\ pc[t] = "once"
  /\ once[OnceOf(t)] \in {"fresh", "running"}
  /\ once' = [once EXCEPT ![OnceOf(t)] = "running"]
  /\ Goto(t, "work")
  /\ Budget(t)
  /\ UNCHANGED <<job, expr, want, frames, gil, pool, mutex, kind, program, packed>>

\* Build{Compiler,Runtime} starts in the first thread to come.
EnterOnce(t) ==
  /\ pc[t] = "once"
  /\ once[OnceOf(t)] = "fresh"
  /\ once' = [once EXCEPT ![OnceOf(t)] = "running"]
  /\ Goto(t, "work")
  /\ Budget(t)
  /\ UNCHANGED <<job, expr, want, frames, gil, pool, mutex, kind, program, packed>>

\* It ends, and its outcome is kept for good.
FinishBuild(t) ==
  /\ pc[t] = "work"
  /\ job[t] \in {"compiler", "runtime"}
  /\ todo[t] = 0
  /\ \E r \in {"ok", "error"} : once' = [once EXCEPT ![OnceOf(t)] = r]
  /\ Goto(t, "once")
  /\ UNCHANGED <<job, expr, want, todo, frames, gil, pool, mutex, kind, program, packed>>

\* BuildRuntime makes a PyCelFunctionAdapter, whose constructor takes the GIL
\* for its reference to the Python function.
NewAdapter(t) ==
  /\ pc[t] = "work"
  /\ job[t] = "runtime"
  /\ todo[t] > 0
  /\ Goto(t, "adapter")
  /\ todo' = [todo EXCEPT ![t] = @ - 1]
  /\ UNCHANGED <<job, expr, want, frames, gil, pool, mutex, once, kind, program, packed>>

AdapterReady(t) ==
  /\ pc[t] = "adapter"
  /\ t \in gil
  /\ Detach(t)
  /\ Goto(t, "work")
  /\ UNCHANGED <<job, expr, want, todo, frames, pool, mutex, once, kind, program, packed>>

-----------------------------------------------------------------------------
(* Lookups in the descriptor pool.                                         *)

\* Mutant: the section does not count its lookups.
Lookup_Unbounded(t) ==
  /\ pc[t] = "work"
  /\ job[t] # "parse"
  /\ Goto(t, "poolWait")
  /\ todo' = [todo EXCEPT ![t] = @ - 1]
  /\ UNCHANGED <<job, expr, want, frames, gil, pool, mutex, once, kind, program, packed>>

\* Library code asks the pool for a type.
Lookup(t) ==
  /\ pc[t] = "work"
  /\ job[t] # "parse"
  /\ todo[t] > 0
  /\ Goto(t, "poolWait")
  /\ todo' = [todo EXCEPT ![t] = @ - 1]
  /\ UNCHANGED <<job, expr, want, frames, gil, pool, mutex, once, kind, program, packed>>

\* What a thread does once the pool has answered.
AfterLookup(t) ==
  IF job[t] \in {"convert", "access"} THEN GoBack(t)
                                      ELSE Goto(t, "work") /\ UNCHANGED job

\* The pool, or the standard pool its database tries first, knows the type,
\* or there is no Python pool to ask.
PoolHit(t) ==
  /\ pc[t] = "poolWait"
  /\ pool = NoThread
  /\ AfterLookup(t)
  /\ UNCHANGED <<expr, want, todo, frames, gil, pool, mutex, once, kind, program, packed>>

\* It does not: PyDescriptorDatabase asks the Python pool, with the pool's
\* mutex held and the GIL taken.
PoolMiss(t) ==
  /\ pc[t] = "poolWait"
  /\ pool = NoThread
  /\ pool' = t
  /\ Goto(t, "database")
  /\ UNCHANGED <<job, expr, want, todo, frames, gil, mutex, once, kind, program, packed>>

\* The Python pool has answered, or raised.  A thread that already had the
\* GIL when it entered the pool still has it.
DatabaseReturn(t) ==
  /\ pc[t] = "database"
  /\ t \in gil
  /\ gil' = IF job[t] = "access" THEN gil ELSE gil \ {t}
  /\ pool' = NoThread
  /\ AfterLookup(t)
  /\ UNCHANGED <<expr, want, todo, frames, mutex, once, kind, program, packed>>

\* Mutant: no gil_scoped_release around the lookup.
ConvertMessage_KeepGil(t) ==
  /\ Running(t)
  /\ Depth(t) > 0
  /\ Goto(t, "poolWait")
  /\ Become(t, "convert")
  /\ UNCHANGED <<expr, want, todo, frames, gil, pool, mutex, once, kind, program, packed>>

\* ProtoMessageToCelValue, while Provide or Invoke converts a message that
\* Python code returned: the GIL is released for the lookup.
ConvertMessage(t) ==
  /\ Running(t)
  /\ Depth(t) > 0
  /\ Detach(t)
  /\ Goto(t, "poolWait")
  /\ Become(t, "convert")
  /\ UNCHANGED <<expr, want, todo, frames, pool, mutex, once, kind, program, packed>>

\* ResolveElementLocked, or CelValueToPyObject on a list or map of plain
\* values (a result's, or an argument's in Invoke): the element is looked up
\* with the GIL held.
AccessElement(t) ==
  /\ Running(t)
  /\ PackedElements
  /\ packed \/ Depth(t) > 0       \* a result, or an argument of Invoke
  /\ Goto(t, "poolWait")
  /\ Become(t, "access")
  /\ UNCHANGED <<expr, want, todo, frames, gil, pool, mutex, once, kind, program, packed>>

-----------------------------------------------------------------------------
(* PyCelEnv::Compile and Deserialize.                                      *)

\* Mutant: no gil_scoped_release in PyCelEnv::Compile.
Compile_KeepGil(t, k) ==
  /\ Running(t)
  /\ Goto(t, "once")
  /\ Become(t, "compiler")
  /\ want' = [want EXCEPT ![t] = k]
  /\ UNCHANGED <<expr, todo, frames, gil, pool, mutex, once, kind, program, packed>>

Compile(t, k) ==
  /\ Running(t)
  /\ Detach(t)
  /\ Goto(t, "once")
  /\ Become(t, "compiler")
  /\ want' = [want EXCEPT ![t] = k]
  /\ UNCHANGED <<expr, todo, frames, pool, mutex, once, kind, program, packed>>

CompilerError(t) ==
  /\ pc[t] = "once"
  /\ job[t] = "compiler"
  /\ once["compiler"] = "error"
  /\ GoBack(t)
  /\ UNCHANGED <<expr, want, todo, frames, gil, pool, mutex, once, kind, program, packed>>

\* disable_check parses, which asks nobody; a check is preceded by
\* PyErr_toStatus (PY_CEL_PYTHON_ASSIGN_OR_RETURN), which takes the GIL.
CompilerReady(t) ==
  /\ pc[t] = "once"
  /\ job[t] = "compiler"
  /\ once["compiler"] = "ok"
  /\ IF want[t] = "parsed"
       THEN Goto(t, "work") /\ Become(t, "parse")
       ELSE Goto(t, "status") /\ Become(t, "check")
  /\ UNCHANGED <<expr, want, todo, frames, gil, pool, mutex, once, kind, program, packed>>

\* PyErr_toStatus before and after the check: no pending Python error.
StatusOk(t) ==
  /\ pc[t] = "status"
  /\ t \in gil
  /\ Detach(t)
  /\ Goto(t, "work")
  /\ IF job[t] = "check" THEN Budget(t) ELSE UNCHANGED todo
  /\ UNCHANGED <<job, expr, want, frames, pool, mutex, once, kind, program, packed>>

StatusError(t) ==
  /\ pc[t] = "status"
  /\ t \in gil
  /\ Detach(t)
  /\ GoBack(t)
  /\ UNCHANGED <<expr, want, todo, frames, pool, mutex, once, kind, program, packed>>

CheckDone(t) ==
  /\ pc[t] = "work"
  /\ job[t] = "check"
  /\ todo[t] = 0
  /\ Goto(t, "status")
  /\ Become(t, "checked")
  /\ UNCHANGED <<expr, want, todo, frames, gil, pool, mutex, once, kind, program, packed>>

\* A new Expression, which Python keeps (in a free slot) or drops; its
\* cel_program_ is null and its mutex free.
NewExpression(k) ==
  \/ UNCHANGED kind
  \/ \E e \in Exprs : kind[e] = "none" /\ kind' = [kind EXCEPT ![e] = k]

\* The source does not parse or does not check, or there is a new Expression.
FinishCompile(t) ==
  /\ pc[t] = "work"
  /\ job[t] \in {"parse", "checked"}
  /\ NewExpression(want[t])
  /\ GoBack(t)
  /\ UNCHANGED <<expr, want, todo, frames, gil, pool, mutex, once, program, packed>>

\* An Any that unpacks to a CheckedExpr or to a ParsedExpr, or an error.
Deserialize(t, k) ==
  /\ Running(t)
  /\ Detach(t)
  /\ NewExpression(k)
  /\ UNCHANGED <<threadVars, pool, mutex, once, program, packed>>

-----------------------------------------------------------------------------
(* PyCelExpression::Eval.                                                  *)

Eval(t, e) ==
  /\ Running(t)
  /\ kind[e] # "none"
  /\ Depth(t) < MaxNest
  /\ Detach(t)
  /\ Goto(t, "exprLock")
  /\ expr' = [expr EXCEPT ![t] = e]
  /\ UNCHANGED <<job, want, todo, frames, pool, mutex, once, kind, program, packed>>

\* GetProgram has its program: program->Evaluate starts.
StartEvaluate(t, gen) ==
  /\ Goto(t, "work")
  /\ Become(t, "evaluate")
  /\ Push(t, [expr |-> expr[t], gen |-> gen, todo |-> 0])
  /\ Budget(t)

ProgramCached(t) ==
  /\ pc[t] = "exprLock"
  /\ mutex[expr[t]] = NoThread
  /\ program[expr[t]] # NoProgram
  /\ StartEvaluate(t, program[expr[t]].gen)
  /\ UNCHANGED <<expr, want, gil, pool, mutex, once, kind, program, packed>>

\* Mutant: GetProgram does not look whether there is a program.
ProgramMissing_NoCache(t) ==
  /\ pc[t] = "exprLock"
  /\ mutex[expr[t]] = NoThread
  /\ mutex' = [mutex EXCEPT ![expr[t]] = t]
  /\ Goto(t, "once")
  /\ Become(t, "runtime")
  /\ UNCHANGED <<expr, want, todo, frames, gil, pool, once, kind, program, packed>>

ProgramMissing(t) ==
  /\ pc[t] = "exprLock"
  /\ mutex[expr[t]] = NoThread
  /\ program[expr[t]] = NoProgram
  /\ mutex' = [mutex EXCEPT ![expr[t]] = t]
  /\ Goto(t, "once")
  /\ Become(t, "runtime")
  /\ UNCHANGED <<expr, want, todo, frames, gil, pool, once, kind, program, packed>>

\* Mutant: the error return forgets the mutex.
RuntimeError_KeepMutex(t) ==
  /\ pc[t] = "once"
  /\ job[t] = "runtime"
  /\ once[OnceOf(t)] = "error"
  /\ GoBack(t)
  /\ UNCHANGED <<expr, want, todo, frames, gil, pool, mutex, once, kind, program, packed>>

\* GetRuntime hands out the error its once_flag has kept.
RuntimeError(t) ==
  /\ pc[t] = "once"
  /\ job[t] = "runtime"
  /\ once[OnceOf(t)] = "error"
  /\ mutex' = [mutex EXCEPT ![expr[t]] = NoThread]
  /\ GoBack(t)
  /\ UNCHANGED <<expr, want, todo, frames, gil, pool, once, kind, program, packed>>

RuntimeReady(t) ==
  /\ pc[t] = "once"
  /\ job[t] = "runtime"
  /\ once[OnceOf(t)] = "ok"
  /\ Goto(t, "work")
  /\ Become(t, "program")
  /\ Budget(t)
  /\ UNCHANGED <<expr, want, frames, gil, pool, mutex, once, kind, program, packed>>

\* CreateProgram fails: cel_program_ stays null, the next Eval tries again.
CreateProgramError(t) ==
  /\ pc[t] = "work"
  /\ job[t] = "program"
  /\ todo[t] = 0
  /\ mutex' = [mutex EXCEPT ![expr[t]] = NoThread]
  /\ GoBack(t)
  /\ UNCHANGED <<expr, want, todo, frames, gil, pool, once, kind, program, packed>>

\* Mutant: the mutex is still held while the program runs.
CreateProgram_KeepMutex(t) ==
  LET made == [gen |-> program[expr[t]].gen + 1, mode |-> OnceOf(t)] IN
  /\ pc[t] = "work"
  /\ job[t] = "program"
  /\ todo[t] = 0
  /\ program' = [program EXCEPT ![expr[t]] = made]
  /\ StartEvaluate(t, made.gen)
  /\ UNCHANGED <<expr, want, gil, pool, mutex, once, kind, packed>>

CreateProgram(t) ==
  LET made == [gen |-> program[expr[t]].gen + 1, mode |-> OnceOf(t)] IN
  /\ pc[t] = "work"
  /\ job[t] = "program"
  /\ todo[t] = 0
  /\ program' = [program EXCEPT ![expr[t]] = made]
  /\ mutex' = [mutex EXCEPT ![expr[t]] = NoThread]
  /\ StartEvaluate(t, made.gen)
  /\ UNCHANGED <<expr, want, gil, pool, once, kind, packed>>

\* The evaluation needs a variable (PyCelValueProvider::Provide) or calls a
\* function (PyCelFunctionAdapter::Invoke): Python code runs, which may call
\* the library again.
CallPython(t) ==
  /\ pc[t] = "work"
  /\ job[t] = "evaluate"
  /\ todo[t] > 0
  /\ frames' = [frames EXCEPT ![t][Depth(t)].todo = todo[t] - 1]
  /\ GoBack(t)
  /\ UNCHANGED <<expr, want, todo, gil, pool, mutex, once, kind, program, packed>>

PythonReturns(t) ==
  /\ Running(t)
  /\ Depth(t) > 0
  /\ Detach(t)
  /\ Goto(t, "work")
  /\ Become(t, "evaluate")
  /\ expr' = [expr EXCEPT ![t] = Top(t).expr]
  /\ todo' = [todo EXCEPT ![t] = Top(t).todo]
  /\ UNCHANGED <<want, frames, pool, mutex, once, kind, program, packed>>

\* A result, which may be a container, or an error.
FinishEvaluate(t) ==
  /\ pc[t] = "work"
  /\ job[t] = "evaluate"
  /\ todo[t] = 0
  /\ Pop(t)
  /\ GoBack(t)
  /\ packed' \in {packed, PackedElements}
  /\ UNCHANGED <<expr, want, todo, gil, pool, mutex, once, kind, program>>

-----------------------------------------------------------------------------
(* The specification.                                                      *)

\* Steps of library code; they are always taken on when they can be.
LibraryStep(t) ==
  \/ EnterOnce(t) \/ FinishBuild(t) \/ NewAdapter(t) \/ AdapterReady(t)
  \/ Lookup(t) \/ PoolHit(t) \/ PoolMiss(t) \/ DatabaseReturn(t)
  \/ CompilerError(t) \/ CompilerReady(t) \/ StatusOk(t) \/ StatusError(t)
  \/ CheckDone(t) \/ FinishCompile(t)
  \/ ProgramCached(t) \/ ProgramMissing(t) \/ RuntimeError(t)
  \/ RuntimeReady(t) \/ CreateProgramError(t) \/ CreateProgram(t)
  \/ CallPython(t) \/ FinishEvaluate(t)

\* What Python code may do next.
PythonStep(t) ==
  \/ \E k \in Kinds : Compile(t, k) \/ Deserialize(t, k)
  \/ \E e \in Exprs : Eval(t, e)
  \/ ConvertMessage(t) \/ AccessElement(t) \/ PythonReturns(t)

Next == \E t \in Threads :
          LibraryStep(t) \/ PythonStep(t) \/ TakeGil(t) \/ YieldGil(t)

Spec == Init /\ [][Next]_vars

\* A runnable thread runs.  A mutex, and the GIL, are handed to a thread that
\* asks for them again and again (absl::Mutex queues its waiters; the
\* interpreter drops the GIL at the request of a waiting thread).
Fairness ==
  \A t \in Threads :
    /\ SF_vars(LibraryStep(t))
    /\ SF_vars(TakeGil(t))
    /\ WF_vars(YieldGil(t))

FairSpec == Spec /\ Fairness

-----------------------------------------------------------------------------
(* Properties.                                                             *)

Holder(m) == {m} \ {NoThread}

\* The thread inside the call_once of flag f.
Building(u, f) ==
  /\ job[u] \in {"compiler", "runtime"}
  /\ pc[u] \in {"work", "adapter", "poolWait", "database"}
  /\ OnceOf(u) = f

\* The threads that thread t waits for.
Blockers(t) ==
  CASE pc[t] \in PyStates /\ t \notin gil /\ ~FreeThreaded -> gil
    [] pc[t] = "poolWait" -> Holder(pool)
    [] pc[t] = "exprLock" -> Holder(mutex[expr[t]])
    [] pc[t] = "once" /\ once[OnceOf(t)] = "running"
         -> {u \in Threads : Building(u, OnceOf(t))}
    [] OTHER -> {}

\* No set of threads waits for each other in a circle, nor a thread for
\* itself (the AB-BA deadlock of py_cel_env.cc:203-209, and the second Eval
\* of an expression by a function that the first one called).
NoDeadlock ==
  \A S \in SUBSET Threads :
    S # {} => \E t \in S : Blockers(t) \cap S = {}

\* The one-way hierarchy of py_cel_env.cc:208-209: a thread that holds the
\* GIL waits for none of the C++ locks, and one that holds the pool's mutex
\* waits for nothing but the GIL.
OneWayLockHierarchy ==
  /\ \A t \in gil : pc[t] \in PyStates
  /\ pool # NoThread => pc[pool] = "database"

\* The raw Program pointer an evaluation got from GetProgram stays the
\* expression's program as long as the evaluation runs, although cel_program_
\* is only locked while it is fetched (py_cel_expression.cc:162-180).
ProgramOutlivesEvaluation ==
  \A t \in Threads : \A i \in 1..Depth(t) :
    frames[t][i].gen = program[frames[t][i].expr].gen

\* Whoever is building a runtime or the compiler is alone at it, and a flag
\* that is running has somebody building it: nobody waits at a call_once that
\* no thread is going to finish (py_cel_env_internal.cc:284, 353, 360).
OnceHasOneBuilder ==
  /\ \A f \in OnceFlags : once[f] = "running" => \E u \in Threads : Building(u, f)
  /\ \A f \in OnceFlags : \A u \in Threads : Building(u, f) => once[f] = "running"
  /\ \A f \in OnceFlags : \A u, v \in Threads :
       Building(u, f) /\ Building(v, f) => u = v

\* The inductive invariant, first part: a thread is inside GetProgram's locked
\* region exactly while it holds the mutex of the expression it evaluates;
\* the pool's mutex is held exactly by the thread in PyDescriptorDatabase; and
\* the GIL is never taken along into a section that may block
\* (py_cel_expression.cc:162-180, py_descriptor_database.cc:67, 118, 164).
Locked(t) == job[t] \in {"runtime", "program"}

PcMatchesJob(t) ==
  /\ pc[t] \in {"python", "exprLock"} <=> job[t] = "none"
  /\ pc[t] = "once" => job[t] \in {"compiler", "runtime"}
  /\ pc[t] = "adapter" => job[t] = "runtime"
  /\ pc[t] = "work" => job[t] \notin {"convert", "access"}
  /\ pc[t] = "status" => job[t] \in {"check", "checked"}
  /\ job[t] = "access" => PackedElements

LockInv ==
  /\ \A t \in Threads : PcMatchesJob(t)
  /\ \A t \in gil : pc[t] \in PyStates \/ PackedElements
  /\ \A t \in Threads : pc[t] = "database" <=> pool = t
  /\ \A t \in Threads : Locked(t) => mutex[expr[t]] = t
  /\ \A e \in Exprs : mutex[e] # NoThread =>
                        Locked(mutex[e]) /\ expr[mutex[e]] = e
  /\ \A t \in Threads : pc[t] = "exprLock" \/ Locked(t) => kind[expr[t]] # "none"

\* Second part: an expression is locked only to make its first program, and a
\* thread that evaluates has a program.
FramesInv ==
  /\ \A t \in Threads : job[t] = "evaluate" => Depth(t) > 0
  /\ \A t \in Threads : Locked(t) => program[expr[t]] = NoProgram
  /\ \A e \in Exprs : program[e] = NoProgram \/ program[e].gen > 0
  /\ \A t \in Threads : \A i \in 1..Depth(t) :
       /\ frames[t][i].gen > 0
       /\ frames[t][i].gen = program[frames[t][i].expr].gen

\* A call into the library comes back to the Python code that made it, or
\* calls back into Python, as long as nobody keeps the GIL for good.
LibraryAnswers ==
  \A t \in Threads : (pc[t] # "python") ~> Running(t)

\* What users of an Expression may rely on.
Contract == INSTANCE ProgramContract
ContractSpec == Contract!Spec

=============================================================================
