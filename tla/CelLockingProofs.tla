--------------------------- MODULE CelLockingProofs ---------------------------
(***************************************************************************)
(* Proofs about CelLocking for any number of threads and expressions, any  *)
(* nesting of evaluations and any number of lookups.                       *)
(*                                                                         *)
(* The inductive invariant is TypeOK, LockInv, OnceHasOneBuilder and       *)
(* FramesInv, proved in that order: LockInv says who holds what where, and *)
(* gives the lock order from which NoDeadlock follows; FramesInv needs the *)
(* mutual exclusion of LockInv.                                            *)
(***************************************************************************)
EXTENDS CelLocking, SequenceTheorems, TLAPS

USE DEF PyStates

-----------------------------------------------------------------------------
(* Types.                                                                  *)

\* A once_flag is the compiler's or that of a runtime mode.
LEMMA OnceOfType ==
  ASSUME TypeOK, NEW t \in Threads
  PROVE  OnceOf(t) \in OnceFlags
  BY DEF TypeOK, OnceOf, ModeOf, OnceFlags, Modes, Kinds

\* The frame of a starting evaluation extends the thread's frames.
LEMMA PushType ==
  ASSUME TypeOK, NEW t \in Threads, NEW g \in Nat
  PROVE  Append(frames[t], [expr |-> expr[t], gen |-> g, todo |-> 0]) \in Seq(Frames)
  <1>1. [expr |-> expr[t], gen |-> g, todo |-> 0] \in Frames
    BY BoundsAssumption DEF TypeOK, Frames
  <1>2. frames[t] \in Seq(Frames)
    BY DEF TypeOK
  <1>. QED  BY <1>1, <1>2

\* The outcome of a build keeps the flags well typed.
LEMMA TypeFinishBuild ==
  ASSUME TypeOK, NEW t \in Threads, FinishBuild(t)
  PROVE  TypeOK'
 <1>1. OnceOf(t) \in OnceFlags BY OnceOfType
 <1>2. PICK r \in {"ok", "error"} : once' = [once EXCEPT ![OnceOf(t)] = r]
   BY DEF FinishBuild
 <1>3. once' \in [OnceFlags -> {"fresh", "running", "ok", "error"}]
   BY <1>2, <1>1 DEF TypeOK
 <1>. QED BY <1>3 DEF TypeOK, FinishBuild, Goto, PCs

\* A lookup uses up one of the section's lookups.
LEMMA TypeLookup ==
  ASSUME TypeOK, NEW t \in Threads, Lookup(t)
  PROVE  TypeOK'
 <1>1. todo[t] - 1 \in 0..MaxLookups BY BoundsAssumption DEF TypeOK, Lookup
 <1>. QED BY <1>1 DEF TypeOK, Lookup, Goto, PCs

\* Making a function adapter uses up one of the runtime's lookups.
LEMMA TypeNewAdapter ==
  ASSUME TypeOK, NEW t \in Threads, NewAdapter(t)
  PROVE  TypeOK'
 <1>1. todo[t] - 1 \in 0..MaxLookups BY BoundsAssumption DEF TypeOK, NewAdapter
 <1>. QED BY <1>1 DEF TypeOK, NewAdapter, Goto, PCs

\* An evaluation with a cached program gets a frame.
LEMMA TypeProgramCached ==
  ASSUME TypeOK, NEW t \in Threads, ProgramCached(t)
  PROVE  TypeOK'
 <1>1. program[expr[t]].gen \in Nat BY DEF TypeOK, Programs
 <1>2. frames' \in [Threads -> Seq(Frames)]
   BY <1>1, PushType DEF TypeOK, ProgramCached, StartEvaluate, Push
 <1>. QED
   BY <1>2
      DEF TypeOK, ProgramCached, StartEvaluate, Goto, Become, Budget, PCs, Jobs

\* An evaluation that has made its program gets a frame for it.
LEMMA TypeCreateProgram ==
  ASSUME TypeOK, NEW t \in Threads, CreateProgram(t)
  PROVE  TypeOK'
 <1>1. program[expr[t]].gen + 1 \in Nat BY DEF TypeOK, Programs
 <1>2. frames' \in [Threads -> Seq(Frames)]
   BY <1>1, PushType DEF TypeOK, CreateProgram, StartEvaluate, Push
 <1>3. program' \in [Exprs -> Programs]
   BY <1>1, OnceOfType DEF TypeOK, CreateProgram, Programs, OnceOf, ModeOf, Modes
 <1>4. mutex' \in [Exprs -> Threads \cup {NoThread}] BY DEF TypeOK, CreateProgram
 <1>5. pc' \in [Threads -> PCs] /\ job' \in [Threads -> Jobs] /\ todo' \in [Threads -> 0..MaxLookups]
   BY DEF TypeOK, CreateProgram, StartEvaluate, Goto, Become, Budget, PCs, Jobs
 <1>6. UNCHANGED <<expr, want, gil, pool, once, kind, packed>> BY DEF CreateProgram
 <1>. QED BY <1>2, <1>3, <1>4, <1>5, <1>6 DEF TypeOK

\* A call into Python leaves its budget in the top frame.
LEMMA TypeCallPython ==
  ASSUME TypeOK, NEW t \in Threads, CallPython(t)
  PROVE  TypeOK'
 <1>1. frames[t] \in Seq(Frames) /\ frames' = [frames EXCEPT ![t] = [frames[t] EXCEPT ![Depth(t)] = [@ EXCEPT !.todo = todo[t] - 1]]]
   BY DEF TypeOK, CallPython
 <1>2. todo[t] - 1 \in 0..MaxLookups
   <2>1. todo[t] > 0 BY DEF CallPython
   <2>2. todo[t] \in 0..MaxLookups BY DEF TypeOK
   <2>. QED BY <2>1, <2>2, BoundsAssumption
 <1>3. [frames[t] EXCEPT ![Depth(t)] = [@ EXCEPT !.todo = todo[t] - 1]] \in Seq(Frames)
   <2>1. CASE Depth(t) \in 1..Len(frames[t])
     <3>1. frames[t][Depth(t)] \in Frames BY <1>1, <2>1, LenProperties
     <3> DEFINE f == [frames[t][Depth(t)] EXCEPT !.todo = todo[t] - 1]
     <3>2. f \in Frames BY <3>1, <1>2 DEF Frames
     <3>3. [frames[t] EXCEPT ![Depth(t)] = f] \in Seq(Frames)
       <4> HIDE DEF f
       <4>. QED BY <1>1, <2>1, <3>2, ExceptSeq
     <3>. QED BY <3>3
   <2>2. CASE ~ Depth(t) \in 1..Len(frames[t])
     <3>1. frames[t] \in [1..Len(frames[t]) -> Frames] BY <1>1, LenProperties
     <3>2. [frames[t] EXCEPT ![Depth(t)] = [@ EXCEPT !.todo = todo[t] - 1]] = frames[t]
        BY <3>1, <2>2
     <3>. QED BY <3>2, <1>1
   <2>. QED BY <2>1, <2>2
 <1>4. frames' \in [Threads -> Seq(Frames)] BY <1>1, <1>3 DEF TypeOK
 <1>. QED BY <1>4 DEF TypeOK, CallPython, GoBack, Goto, Become, PCs, PyStates, Jobs

\* The end of an evaluation drops the top frame.
LEMMA TypeFinishEvaluate ==
  ASSUME TypeOK, NEW t \in Threads, FinishEvaluate(t)
  PROVE  TypeOK'
 <1>1. frames[t] \in Seq(Frames) /\ Depth(t) \in Nat BY DEF TypeOK, Depth
 <1>2. SubSeq(frames[t], 1, Depth(t) - 1) \in Seq(Frames)
   BY <1>1, LenProperties, SubSeqProperties DEF Depth
 <1>3. frames' \in [Threads -> Seq(Frames)] BY <1>2 DEF TypeOK, FinishEvaluate, Pop
 <1>. QED
   BY <1>3, BuildAssumption
      DEF TypeOK, FinishEvaluate, GoBack, Goto, Become, PCs, PyStates, Jobs

\* The return from Python reads the top frame.
LEMMA TypePythonReturns ==
  ASSUME TypeOK, NEW t \in Threads, PythonReturns(t)
  PROVE  TypeOK'
 <1>1. Top(t) \in Frames BY LenProperties DEF TypeOK, PythonReturns, Depth, Top
 <1>. QED BY <1>1 DEF TypeOK, PythonReturns, Detach, Goto, Become, PCs, Jobs, Frames

\* Every step keeps the types.
LEMMA TypeStep == TypeOK /\ [Next]_vars => TypeOK'
<1>. SUFFICES ASSUME TypeOK, [Next]_vars PROVE TypeOK'
  OBVIOUS
<1>. USE BoundsAssumption, BuildAssumption, ThreadsAssumption
<1>1. ASSUME NEW t \in Threads, EnterOnce(t)
      PROVE  TypeOK'
  BY <1>1 DEF EnterOnce, Budget, Goto, Become, threadVars, TypeOK, PCs, Jobs,
     OnceFlags, Modes, OnceOf, ModeOf
<1>2. ASSUME NEW t \in Threads, FinishBuild(t)
      PROVE  TypeOK'
  BY <1>2, TypeFinishBuild
<1>3. ASSUME NEW t \in Threads, NewAdapter(t)
      PROVE  TypeOK'
  BY <1>3, TypeNewAdapter
<1>4. ASSUME NEW t \in Threads, AdapterReady(t)
      PROVE  TypeOK'
  BY <1>4 DEF AdapterReady, Detach, Goto, Become, threadVars, TypeOK, PCs, Jobs
<1>5. ASSUME NEW t \in Threads, Lookup(t)
      PROVE  TypeOK'
  BY <1>5, TypeLookup
<1>6. ASSUME NEW t \in Threads, PoolHit(t)
      PROVE  TypeOK'
  BY <1>6 DEF PoolHit, AfterLookup, GoBack, Goto, Become, threadVars, TypeOK, PCs,
     Jobs
<1>7. ASSUME NEW t \in Threads, PoolMiss(t)
      PROVE  TypeOK'
  BY <1>7 DEF PoolMiss, Goto, Become, threadVars, TypeOK, PCs, Jobs
<1>8. ASSUME NEW t \in Threads, DatabaseReturn(t)
      PROVE  TypeOK'
  BY <1>8 DEF DatabaseReturn, AfterLookup, GoBack, Goto, Become, threadVars, TypeOK,
     PCs, Jobs
<1>9. ASSUME NEW t \in Threads, CompilerError(t)
      PROVE  TypeOK'
  BY <1>9 DEF CompilerError, GoBack, Goto, Become, threadVars, TypeOK, PCs, Jobs
<1>10. ASSUME NEW t \in Threads, CompilerReady(t)
       PROVE  TypeOK'
  BY <1>10 DEF CompilerReady, Goto, Become, threadVars, TypeOK, PCs, Jobs
<1>11. ASSUME NEW t \in Threads, StatusOk(t)
       PROVE  TypeOK'
  BY <1>11 DEF StatusOk, Budget, Detach, Goto, Become, threadVars, TypeOK, PCs, Jobs
<1>12. ASSUME NEW t \in Threads, StatusError(t)
       PROVE  TypeOK'
  BY <1>12 DEF StatusError, GoBack, Detach, Goto, Become, threadVars, TypeOK, PCs,
     Jobs
<1>13. ASSUME NEW t \in Threads, CheckDone(t)
       PROVE  TypeOK'
  BY <1>13 DEF CheckDone, Goto, Become, threadVars, TypeOK, PCs, Jobs
<1>14. ASSUME NEW t \in Threads, FinishCompile(t)
       PROVE  TypeOK'
  <2>1. kind' \in [Exprs -> Kinds \cup {"none"}]
    BY <1>14 DEF FinishCompile, NewExpression, TypeOK
  <2>. QED  BY <1>14, <2>1 DEF FinishCompile, GoBack, Goto, Become, TypeOK, PCs, Jobs
<1>15. ASSUME NEW t \in Threads, ProgramCached(t)
       PROVE  TypeOK'
  BY <1>15, TypeProgramCached
<1>16. ASSUME NEW t \in Threads, ProgramMissing(t)
       PROVE  TypeOK'
  BY <1>16 DEF ProgramMissing, Goto, Become, threadVars, TypeOK, PCs, Jobs
<1>17. ASSUME NEW t \in Threads, RuntimeError(t)
       PROVE  TypeOK'
  BY <1>17 DEF RuntimeError, GoBack, Goto, Become, threadVars, TypeOK, PCs, Jobs
<1>18. ASSUME NEW t \in Threads, RuntimeReady(t)
       PROVE  TypeOK'
  BY <1>18 DEF RuntimeReady, Budget, Goto, Become, threadVars, TypeOK, PCs, Jobs
<1>19. ASSUME NEW t \in Threads, CreateProgramError(t)
       PROVE  TypeOK'
  BY <1>19 DEF CreateProgramError, GoBack, Goto, Become, threadVars, TypeOK, PCs, Jobs
<1>20. ASSUME NEW t \in Threads, CreateProgram(t)
       PROVE  TypeOK'
  BY <1>20, TypeCreateProgram
<1>21. ASSUME NEW t \in Threads, CallPython(t)
       PROVE  TypeOK'
  BY <1>21, TypeCallPython
<1>22. ASSUME NEW t \in Threads, FinishEvaluate(t)
       PROVE  TypeOK'
  BY <1>22, TypeFinishEvaluate
<1>23. ASSUME NEW t \in Threads, NEW k \in Kinds, Compile(t, k)
       PROVE  TypeOK'
  BY <1>23 DEF Compile, Running, Detach, Goto, Become, threadVars, TypeOK, PCs, Jobs
<1>24. ASSUME NEW t \in Threads, NEW k \in Kinds, Deserialize(t, k)
       PROVE  TypeOK'
  <2>1. kind' \in [Exprs -> Kinds \cup {"none"}]
    BY <1>24 DEF Deserialize, NewExpression, TypeOK
  <2>. QED  BY <1>24, <2>1 DEF Deserialize, Detach, threadVars, TypeOK
<1>25. ASSUME NEW t \in Threads, NEW e \in Exprs, Eval(t, e)
       PROVE  TypeOK'
  BY <1>25 DEF Eval, Running, Detach, Depth, Goto, Become, threadVars, TypeOK, PCs,
     Jobs
<1>26. ASSUME NEW t \in Threads, ConvertMessage(t)
       PROVE  TypeOK'
  BY <1>26 DEF ConvertMessage, Running, Detach, Depth, Goto, Become, threadVars,
     TypeOK, PCs, Jobs
<1>27. ASSUME NEW t \in Threads, AccessElement(t)
       PROVE  TypeOK'
  BY <1>27 DEF AccessElement, Running, Depth, Goto, Become, threadVars, TypeOK, PCs,
     Jobs
<1>28. ASSUME NEW t \in Threads, PythonReturns(t)
       PROVE  TypeOK'
  BY <1>28, TypePythonReturns
<1>29. ASSUME NEW t \in Threads, TakeGil(t)
       PROVE  TypeOK'
  BY <1>29 DEF TakeGil, Goto, Become, threadVars, TypeOK, PCs, Jobs
<1>30. ASSUME NEW t \in Threads, YieldGil(t)
       PROVE  TypeOK'
  BY <1>30 DEF YieldGil, Detach, Goto, Become, threadVars, TypeOK, PCs, Jobs
<1>31. CASE UNCHANGED vars
  BY <1>31 DEF vars, threadVars, TypeOK
<1>. QED
  BY <1>1, <1>2, <1>3, <1>4, <1>5, <1>6, <1>7, <1>8, <1>9, <1>10, <1>11,
     <1>12, <1>13, <1>14, <1>15, <1>16, <1>17, <1>18, <1>19, <1>20, <1>21,
     <1>22, <1>23, <1>24, <1>25, <1>26, <1>27, <1>28, <1>29, <1>30, <1>31 
     DEF Next, LibraryStep, PythonStep

\* All variables of the model keep their types (CelLocking's state).
THEOREM TypeCorrect == Spec => []TypeOK
<1>1. Init => TypeOK
  <2>. SUFFICES ASSUME Init PROVE TypeOK
    OBVIOUS
  <2>1. 0 \in 0..MaxLookups
    BY BoundsAssumption
  <2>2. NoProgram \in Programs
    BY DEF NoProgram, Programs
  <2>3. PICK e \in Exprs : expr = [t \in Threads |-> e]
    BY DEF Init
  <2>4. frames \in [Threads -> Seq(Frames)]
    BY DEF Init
  <2>5. todo \in [Threads -> 0..MaxLookups] /\ program \in [Exprs -> Programs]
    BY <2>1, <2>2 DEF Init
  <2>. QED
    BY <2>3, <2>4, <2>5 DEF Init, TypeOK, PCs, Jobs, Kinds, OnceFlags, Modes
<1>2. TypeOK /\ [Next]_vars => TypeOK'
  BY TypeStep
<1>. QED  BY <1>1, <1>2, PTL DEF Spec

-----------------------------------------------------------------------------
(* Who holds what.                                                         *)

\* Two threads inside GetProgram's locked region are at different expressions.
LEMMA SoleHolder ==
  ASSUME TypeOK, LockInv, NEW t \in Threads, Locked(t), NEW u \in Threads, Locked(u), u # t
  PROVE  expr[u] # expr[t]
  BY DEF LockInv

\* A step that leaves GetProgram and frees its expression's mutex keeps LockInv.
LEMMA Unlocked ==
  ASSUME TypeOK, LockInv, NEW t \in Threads, Locked(t),
         mutex' = [mutex EXCEPT ![expr[t]] = NoThread],
         expr' = expr, kind' = kind, pool' = pool, gil' = gil,
         NEW p \in {"work", "python"}, NEW j \in {"evaluate", "none"},
         p = "python" <=> j = "none",
         pc[t] \in {"work", "once"},
         Goto(t, p), Become(t, j)
  PROVE  LockInv'
<1>1. expr[t] \in Exprs /\ t # NoThread BY ThreadsAssumption DEF TypeOK
<1>2. ~Locked(t)' BY DEF Locked, Become, TypeOK
<1>3. ASSUME NEW u \in Threads, u # t
      PROVE  /\ pc'[u] = pc[u] /\ job'[u] = job[u]
             /\ Locked(u)' <=> Locked(u)
             /\ Locked(u) => mutex'[expr[u]] = u
  BY <1>3, SoleHolder DEF Goto, Become, TypeOK, Locked, LockInv
<1>4. pc'[t] = p /\ job'[t] = j BY DEF Goto, Become, TypeOK
<1>5. \A u \in Threads : PcMatchesJob(u)'
  BY <1>3, <1>4 DEF LockInv, PcMatchesJob
<1>6. \A u \in gil' : pc'[u] \in PyStates \/ PackedElements
  BY <1>3, <1>4 DEF LockInv, TypeOK
<1>7. \A u \in Threads : pc'[u] = "database" <=> pool' = u
  BY <1>3, <1>4 DEF LockInv
<1>8. \A u \in Threads : Locked(u)' => mutex'[expr'[u]] = u
  BY <1>2, <1>3
<1>9. ASSUME NEW e \in Exprs, mutex'[e] # NoThread
      PROVE  (Locked(mutex[e]) /\ expr[mutex[e]] = e)'
  <2>1. e # expr[t] /\ mutex'[e] = mutex[e] /\ mutex[e] \in Threads
    BY <1>9, <1>1 DEF TypeOK
  <2>2. Locked(mutex[e]) /\ expr[mutex[e]] = e /\ mutex[e] # t
    BY <1>9, <2>1 DEF LockInv
  <2>. QED BY <2>1, <2>2, <1>3 DEF Locked
<1>10. \A u \in Threads : pc'[u] = "exprLock" \/ Locked(u)' => kind'[expr'[u]] # "none"
  BY <1>2, <1>3, <1>4 DEF LockInv
<1>. QED BY <1>5, <1>6, <1>7, <1>8, <1>9, <1>10 DEF LockInv

\* Taking a free expression mutex to make the program keeps LockInv.
LEMMA LockProgramMissing ==
  ASSUME TypeOK, LockInv, NEW t \in Threads, ProgramMissing(t)
  PROVE  LockInv'
<1>1. expr[t] \in Exprs /\ t # NoThread /\ pc[t] = "exprLock" /\ ~Locked(t)
  BY ThreadsAssumption DEF TypeOK, ProgramMissing, LockInv, PcMatchesJob, Locked
<1>2. mutex' = [mutex EXCEPT ![expr[t]] = t] /\ mutex[expr[t]] = NoThread /\ UNCHANGED <<expr, gil, pool, kind>>
  BY DEF ProgramMissing
<1>4. pc'[t] = "once" /\ job'[t] = "runtime"
  BY DEF ProgramMissing, Goto, Become, TypeOK
<1>3. ASSUME NEW u \in Threads, u # t
      PROVE  /\ pc'[u] = pc[u] /\ job'[u] = job[u]
             /\ Locked(u)' <=> Locked(u)
             /\ Locked(u) => expr[u] # expr[t]
  <2>1. pc'[u] = pc[u] /\ job'[u] = job[u]
    BY <1>3 DEF ProgramMissing, Goto, Become, TypeOK
  <2>2. Locked(u) => mutex[expr[u]] = u BY DEF LockInv
  <2>3. u # NoThread BY ThreadsAssumption
  <2>. QED BY <2>1, <2>2, <2>3, <1>2 DEF Locked
<1>5. \A u \in Threads : PcMatchesJob(u)'
  BY <1>3, <1>4 DEF LockInv, PcMatchesJob
<1>6. \A u \in gil' : pc'[u] \in PyStates \/ PackedElements
  BY <1>1, <1>2, <1>3 DEF LockInv, TypeOK
<1>7. \A u \in Threads : pc'[u] = "database" <=> pool' = u
  BY <1>1, <1>2, <1>3, <1>4 DEF LockInv
<1>8. \A u \in Threads : Locked(u)' => mutex'[expr'[u]] = u
  BY <1>1, <1>2, <1>3 DEF LockInv, TypeOK
<1>9. \A e \in Exprs : mutex'[e] # NoThread => (Locked(mutex[e]) /\ expr[mutex[e]] = e)'
  <2>1. Locked(t)' BY <1>4 DEF Locked
  <2> SUFFICES ASSUME NEW e \in Exprs, mutex'[e] # NoThread PROVE (Locked(mutex[e]) /\ expr[mutex[e]] = e)'
    OBVIOUS
  <2>2. CASE e = expr[t]
    <3>1. mutex'[e] = t BY <2>2, <1>1, <1>2 DEF TypeOK
    <3>. QED BY <3>1, <2>1, <2>2, <1>2 DEF Locked
  <2>3. CASE e # expr[t]
    <3>1. mutex'[e] = mutex[e] /\ mutex[e] \in Threads BY <2>3, <1>2 DEF TypeOK
    <3>2. Locked(mutex[e]) /\ expr[mutex[e]] = e BY <3>1 DEF LockInv
    <3>3. mutex[e] # t BY <3>2, <1>1
    <3>. QED BY <3>1, <3>2, <3>3, <1>2, <1>3 DEF Locked
  <2>. QED BY <2>2, <2>3
<1>10. \A u \in Threads : pc'[u] = "exprLock" \/ Locked(u)' => kind'[expr'[u]] # "none"
  BY <1>1, <1>2, <1>3, <1>4 DEF LockInv
<1>. QED BY <1>5, <1>6, <1>7, <1>8, <1>9, <1>10 DEF LockInv

\* GetProgram without a runtime frees the mutex and keeps LockInv.
LEMMA LockRuntimeError ==
  ASSUME TypeOK, LockInv, NEW t \in Threads, RuntimeError(t)
  PROVE  LockInv'
  BY Unlocked DEF RuntimeError, GoBack, Locked

\* So does a CreateProgram that fails, LockInv being kept.
LEMMA LockCreateProgramError ==
  ASSUME TypeOK, LockInv, NEW t \in Threads, CreateProgramError(t)
  PROVE  LockInv'
  BY Unlocked DEF CreateProgramError, GoBack, Locked

\* And a CreateProgram that succeeds, LockInv being kept.
LEMMA LockCreateProgram ==
  ASSUME TypeOK, LockInv, NEW t \in Threads, CreateProgram(t)
  PROVE  LockInv'
  BY Unlocked DEF CreateProgram, StartEvaluate, Locked

\* A step of t that moves t, takes and frees no expression's mutex and takes
\* no GIL.
LockQuiet(t) ==
  /\ UNCHANGED <<expr, mutex, kind>>
  /\ \A u \in Threads \ {t} : pc'[u] = pc[u] /\ job'[u] = job[u]
  /\ PcMatchesJob(t)' /\ (Locked(t)' <=> Locked(t)) /\ pc'[t] # "exprLock"
  /\ gil' \subseteq gil /\ (t \in gil' => pc'[t] \in PyStates \/ PackedElements)
  /\ \A u \in Threads : pc'[u] = "database" <=> pool' = u

\* A quiet step of t keeps LockInv.
LEMMA LockFrame ==
  ASSUME TypeOK, LockInv, NEW t \in Threads, LockQuiet(t)
  PROVE  LockInv'
<1>1. ASSUME NEW u \in Threads
      PROVE  PcMatchesJob(u)'
  <2>1. CASE u = t
    BY <2>1 DEF LockQuiet
  <2>2. CASE u # t
    BY <2>2 DEF LockQuiet, LockInv, PcMatchesJob
  <2>. QED  BY <2>1, <2>2
<1>2. ASSUME NEW u \in gil'
      PROVE  pc'[u] \in PyStates \/ PackedElements
  <2>1. u \in gil /\ u \in Threads
    BY DEF LockQuiet, TypeOK
  <2>2. CASE u = t
    BY <2>2 DEF LockQuiet
  <2>3. CASE u # t
    BY <2>1, <2>3 DEF LockQuiet, LockInv
  <2>. QED  BY <2>2, <2>3
<1>3. \A u \in Threads : Locked(u)' <=> Locked(u)
  BY DEF LockQuiet, Locked
<1>4. \A u \in Threads : Locked(u)' => mutex'[expr'[u]] = u
  BY <1>3 DEF LockInv, LockQuiet
<1>5. \A e \in Exprs :
        mutex'[e] # NoThread => (Locked(mutex[e]) /\ expr[mutex[e]] = e)'
  BY <1>3 DEF LockInv, LockQuiet, TypeOK
<1>6. \A u \in Threads :
        pc'[u] = "exprLock" \/ Locked(u)' => kind'[expr'[u]] # "none"
  BY <1>3 DEF LockInv, LockQuiet
<1>. QED
  BY <1>1, <1>2, <1>3, <1>4, <1>5, <1>6 DEF LockInv, LockQuiet

\* Giving a compilation up for a pending Python error keeps LockInv.
LEMMA LockStatusError ==
  ASSUME TypeOK, LockInv, NEW t \in Threads, StatusError(t)
  PROVE  LockInv'
<1>1. job[t] \in {"check", "checked"} /\ ~Locked(t) /\ pc[t] = "status"
  BY DEF StatusError, LockInv, PcMatchesJob, Locked
<1>2. /\ UNCHANGED <<expr, mutex, kind, pool>>
      /\ pc'[t] = "python" /\ job'[t] = "none" /\ gil' = gil \ {t}
  BY <1>1 DEF StatusError, GoBack, Detach, Goto, Become, TypeOK
<1>3. \A u \in Threads \ {t} : pc'[u] = pc[u] /\ job'[u] = job[u]
  BY DEF StatusError, GoBack, Detach, Goto, Become, TypeOK
<1>4. \A u \in Threads : pc'[u] = "database" <=> pool' = u
  BY <1>1, <1>2, <1>3, ThreadsAssumption DEF LockInv, StatusError
<1>5. PcMatchesJob(t)' /\ (Locked(t)' <=> Locked(t))
  BY <1>1, <1>2 DEF PcMatchesJob, Locked
<1>6. gil' \subseteq gil /\ (t \in gil' => pc'[t] \in PyStates \/ PackedElements)
  BY <1>1, <1>2 DEF LockInv, PcMatchesJob
<1>. QED
  BY <1>2, <1>3, <1>4, <1>5, <1>6, LockFrame DEF LockQuiet

\* Going on with the compiler once it is built keeps LockInv.
LEMMA LockCompilerReady ==
  ASSUME TypeOK, LockInv, NEW t \in Threads, CompilerReady(t)
  PROVE  LockInv'
<1>1. job[t] = "compiler" /\ ~Locked(t) /\ pc[t] = "once"
  BY DEF CompilerReady, LockInv, PcMatchesJob, Locked
<1>2. /\ UNCHANGED <<expr, mutex, kind, pool, gil>>
      /\ \/ pc'[t] = "work" /\ job'[t] = "parse"
         \/ pc'[t] = "status" /\ job'[t] = "check"
  BY <1>1 DEF CompilerReady, Goto, Become, TypeOK
<1>3. \A u \in Threads \ {t} : pc'[u] = pc[u] /\ job'[u] = job[u]
  BY DEF CompilerReady, Goto, Become, TypeOK
<1>4. \A u \in Threads : pc'[u] = "database" <=> pool' = u
  BY <1>1, <1>2, <1>3, ThreadsAssumption DEF LockInv, CompilerReady
<1>5. PcMatchesJob(t)' /\ (Locked(t)' <=> Locked(t))
  BY <1>1, <1>2 DEF PcMatchesJob, Locked
<1>6. gil' \subseteq gil /\ (t \in gil' => pc'[t] \in PyStates \/ PackedElements)
  BY <1>1, <1>2, BuildAssumption DEF LockInv, PcMatchesJob
<1>. QED
  BY <1>2, <1>3, <1>4, <1>5, <1>6, LockFrame DEF LockQuiet

\* An answer of the pool that asks no Python code keeps LockInv.
LEMMA LockPoolHit ==
  ASSUME TypeOK, LockInv, NEW t \in Threads, PoolHit(t)
  PROVE  LockInv'
<1>1. /\ pc[t] = "poolWait" /\ pool = NoThread /\ job[t] # "none"
      /\ job[t] = "access" => PackedElements
  BY DEF PoolHit, LockInv, PcMatchesJob, Locked
<1>2. /\ UNCHANGED <<expr, mutex, kind>>
      /\ \/ pc'[t] = "python" /\ job'[t] = "none" /\ job[t] \in {"convert", "access"}
         \/ pc'[t] = "work" /\ job'[t] = job[t] /\ job[t] \notin {"convert", "access"}
      /\ UNCHANGED <<pool, gil>>
  BY <1>1 DEF PoolHit, AfterLookup, GoBack, Goto, Become, TypeOK
<1>3. \A u \in Threads \ {t} : pc'[u] = pc[u] /\ job'[u] = job[u]
  BY DEF PoolHit, AfterLookup, GoBack, Goto, Become, TypeOK
<1>4. \A u \in Threads : pc'[u] = "database" <=> pool' = u
  BY <1>1, <1>2, <1>3, ThreadsAssumption DEF LockInv, PoolHit
<1>5. PcMatchesJob(t)' /\ (Locked(t)' <=> Locked(t))
  BY <1>1, <1>2 DEF PcMatchesJob, Locked
<1>6. gil' \subseteq gil /\ (t \in gil' => pc'[t] \in PyStates \/ PackedElements)
  BY <1>1, <1>2 DEF LockInv, PcMatchesJob
<1>. QED
  BY <1>2, <1>3, <1>4, <1>5, <1>6, LockFrame DEF LockQuiet

\* Leaving PyDescriptorDatabase and the pool keeps LockInv.
LEMMA LockDatabaseReturn ==
  ASSUME TypeOK, LockInv, NEW t \in Threads, DatabaseReturn(t)
  PROVE  LockInv'
<1>1. /\ pc[t] = "database" /\ pool = t /\ job[t] # "none"
      /\ job[t] = "access" => PackedElements
  BY DEF DatabaseReturn, LockInv, PcMatchesJob, Locked
<1>2. /\ UNCHANGED <<expr, mutex, kind>>
      /\ \/ pc'[t] = "python" /\ job'[t] = "none" /\ job[t] \in {"convert", "access"}
         \/ pc'[t] = "work" /\ job'[t] = job[t] /\ job[t] \notin {"convert", "access"}
      /\ pool' = NoThread /\ gil' = IF job[t] = "access" THEN gil ELSE gil \ {t}
  BY <1>1 DEF DatabaseReturn, AfterLookup, GoBack, Goto, Become, TypeOK
<1>3. \A u \in Threads \ {t} : pc'[u] = pc[u] /\ job'[u] = job[u]
  BY DEF DatabaseReturn, AfterLookup, GoBack, Goto, Become, TypeOK
<1>4. \A u \in Threads : pc'[u] = "database" <=> pool' = u
  BY <1>1, <1>2, <1>3, ThreadsAssumption DEF LockInv, DatabaseReturn
<1>5. PcMatchesJob(t)' /\ (Locked(t)' <=> Locked(t))
  BY <1>1, <1>2 DEF PcMatchesJob, Locked
<1>6. gil' \subseteq gil /\ (t \in gil' => pc'[t] \in PyStates \/ PackedElements)
  BY <1>1, <1>2 DEF LockInv, PcMatchesJob
<1>. QED
  BY <1>2, <1>3, <1>4, <1>5, <1>6, LockFrame DEF LockQuiet

\* Every step keeps LockInv.
LEMMA LockStep == TypeOK /\ LockInv /\ [Next]_vars => LockInv'
<1>. SUFFICES ASSUME TypeOK, LockInv, [Next]_vars PROVE LockInv'
  OBVIOUS
<1>. USE ThreadsAssumption, BuildAssumption
<1>1. ASSUME NEW t \in Threads, EnterOnce(t)
      PROVE  LockInv'
  BY <1>1 DEF EnterOnce, Budget, Goto, Become, threadVars, TypeOK, LockInv,
     PcMatchesJob, Locked, PCs, Jobs
<1>2. ASSUME NEW t \in Threads, FinishBuild(t)
      PROVE  LockInv'
  BY <1>2 DEF FinishBuild, Goto, Become, threadVars, TypeOK, LockInv,
     PcMatchesJob, Locked, PCs, Jobs
<1>3. ASSUME NEW t \in Threads, NewAdapter(t)
      PROVE  LockInv'
  BY <1>3 DEF NewAdapter, Goto, Become, threadVars, TypeOK, LockInv,
     PcMatchesJob, Locked, PCs, Jobs
<1>4. ASSUME NEW t \in Threads, AdapterReady(t)
      PROVE  LockInv'
  BY <1>4 DEF AdapterReady, Detach, Goto, Become, threadVars, TypeOK,
     LockInv, PcMatchesJob, Locked, PCs, Jobs
<1>5. ASSUME NEW t \in Threads, Lookup(t)
      PROVE  LockInv'
  BY <1>5 DEF Lookup, Goto, Become, threadVars, TypeOK, LockInv,
     PcMatchesJob, Locked, PCs, Jobs
<1>6. ASSUME NEW t \in Threads, PoolHit(t)
      PROVE  LockInv'
  BY <1>6, LockPoolHit
<1>7. ASSUME NEW t \in Threads, PoolMiss(t)
      PROVE  LockInv'
  BY <1>7 DEF PoolMiss, Goto, Become, threadVars, TypeOK, LockInv,
     PcMatchesJob, Locked, PCs, Jobs
<1>8. ASSUME NEW t \in Threads, DatabaseReturn(t)
      PROVE  LockInv'
  BY <1>8, LockDatabaseReturn
<1>9. ASSUME NEW t \in Threads, CompilerError(t)
      PROVE  LockInv'
  BY <1>9 DEF CompilerError, GoBack, Goto, Become, threadVars, TypeOK,
     LockInv, PcMatchesJob, Locked, PCs, Jobs
<1>10. ASSUME NEW t \in Threads, CompilerReady(t)
       PROVE  LockInv'
  BY <1>10, LockCompilerReady
<1>11. ASSUME NEW t \in Threads, StatusOk(t)
       PROVE  LockInv'
  BY <1>11 DEF StatusOk, Budget, Detach, Goto, Become, threadVars, TypeOK,
     LockInv, PcMatchesJob, Locked, PCs, Jobs
<1>12. ASSUME NEW t \in Threads, StatusError(t)
       PROVE  LockInv'
  BY <1>12, LockStatusError
<1>13. ASSUME NEW t \in Threads, CheckDone(t)
       PROVE  LockInv'
  BY <1>13 DEF CheckDone, Goto, Become, threadVars, TypeOK, LockInv,
     PcMatchesJob, Locked, PCs, Jobs
<1>14. ASSUME NEW t \in Threads, FinishCompile(t)
       PROVE  LockInv'
  BY <1>14 DEF FinishCompile, GoBack, NewExpression, Goto, Become,
     threadVars, TypeOK, LockInv, PcMatchesJob, Locked, PCs, Jobs
<1>15. ASSUME NEW t \in Threads, ProgramCached(t)
       PROVE  LockInv'
  BY <1>15 DEF ProgramCached, StartEvaluate, Budget, Push, Goto, Become,
     threadVars, TypeOK, LockInv, PcMatchesJob, Locked, PCs, Jobs
<1>16. ASSUME NEW t \in Threads, ProgramMissing(t)
       PROVE  LockInv'
  BY <1>16, LockProgramMissing
<1>17. ASSUME NEW t \in Threads, RuntimeError(t)
       PROVE  LockInv'
  BY <1>17, LockRuntimeError
<1>18. ASSUME NEW t \in Threads, RuntimeReady(t)
       PROVE  LockInv'
  BY <1>18 DEF RuntimeReady, Budget, Goto, Become, threadVars, TypeOK,
     LockInv, PcMatchesJob, Locked, PCs, Jobs
<1>19. ASSUME NEW t \in Threads, CreateProgramError(t)
       PROVE  LockInv'
  BY <1>19, LockCreateProgramError
<1>20. ASSUME NEW t \in Threads, CreateProgram(t)
       PROVE  LockInv'
  BY <1>20, LockCreateProgram
<1>21. ASSUME NEW t \in Threads, CallPython(t)
       PROVE  LockInv'
  BY <1>21 DEF CallPython, GoBack, Depth, Goto, Become, threadVars, TypeOK,
     LockInv, PcMatchesJob, Locked, PCs, Jobs
<1>22. ASSUME NEW t \in Threads, FinishEvaluate(t)
       PROVE  LockInv'
  BY <1>22 DEF FinishEvaluate, GoBack, Pop, Depth, Goto, Become, threadVars,
     TypeOK, LockInv, PcMatchesJob, Locked, PCs, Jobs
<1>23. ASSUME NEW t \in Threads, NEW k \in Kinds, Compile(t, k)
       PROVE  LockInv'
  BY <1>23 DEF Compile, Running, Detach, Goto, Become, threadVars, TypeOK,
     LockInv, PcMatchesJob, Locked, PCs, Jobs
<1>24. ASSUME NEW t \in Threads, NEW k \in Kinds, Deserialize(t, k)
       PROVE  LockInv'
  BY <1>24 DEF Deserialize, NewExpression, Detach, Running, Goto, Become,
     threadVars, TypeOK, LockInv, PcMatchesJob, Locked, PCs, Jobs
<1>25. ASSUME NEW t \in Threads, NEW e \in Exprs, Eval(t, e)
       PROVE  LockInv'
  BY <1>25 DEF Eval, Running, Detach, Depth, Goto, Become, threadVars,
     TypeOK, LockInv, PcMatchesJob, Locked, PCs, Jobs
<1>26. ASSUME NEW t \in Threads, ConvertMessage(t)
       PROVE  LockInv'
  BY <1>26 DEF ConvertMessage, Running, Detach, Depth, Goto, Become,
     threadVars, TypeOK, LockInv, PcMatchesJob, Locked, PCs, Jobs
<1>27. ASSUME NEW t \in Threads, AccessElement(t)
       PROVE  LockInv'
  BY <1>27 DEF AccessElement, Running, Depth, Goto, Become, threadVars,
     TypeOK, LockInv, PcMatchesJob, Locked, PCs, Jobs
<1>28. ASSUME NEW t \in Threads, PythonReturns(t)
       PROVE  LockInv'
  BY <1>28 DEF PythonReturns, Running, Detach, Depth, Top, Goto, Become,
     threadVars, TypeOK, LockInv, PcMatchesJob, Locked, PCs, Jobs
<1>29. ASSUME NEW t \in Threads, TakeGil(t)
       PROVE  LockInv'
  BY <1>29 DEF TakeGil, Goto, Become, threadVars, TypeOK, LockInv,
     PcMatchesJob, Locked, PCs, Jobs
<1>30. ASSUME NEW t \in Threads, YieldGil(t)
       PROVE  LockInv'
  BY <1>30 DEF YieldGil, Detach, Goto, Become, threadVars, TypeOK, LockInv,
     PcMatchesJob, Locked, PCs, Jobs
<1>31. CASE UNCHANGED vars
  BY <1>31 DEF vars, threadVars, TypeOK, LockInv, PcMatchesJob, Locked
<1>. QED
  BY <1>1, <1>2, <1>3, <1>4, <1>5, <1>6, <1>7, <1>8, <1>9, <1>10, <1>11,
     <1>12, <1>13, <1>14, <1>15, <1>16, <1>17, <1>18, <1>19, <1>20, <1>21,
     <1>22, <1>23, <1>24, <1>25, <1>26, <1>27, <1>28, <1>29, <1>30, <1>31 
     DEF Next, LibraryStep, PythonStep

\* The locks are held where the code says they are (LockInv).
THEOREM LocksHeld == Spec => []LockInv
<1>1. Init => LockInv
  BY ThreadsAssumption DEF Init, LockInv, PcMatchesJob, Locked
<1>2. TypeOK /\ LockInv /\ [Next]_vars => LockInv'
  BY LockStep
<1>. QED  BY <1>1, <1>2, TypeCorrect, PTL DEF Spec

\* The hierarchy py_cel_env.cc:203-209 promises: when no list or map holds Any
\* elements, a thread with the GIL waits for no C++ lock, and one with the
\* pool's mutex waits for nothing but the GIL.
THEOREM LockHierarchy ==
  ASSUME ~PackedElements
  PROVE  Spec => []OneWayLockHierarchy
<1>1. TypeOK /\ LockInv => OneWayLockHierarchy
  BY DEF TypeOK, LockInv, OneWayLockHierarchy
<1>. QED  BY <1>1, TypeCorrect, LocksHeld, PTL

-----------------------------------------------------------------------------
(* Nobody waits in a circle: locks are taken in the order of Rank.         *)

\* The place in the lock order of what a thread waits for.
Rank(t) ==
  CASE pc[t] = "exprLock" -> 1
    [] pc[t] = "once" -> 2
    [] pc[t] = "poolWait" -> 3
    [] OTHER -> 4

\* Who blocks a thread is further up the order, or is not blocked at all.
LEMMA HigherRank ==
  ASSUME TypeOK, LockInv, FreeThreaded \/ ~PackedElements,
         NEW t \in Threads, NEW u \in Blockers(t)
  PROVE  u \in Threads /\ (Rank(u) > Rank(t) \/ Blockers(u) = {})
<1>1. CASE pc[t] = "exprLock"
  <2>1. u = mutex[expr[t]] /\ u # NoThread /\ expr[t] \in Exprs
    BY <1>1 DEF Blockers, Holder, PyStates, TypeOK
  <2>2. u \in Threads /\ Locked(u) BY <2>1 DEF LockInv, TypeOK
  <2>3. pc[u] # "exprLock" BY <2>2 DEF LockInv, PcMatchesJob, Locked
  <2>. QED BY <1>1, <2>2, <2>3 DEF Rank
<1>2. CASE pc[t] = "once"
  <2>1. u \in Threads /\ Building(u, OnceOf(t)) BY <1>2 DEF Blockers, PyStates
  <2>. QED BY <1>2, <2>1 DEF Rank, Building
<1>3. CASE pc[t] = "poolWait"
  <2>1. u = pool /\ u # NoThread BY <1>3 DEF Blockers, Holder, PyStates
  <2>2. u \in Threads /\ pc[u] = "database" BY <2>1 DEF LockInv, TypeOK
  <2>. QED BY <1>3, <2>2 DEF Rank
<1>4. CASE pc[t] \notin {"exprLock", "once", "poolWait"}
  <2>1. u \in gil /\ ~FreeThreaded BY <1>4 DEF Blockers
  <2>2. u \in Threads /\ pc[u] \in PyStates BY <2>1 DEF LockInv, TypeOK
  <2>3. Blockers(u) = {} BY <2>1, <2>2 DEF Blockers, PyStates
  <2>. QED BY <2>2, <2>3
<1>. QED BY <1>1, <1>2, <1>3, <1>4

\* So a circle of waiting threads would climb for ever.
LEMMA RankDeadlock ==
  ASSUME TypeOK, LockInv, FreeThreaded \/ ~PackedElements PROVE NoDeadlock
<1>1. SUFFICES ASSUME NEW S \in SUBSET Threads, S # {},
                      \A t \in S : Blockers(t) \cap S # {}
               PROVE  FALSE
  BY DEF NoDeadlock
<1>2. ASSUME NEW t \in S PROVE \E u \in S : Rank(u) > Rank(t)
  <2>1. PICK u \in S : u \in Blockers(t) BY <1>1
  <2>2. Blockers(u) # {} BY <1>1
  <2>. QED BY <2>1, <2>2, HigherRank
<1>3. \A t \in S : Rank(t) \in 1..4 BY DEF Rank
<1>4. \A t \in S : Rank(t) # 4 BY <1>2, <1>3
<1>5. \A t \in S : Rank(t) # 3 BY <1>2, <1>3, <1>4
<1>6. \A t \in S : Rank(t) # 2 BY <1>2, <1>3, <1>4, <1>5
<1>7. \A t \in S : Rank(t) # 1 BY <1>2, <1>3, <1>4, <1>5, <1>6
<1>. QED BY <1>1, <1>3, <1>4, <1>5, <1>6, <1>7

\* No deadlock, in a free-threaded build, and with the GIL as long as no list
\* or map holds Any elements (the lookups of py_cel_value.cc:187-194 are then
\* made without the pool).
THEOREM DeadlockFree ==
  ASSUME FreeThreaded \/ ~PackedElements
  PROVE  Spec => []NoDeadlock
<1>1. TypeOK /\ LockInv => NoDeadlock
  BY RankDeadlock
<1>. QED  BY <1>1, TypeCorrect, LocksHeld, PTL

-----------------------------------------------------------------------------
(* call_once.                                                              *)

\* Thread u is inside a call_once.
InOnce(u) ==
  /\ job[u] \in {"compiler", "runtime"}
  /\ pc[u] \in {"work", "adapter", "poolWait", "database"}

\* A step of t that enters or leaves no call_once.
OnceQuiet(t) ==
  /\ once' = once
  /\ \A e \in Exprs : kind[e] # "none" => kind'[e] = kind[e]
  /\ \A u \in Threads \ {t} :
       pc'[u] = pc[u] /\ job'[u] = job[u] /\ expr'[u] = expr[u]
  /\ InOnce(t)' <=> InOnce(t)
  /\ InOnce(t) => job'[t] = job[t] /\ expr'[t] = expr[t]

\* The flag a thread builds for does not change under it.
LEMMA OnceOfStable ==
  ASSUME TypeOK, LockInv, NEW u \in Threads, job[u] \in {"compiler", "runtime"},
         job'[u] = job[u], expr'[u] = expr[u],
         \A e \in Exprs : kind[e] # "none" => kind'[e] = kind[e]
  PROVE  OnceOf(u)' = OnceOf(u)
  BY DEF OnceOf, LockInv, Locked, TypeOK

\* A step that enters or leaves no call_once keeps OnceHasOneBuilder.
LEMMA OnceFrame ==
  ASSUME TypeOK, LockInv, OnceHasOneBuilder, NEW t \in Threads, OnceQuiet(t)
  PROVE  OnceHasOneBuilder'
<1>1. ASSUME NEW u \in Threads, NEW f \in OnceFlags
      PROVE  Building(u, f)' <=> Building(u, f)
  <2>1. InOnce(u)' <=> InOnce(u) BY DEF InOnce, OnceQuiet
  <2>2. InOnce(u) => OnceOf(u)' = OnceOf(u) BY OnceOfStable DEF InOnce, OnceQuiet
  <2>. QED BY <2>1, <2>2 DEF Building, InOnce
<1>. QED BY <1>1 DEF OnceHasOneBuilder, OnceQuiet

\* The first thread at a fresh flag becomes its builder.
LEMMA OnceEnter ==
  ASSUME TypeOK, LockInv, OnceHasOneBuilder, NEW t \in Threads, EnterOnce(t)
  PROVE  OnceHasOneBuilder'
<1> DEFINE g == OnceOf(t)
<1>1. job[t] \in {"compiler", "runtime"} BY DEF EnterOnce, LockInv, PcMatchesJob
<1>2. g \in OnceFlags BY DEF OnceOf, ModeOf, OnceFlags, Modes
<1>3. \A u \in Threads : job'[u] = job[u] /\ OnceOf(u)' = OnceOf(u)
  BY DEF EnterOnce, OnceOf
<1>4. \A u \in Threads \ {t} : pc'[u] = pc[u] BY DEF EnterOnce, Goto, TypeOK
<1>5. \A u \in Threads \ {t}, f \in OnceFlags : Building(u, f)' <=> Building(u, f)
  BY <1>3, <1>4 DEF Building
<1>6. \A f \in OnceFlags : Building(t, f)' <=> f = g
  BY <1>1, <1>3 DEF Building, EnterOnce, Goto, TypeOK
<1>7. \A f \in OnceFlags : ~Building(t, f) BY DEF Building, EnterOnce
<1>8. once[g] = "fresh" /\ \A u \in Threads : ~Building(u, g)
  BY <1>2 DEF EnterOnce, OnceHasOneBuilder
<1>9. \A f \in OnceFlags : once'[f] = IF f = g THEN "running" ELSE once[f]
  BY <1>2 DEF EnterOnce, TypeOK
<1>. HIDE DEF g
<1>. QED BY <1>2, <1>5, <1>6, <1>7, <1>8, <1>9 DEF OnceHasOneBuilder

\* The builder leaves call_once with a result; nobody builds then.
LEMMA OnceFinish ==
  ASSUME TypeOK, LockInv, OnceHasOneBuilder, NEW t \in Threads, FinishBuild(t)
  PROVE  OnceHasOneBuilder'
<1> DEFINE g == OnceOf(t)
<1>1. g \in OnceFlags /\ Building(t, g)
  BY DEF OnceOf, ModeOf, OnceFlags, Modes, FinishBuild, Building
<1>2. \A u \in Threads : job'[u] = job[u] /\ OnceOf(u)' = OnceOf(u)
  BY DEF FinishBuild, OnceOf
<1>3. \A u \in Threads \ {t} : pc'[u] = pc[u] BY DEF FinishBuild, Goto, TypeOK
<1>4. \A u \in Threads \ {t}, f \in OnceFlags : Building(u, f)' <=> Building(u, f)
  BY <1>2, <1>3 DEF Building
<1>5. \A f \in OnceFlags : ~Building(t, f)'
  BY DEF Building, FinishBuild, Goto, TypeOK
<1>6. \A f \in OnceFlags : Building(t, f) => f = g BY DEF Building
<1>7. once'[g] # "running" /\ \A f \in OnceFlags : f # g => once'[f] = once[f]
  BY <1>1 DEF FinishBuild, TypeOK
<1>. HIDE DEF g
<1>. QED BY <1>1, <1>4, <1>5, <1>6, <1>7 DEF OnceHasOneBuilder

\* Every step keeps OnceHasOneBuilder.
LEMMA OnceStep == TypeOK /\ LockInv /\ OnceHasOneBuilder /\ [Next]_vars => OnceHasOneBuilder'
<1>. SUFFICES ASSUME TypeOK, LockInv, OnceHasOneBuilder, [Next]_vars PROVE OnceHasOneBuilder' OBVIOUS
<1>1. ASSUME NEW t \in Threads, EnterOnce(t)
      PROVE  OnceHasOneBuilder'
  BY <1>1, OnceEnter
<1>2. ASSUME NEW t \in Threads, FinishBuild(t)
      PROVE  OnceHasOneBuilder'
  BY <1>2, OnceFinish
<1>3. ASSUME NEW t \in Threads, NewAdapter(t)
      PROVE  OnceHasOneBuilder'
  <2>1. OnceQuiet(t)
    BY <1>3 DEF NewAdapter, Goto, Become, threadVars, OnceQuiet, TypeOK,
       InOnce, LockInv, PcMatchesJob, Locked
  <2>. QED BY <2>1, OnceFrame
<1>4. ASSUME NEW t \in Threads, AdapterReady(t)
      PROVE  OnceHasOneBuilder'
  <2>1. OnceQuiet(t)
    BY <1>4 DEF AdapterReady, Detach, Goto, Become, threadVars, OnceQuiet,
       TypeOK, InOnce, LockInv, PcMatchesJob, Locked
  <2>. QED BY <2>1, OnceFrame
<1>5. ASSUME NEW t \in Threads, Lookup(t)
      PROVE  OnceHasOneBuilder'
  <2>1. OnceQuiet(t)
    BY <1>5 DEF Lookup, Goto, Become, threadVars, OnceQuiet, TypeOK, InOnce,
       LockInv, PcMatchesJob, Locked
  <2>. QED BY <2>1, OnceFrame
<1>6. ASSUME NEW t \in Threads, PoolHit(t)
      PROVE  OnceHasOneBuilder'
  <2>1. OnceQuiet(t)
    BY <1>6 DEF PoolHit, AfterLookup, GoBack, Goto, Become, threadVars,
       OnceQuiet, TypeOK, InOnce, LockInv, PcMatchesJob, Locked
  <2>. QED BY <2>1, OnceFrame
<1>7. ASSUME NEW t \in Threads, PoolMiss(t)
      PROVE  OnceHasOneBuilder'
  <2>1. OnceQuiet(t)
    BY <1>7 DEF PoolMiss, Goto, Become, threadVars, OnceQuiet, TypeOK, InOnce,
       LockInv, PcMatchesJob, Locked
  <2>. QED BY <2>1, OnceFrame
<1>8. ASSUME NEW t \in Threads, DatabaseReturn(t)
      PROVE  OnceHasOneBuilder'
  <2>1. OnceQuiet(t)
    BY <1>8 DEF DatabaseReturn, AfterLookup, GoBack, Goto, Become, threadVars,
       OnceQuiet, TypeOK, InOnce, LockInv, PcMatchesJob, Locked
  <2>. QED BY <2>1, OnceFrame
<1>9. ASSUME NEW t \in Threads, CompilerError(t)
      PROVE  OnceHasOneBuilder'
  <2>1. OnceQuiet(t)
    BY <1>9 DEF CompilerError, GoBack, Goto, Become, threadVars, OnceQuiet,
       TypeOK, InOnce, LockInv, PcMatchesJob, Locked
  <2>. QED BY <2>1, OnceFrame
<1>10. ASSUME NEW t \in Threads, CompilerReady(t)
       PROVE  OnceHasOneBuilder'
  <2>1. OnceQuiet(t)
    BY <1>10 DEF CompilerReady, Goto, Become, threadVars, OnceQuiet, TypeOK,
       InOnce, LockInv, PcMatchesJob, Locked
  <2>. QED BY <2>1, OnceFrame
<1>11. ASSUME NEW t \in Threads, StatusOk(t)
       PROVE  OnceHasOneBuilder'
  <2>1. OnceQuiet(t)
    BY <1>11 DEF StatusOk, Budget, Detach, Goto, Become, threadVars, OnceQuiet,
       TypeOK, InOnce, LockInv, PcMatchesJob, Locked
  <2>. QED BY <2>1, OnceFrame
<1>12. ASSUME NEW t \in Threads, StatusError(t)
       PROVE  OnceHasOneBuilder'
  <2>1. OnceQuiet(t)
    BY <1>12 DEF StatusError, GoBack, Detach, Goto, Become, threadVars,
       OnceQuiet, TypeOK, InOnce, LockInv, PcMatchesJob, Locked
  <2>. QED BY <2>1, OnceFrame
<1>13. ASSUME NEW t \in Threads, CheckDone(t)
       PROVE  OnceHasOneBuilder'
  <2>1. OnceQuiet(t)
    BY <1>13 DEF CheckDone, Goto, Become, threadVars, OnceQuiet, TypeOK,
       InOnce, LockInv, PcMatchesJob, Locked
  <2>. QED BY <2>1, OnceFrame
<1>14. ASSUME NEW t \in Threads, FinishCompile(t)
       PROVE  OnceHasOneBuilder'
  <2>1. OnceQuiet(t)
    BY <1>14 DEF FinishCompile, GoBack, NewExpression, Goto, Become,
       threadVars, OnceQuiet, TypeOK, InOnce, LockInv, PcMatchesJob, Locked
  <2>. QED BY <2>1, OnceFrame
<1>15. ASSUME NEW t \in Threads, ProgramCached(t)
       PROVE  OnceHasOneBuilder'
  <2>1. OnceQuiet(t)
    BY <1>15 DEF ProgramCached, StartEvaluate, Budget, Push, Goto, Become,
       threadVars, OnceQuiet, TypeOK, InOnce, LockInv, PcMatchesJob, Locked
  <2>. QED BY <2>1, OnceFrame
<1>16. ASSUME NEW t \in Threads, ProgramMissing(t)
       PROVE  OnceHasOneBuilder'
  <2>1. OnceQuiet(t)
    BY <1>16 DEF ProgramMissing, Goto, Become, threadVars, OnceQuiet, TypeOK,
       InOnce, LockInv, PcMatchesJob, Locked
  <2>. QED BY <2>1, OnceFrame
<1>17. ASSUME NEW t \in Threads, RuntimeError(t)
       PROVE  OnceHasOneBuilder'
  <2>1. OnceQuiet(t)
    BY <1>17 DEF RuntimeError, GoBack, Goto, Become, threadVars, OnceQuiet,
       TypeOK, InOnce, LockInv, PcMatchesJob, Locked
  <2>. QED BY <2>1, OnceFrame
<1>18. ASSUME NEW t \in Threads, RuntimeReady(t)
       PROVE  OnceHasOneBuilder'
  <2>1. OnceQuiet(t)
    BY <1>18 DEF RuntimeReady, Budget, Goto, Become, threadVars, OnceQuiet,
       TypeOK, InOnce, LockInv, PcMatchesJob, Locked
  <2>. QED BY <2>1, OnceFrame
<1>19. ASSUME NEW t \in Threads, CreateProgramError(t)
       PROVE  OnceHasOneBuilder'
  <2>1. OnceQuiet(t)
    BY <1>19 DEF CreateProgramError, GoBack, Goto, Become, threadVars,
       OnceQuiet, TypeOK, InOnce, LockInv, PcMatchesJob, Locked
  <2>. QED BY <2>1, OnceFrame
<1>20. ASSUME NEW t \in Threads, CreateProgram(t)
       PROVE  OnceHasOneBuilder'
  <2>1. OnceQuiet(t)
    BY <1>20 DEF CreateProgram, StartEvaluate, Budget, Push, Goto, Become,
       threadVars, OnceQuiet, TypeOK, InOnce, LockInv, PcMatchesJob, Locked
  <2>. QED BY <2>1, OnceFrame
<1>21. ASSUME NEW t \in Threads, CallPython(t)
       PROVE  OnceHasOneBuilder'
  <2>1. OnceQuiet(t)
    BY <1>21 DEF CallPython, GoBack, Depth, Goto, Become, threadVars,
       OnceQuiet, TypeOK, InOnce, LockInv, PcMatchesJob, Locked
  <2>. QED BY <2>1, OnceFrame
<1>22. ASSUME NEW t \in Threads, FinishEvaluate(t)
       PROVE  OnceHasOneBuilder'
  <2>1. OnceQuiet(t)
    BY <1>22 DEF FinishEvaluate, GoBack, Pop, Depth, Goto, Become, threadVars,
       OnceQuiet, TypeOK, InOnce, LockInv, PcMatchesJob, Locked
  <2>. QED BY <2>1, OnceFrame
<1>23. ASSUME NEW t \in Threads, NEW k \in Kinds, Compile(t, k)
       PROVE  OnceHasOneBuilder'
  <2>1. OnceQuiet(t)
    BY <1>23 DEF Compile, Running, Detach, Goto, Become, threadVars, OnceQuiet,
       TypeOK, InOnce, LockInv, PcMatchesJob, Locked
  <2>. QED BY <2>1, OnceFrame
<1>24. ASSUME NEW t \in Threads, NEW k \in Kinds, Deserialize(t, k)
       PROVE  OnceHasOneBuilder'
  <2>1. OnceQuiet(t)
    BY <1>24 DEF Deserialize, NewExpression, Detach, Running, Goto, Become,
       threadVars, OnceQuiet, TypeOK, InOnce, LockInv, PcMatchesJob, Locked
  <2>. QED BY <2>1, OnceFrame
<1>25. ASSUME NEW t \in Threads, NEW e \in Exprs, Eval(t, e)
       PROVE  OnceHasOneBuilder'
  <2>1. OnceQuiet(t)
    BY <1>25 DEF Eval, Running, Detach, Depth, Goto, Become, threadVars,
       OnceQuiet, TypeOK, InOnce, LockInv, PcMatchesJob, Locked
  <2>. QED BY <2>1, OnceFrame
<1>26. ASSUME NEW t \in Threads, ConvertMessage(t)
       PROVE  OnceHasOneBuilder'
  <2>1. OnceQuiet(t)
    BY <1>26 DEF ConvertMessage, Running, Detach, Depth, Goto, Become,
       threadVars, OnceQuiet, TypeOK, InOnce, LockInv, PcMatchesJob, Locked
  <2>. QED BY <2>1, OnceFrame
<1>27. ASSUME NEW t \in Threads, AccessElement(t)
       PROVE  OnceHasOneBuilder'
  <2>1. OnceQuiet(t)
    BY <1>27 DEF AccessElement, Running, Depth, Goto, Become, threadVars,
       OnceQuiet, TypeOK, InOnce, LockInv, PcMatchesJob, Locked
  <2>. QED BY <2>1, OnceFrame
<1>28. ASSUME NEW t \in Threads, PythonReturns(t)
       PROVE  OnceHasOneBuilder'
  <2>1. OnceQuiet(t)
    BY <1>28 DEF PythonReturns, Running, Detach, Depth, Top, Goto, Become,
       threadVars, OnceQuiet, TypeOK, InOnce, LockInv, PcMatchesJob, Locked
  <2>. QED BY <2>1, OnceFrame
<1>29. ASSUME NEW t \in Threads, TakeGil(t)
       PROVE  OnceHasOneBuilder'
  <2>1. OnceQuiet(t)
    BY <1>29 DEF TakeGil, Goto, Become, threadVars, OnceQuiet, TypeOK, InOnce,
       LockInv, PcMatchesJob, Locked
  <2>. QED BY <2>1, OnceFrame
<1>30. ASSUME NEW t \in Threads, YieldGil(t)
       PROVE  OnceHasOneBuilder'
  <2>1. OnceQuiet(t)
    BY <1>30 DEF YieldGil, Detach, Goto, Become, threadVars, OnceQuiet, TypeOK,
       InOnce, LockInv, PcMatchesJob, Locked
  <2>. QED BY <2>1, OnceFrame
<1>31. CASE UNCHANGED vars
  BY <1>31 DEF vars, threadVars, OnceHasOneBuilder, Building, OnceOf
<1>. QED
  BY <1>1, <1>2, <1>3, <1>4, <1>5, <1>6, <1>7, <1>8, <1>9, <1>10, <1>11,
     <1>12, <1>13, <1>14, <1>15, <1>16, <1>17, <1>18, <1>19, <1>20, <1>21,
     <1>22, <1>23, <1>24, <1>25, <1>26, <1>27, <1>28, <1>29, <1>30, <1>31 
     DEF Next, LibraryStep, PythonStep

\* The compiler and each runtime are built by one thread at a time, and a
\* thread that waits for a build waits for a thread that builds.
THEOREM OneBuilder == Spec => []OnceHasOneBuilder
<1>1. Init => OnceHasOneBuilder
  BY DEF Init, OnceHasOneBuilder, Building
<1>2. TypeOK /\ LockInv /\ OnceHasOneBuilder /\ [Next]_vars => OnceHasOneBuilder'
  BY OnceStep
<1>. QED  BY <1>1, <1>2, TypeCorrect, LocksHeld, PTL DEF Spec

-----------------------------------------------------------------------------
(* Programs.                                                               *)

\* A new program replaces none that an evaluation uses.
LEMMA FramesCreateProgram ==
  ASSUME TypeOK, LockInv, FramesInv, NEW t \in Threads, CreateProgram(t)
  PROVE  FramesInv'
<1> DEFINE e == expr[t]  new == [expr |-> e, gen |-> 1, todo |-> 0]
<1>1. Locked(t) /\ e \in Exprs BY DEF CreateProgram, Locked, TypeOK
<1>2. program[e] = NoProgram /\ mutex[e] = t BY <1>1 DEF FramesInv, LockInv
<1>3. program' = [program EXCEPT ![e] = [gen |-> 1, mode |-> OnceOf(t)]]
  BY <1>2 DEF CreateProgram, NoProgram
<1>4. frames' = [frames EXCEPT ![t] = Append(@, new)]
  BY <1>2 DEF CreateProgram, NoProgram, StartEvaluate, Push
<1>5. frames[t] \in Seq(Frames) /\ new \in Frames
  <2>1. 0 \in 0..MaxLookups /\ 1 \in Nat BY BoundsAssumption
  <2>. QED BY <1>1, <2>1 DEF TypeOK, Frames
<1>6. ASSUME NEW u \in Threads, NEW i \in 1..Depth(u)
      PROVE  frames[u][i].expr # e
  BY <1>2, <1>6 DEF FramesInv, NoProgram
<1>7. ASSUME NEW u \in Threads, NEW i \in 1..Depth(u)'
      PROVE  /\ frames'[u][i].gen > 0
             /\ frames'[u][i].gen = program'[frames'[u][i].expr].gen
  <2>1. CASE u = t /\ i = Depth(t) + 1
    <3>1. frames'[u][i] = new
      BY <2>1, <1>4, <1>5, AppendProperties DEF TypeOK, Depth
    <3>2. program'[e].gen = 1 BY <1>3, <1>1 DEF TypeOK
    <3>. QED BY <3>1, <3>2
  <2>2. CASE ~(u = t /\ i = Depth(t) + 1)
    <3>1. i \in 1..Depth(u) /\ frames'[u][i] = frames[u][i]
      BY <2>2, <1>4, <1>5, AppendProperties DEF TypeOK, Depth
    <3>2. frames[u][i].expr # e /\ frames[u][i].expr \in Exprs
      <4>1. frames[u] \in Seq(Frames) BY DEF TypeOK
      <4>2. frames[u][i] \in Frames BY <4>1, <3>1, LenProperties DEF Depth
      <4>. QED BY <4>2, <3>1, <1>6 DEF Frames
    <3>3. program'[frames[u][i].expr] = program[frames[u][i].expr]
      BY <3>2, <1>3 DEF TypeOK
    <3>. QED BY <3>1, <3>3 DEF FramesInv
  <2>. QED BY <2>1, <2>2
<1>8. ASSUME NEW u \in Threads, job'[u] = "evaluate" PROVE Depth(u)' > 0
  BY <1>8, <1>4, <1>5, AppendProperties DEF FramesInv, Depth, TypeOK, CreateProgram, StartEvaluate, Become
<1>9. ASSUME NEW u \in Threads, Locked(u)' PROVE program'[expr'[u]] = NoProgram
  <2>1. u # t /\ Locked(u) /\ expr'[u] = expr[u]
    BY <1>9 DEF CreateProgram, StartEvaluate, Become, Locked, TypeOK
  <2>2. expr[u] # e BY <2>1, <1>2 DEF LockInv
  <2>. QED BY <2>1, <2>2, <1>3 DEF FramesInv, TypeOK
<1>10. ASSUME NEW x \in Exprs PROVE program'[x] = NoProgram \/ program'[x].gen > 0
  BY <1>3 DEF FramesInv, TypeOK
<1>. QED BY <1>7, <1>8, <1>9, <1>10 DEF FramesInv

\* A call into Python changes no frame's program.
LEMMA FramesCallPython ==
  ASSUME TypeOK, LockInv, FramesInv, NEW t \in Threads, CallPython(t)
  PROVE  FramesInv'
<1> DEFINE d == Depth(t)
           f == [frames[t][d] EXCEPT !.todo = todo[t] - 1]
<1>1. frames[t] \in Seq(Frames) /\ d \in 1..Len(frames[t])
  BY LenProperties DEF CallPython, FramesInv, TypeOK, Depth
<1>2. frames[t][d] \in Frames BY <1>1, LenProperties
<1>3. f.gen = frames[t][d].gen /\ f.expr = frames[t][d].expr BY <1>2 DEF Frames
<1>4. frames' = [frames EXCEPT ![t] = [frames[t] EXCEPT ![d] = f]]
  BY DEF CallPython, TypeOK
<1>5. ASSUME NEW u \in Threads
      PROVE  /\ Depth(u)' = Depth(u)
             /\ \A i \in 1..Depth(u) : /\ frames'[u][i].gen = frames[u][i].gen
                                       /\ frames'[u][i].expr = frames[u][i].expr
  <2> HIDE DEF f
  <2>1. frames[u] \in Seq(Frames) BY DEF TypeOK
  <2>2. CASE u = t
    <3>1. frames'[t] = [frames[t] EXCEPT ![d] = f] BY <1>4 DEF TypeOK
    <3>2. frames[t] \in [1..Len(frames[t]) -> Frames] /\ Len(frames[t]) \in Nat
      BY <1>1, LenProperties
    <3>3. \A i \in 1..Len(frames[t]) : frames'[t][i] = IF i = d THEN f ELSE frames[t][i]
       BY <3>1, <3>2
    <3>4. Len(frames'[t]) = Len(frames[t]) BY <3>1, <3>2, <1>1
    <3>. QED BY <2>2, <3>3, <3>4, <1>3 DEF Depth
  <2>3. CASE u # t BY <2>3, <1>4 DEF TypeOK, Depth
  <2>. QED BY <2>2, <2>3
<1>6. /\ program' = program /\ expr' = expr
      /\ \A u \in Threads : /\ job'[u] = "evaluate" => job[u] = "evaluate"
                            /\ Locked(u)' => Locked(u)
  BY DEF CallPython, GoBack, Become, Locked, TypeOK
<1>. QED BY <1>5, <1>6 DEF FramesInv

\* The end of an evaluation leaves the frames below it alone.
LEMMA FramesFinishEvaluate ==
  ASSUME TypeOK, LockInv, FramesInv, NEW t \in Threads, FinishEvaluate(t)
  PROVE  FramesInv'
<1>1. frames[t] \in Seq(Frames) /\ Depth(t) \in Nat
  BY LenProperties DEF TypeOK, Depth
<1>2. frames' = [frames EXCEPT ![t] = SubSeq(frames[t], 1, Depth(t) - 1)]
  BY DEF FinishEvaluate, Pop
<1>3. ASSUME NEW u \in Threads
      PROVE  /\ Depth(u)' \in Nat /\ Depth(u)' <= Depth(u)
             /\ \A i \in 1..Depth(u)' : frames'[u][i] = frames[u][i]
  <2>1. CASE u = t
    <3> DEFINE s == SubSeq(frames[t], 1, Depth(t) - 1)
    <3>1. \A i \in 1..(Depth(t) - 1) : frames[t][i] \in Frames
      BY <1>1, LenProperties DEF Depth
    <3>2. /\ Len(s) = IF 1 <= Depth(t) - 1 THEN Depth(t) - 1 ELSE 0
          /\ \A i \in 1..(Depth(t) - 1) : s[i] = frames[t][i]
      BY <3>1, <1>1, SubSeqProperties
    <3>3. frames'[t] = s BY <1>2 DEF TypeOK
    <3>. QED BY <2>1, <3>2, <3>3, <1>1 DEF Depth
  <2>2. CASE u # t BY <2>2, <1>2, LenProperties DEF TypeOK, Depth
  <2>. QED BY <2>1, <2>2
<1>4. /\ program' = program /\ expr' = expr
      /\ \A u \in Threads : /\ job'[u] = "evaluate" => job[u] = "evaluate" /\ u # t
                            /\ Locked(u)' => Locked(u)
  BY DEF FinishEvaluate, GoBack, Become, Locked, TypeOK
<1>5. \A u \in Threads \ {t} : Depth(u)' = Depth(u) BY <1>2 DEF TypeOK, Depth
<1>6. \A u \in Threads : Depth(u) \in Nat BY LenProperties DEF TypeOK, Depth
<1>. QED BY <1>3, <1>4, <1>5, <1>6 DEF FramesInv

\* A new evaluation uses the program that its expression has.
LEMMA FramesProgramCached ==
  ASSUME TypeOK, FramesInv, NEW t \in Threads, ProgramCached(t)
  PROVE  FramesInv'
<1>. DEFINE e == expr[t]
            new == [expr |-> e, gen |-> program[e].gen, todo |-> 0]
<1>1. /\ e \in Exprs /\ program[e] # NoProgram /\ program' = program /\ expr' = expr
      /\ frames' = [frames EXCEPT ![t] = Append(frames[t], new)]
  BY DEF ProgramCached, StartEvaluate, Push, TypeOK
<1>2. new.gen > 0 /\ new.gen = program[new.expr].gen
  BY <1>1 DEF FramesInv
<1>. HIDE DEF new
<1>3. /\ \A u \in Threads : u # t => frames'[u] = frames[u]
      /\ frames'[t] = Append(frames[t], new)
      /\ \A u \in Threads : frames[u] \in Seq(Frames)
  BY <1>1 DEF TypeOK
<1>4. /\ Depth(t) \in Nat /\ Depth(t)' = Depth(t) + 1
      /\ frames'[t][Depth(t) + 1] = new
      /\ \A i \in 1..Depth(t) : frames'[t][i] = frames[t][i]
  BY <1>3 DEF Depth
<1>5. \A u \in Threads : u # t => Depth(u)' = Depth(u)
  BY <1>3 DEF Depth
<1>6. \A u \in Threads : /\ job'[u] = "evaluate" => job[u] = "evaluate" \/ u = t
                         /\ Locked(u)' => Locked(u)
  BY DEF ProgramCached, StartEvaluate, Become, Locked, TypeOK
<1>7. ASSUME NEW u \in Threads, NEW i \in 1..Depth(u)'
      PROVE  /\ frames'[u][i].gen > 0
             /\ frames'[u][i].gen = program[frames'[u][i].expr].gen
  <2>1. CASE u = t /\ i = Depth(t) + 1
    BY <1>2, <1>4, <2>1
  <2>2. CASE ~(u = t /\ i = Depth(t) + 1)
    <3>1. i \in 1..Depth(u) /\ frames'[u][i] = frames[u][i]
      <4>1. CASE u = t
        BY <1>4, <2>2, <4>1
      <4>2. CASE u # t
        BY <1>3, <1>5, <4>2
      <4>. QED  BY <4>1, <4>2
    <3>. QED  BY <3>1 DEF FramesInv
  <2>. QED  BY <2>1, <2>2
<1>8. ASSUME NEW u \in Threads, job'[u] = "evaluate" PROVE Depth(u)' > 0
  BY <1>4, <1>5, <1>6, <1>8 DEF FramesInv
<1>9. \A u \in Threads : Locked(u)' => program'[expr'[u]] = NoProgram
  BY <1>1, <1>6 DEF FramesInv
<1>10. \A x \in Exprs : program'[x] = NoProgram \/ program'[x].gen > 0
  BY <1>1 DEF FramesInv
<1>11. program' = program
  BY <1>1
<1>. QED  BY <1>7, <1>8, <1>9, <1>10, <1>11 DEF FramesInv

\* A step that leaves frames and programs alone, and starts neither an evaluation
\* nor the making of a program, keeps FramesInv.
LEMMA FramesQuiet ==
  ASSUME FramesInv, frames' = frames, program' = program, expr' = expr,
         \A u \in Threads : /\ job'[u] = "evaluate" => job[u] = "evaluate"
                            /\ Locked(u)' => Locked(u)
  PROVE  FramesInv'
BY DEF FramesInv, Depth

\* Every step keeps FramesInv.
LEMMA FramesStep == TypeOK /\ LockInv /\ FramesInv /\ [Next]_vars => FramesInv'
<1>. SUFFICES ASSUME TypeOK, LockInv, FramesInv, [Next]_vars PROVE FramesInv'
  OBVIOUS
<1>. USE BoundsAssumption
<1>1. ASSUME NEW t \in Threads, EnterOnce(t)
      PROVE  FramesInv'
  BY <1>1, FramesQuiet DEF EnterOnce, Locked, TypeOK
<1>2. ASSUME NEW t \in Threads, FinishBuild(t)
      PROVE  FramesInv'
  BY <1>2, FramesQuiet DEF FinishBuild, Locked, TypeOK
<1>3. ASSUME NEW t \in Threads, NewAdapter(t)
      PROVE  FramesInv'
  BY <1>3, FramesQuiet DEF NewAdapter, Locked, TypeOK
<1>4. ASSUME NEW t \in Threads, AdapterReady(t)
      PROVE  FramesInv'
  BY <1>4, FramesQuiet DEF AdapterReady, Locked, TypeOK
<1>5. ASSUME NEW t \in Threads, Lookup(t)
      PROVE  FramesInv'
  BY <1>5, FramesQuiet DEF Lookup, Locked, TypeOK
<1>6. ASSUME NEW t \in Threads, PoolHit(t)
      PROVE  FramesInv'
  BY <1>6, FramesQuiet DEF PoolHit, AfterLookup, GoBack, Become, Locked, TypeOK
<1>7. ASSUME NEW t \in Threads, PoolMiss(t)
      PROVE  FramesInv'
  BY <1>7, FramesQuiet DEF PoolMiss, Locked, TypeOK
<1>8. ASSUME NEW t \in Threads, DatabaseReturn(t)
      PROVE  FramesInv'
  BY <1>8, FramesQuiet DEF DatabaseReturn, AfterLookup, GoBack, Become, Locked, TypeOK
<1>9. ASSUME NEW t \in Threads, CompilerError(t)
      PROVE  FramesInv'
  BY <1>9, FramesQuiet DEF CompilerError, GoBack, Become, Locked, TypeOK
<1>10. ASSUME NEW t \in Threads, CompilerReady(t)
       PROVE  FramesInv'
  BY <1>10, FramesQuiet DEF CompilerReady, Become, Locked, TypeOK
<1>11. ASSUME NEW t \in Threads, StatusOk(t)
       PROVE  FramesInv'
  BY <1>11, FramesQuiet DEF StatusOk, Locked, TypeOK
<1>12. ASSUME NEW t \in Threads, StatusError(t)
       PROVE  FramesInv'
  BY <1>12, FramesQuiet DEF StatusError, GoBack, Become, Locked, TypeOK
<1>13. ASSUME NEW t \in Threads, CheckDone(t)
       PROVE  FramesInv'
  BY <1>13, FramesQuiet DEF CheckDone, Become, Locked, TypeOK
<1>14. ASSUME NEW t \in Threads, FinishCompile(t)
       PROVE  FramesInv'
  BY <1>14, FramesQuiet DEF FinishCompile, GoBack, Become, Locked, TypeOK
<1>15. ASSUME NEW t \in Threads, ProgramCached(t)
       PROVE  FramesInv'
  BY <1>15, FramesProgramCached
<1>16. ASSUME NEW t \in Threads, ProgramMissing(t)
       PROVE  FramesInv'
  <2>1. \A u \in Threads : /\ job'[u] = "evaluate" => job[u] = "evaluate"
                           /\ Locked(u)' => Locked(u) \/ u = t
    BY <1>16 DEF ProgramMissing, Become, Locked, TypeOK
  <2>2. /\ program[expr[t]] = NoProgram
        /\ program' = program /\ expr' = expr /\ frames' = frames
    BY <1>16 DEF ProgramMissing
  <2>. QED  BY <2>1, <2>2 DEF FramesInv, Depth
<1>17. ASSUME NEW t \in Threads, RuntimeError(t)
       PROVE  FramesInv'
  BY <1>17, FramesQuiet DEF RuntimeError, GoBack, Become, Locked, TypeOK
<1>18. ASSUME NEW t \in Threads, RuntimeReady(t)
       PROVE  FramesInv'
  BY <1>18, FramesQuiet DEF RuntimeReady, Become, Locked, TypeOK
<1>19. ASSUME NEW t \in Threads, CreateProgramError(t)
       PROVE  FramesInv'
  BY <1>19, FramesQuiet DEF CreateProgramError, GoBack, Become, Locked, TypeOK
<1>20. ASSUME NEW t \in Threads, CreateProgram(t)
       PROVE  FramesInv'
  BY <1>20, FramesCreateProgram
<1>21. ASSUME NEW t \in Threads, CallPython(t)
       PROVE  FramesInv'
  BY <1>21, FramesCallPython
<1>22. ASSUME NEW t \in Threads, FinishEvaluate(t)
       PROVE  FramesInv'
  BY <1>22, FramesFinishEvaluate
<1>23. ASSUME NEW t \in Threads, NEW k \in Kinds, Compile(t, k)
       PROVE  FramesInv'
  BY <1>23, FramesQuiet DEF Compile, Become, Locked, TypeOK
<1>24. ASSUME NEW t \in Threads, NEW k \in Kinds, Deserialize(t, k)
       PROVE  FramesInv'
  BY <1>24, FramesQuiet DEF Deserialize, threadVars, Locked, TypeOK
<1>25. ASSUME NEW t \in Threads, NEW e \in Exprs, Eval(t, e)
       PROVE  FramesInv'
  <2>1. job' = job /\ program' = program /\ frames' = frames /\ ~Locked(t)
    BY <1>25 DEF Eval, Running, LockInv, PcMatchesJob, Locked
  <2>2. \A u \in Threads : u # t => expr'[u] = expr[u]
    BY <1>25 DEF Eval, TypeOK
  <2>. QED  BY <2>1, <2>2 DEF FramesInv, Depth, Locked
<1>26. ASSUME NEW t \in Threads, ConvertMessage(t)
       PROVE  FramesInv'
  BY <1>26, FramesQuiet DEF ConvertMessage, Become, Locked, TypeOK
<1>27. ASSUME NEW t \in Threads, AccessElement(t)
       PROVE  FramesInv'
  BY <1>27, FramesQuiet DEF AccessElement, Become, Locked, TypeOK
<1>28. ASSUME NEW t \in Threads, PythonReturns(t)
       PROVE  FramesInv'
  <2>1. /\ program' = program /\ frames' = frames /\ Depth(t) > 0
        /\ \A u \in Threads : u # t => expr'[u] = expr[u] /\ job'[u] = job[u]
        /\ job'[t] = "evaluate"
    BY <1>28 DEF PythonReturns, Become, TypeOK
  <2>. QED  BY <2>1 DEF FramesInv, Depth, Locked
<1>29. ASSUME NEW t \in Threads, TakeGil(t)
       PROVE  FramesInv'
  BY <1>29, FramesQuiet DEF TakeGil, threadVars, Locked, TypeOK
<1>30. ASSUME NEW t \in Threads, YieldGil(t)
       PROVE  FramesInv'
  BY <1>30, FramesQuiet DEF YieldGil, threadVars, Locked, TypeOK
<1>31. CASE UNCHANGED vars
  BY <1>31 DEF vars, threadVars, FramesInv, Depth, Locked
<1>. QED
  BY <1>1, <1>2, <1>3, <1>4, <1>5, <1>6, <1>7, <1>8, <1>9, <1>10, <1>11,
     <1>12, <1>13, <1>14, <1>15, <1>16, <1>17, <1>18, <1>19, <1>20, <1>21,
     <1>22, <1>23, <1>24, <1>25, <1>26, <1>27, <1>28, <1>29, <1>30, <1>31 
     DEF Next, LibraryStep, PythonStep

\* An expression is locked to make its first program only (FramesInv).
THEOREM FramesKept == Spec => []FramesInv
<1>1. Init => FramesInv
  BY DEF Init, FramesInv, Depth, Locked
<1>2. TypeOK /\ LockInv /\ FramesInv /\ [Next]_vars => FramesInv'
  BY FramesStep
<1>. QED  BY <1>1, <1>2, TypeCorrect, LocksHeld, PTL DEF Spec

\* The program an evaluation runs is never replaced under it.
THEOREM ProgramsStay == Spec => []ProgramOutlivesEvaluation
<1>1. FramesInv => ProgramOutlivesEvaluation
  BY DEF FramesInv, ProgramOutlivesEvaluation
<1>. QED  BY <1>1, FramesKept, PTL

-----------------------------------------------------------------------------
(* Refinement of ProgramContract.                                          *)

\* A compiled expression is created with its kind.
LEMMA ContractFinishCompile ==
  ASSUME TypeOK, LockInv, FramesInv, NEW t \in Threads, FinishCompile(t)
  PROVE  [Contract!Next]_<<kind, program>>
<1>1. want[t] \in {"parsed", "checked"} /\ program' = program
  BY DEF FinishCompile, TypeOK, Kinds
<1>2. CASE kind' = kind BY <1>1, <1>2
<1>3. CASE \E e \in Exprs : kind[e] = "none" /\ kind' = [kind EXCEPT ![e] = want[t]]
  <2>1. PICK e \in Exprs : kind[e] = "none" /\ kind' = [kind EXCEPT ![e] = want[t]]
    BY <1>3
  <2>2. Contract!Create(e, want[t]) BY <1>1, <2>1 DEF Contract!Create
  <2>. QED BY <1>1, <2>2 DEF Contract!Next
<1>. QED BY <1>2, <1>3 DEF FinishCompile, NewExpression

\* CreateProgram is the contract's Build.
LEMMA ContractCreateProgram ==
  ASSUME TypeOK, LockInv, FramesInv, NEW t \in Threads, CreateProgram(t)
  PROVE  [Contract!Next]_<<kind, program>>
<1> DEFINE e == expr[t]
<1>1. Locked(t) /\ e \in Exprs /\ job[t] # "compiler"
  BY DEF CreateProgram, Locked, TypeOK
<1>2. program[e] = NoProgram /\ kind[e] \in Kinds
  BY <1>1 DEF FramesInv, LockInv, TypeOK
<1>3. OnceOf(t) = IF kind[e] = "checked" THEN "standard" ELSE "ignoreWarnings"
  BY <1>1, <1>2 DEF OnceOf, ModeOf, Kinds
<1>4. program' = [program EXCEPT ![e] = [gen |-> 1, mode |-> OnceOf(t)]] /\ kind' = kind
  BY <1>2 DEF CreateProgram, NoProgram
<1>5. Contract!Build(e)
  BY <1>2, <1>3, <1>4 DEF Contract!Build, Contract!NoProgram, NoProgram, Kinds
<1>. QED BY <1>1, <1>5 DEF Contract!Next

\* Every step is a step of the contract or leaves its variables alone.
LEMMA ContractStep ==
  TypeOK /\ LockInv /\ FramesInv /\ [Next]_vars => [Contract!Next]_<<kind, program>>
<1>. SUFFICES ASSUME TypeOK, LockInv, FramesInv, [Next]_vars
              PROVE  [Contract!Next]_<<kind, program>>
  OBVIOUS
<1>1. ASSUME NEW t \in Threads, EnterOnce(t)
      PROVE  [Contract!Next]_<<kind, program>>
  BY <1>1 DEF EnterOnce, Budget, Goto, Become, threadVars
<1>2. ASSUME NEW t \in Threads, FinishBuild(t)
      PROVE  [Contract!Next]_<<kind, program>>
  BY <1>2 DEF FinishBuild, Goto, Become, threadVars
<1>3. ASSUME NEW t \in Threads, NewAdapter(t)
      PROVE  [Contract!Next]_<<kind, program>>
  BY <1>3 DEF NewAdapter, Goto, Become, threadVars
<1>4. ASSUME NEW t \in Threads, AdapterReady(t)
      PROVE  [Contract!Next]_<<kind, program>>
  BY <1>4 DEF AdapterReady, Detach, Goto, Become, threadVars
<1>5. ASSUME NEW t \in Threads, Lookup(t)
      PROVE  [Contract!Next]_<<kind, program>>
  BY <1>5 DEF Lookup, Goto, Become, threadVars
<1>6. ASSUME NEW t \in Threads, PoolHit(t)
      PROVE  [Contract!Next]_<<kind, program>>
  BY <1>6 DEF PoolHit, AfterLookup, GoBack, Goto, Become, threadVars
<1>7. ASSUME NEW t \in Threads, PoolMiss(t)
      PROVE  [Contract!Next]_<<kind, program>>
  BY <1>7 DEF PoolMiss, Goto, Become, threadVars
<1>8. ASSUME NEW t \in Threads, DatabaseReturn(t)
      PROVE  [Contract!Next]_<<kind, program>>
  BY <1>8 DEF DatabaseReturn, AfterLookup, GoBack, Goto, Become, threadVars
<1>9. ASSUME NEW t \in Threads, CompilerError(t)
      PROVE  [Contract!Next]_<<kind, program>>
  BY <1>9 DEF CompilerError, GoBack, Goto, Become, threadVars
<1>10. ASSUME NEW t \in Threads, CompilerReady(t)
       PROVE  [Contract!Next]_<<kind, program>>
  BY <1>10 DEF CompilerReady, Goto, Become, threadVars
<1>11. ASSUME NEW t \in Threads, StatusOk(t)
       PROVE  [Contract!Next]_<<kind, program>>
  BY <1>11 DEF StatusOk, Budget, Detach, Goto, Become, threadVars
<1>12. ASSUME NEW t \in Threads, StatusError(t)
       PROVE  [Contract!Next]_<<kind, program>>
  BY <1>12 DEF StatusError, GoBack, Detach, Goto, Become, threadVars
<1>13. ASSUME NEW t \in Threads, CheckDone(t)
       PROVE  [Contract!Next]_<<kind, program>>
  BY <1>13 DEF CheckDone, Goto, Become, threadVars
<1>14. ASSUME NEW t \in Threads, FinishCompile(t)
       PROVE  [Contract!Next]_<<kind, program>>
  BY <1>14, ContractFinishCompile
<1>15. ASSUME NEW t \in Threads, ProgramCached(t)
       PROVE  [Contract!Next]_<<kind, program>>
  BY <1>15 DEF ProgramCached, StartEvaluate, Budget, Push, Goto, Become,
     threadVars
<1>16. ASSUME NEW t \in Threads, ProgramMissing(t)
       PROVE  [Contract!Next]_<<kind, program>>
  BY <1>16 DEF ProgramMissing, Goto, Become, threadVars
<1>17. ASSUME NEW t \in Threads, RuntimeError(t)
       PROVE  [Contract!Next]_<<kind, program>>
  BY <1>17 DEF RuntimeError, GoBack, Goto, Become, threadVars
<1>18. ASSUME NEW t \in Threads, RuntimeReady(t)
       PROVE  [Contract!Next]_<<kind, program>>
  BY <1>18 DEF RuntimeReady, Budget, Goto, Become, threadVars
<1>19. ASSUME NEW t \in Threads, CreateProgramError(t)
       PROVE  [Contract!Next]_<<kind, program>>
  BY <1>19 DEF CreateProgramError, GoBack, Goto, Become, threadVars
<1>20. ASSUME NEW t \in Threads, CreateProgram(t)
       PROVE  [Contract!Next]_<<kind, program>>
  BY <1>20, ContractCreateProgram
<1>21. ASSUME NEW t \in Threads, CallPython(t)
       PROVE  [Contract!Next]_<<kind, program>>
  BY <1>21 DEF CallPython, GoBack, Depth, Goto, Become, threadVars
<1>22. ASSUME NEW t \in Threads, FinishEvaluate(t)
       PROVE  [Contract!Next]_<<kind, program>>
  BY <1>22 DEF FinishEvaluate, GoBack, Pop, Depth, Goto, Become, threadVars
<1>23. ASSUME NEW t \in Threads, NEW k \in Kinds, Compile(t, k)
       PROVE  [Contract!Next]_<<kind, program>>
  BY <1>23 DEF Compile, Running, Detach, Goto, Become, threadVars
<1>24. ASSUME NEW t \in Threads, NEW k \in Kinds, Deserialize(t, k)
       PROVE  [Contract!Next]_<<kind, program>>
  BY <1>24 DEF Deserialize, NewExpression, Detach, Running, Goto, Become,
     threadVars, TypeOK, Kinds, Contract!Next, Contract!Create
<1>25. ASSUME NEW t \in Threads, NEW e \in Exprs, Eval(t, e)
       PROVE  [Contract!Next]_<<kind, program>>
  BY <1>25 DEF Eval, Running, Detach, Depth, Goto, Become, threadVars
<1>26. ASSUME NEW t \in Threads, ConvertMessage(t)
       PROVE  [Contract!Next]_<<kind, program>>
  BY <1>26 DEF ConvertMessage, Running, Detach, Depth, Goto, Become,
     threadVars
<1>27. ASSUME NEW t \in Threads, AccessElement(t)
       PROVE  [Contract!Next]_<<kind, program>>
  BY <1>27 DEF AccessElement, Running, Depth, Goto, Become, threadVars
<1>28. ASSUME NEW t \in Threads, PythonReturns(t)
       PROVE  [Contract!Next]_<<kind, program>>
  BY <1>28 DEF PythonReturns, Running, Detach, Depth, Top, Goto, Become,
     threadVars
<1>29. ASSUME NEW t \in Threads, TakeGil(t)
       PROVE  [Contract!Next]_<<kind, program>>
  BY <1>29 DEF TakeGil, Goto, Become, threadVars
<1>30. ASSUME NEW t \in Threads, YieldGil(t)
       PROVE  [Contract!Next]_<<kind, program>>
  BY <1>30 DEF YieldGil, Detach, Goto, Become, threadVars
<1>31. CASE UNCHANGED vars
  BY <1>31 DEF vars, threadVars
<1>. QED
  BY <1>1, <1>2, <1>3, <1>4, <1>5, <1>6, <1>7, <1>8, <1>9, <1>10, <1>11,
     <1>12, <1>13, <1>14, <1>15, <1>16, <1>17, <1>18, <1>19, <1>20, <1>21,
     <1>22, <1>23, <1>24, <1>25, <1>26, <1>27, <1>28, <1>29, <1>30, <1>31 
     DEF Next, LibraryStep, PythonStep

\* CelLocking implements ProgramContract: one program per expression, from the
\* runtime that fits its kind.
THEOREM ContractHolds == Spec => ContractSpec
<1>1. Init => Contract!Init
  BY DEF Init, Contract!Init, NoProgram, Contract!NoProgram
<1>2. TypeOK /\ LockInv /\ FramesInv /\ [Next]_vars
        => [Contract!Next]_<<kind, program>>
  BY ContractStep
<1>. QED
  BY <1>1, <1>2, TypeCorrect, LocksHeld, FramesKept, PTL
     DEF Spec, ContractSpec, Contract!Spec

=============================================================================
