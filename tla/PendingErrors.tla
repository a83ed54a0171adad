---------------------------- MODULE PendingErrors ----------------------------
(***************************************************************************)
(* Python exceptions on their way through C++ (py_error_status.cc).        *)
(*                                                                         *)
(* PyDescriptorDatabase is called by the descriptor pool and has no way to *)
(* return an exception of the Python pool it asks.  It notes it in a       *)
(* thread_local slot (PyErr_noteAndClear) and answers "not found"; some    *)
(* code, further up the stack or much later, takes it from there           *)
(* (PyErr_toStatus).  The model has every piece of library code that may   *)
(* look a type up, every place that takes the slot, and the calls that     *)
(* nest when a Python function that an evaluation calls back uses the      *)
(* library again.                                                          *)
(***************************************************************************)
EXTENDS Naturals, Sequences, SequencesExt

CONSTANTS
  Threads,     \* Python threads
  MaxCalls,    \* bound: calls of library operations in a behaviour
  MaxErrors    \* bound: exceptions raised in a behaviour

ASSUME BoundsAssumption == MaxCalls \in Nat /\ MaxErrors \in Nat

VARIABLES
  stack,     \* stack[t]: thread t's calls of the library, the innermost last
  slot,      \* slot[s]: PendingPyError(), 0 if OK, else a number of raised
  calls,     \* history: calls[c] is the thread and operation of call c
  raised,    \* history: raised[e] is where exception e was raised
  reports,   \* history: the exceptions that became a Status, in that order
  succeeded  \* history: the calls that returned without an error

vars == <<stack, slot, calls, raised, reports, succeeded>>

-----------------------------------------------------------------------------
(* Types.                                                                  *)

\* NewEnv, compile(), compile(disable_check=True), eval() and value().
Operations == {"newEnv", "compile", "parse", "eval", "access"}

\* Where a call is: the code that may look types up, and the Python function
\* an evaluation has called.
Lookups == {"config", "compiler", "check", "program", "evaluate", "convert", "access"}
Places  == Lookups \cup {"python"}

\* An operation's first piece of code.
Entry(op) ==
  CASE op = "newEnv" -> "config"
    [] op \in {"compile", "parse"} -> "compiler"
    [] op = "eval" -> "program"
    [] op = "access" -> "access"

TypeOK ==
  /\ calls \in Seq([thread : Threads, op : Operations])
  /\ stack \in [Threads -> Seq([call : 1..Len(calls), at : Places])]
  /\ raised \in Seq([call : 1..Len(calls), at : Places])
  /\ slot \in [Threads -> 0..Len(raised)]
  /\ reports \in Seq([call : 1..Len(calls), at : Places, error : 1..Len(raised)])
  /\ succeeded \subseteq 1..Len(calls)

Init ==
  /\ stack = [t \in Threads |-> <<>>]
  /\ slot = [t \in Threads |-> 0]
  /\ calls = <<>>
  /\ raised = <<>>
  /\ reports = <<>>
  /\ succeeded = {}

-----------------------------------------------------------------------------
(* Helpers.                                                                *)

Top(t)   == Last(stack[t])
At(t, p) == stack[t] # <<>> /\ Top(t).at = p
Op(t)    == calls[Top(t).call].op

\* Thread t runs Python code that calls the library.
InPython(t) == stack[t] = <<>> \/ At(t, "python")

Goto(t, p) == stack' = [stack EXCEPT ![t][Len(stack[t])].at = p]

\* The call returns, with or without an error.
Return(t) ==
  /\ stack' = [stack EXCEPT ![t] = Front(@)]
  /\ succeeded' \in {succeeded, succeeded \cup {Top(t).call}}

Fail(t) ==
  /\ stack' = [stack EXCEPT ![t] = Front(@)]
  /\ UNCHANGED succeeded

Report(t, e) ==
  reports' = Append(reports, [call |-> Top(t).call, at |-> Top(t).at, error |-> e])

\* The slot is thread_local.
SlotOf(t) == t

Pending(t) == slot[SlotOf(t)]

\* Mutant: the status is returned but not taken.
TakePending_Keep(t) ==
  /\ Pending(t) # 0
  /\ Report(t, Pending(t))
  /\ UNCHANGED slot

\* Mutant: a Status is made whether or not something is pending.
TakePending_Always(t) ==
  /\ Report(t, Pending(t))
  /\ slot' = [slot EXCEPT ![SlotOf(t)] = 0]

\* PyErr_toStatus without a current exception: the slot becomes a Status.
TakePending(t) ==
  /\ Pending(t) # 0
  /\ Report(t, Pending(t))
  /\ slot' = [slot EXCEPT ![SlotOf(t)] = 0]

\* PyErr_toStatus is OK.
NothingPending(t) ==
  /\ Pending(t) = 0
  /\ UNCHANGED <<slot, reports>>

-----------------------------------------------------------------------------
(* Operations.                                                             *)

\* Python code calls the library.
Call(t, op) ==
  /\ InPython(t)
  /\ Len(calls) < MaxCalls
  /\ calls' = Append(calls, [thread |-> t, op |-> op])
  /\ stack' = [stack EXCEPT ![t] =
                 Append(@, [call |-> Len(calls) + 1, at |-> Entry(op)])]
  /\ UNCHANGED <<slot, raised, reports, succeeded>>

\* A lookup reaches PyDescriptorDatabase and the Python pool raises something
\* other than a KeyError, or returns no descriptor: PyErr_noteAndClear.
NoteError(t) ==
  /\ stack[t] # <<>>
  /\ Top(t).at \in Lookups
  /\ Len(raised) < MaxErrors
  /\ raised' = Append(raised, Top(t))
  /\ slot' = [slot EXCEPT ![SlotOf(t)] = Len(raised')]
  /\ UNCHANGED <<stack, calls, reports, succeeded>>

\* NewEnv and value() look types up and never ask for a pending exception.
FinishUnchecked(t) ==
  /\ At(t, "config") \/ At(t, "access")
  /\ Return(t)
  /\ UNCHANGED <<slot, calls, raised, reports>>

\* GetCompiler has an error, or parsing is all there is to do.
FinishParse(t) ==
  /\ At(t, "compiler")
  /\ IF Op(t) = "parse" THEN Return(t) ELSE Fail(t)
  /\ UNCHANGED <<slot, calls, raised, reports>>

\* The first PyErr_toStatus of PY_CEL_PYTHON_ASSIGN_OR_RETURN.
BeforeCheck(t) ==
  /\ At(t, "compiler")
  /\ Op(t) = "compile"
  /\ \/ TakePending(t) /\ Fail(t)
     \/ NothingPending(t) /\ Goto(t, "check") /\ UNCHANGED succeeded
  /\ UNCHANGED <<calls, raised>>

\* compiler->Compile returns no ValidationResult: nobody asks for the pending
\* exception.
CheckFails(t) ==
  /\ At(t, "check")
  /\ Fail(t)
  /\ UNCHANGED <<slot, calls, raised, reports>>

\* Mutant: CEL_PYTHON_ASSIGN_OR_RETURN instead of the macro that asks again.
AfterCheck_Unchecked(t) ==
  /\ At(t, "check")
  /\ Return(t)
  /\ UNCHANGED <<slot, calls, raised, reports>>

\* The second PyErr_toStatus, before the ValidationResult is looked at.
AfterCheck(t) ==
  /\ At(t, "check")
  /\ \/ TakePending(t) /\ Fail(t)
     \/ NothingPending(t) /\ Return(t)
  /\ UNCHANGED <<calls, raised>>

\* GetProgram has the program.
StartEvaluate(t) ==
  /\ At(t, "program")
  /\ Goto(t, "evaluate")
  /\ UNCHANGED <<slot, calls, raised, reports, succeeded>>

\* It has an error.
ProgramFails(t) ==
  /\ At(t, "program")
  /\ Fail(t)
  /\ UNCHANGED <<slot, calls, raised, reports>>

\* Provide converts a variable that is a message.
Convert(t) ==
  /\ At(t, "evaluate")
  /\ Goto(t, "convert")
  /\ UNCHANGED <<slot, calls, raised, reports, succeeded>>

\* ProtoMessageToCelValue asks for an exception before it looks at the value
\* it made; the evaluation goes on with the value or with an error value.
FinishConvert(t) ==
  /\ At(t, "convert")
  /\ TakePending(t) \/ NothingPending(t)
  /\ Goto(t, "evaluate")
  /\ UNCHANGED <<calls, raised, succeeded>>

\* The evaluation calls a Python function.
CallFunction(t) ==
  /\ At(t, "evaluate")
  /\ Goto(t, "python")
  /\ UNCHANGED <<slot, calls, raised, reports, succeeded>>

\* It returns a value; Invoke drops the value if something is pending.
FunctionReturns(t) ==
  /\ At(t, "python")
  /\ \/ TakePending(t) /\ Goto(t, "evaluate")
     \/ NothingPending(t) /\ (Goto(t, "convert") \/ Goto(t, "evaluate"))
  /\ UNCHANGED <<calls, raised, succeeded>>

\* Mutant: the slot survives a report of the current exception.
FunctionRaises_KeepSlot(t) ==
  /\ At(t, "python")
  /\ Len(raised) < MaxErrors
  /\ raised' = Append(raised, Top(t))
  /\ Report(t, Len(raised'))
  /\ Goto(t, "evaluate")
  /\ UNCHANGED <<slot, calls, succeeded>>

\* It raises: PyErr_toStatus reports the exception and empties the slot.
FunctionRaises(t) ==
  /\ At(t, "python")
  /\ Len(raised) < MaxErrors
  /\ raised' = Append(raised, Top(t))
  /\ Report(t, Len(raised'))
  /\ slot' = [slot EXCEPT ![SlotOf(t)] = 0]
  /\ Goto(t, "evaluate")
  /\ UNCHANGED <<calls, succeeded>>

\* A result, or an error; eval() does not ask for a pending exception.
FinishEvaluate(t) ==
  /\ At(t, "evaluate")
  /\ Return(t)
  /\ UNCHANGED <<slot, calls, raised, reports>>

Next == \E t \in Threads :
  \/ \E op \in Operations : Call(t, op)
  \/ NoteError(t) \/ FinishUnchecked(t) \/ FinishParse(t) \/ BeforeCheck(t)
  \/ CheckFails(t) \/ AfterCheck(t) \/ StartEvaluate(t) \/ ProgramFails(t)
  \/ Convert(t) \/ FinishConvert(t) \/ CallFunction(t) \/ FunctionReturns(t)
  \/ FunctionRaises(t) \/ FinishEvaluate(t)

Spec == Init /\ [][Next]_vars

-----------------------------------------------------------------------------
(* Properties.                                                             *)

ThreadOf(c) == calls[c].thread

\* A checked compile() that succeeds had no exception in its compiler's
\* construction or in its check (py_cel_expression.cc:120, cel_test.py:838-876:
\* a pool that raises fails the compilation).
CheckedCompilesAreClean ==
  \A e \in DOMAIN raised :
    calls[raised[e].call].op = "compile" => raised[e].call \notin succeeded

\* An exception becomes a Status once, in the thread that it was raised in,
\* although the GIL is given up between the note and the report
\* (py_error_status.cc:100-143).
ReportedOnceInItsThread ==
  /\ \A i, j \in DOMAIN reports :
       reports[i].error = reports[j].error => i = j
  /\ \A i \in DOMAIN reports :
       ThreadOf(reports[i].call) = ThreadOf(raised[reports[i].error].call)

\* What is pending is the last exception of its thread and has not been
\* reported: a newer exception, noted or current, replaces an older one, so a
\* thread's exceptions are reported in the order they were raised
\* (py_error_status.cc:106-135, 145-165).
PendingIsNewest ==
  \A t \in Threads : slot[t] # 0 =>
    /\ ThreadOf(raised[slot[t]].call) = t
    /\ \A e \in DOMAIN raised : ThreadOf(raised[e].call) = t => e <= slot[t]
    /\ \A i \in DOMAIN reports :
         ThreadOf(reports[i].call) = t => reports[i].error < slot[t]

\* A conversion fails with an exception of its own lookups only: "Check if
\* protobuf parsing or descriptor lookups raised a Python exception in
\* PyDescriptorDatabase" (py_cel_value.cc:573-575).
ConversionErrorsAreItsOwn ==
  \A i \in DOMAIN reports : reports[i].at = "convert" =>
    LET origin == raised[reports[i].error] IN
    origin.call = reports[i].call /\ origin.at = "convert"

=============================================================================
