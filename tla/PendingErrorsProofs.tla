------------------------- MODULE PendingErrorsProofs -------------------------
(***************************************************************************)
(* The properties of PendingErrors, for any number of threads, calls and   *)
(* exceptions.  All of them rest on the stacks: whose the calls on a stack *)
(* are, in which order, and that only the last of them can have an         *)
(* exception waiting that it will be asked about.                          *)
(***************************************************************************)
EXTENDS PendingErrors, TLAPS

\* Where a call of each operation may be.
PlacesOf ==
  [newEnv |-> {"config"}, compile |-> {"compiler", "check"}, parse |-> {"compiler"},
   eval |-> {"program", "evaluate", "convert", "python"}, access |-> {"access"}]

Frame == [call : 1..Len(calls), at : Places]

\* The calls on a thread's stack are its own and the later the further up; all
\* but the last one are in a Python function.
StackInv ==
  \A t \in Threads : \A i \in 1..Len(stack[t]) :
    /\ ThreadOf(stack[t][i].call) = t
    /\ stack[t][i].at \in PlacesOf[calls[stack[t][i].call].op]
    /\ i < Len(stack[t]) => stack[t][i].at = "python"
    /\ \A j \in 1..Len(stack[t]) : i < j => stack[t][i].call < stack[t][j].call

\* A call on a stack has not returned; a checked compile() that had an exception
\* still has it, or a newer one, in the slot.
CleanInv ==
  /\ \A t \in Threads : \A i \in 1..Len(stack[t]) :
       LET c == stack[t][i].call
       IN /\ c \notin succeeded
          /\ calls[c].op = "compile" /\ (\E e \in DOMAIN raised : raised[e].call = c) =>
               slot[t] # 0
  /\ CheckedCompilesAreClean

---------------------------------------------------------------------------
(***************************************************************************)
(* All steps but Call and NoteError do the same to the stack: the last     *)
(* call goes on or returns.                                                *)
(***************************************************************************)
Pops(t) == stack' = [stack EXCEPT ![t] = Front(@)]

GoesOn(t) == \E p \in PlacesOf[Op(t)] : Goto(t, p) /\ UNCHANGED succeeded

Fails(t) == Pops(t) /\ UNCHANGED succeeded

Succeeds(t) ==
  /\ Pops(t) /\ succeeded' = succeeded \cup {Top(t).call}
  /\ Op(t) = "compile" => slot[t] = 0

Settles(t) ==
  /\ stack[t] # <<>>
  /\ UNCHANGED calls
  /\ \/ /\ GoesOn(t) \/ Fails(t) \/ Succeeds(t)
        /\ UNCHANGED <<slot, raised, reports>>
     \/ /\ (GoesOn(t) /\ Op(t) = "eval") \/ Fails(t)
        /\ TakePending(t) /\ UNCHANGED raised
     \/ /\ GoesOn(t) /\ Op(t) = "eval"
        /\ raised' = Append(raised, Top(t)) /\ Report(t, Len(raised'))
        /\ slot' = [slot EXCEPT ![t] = 0]

\* The last call of a stack, and the stack without it.
LEMMA TopFacts ==
  ASSUME TypeOK, NEW t \in Threads, stack[t] # <<>>
  PROVE  /\ Len(stack[t]) \in Nat \ {0}
         /\ Top(t) = stack[t][Len(stack[t])] /\ Top(t) \in Frame
         /\ Front(stack[t]) \in Seq(Frame)
         /\ Len(Front(stack[t])) = Len(stack[t]) - 1
         /\ \A i \in 1..(Len(stack[t]) - 1) : Front(stack[t])[i] = stack[t][i]
         /\ Op(t) \in Operations
<1>1. stack[t] \in Seq(Frame)
  BY DEF TypeOK, Frame
<1>2. Top(t) \in Frame
  BY <1>1 DEF Top, Last
<1>3. Top(t).call \in 1..Len(calls)
  BY <1>2 DEF Frame
<1>4. Op(t) \in Operations
  <2> DEFINE Record == [thread : Threads, op : Operations]
  <2>1. calls \in Seq(Record)
    BY DEF TypeOK
  <2>2. calls[Top(t).call] \in Record
    <3> HIDE DEF Record
    <3> QED BY <1>3, <2>1
  <2> QED BY <2>2 DEF Op
<1> QED BY <1>1, <1>2, <1>4 DEF Top, Last, Front

\* What Goto leaves of the stacks.
LEMMA GotoFacts ==
  ASSUME TypeOK, NEW t \in Threads, stack[t] # <<>>, NEW p \in Places, Goto(t, p)
  PROVE  /\ stack' \in [Threads -> Seq(Frame)]
         /\ \A s \in Threads \ {t} : stack'[s] = stack[s]
         /\ Len(stack'[t]) = Len(stack[t])
         /\ \A i \in 1..Len(stack[t]) : stack'[t][i].call = stack[t][i].call
         /\ \A i \in 1..(Len(stack[t]) - 1) : stack'[t][i] = stack[t][i]
         /\ stack'[t][Len(stack[t])].at = p
<1> DEFINE n == Len(stack[t])
           frame == [stack[t][n] EXCEPT !.at = p]
           after == [stack[t] EXCEPT ![n] = frame]
<1>1. stack \in [Threads -> Seq(Frame)]
  BY DEF TypeOK, Frame
<1>2. n \in 1..Len(stack[t]) /\ stack[t][n] \in Frame
  BY <1>1
<1>3. frame \in Frame /\ frame.at = p /\ frame.call = stack[t][n].call
  BY <1>2 DEF Frame
<1>4. stack' = [stack EXCEPT ![t] = after]
  BY DEF Goto
<1> HIDE DEF frame
<1>5. after \in Seq(Frame) /\ Len(after) = n
  BY <1>1, <1>2, <1>3
<1>6. \A i \in 1..n : after[i] = IF i = n THEN frame ELSE stack[t][i]
  BY <1>1, <1>2
<1> HIDE DEF after
<1>7. stack'[t] = after /\ \A s \in Threads \ {t} : stack'[s] = stack[s]
  BY <1>1, <1>4
<1>8. stack' \in [Threads -> Seq(Frame)]
  BY <1>1, <1>4, <1>5
<1>9. n \in Nat \ {0}
  BY <1>1, <1>2
<1>10. \A i \in 1..n : stack'[t][i] = IF i = n THEN frame ELSE stack[t][i]
  BY <1>6, <1>7
<1>11. \A i \in 1..n : stack'[t][i].call = stack[t][i].call
  BY <1>3, <1>10
<1>12. (\A i \in 1..(n - 1) : stack'[t][i] = stack[t][i]) /\ stack'[t][n].at = p
  BY <1>3, <1>9, <1>10
<1> QED BY <1>5, <1>7, <1>8, <1>11, <1>12

\* Every other step settles something.
LEMMA StepsSettle ==
  ASSUME TypeOK, StackInv, Next
  PROVE  \E t \in Threads : \/ \E op \in Operations : Call(t, op)
                            \/ NoteError(t)
                            \/ Settles(t)
<1>1. PICK t \in Threads :
        \/ \E op \in Operations : Call(t, op)
        \/ NoteError(t) \/ FinishUnchecked(t) \/ FinishParse(t) \/ BeforeCheck(t)
        \/ CheckFails(t) \/ AfterCheck(t) \/ StartEvaluate(t) \/ ProgramFails(t)
        \/ Convert(t) \/ FinishConvert(t) \/ CallFunction(t) \/ FunctionReturns(t)
        \/ FunctionRaises(t) \/ FinishEvaluate(t)
  BY DEF Next
<1>2. ASSUME NEW p, At(t, p)
      PROVE  /\ stack[t] # <<>> /\ Top(t).at = p
             /\ Op(t) \in Operations /\ p \in PlacesOf[Op(t)]
  <2>1. stack[t] # <<>> /\ Top(t).at = p
    BY <1>2 DEF At
  <2>2. Top(t) = stack[t][Len(stack[t])] /\ Len(stack[t]) \in 1..Len(stack[t]) /\ Top(t) \in Frame
    BY <2>1, TopFacts
  <2>3. Op(t) \in Operations
    BY <2>1, TopFacts
  <2>4. p \in PlacesOf[Op(t)]
    BY <2>1, <2>2 DEF StackInv, Op
  <2> QED BY <2>1, <2>3, <2>4
<1>3. /\ At(t, "python") \/ At(t, "convert") \/ At(t, "evaluate") \/ At(t, "program") =>
           Op(t) = "eval"
      /\ At(t, "config") \/ At(t, "access") => Op(t) # "compile"
      /\ At(t, "check") => Op(t) = "compile"
  BY <1>2 DEF PlacesOf, Operations
<1>4. Pending(t) = slot[t] /\ SlotOf(t) = t
  BY DEF Pending, SlotOf
<1>5. {"evaluate", "convert", "python", "program"} \subseteq PlacesOf["eval"]
      /\ "check" \in PlacesOf["compile"]
  BY DEF PlacesOf
<1>6. Return(t) /\ (Op(t) = "compile" => slot[t] = 0) => Fails(t) \/ Succeeds(t)
  BY DEF Return, Fails, Succeeds, Pops
<1>7. Fail(t) => Fails(t)
  BY DEF Fail, Fails, Pops
<1>8. ASSUME NEW p \in PlacesOf[Op(t)], Goto(t, p), UNCHANGED succeeded PROVE GoesOn(t)
  BY <1>8 DEF GoesOn
<1>9. CASE FinishUnchecked(t)
  BY <1>2, <1>3, <1>6, <1>9 DEF FinishUnchecked, Settles
<1>10. CASE FinishParse(t)
  BY <1>2, <1>6, <1>7, <1>10 DEF FinishParse, Settles
<1>11. CASE BeforeCheck(t)
  BY <1>2, <1>4, <1>5, <1>7, <1>8, <1>11 DEF BeforeCheck, NothingPending, Settles
<1>12. CASE CheckFails(t) \/ ProgramFails(t)
  BY <1>2, <1>7, <1>12 DEF CheckFails, ProgramFails, Settles
<1>13. CASE AfterCheck(t)
  BY <1>2, <1>4, <1>6, <1>7, <1>13 DEF AfterCheck, NothingPending, Settles
<1>14. CASE StartEvaluate(t) \/ Convert(t) \/ CallFunction(t)
  BY <1>2, <1>3, <1>5, <1>8, <1>14 DEF StartEvaluate, Convert, CallFunction, Settles
<1>15. CASE FinishConvert(t)
  BY <1>2, <1>3, <1>5, <1>8, <1>15 DEF FinishConvert, NothingPending, Settles
<1>16. CASE FunctionReturns(t)
  BY <1>2, <1>3, <1>5, <1>8, <1>16 DEF FunctionReturns, NothingPending, Settles
<1>17. CASE FunctionRaises(t)
  BY <1>2, <1>3, <1>4, <1>5, <1>8, <1>17 DEF FunctionRaises, Settles
<1>18. CASE FinishEvaluate(t)
  BY <1>2, <1>3, <1>6, <1>18 DEF FinishEvaluate, Settles
<1> QED BY <1>1, <1>9, <1>10, <1>11, <1>12, <1>13, <1>14, <1>15, <1>16, <1>17, <1>18

\* What is left of a stack is its own.
LEMMA SettledStack ==
  ASSUME TypeOK, StackInv, NEW t \in Threads, Settles(t)
  PROVE  /\ stack' \in [Threads -> Seq(Frame)]
         /\ \A s \in Threads \ {t} : stack'[s] = stack[s]
         /\ Len(stack'[t]) \in {Len(stack[t]), Len(stack[t]) - 1}
         /\ \A i \in 1..Len(stack'[t]) : stack'[t][i].call = stack[t][i].call
         /\ \A i \in 1..(Len(stack[t]) - 1) : stack'[t][i] = stack[t][i]
         /\ Len(stack'[t]) = Len(stack[t]) =>
              stack'[t][Len(stack[t])].at \in PlacesOf[Op(t)] /\ ~ Pops(t)
<1>1. stack[t] # <<>> /\ (GoesOn(t) \/ Pops(t))
  BY DEF Settles, Fails, Succeeds
<1>2. stack \in [Threads -> Seq(Frame)] /\ Len(stack[t]) \in Nat \ {0}
  BY <1>1, TopFacts DEF TypeOK, Frame
<1>3. CASE Pops(t)
  <2>1. stack'[t] = Front(stack[t]) /\ \A s \in Threads \ {t} : stack'[s] = stack[s]
    BY <1>2, <1>3 DEF Pops
  <2>2. stack' \in [Threads -> Seq(Frame)]
    BY <1>1, <1>2, <1>3, TopFacts DEF Pops
  <2>3. /\ Len(Front(stack[t])) = Len(stack[t]) - 1
        /\ \A i \in 1..(Len(stack[t]) - 1) : Front(stack[t])[i] = stack[t][i]
    BY <1>1, TopFacts
  <2>4. Len(stack'[t]) = Len(stack[t]) - 1 /\ Len(stack'[t]) # Len(stack[t])
    BY <1>2, <2>1, <2>3
  <2>5. \A i \in 1..(Len(stack[t]) - 1) : stack'[t][i] = stack[t][i]
    BY <2>1, <2>3
  <2>6. \A i \in 1..Len(stack'[t]) : stack'[t][i].call = stack[t][i].call
    BY <2>4, <2>5
  <2> QED BY <2>1, <2>2, <2>4, <2>5, <2>6
<1>4. CASE ~ Pops(t) /\ GoesOn(t)
  <2>1. PICK p \in PlacesOf[Op(t)] : Goto(t, p)
    BY <1>4 DEF GoesOn
  <2>2. p \in Places
    <3>1. Op(t) \in Operations
      BY <1>1, TopFacts
    <3> QED BY <3>1 DEF Operations, PlacesOf, Places, Lookups
  <2> QED BY <1>1, <1>2, <1>4, <2>1, <2>2, GotoFacts
<1> QED BY <1>1, <1>3, <1>4

---------------------------------------------------------------------------
(***************************************************************************)
(* Types and stacks.                                                       *)
(***************************************************************************)
\* What Append does to a history.
LEMMA Appended ==
  ASSUME NEW S, NEW s \in Seq(S), NEW x, NEW T, S \subseteq T, x \in T
  PROVE  /\ Append(s, x) \in Seq(T) /\ Len(Append(s, x)) = Len(s) + 1
         /\ \A i \in 1..Len(s) : Append(s, x)[i] = s[i]
         /\ Append(s, x)[Len(s) + 1] = x
         /\ DOMAIN Append(s, x) = 1..(Len(s) + 1)
OBVIOUS

\* A report of the last call of a stack.
LEMMA ReportFacts ==
  ASSUME TypeOK, NEW t \in Threads, stack[t] # <<>>, NEW e \in Nat, Report(t, e),
         UNCHANGED calls, raised' \in Seq(Frame), Len(raised) <= Len(raised'), e \in 1..Len(raised')
  PROVE  /\ reports' \in Seq([call : 1..Len(calls), at : Places, error : 1..Len(raised')])
         /\ Len(reports') = Len(reports) + 1
         /\ \A i \in 1..Len(reports) : reports'[i] = reports[i]
         /\ reports'[Len(reports')].call = Top(t).call /\ reports'[Len(reports')].error = e
<1> DEFINE report == [call |-> Top(t).call, at |-> Top(t).at, error |-> e]
           Before == [call : 1..Len(calls), at : Places, error : 1..Len(raised)]
           After == [call : 1..Len(calls), at : Places, error : 1..Len(raised')]
<1>1. Top(t) \in Frame
  BY TopFacts
<1>2. report \in After /\ report.call = Top(t).call /\ report.error = e
  BY <1>1 DEF Frame
<1>3. Before \subseteq After /\ reports \in Seq(Before)
  <2>1. raised \in Seq(Frame)
    BY DEF TypeOK, Frame
  <2>2. 1..Len(raised) \subseteq 1..Len(raised')
    BY <2>1
  <2> QED BY <2>2 DEF TypeOK
<1>4. reports' = Append(reports, report)
  BY DEF Report
<1> HIDE DEF report, Before, After
<1>5. reports' \in Seq(After) /\ Len(reports') = Len(reports) + 1
      /\ (\A i \in 1..Len(reports) : reports'[i] = reports[i])
      /\ reports'[Len(reports) + 1] = report
  BY <1>2, <1>3, <1>4, Appended
<1> QED BY <1>2, <1>5 DEF After

\* The three things that can happen to the slot, exceptions and reports when a
\* call goes on or returns.
LEMMA SettledErrors ==
  ASSUME TypeOK, NEW t \in Threads, Settles(t)
  PROVE  \/ UNCHANGED <<slot, raised, reports>>
         \/ /\ slot[t] # 0 /\ Report(t, slot[t]) /\ slot' = [slot EXCEPT ![t] = 0]
            /\ UNCHANGED raised
            /\ Op(t) # "compile" \/ Fails(t)
         \/ /\ raised' = Append(raised, Top(t)) /\ Report(t, Len(raised) + 1)
            /\ slot' = [slot EXCEPT ![t] = 0]
            /\ Op(t) = "eval" /\ UNCHANGED succeeded
<1>1. raised' = Append(raised, Top(t)) => Len(raised') = Len(raised) + 1
  BY DEF TypeOK
<1> QED BY <1>1 DEF Settles, TakePending, Pending, SlotOf, GoesOn

\* A call that goes on or returns keeps the types.
LEMMA SettledTypes ==
  ASSUME TypeOK, StackInv, NEW t \in Threads, Settles(t)
  PROVE  TypeOK'
<1>1. stack[t] # <<>> /\ UNCHANGED calls /\ Top(t) \in Frame
  BY TopFacts DEF Settles
<1>2. stack' \in [Threads -> Seq(Frame)] /\ succeeded' \subseteq 1..Len(calls)
  <2>1. succeeded' \in {succeeded, succeeded \cup {Top(t).call}}
    BY DEF Settles, GoesOn, Fails, Succeeds
  <2> QED BY <1>1, <2>1, SettledStack DEF TypeOK, Frame
<1>3. raised \in Seq(Frame) /\ slot \in [Threads -> 0..Len(raised)]
      /\ reports \in Seq([call : 1..Len(calls), at : Places, error : 1..Len(raised)])
  BY DEF TypeOK, Frame
<1>4. /\ raised' \in Seq(Frame) /\ slot' \in [Threads -> 0..Len(raised')]
      /\ reports' \in Seq([call : 1..Len(calls), at : Places, error : 1..Len(raised')])
  <2>1. CASE UNCHANGED <<slot, raised, reports>>
    BY <1>3, <2>1
  <2>2. CASE /\ slot[t] # 0 /\ Report(t, slot[t]) /\ slot' = [slot EXCEPT ![t] = 0]
             /\ UNCHANGED raised
    <3>1. /\ slot[t] \in Nat /\ slot[t] \in 1..Len(raised') /\ Len(raised) <= Len(raised')
          /\ raised' \in Seq(Frame)
      BY <1>3, <2>2
    <3>2. reports' \in Seq([call : 1..Len(calls), at : Places, error : 1..Len(raised')])
      BY <1>1, <2>2, <3>1, ReportFacts
    <3> QED BY <1>3, <2>2, <3>1, <3>2
  <2>3. CASE /\ raised' = Append(raised, Top(t)) /\ Report(t, Len(raised) + 1)
             /\ slot' = [slot EXCEPT ![t] = 0]
    <3>1. raised' \in Seq(Frame) /\ Len(raised') = Len(raised) + 1 /\ Len(raised) \in Nat
      BY <1>1, <1>3, <2>3, Appended
    <3>2. slot' \in [Threads -> 0..Len(raised')]
      BY <1>3, <2>3, <3>1
    <3>3. /\ Len(raised) + 1 \in Nat /\ Len(raised) + 1 \in 1..Len(raised')
          /\ Len(raised) <= Len(raised')
      BY <3>1
    <3>4. reports' \in Seq([call : 1..Len(calls), at : Places, error : 1..Len(raised')])
      BY <1>1, <2>3, <3>1, <3>3, ReportFacts
    <3> QED BY <3>1, <3>2, <3>4
  <2> QED BY <2>1, <2>2, <2>3, SettledErrors
<1> QED BY <1>1, <1>2, <1>3, <1>4 DEF TypeOK, Frame

\* A new call goes on top of the stack of a thread that is in Python.
LEMMA CallFacts ==
  ASSUME TypeOK, NEW t \in Threads, NEW op \in Operations, Call(t, op)
  PROVE  /\ Len(calls) \in Nat /\ Len(calls') = Len(calls) + 1
         /\ \A c \in 1..Len(calls) : calls'[c] = calls[c]
         /\ calls'[Len(calls')].thread = t /\ calls'[Len(calls')].op = op
         /\ \A s \in Threads \ {t} : stack'[s] = stack[s]
         /\ Len(stack[t]) \in Nat /\ Len(stack'[t]) = Len(stack[t]) + 1
         /\ \A i \in 1..Len(stack[t]) : stack'[t][i] = stack[t][i]
         /\ stack'[t][Len(stack'[t])].call = Len(calls')
         /\ stack'[t][Len(stack'[t])].at = Entry(op)
<1> DEFINE Record == [thread : Threads, op : Operations]
           call == [thread |-> t, op |-> op]
           frame == [call |-> Len(calls) + 1, at |-> Entry(op)]
<1>1. calls \in Seq(Record) /\ stack \in [Threads -> Seq(Frame)]
  BY DEF TypeOK, Frame
<1>2. /\ call.thread = t /\ call.op = op
      /\ frame.call = Len(calls) + 1 /\ frame.at = Entry(op)
  OBVIOUS
<1>3. calls' = Append(calls, call) /\ stack' = [stack EXCEPT ![t] = Append(stack[t], frame)]
  BY DEF Call
<1> HIDE DEF Record, call, frame
<1>4. /\ Len(calls) \in Nat /\ Len(calls') = Len(calls) + 1
      /\ \A c \in 1..Len(calls) : calls'[c] = calls[c]
      /\ calls'[Len(calls) + 1] = call
  BY <1>1, <1>3
<1>5. stack'[t] = Append(stack[t], frame) /\ \A s \in Threads \ {t} : stack'[s] = stack[s]
  BY <1>1, <1>3
<1>6. /\ Len(stack[t]) \in Nat /\ Len(stack'[t]) = Len(stack[t]) + 1
      /\ \A i \in 1..Len(stack[t]) : stack'[t][i] = stack[t][i]
      /\ stack'[t][Len(stack[t]) + 1] = frame
  <2>1. stack[t] \in Seq(Frame)
    BY <1>1
  <2> QED BY <1>5, <2>1
<1> QED BY <1>2, <1>4, <1>5, <1>6

\* A call keeps the types.
LEMMA CallTypes ==
  ASSUME TypeOK, NEW t \in Threads, NEW op \in Operations, Call(t, op)
  PROVE  TypeOK'
<1> DEFINE Record == [thread : Threads, op : Operations]
           After == [call : 1..Len(calls'), at : Places]
           Before3 == [call : 1..Len(calls), at : Places, error : 1..Len(raised)]
           After3 == [call : 1..Len(calls'), at : Places, error : 1..Len(raised)]
           call == [thread |-> t, op |-> op]
           frame == [call |-> Len(calls) + 1, at |-> Entry(op)]
<1>1. /\ calls \in Seq(Record) /\ stack \in [Threads -> Seq(Frame)] /\ raised \in Seq(Frame)
      /\ slot \in [Threads -> 0..Len(raised)] /\ reports \in Seq(Before3)
      /\ succeeded \subseteq 1..Len(calls)
  BY DEF TypeOK, Frame
<1>2. call \in Record
  OBVIOUS
<1>3. Entry(op) \in Places
  BY DEF Operations, Entry, Places, Lookups
<1>4. /\ calls' = Append(calls, call) /\ stack' = [stack EXCEPT ![t] = Append(stack[t], frame)]
      /\ UNCHANGED <<slot, raised, reports, succeeded>>
  BY DEF Call
<1>5. Len(calls') = Len(calls) + 1 /\ Len(calls) \in Nat
  BY CallFacts
<1>6. 1..Len(calls) \subseteq 1..Len(calls') /\ Len(calls) + 1 \in 1..Len(calls')
  BY <1>5
<1>7. Frame \subseteq After /\ Before3 \subseteq After3 /\ frame \in After
  BY <1>3, <1>6 DEF Frame
<1>8. TypeOK' <=>
        /\ calls' \in Seq(Record) /\ stack' \in [Threads -> Seq(After)] /\ raised' \in Seq(After)
        /\ slot' \in [Threads -> 0..Len(raised')] /\ reports' \in Seq(After3)
        /\ succeeded' \subseteq 1..Len(calls')
  BY <1>4 DEF TypeOK
<1> HIDE DEF Record, After, Before3, After3, call, frame
<1>9. calls' \in Seq(Record)
  BY <1>1, <1>2, <1>4
<1>10. \A s \in Threads : stack[s] \in Seq(After)
  BY <1>1, <1>7
<1>11. stack' \in [Threads -> Seq(After)]
  BY <1>1, <1>4, <1>7, <1>10
<1>12. raised' \in Seq(After) /\ reports' \in Seq(After3)
  BY <1>1, <1>4, <1>7
<1> QED BY <1>1, <1>4, <1>6, <1>8, <1>9, <1>11, <1>12

\* A new exception is the newest, and is in the slot of its thread.
LEMMA NoteFacts ==
  ASSUME TypeOK, NEW t \in Threads, NoteError(t)
  PROVE  /\ stack[t] # <<>> /\ UNCHANGED <<stack, calls, reports, succeeded>>
         /\ raised' \in Seq(Frame) /\ Len(raised) \in Nat /\ Len(raised') = Len(raised) + 1
         /\ \A e \in 1..Len(raised) : raised'[e] = raised[e]
         /\ raised'[Len(raised')] = Top(t) /\ Top(t) \in Frame
         /\ slot' = [slot EXCEPT ![t] = Len(raised')]
<1>1. raised \in Seq(Frame) /\ stack[t] # <<>>
  BY DEF TypeOK, Frame, NoteError
<1>2. Top(t) \in Frame
  BY <1>1, TopFacts
<1>3. raised' = Append(raised, Top(t))
  BY DEF NoteError
<1>4. /\ raised' \in Seq(Frame) /\ Len(raised') = Len(raised) + 1
      /\ \A e \in 1..Len(raised) : raised'[e] = raised[e]
      /\ raised'[Len(raised) + 1] = Top(t)
  BY <1>1, <1>2, <1>3, Appended
<1> QED BY <1>1, <1>2, <1>4 DEF NoteError, SlotOf

\* The types and the shape of the stacks are inductive.
LEMMA StacksInductive ==
  /\ Init => TypeOK /\ StackInv
  /\ TypeOK /\ StackInv /\ [Next]_vars => TypeOK' /\ StackInv'
<1>1. Init => TypeOK /\ StackInv
  BY DEF Init, TypeOK, StackInv
<1>2. ASSUME TypeOK, StackInv, NEW t \in Threads, NEW op \in Operations, Call(t, op)
      PROVE  TypeOK' /\ StackInv'
  <2> USE <1>2
  <2>1. TypeOK'
    BY CallTypes
  <2>2. ASSUME NEW s \in Threads \ {t}, NEW i \in 1..Len(stack'[s])
        PROVE  /\ calls'[stack'[s][i].call].thread = s
               /\ stack'[s][i].at \in PlacesOf[calls'[stack'[s][i].call].op]
               /\ i < Len(stack'[s]) => stack'[s][i].at = "python"
               /\ \A j \in 1..Len(stack'[s]) : i < j => stack'[s][i].call < stack'[s][j].call
    <3>1. stack'[s] = stack[s] /\ stack[s] \in Seq(Frame)
      BY CallFacts DEF TypeOK, Frame
    <3>2. stack[s][i] \in Frame
      BY <3>1
    <3>3. calls'[stack[s][i].call] = calls[stack[s][i].call]
      BY <3>2, CallFacts DEF Frame
    <3> QED BY <3>1, <3>3 DEF StackInv, ThreadOf
  <2>3. ASSUME NEW i \in 1..Len(stack'[t])
        PROVE  /\ calls'[stack'[t][i].call].thread = t
               /\ stack'[t][i].at \in PlacesOf[calls'[stack'[t][i].call].op]
               /\ i < Len(stack'[t]) => stack'[t][i].at = "python"
               /\ \A j \in 1..Len(stack'[t]) : i < j => stack'[t][i].call < stack'[t][j].call
    <3>1. \A j \in 1..Len(stack[t]) : stack[t][j].call \in 1..Len(calls)
      <4>1. stack[t] \in Seq(Frame)
        BY DEF TypeOK, Frame
      <4>2. \A j \in 1..Len(stack[t]) : stack[t][j] \in Frame
        BY <4>1
      <4> QED BY <4>2 DEF Frame
    <3>2. CASE i \in 1..Len(stack[t])
      <4>1. stack'[t][i] = stack[t][i] /\ calls'[stack[t][i].call] = calls[stack[t][i].call]
        BY <3>1, <3>2, CallFacts
      <4>2. stack[t][i].at = "python"
        <5>1. stack[t] # <<>> /\ Top(t).at = "python"
          BY <3>2 DEF Call, InPython, At
        <5>2. CASE i = Len(stack[t])
          BY <5>1, <5>2, TopFacts
        <5>3. CASE i # Len(stack[t])
          BY <3>2, <5>3 DEF StackInv
        <5> QED BY <5>2, <5>3
      <4>3. \A j \in 1..Len(stack'[t]) : i < j => stack'[t][i].call < stack'[t][j].call
        <5>1. ASSUME NEW j \in 1..Len(stack[t]), i < j
              PROVE  stack'[t][i].call < stack'[t][j].call
          <6>1. stack[t][i].call < stack[t][j].call
            BY <3>2, <5>1 DEF StackInv
          <6>2. stack'[t][i] = stack[t][i] /\ stack'[t][j] = stack[t][j]
            BY <3>2, <4>1, <5>1, CallFacts
          <6> QED BY <6>1, <6>2
        <5>2. stack'[t][i].call < stack'[t][Len(stack'[t])].call
          <6>1. stack'[t][i].call \in 1..Len(calls)
            BY <3>1, <3>2, <4>1
          <6>2. Len(calls) \in Nat /\ stack'[t][Len(stack'[t])].call = Len(calls) + 1
            BY CallFacts
          <6> QED BY <6>1, <6>2
        <5> QED BY <5>1, <5>2, CallFacts
      <4> QED BY <3>2, <4>1, <4>2, <4>3 DEF StackInv, ThreadOf
    <3>3. CASE i \notin 1..Len(stack[t])
      <4>1. i = Len(stack'[t])
        BY <3>3, CallFacts
      <4>2. Entry(op) \in PlacesOf[op]
        BY DEF Entry, PlacesOf, Operations
      <4>3. stack'[t][i].call = Len(calls') /\ stack'[t][i].at = Entry(op)
            /\ calls'[Len(calls')].thread = t /\ calls'[Len(calls')].op = op
        BY <4>1, CallFacts
      <4>4. \A j \in 1..Len(stack'[t]) : ~ (i < j)
        BY <4>1, CallFacts
      <4> QED BY <4>1, <4>2, <4>3, <4>4, CallFacts DEF ThreadOf
    <3> QED BY <3>2, <3>3
  <2> QED BY <2>1, <2>2, <2>3 DEF StackInv, ThreadOf
<1>3. ASSUME TypeOK, StackInv, NEW t \in Threads, NoteError(t)
      PROVE  TypeOK' /\ StackInv'
  <2> USE <1>3
  <2>1. StackInv'
    BY NoteFacts DEF StackInv, ThreadOf
  <2>2. 1..Len(raised) \subseteq 1..Len(raised') /\ 0..Len(raised) \subseteq 0..Len(raised')
    BY NoteFacts
  <2>3. /\ raised' \in Seq(Frame) /\ Len(raised') \in 0..Len(raised')
        /\ slot' = [slot EXCEPT ![t] = Len(raised')] /\ UNCHANGED <<stack, calls, reports, succeeded>>
    BY NoteFacts
  <2>4. slot \in [Threads -> 0..Len(raised)]
    BY DEF TypeOK
  <2>5. slot' \in [Threads -> 0..Len(raised')]
    BY <2>2, <2>3, <2>4
  <2> DEFINE Before == [call : 1..Len(calls), at : Places, error : 1..Len(raised)]
             After == [call : 1..Len(calls), at : Places, error : 1..Len(raised')]
  <2>6. Before \subseteq After /\ reports \in Seq(Before)
    BY <2>2 DEF TypeOK
  <2>7. reports' \in Seq(After)
    <3> HIDE DEF Before, After
    <3> QED BY <2>3, <2>6
  <2>8. TypeOK'
    BY <2>3, <2>5, <2>7 DEF TypeOK, Frame
  <2> QED BY <2>1, <2>8
<1>4. ASSUME TypeOK, StackInv, NEW t \in Threads, Settles(t)
      PROVE  TypeOK' /\ StackInv'
  <2> USE <1>4
  <2>1. UNCHANGED calls /\ stack[t] # <<>> /\ Len(stack[t]) \in Nat \ {0}
    BY TopFacts DEF Settles
  <2>2. ASSUME NEW s \in Threads \ {t}, NEW i \in 1..Len(stack'[s])
        PROVE  /\ calls'[stack'[s][i].call].thread = s
               /\ stack'[s][i].at \in PlacesOf[calls'[stack'[s][i].call].op]
               /\ i < Len(stack'[s]) => stack'[s][i].at = "python"
               /\ \A j \in 1..Len(stack'[s]) : i < j => stack'[s][i].call < stack'[s][j].call
    <3>1. stack'[s] = stack[s]
      BY SettledStack
    <3> QED BY <2>1, <3>1 DEF StackInv, ThreadOf
  <2>3. ASSUME NEW i \in 1..Len(stack'[t])
        PROVE  /\ calls'[stack'[t][i].call].thread = t
               /\ stack'[t][i].at \in PlacesOf[calls'[stack'[t][i].call].op]
               /\ i < Len(stack'[t]) => stack'[t][i].at = "python"
               /\ \A j \in 1..Len(stack'[t]) : i < j => stack'[t][i].call < stack'[t][j].call
    <3>1. /\ Len(stack'[t]) \in {Len(stack[t]), Len(stack[t]) - 1}
          /\ \A j \in 1..Len(stack'[t]) : stack'[t][j].call = stack[t][j].call
          /\ \A j \in 1..(Len(stack[t]) - 1) : stack'[t][j] = stack[t][j]
      BY SettledStack
    <3>2. i \in 1..Len(stack[t]) /\ 1..Len(stack'[t]) \subseteq 1..Len(stack[t])
      BY <2>1, <3>1
    <3>3. calls'[stack'[t][i].call].thread = t
      BY <2>1, <3>1, <3>2 DEF StackInv, ThreadOf
    <3>4. \A j \in 1..Len(stack'[t]) : i < j => stack'[t][i].call < stack'[t][j].call
      BY <3>1, <3>2 DEF StackInv
    <3>5. i < Len(stack'[t]) => stack'[t][i].at = "python"
      BY <2>1, <3>1, <3>2 DEF StackInv
    <3>6. stack'[t][i].at \in PlacesOf[calls'[stack'[t][i].call].op]
      <4>1. CASE i < Len(stack[t])
        <5>1. stack'[t][i] = stack[t][i] /\ calls' = calls
          BY <2>1, <3>1, <3>2, <4>1
        <5> QED BY <3>2, <5>1 DEF StackInv
      <4>2. CASE ~ (i < Len(stack[t]))
        <5>1. i = Len(stack[t]) /\ Len(stack'[t]) = Len(stack[t])
          BY <2>1, <3>1, <3>2, <4>2
        <5>2. stack'[t][i].at \in PlacesOf[Op(t)]
          BY <5>1, SettledStack
        <5>3. stack'[t][i].call = Top(t).call
          BY <2>1, <3>1, <5>1, TopFacts
        <5> QED BY <2>1, <5>2, <5>3 DEF Op
      <4> QED BY <4>1, <4>2
    <3> QED BY <3>3, <3>4, <3>5, <3>6
  <2> QED BY <2>2, <2>3, SettledTypes DEF StackInv, ThreadOf
<1>5. ASSUME TypeOK, StackInv, UNCHANGED vars PROVE TypeOK' /\ StackInv'
  <2>1. UNCHANGED <<stack, slot, calls, raised, reports, succeeded>>
    BY <1>5 DEF vars
  <2>2. TypeOK'
    BY <1>5, <2>1 DEF TypeOK
  <2>3. StackInv'
    BY <1>5, <2>1 DEF StackInv, ThreadOf
  <2> QED BY <2>2, <2>3
<1> QED BY <1>1, <1>2, <1>3, <1>4, <1>5, StepsSettle

\* TypeOK holds, however many threads call the library how often: a stack
\* holds calls that were made and a slot an exception that was raised.
THEOREM TypeCorrect == Spec => []TypeOK
BY StacksInductive, PTL DEF Spec

---------------------------------------------------------------------------
(***************************************************************************)
(* The slots, the exceptions and the reports.                              *)
(***************************************************************************)
\* Whose the exception e and the report i are.
RaisedBy(e) == calls[raised[e].call].thread
ReportedBy(i) == calls[reports[i].call].thread

\* The same after a step.
NowRaisedBy(e) == calls'[raised'[e].call].thread
NowReportedBy(i) == calls'[reports'[i].call].thread

\* Nothing that was raised or reported is changed.
HistoriesGrow ==
  /\ \A e \in DOMAIN raised :
       e \in DOMAIN raised' /\ calls'[raised'[e].call] = calls[raised[e].call]
  /\ \A i \in DOMAIN reports :
       /\ i \in DOMAIN reports' /\ reports'[i] = reports[i]
       /\ calls'[reports'[i].call] = calls[reports[i].call]

\* Thread t raises one more exception, or none is raised.
Raises(t) ==
  /\ DOMAIN raised' = DOMAIN raised \cup {Len(raised) + 1}
  /\ NowRaisedBy(Len(raised) + 1) = t

\* Thread t reports exception e, or nothing is reported.
Reports(t, e) ==
  /\ DOMAIN reports' = DOMAIN reports \cup {Len(reports) + 1}
  /\ NowReportedBy(Len(reports) + 1) = t
  /\ reports'[Len(reports) + 1].error = e

NoRaise  == DOMAIN raised' = DOMAIN raised
NoReport == DOMAIN reports' = DOMAIN reports

\* What a step does to them.
LEMMA ErrorSteps ==
  ASSUME TypeOK, StackInv, [Next]_vars
  PROVE  /\ HistoriesGrow
         /\ \/ NoRaise /\ NoReport /\ UNCHANGED slot
            \/ \E t \in Threads :
                 \/ /\ Raises(t) /\ NoReport
                    /\ slot' = [slot EXCEPT ![t] = Len(raised) + 1]
                 \/ /\ NoRaise /\ slot[t] # 0 /\ Reports(t, slot[t])
                    /\ slot' = [slot EXCEPT ![t] = 0]
                 \/ /\ Raises(t) /\ Reports(t, Len(raised) + 1)
                    /\ slot' = [slot EXCEPT ![t] = 0]
<1> DEFINE Record == [call : 1..Len(calls), at : Places, error : 1..Len(raised)]
<1>1. /\ raised \in Seq(Frame) /\ reports \in Seq(Record)
      /\ DOMAIN raised = 1..Len(raised) /\ Len(raised) \in Nat
      /\ DOMAIN reports = 1..Len(reports) /\ Len(reports) \in Nat
      /\ slot \in [Threads -> 0..Len(raised)]
  BY DEF TypeOK, Frame
<1>2. /\ \A e \in DOMAIN raised : raised[e].call \in 1..Len(calls)
      /\ \A i \in DOMAIN reports : reports[i].call \in 1..Len(calls)
  <2>1. /\ \A e \in DOMAIN raised : raised[e] \in Frame
        /\ \A i \in DOMAIN reports : reports[i] \in Record
    <3> HIDE DEF Record
    <3> QED BY <1>1
  <2> QED BY <2>1 DEF Frame
<1>3. CASE UNCHANGED vars
  BY <1>3 DEF vars, HistoriesGrow, NoRaise, NoReport
<1>4. ASSUME NEW t \in Threads, NEW op \in Operations, Call(t, op)
      PROVE  HistoriesGrow /\ NoRaise /\ NoReport /\ UNCHANGED slot
  <2>1. UNCHANGED <<slot, raised, reports>>
    BY <1>4 DEF Call
  <2>2. \A c \in 1..Len(calls) : calls'[c] = calls[c]
    BY <1>4, CallFacts
  <2> QED BY <1>2, <2>1, <2>2 DEF HistoriesGrow, NoRaise, NoReport
<1>5. ASSUME NEW t \in Threads, stack[t] # <<>>
      PROVE  calls[Top(t).call].thread = t
  <2>1. Top(t) = stack[t][Len(stack[t])] /\ Len(stack[t]) \in 1..Len(stack[t])
    BY <1>5, TopFacts
  <2> QED BY <2>1 DEF StackInv, ThreadOf
<1>6. ASSUME NEW t \in Threads, NoteError(t)
      PROVE  /\ HistoriesGrow /\ Raises(t) /\ NoReport
             /\ slot' = [slot EXCEPT ![t] = Len(raised) + 1]
  <2>1. /\ stack[t] # <<>> /\ UNCHANGED <<calls, reports>>
        /\ raised' \in Seq(Frame) /\ Len(raised') = Len(raised) + 1
        /\ \A e \in 1..Len(raised) : raised'[e] = raised[e]
        /\ raised'[Len(raised) + 1] = Top(t)
        /\ slot' = [slot EXCEPT ![t] = Len(raised) + 1]
    BY <1>6, NoteFacts
  <2>2. DOMAIN raised' = 1..(Len(raised) + 1)
    BY <2>1
  <2>3. DOMAIN raised' = DOMAIN raised \cup {Len(raised) + 1}
    BY <1>1, <2>2
  <2> QED BY <1>1, <1>5, <2>1, <2>3 DEF HistoriesGrow, Raises, NowRaisedBy, NoReport
<1>7. ASSUME NEW t \in Threads, Settles(t)
      PROVE  /\ HistoriesGrow
             /\ \/ NoRaise /\ NoReport /\ UNCHANGED slot
                \/ /\ NoRaise /\ slot[t] # 0 /\ Reports(t, slot[t])
                   /\ slot' = [slot EXCEPT ![t] = 0]
                \/ /\ Raises(t) /\ Reports(t, Len(raised) + 1)
                   /\ slot' = [slot EXCEPT ![t] = 0]
  <2>1. stack[t] # <<>> /\ UNCHANGED calls /\ Top(t) \in Frame
    BY <1>7, TopFacts DEF Settles
  <2>2. ASSUME NEW e \in Nat, Report(t, e)
        PROVE  /\ Reports(t, e)
               /\ \A i \in DOMAIN reports : i \in DOMAIN reports' /\ reports'[i] = reports[i]
    <3> DEFINE report == [call |-> Top(t).call, at |-> Top(t).at, error |-> e]
    <3>1. reports' = Append(reports, report)
      BY <2>2 DEF Report
    <3>2. report.call = Top(t).call /\ report.error = e
      OBVIOUS
    <3> HIDE DEF report, Record
    <3>3. /\ DOMAIN reports' = 1..(Len(reports) + 1)
          /\ \A i \in 1..Len(reports) : reports'[i] = reports[i]
          /\ reports'[Len(reports) + 1] = report
      BY <1>1, <3>1
    <3>4. DOMAIN reports' = DOMAIN reports \cup {Len(reports) + 1}
      BY <1>1, <3>3
    <3> QED BY <1>1, <1>5, <2>1, <3>2, <3>3, <3>4 DEF Reports, NowReportedBy
  <2>3. CASE UNCHANGED <<slot, raised, reports>>
    BY <2>1, <2>3 DEF HistoriesGrow, NoRaise, NoReport
  <2>4. CASE /\ slot[t] # 0 /\ Report(t, slot[t]) /\ slot' = [slot EXCEPT ![t] = 0]
             /\ UNCHANGED raised
    <3>1. slot[t] \in Nat
      BY <1>1
    <3> QED BY <2>1, <2>2, <2>4, <3>1 DEF HistoriesGrow, NoRaise
  <2>5. CASE /\ raised' = Append(raised, Top(t)) /\ Report(t, Len(raised) + 1)
             /\ slot' = [slot EXCEPT ![t] = 0]
    <3>1. /\ DOMAIN raised' = 1..(Len(raised) + 1)
          /\ \A e \in 1..Len(raised) : raised'[e] = raised[e]
          /\ raised'[Len(raised) + 1] = Top(t)
      BY <1>1, <2>1, <2>5
    <3>2. DOMAIN raised' = DOMAIN raised \cup {Len(raised) + 1}
      BY <1>1, <3>1
    <3>3. Raises(t)
      BY <1>5, <2>1, <3>1, <3>2 DEF Raises, NowRaisedBy
    <3>4. Reports(t, Len(raised) + 1)
          /\ \A i \in DOMAIN reports : i \in DOMAIN reports' /\ reports'[i] = reports[i]
      BY <1>1, <2>2, <2>5
    <3> QED BY <1>1, <2>1, <2>5, <3>1, <3>2, <3>3, <3>4 DEF HistoriesGrow
  <2> QED BY <1>7, <2>3, <2>4, <2>5, SettledErrors
<1> QED BY <1>3, <1>4, <1>6, <1>7, StepsSettle

\* PendingIsNewest and ReportedOnceInItsThread in the terms of RaisedBy and
\* ReportedBy.
Newest ==
  \A t \in Threads : slot[t] # 0 =>
    /\ RaisedBy(slot[t]) = t
    /\ \A e \in DOMAIN raised : RaisedBy(e) = t => e <= slot[t]
    /\ \A i \in DOMAIN reports : ReportedBy(i) = t => reports[i].error < slot[t]

Once ==
  /\ \A i, j \in DOMAIN reports : reports[i].error = reports[j].error => i = j
  /\ \A i \in DOMAIN reports : ReportedBy(i) = RaisedBy(reports[i].error)

\* They are inductive together: an exception that is taken from a slot was not
\* reported by its thread, and another thread reports its own.
LEMMA ErrorsInductive ==
  ASSUME TypeOK, StackInv, Newest, Once, [Next]_vars
  PROVE  Newest' /\ Once'
<1>1. /\ DOMAIN raised = 1..Len(raised) /\ Len(raised) \in Nat
      /\ DOMAIN reports = 1..Len(reports) /\ Len(reports) \in Nat
      /\ slot \in [Threads -> 0..Len(raised)]
  BY DEF TypeOK
<1>2. \A i \in DOMAIN reports : reports[i].error \in DOMAIN raised
  <2> DEFINE Record == [call : 1..Len(calls), at : Places, error : 1..Len(raised)]
  <2>1. reports \in Seq(Record)
    BY DEF TypeOK
  <2>2. \A i \in DOMAIN reports : reports[i] \in Record
    <3> HIDE DEF Record
    <3> QED BY <2>1
  <2> QED BY <1>1, <2>2
<1>3. HistoriesGrow
  BY ErrorSteps
<1>4. /\ \A e \in DOMAIN raised : e \in DOMAIN raised' /\ NowRaisedBy(e) = RaisedBy(e)
      /\ \A i \in DOMAIN reports :
           /\ i \in DOMAIN reports' /\ reports'[i] = reports[i]
           /\ NowReportedBy(i) = ReportedBy(i)
  BY <1>3 DEF HistoriesGrow, RaisedBy, ReportedBy, NowRaisedBy, NowReportedBy
<1>5. CASE NoRaise /\ NoReport /\ UNCHANGED slot
  <2>1. DOMAIN raised' = DOMAIN raised /\ DOMAIN reports' = DOMAIN reports /\ slot' = slot
    BY <1>5 DEF NoRaise, NoReport
  <2>2. \A t \in Threads : slot[t] # 0 => slot[t] \in DOMAIN raised
    BY <1>1
  <2>3. /\ \A t \in Threads : slot'[t] # 0 =>
             /\ NowRaisedBy(slot'[t]) = t
             /\ \A e \in DOMAIN raised' : NowRaisedBy(e) = t => e <= slot'[t]
             /\ \A i \in DOMAIN reports' : NowReportedBy(i) = t => reports'[i].error < slot'[t]
        /\ \A i, j \in DOMAIN reports' : reports'[i].error = reports'[j].error => i = j
        /\ \A i \in DOMAIN reports' : NowReportedBy(i) = NowRaisedBy(reports'[i].error)
    BY <1>2, <1>4, <2>1, <2>2 DEF Newest, Once
  <2> QED BY <2>3 DEF Newest, Once, RaisedBy, ReportedBy, NowRaisedBy, NowReportedBy
<1>6. ASSUME NEW t \in Threads, Raises(t), NoReport, slot' = [slot EXCEPT ![t] = Len(raised) + 1]
      PROVE  Newest' /\ Once'
  <2> DEFINE new == Len(raised) + 1
  <2>1. DOMAIN raised' = DOMAIN raised \cup {new} /\ NowRaisedBy(new) = t
    BY <1>6 DEF Raises
  <2>2. DOMAIN reports' = DOMAIN reports
    BY <1>6 DEF NoReport
  <2>3. slot'[t] = new /\ \A s \in Threads \ {t} : slot'[s] = slot[s]
    BY <1>1, <1>6
  <2>4. Once'
    BY <1>2, <1>4, <2>2 DEF Once, RaisedBy, ReportedBy, NowRaisedBy, NowReportedBy
  <2>5. ASSUME NEW s \in Threads, slot'[s] # 0
        PROVE  /\ NowRaisedBy(slot'[s]) = s
               /\ \A e \in DOMAIN raised' : NowRaisedBy(e) = s => e <= slot'[s]
               /\ \A i \in DOMAIN reports' : NowReportedBy(i) = s => reports'[i].error < slot'[s]
    <3>1. CASE s = t
      BY <1>1, <1>2, <1>4, <2>1, <2>2, <2>3, <3>1
    <3>2. CASE s # t
      <4>1. slot'[s] = slot[s] /\ slot[s] \in DOMAIN raised
        BY <1>1, <2>3, <2>5, <3>2
      <4> QED BY <1>4, <2>1, <2>2, <2>5, <3>2, <4>1 DEF Newest
    <3> QED BY <3>1, <3>2
  <2> QED BY <2>4, <2>5 DEF Newest, RaisedBy, ReportedBy, NowRaisedBy, NowReportedBy
<1>7. ASSUME NEW t \in Threads, NEW e \in DOMAIN raised', Reports(t, e),
             slot' = [slot EXCEPT ![t] = 0],
             NowRaisedBy(e) = t,
             \A f \in DOMAIN raised' : f \notin DOMAIN raised => NowRaisedBy(f) = t,
             \A i \in DOMAIN reports : reports[i].error # e
      PROVE  Newest' /\ Once'
  <2> DEFINE new == Len(reports) + 1
  <2>1. /\ DOMAIN reports' = DOMAIN reports \cup {new} /\ new \notin DOMAIN reports
        /\ NowReportedBy(new) = t /\ reports'[new].error = e
    BY <1>1, <1>7 DEF Reports
  <2>2. slot'[t] = 0 /\ \A s \in Threads \ {t} : slot'[s] = slot[s]
    BY <1>1, <1>7
  <2> HIDE DEF new
  <2>3. \A i \in DOMAIN reports' : NowReportedBy(i) = NowRaisedBy(reports'[i].error)
    BY <1>2, <1>4, <1>7, <2>1 DEF Once
  <2>4. \A i, j \in DOMAIN reports' : reports'[i].error = reports'[j].error => i = j
    BY <1>4, <1>7, <2>1 DEF Once
  <2>5. ASSUME NEW s \in Threads, slot'[s] # 0
        PROVE  /\ NowRaisedBy(slot'[s]) = s
               /\ \A f \in DOMAIN raised' : NowRaisedBy(f) = s => f <= slot'[s]
               /\ \A i \in DOMAIN reports' : NowReportedBy(i) = s => reports'[i].error < slot'[s]
    <3>1. s # t /\ slot'[s] = slot[s] /\ slot[s] \in DOMAIN raised
      BY <1>1, <2>2, <2>5
    <3> QED BY <1>4, <1>7, <2>1, <2>5, <3>1 DEF Newest
  <2> QED BY <2>3, <2>4, <2>5 DEF Newest, Once, RaisedBy, ReportedBy, NowRaisedBy, NowReportedBy
<1>8. ASSUME NEW t \in Threads, NoRaise, slot[t] # 0, Reports(t, slot[t]),
             slot' = [slot EXCEPT ![t] = 0]
      PROVE  Newest' /\ Once'
  <2>1. slot[t] \in DOMAIN raised /\ DOMAIN raised' = DOMAIN raised
    BY <1>1, <1>8 DEF NoRaise
  <2>2. RaisedBy(slot[t]) = t
    BY <1>8 DEF Newest
  <2>3. ASSUME NEW i \in DOMAIN reports PROVE reports[i].error # slot[t]
    <3>1. SUFFICES ASSUME reports[i].error = slot[t] PROVE FALSE
      OBVIOUS
    <3>2. ReportedBy(i) = t
      BY <2>2, <3>1 DEF Once
    <3>3. reports[i].error < slot[t] /\ slot[t] \in Nat
      BY <1>1, <1>8, <3>2 DEF Newest
    <3> QED BY <3>1, <3>3
  <2>4. \A f \in DOMAIN raised : NowRaisedBy(f) = RaisedBy(f)
    BY <1>4
  <2> DEFINE e == slot[t]
  <2>5. e \in DOMAIN raised' /\ Reports(t, e) /\ NowRaisedBy(e) = t
        /\ (\A f \in DOMAIN raised' : f \notin DOMAIN raised => NowRaisedBy(f) = t)
        /\ \A i \in DOMAIN reports : reports[i].error # e
    BY <1>8, <2>1, <2>2, <2>3, <2>4
  <2> HIDE DEF e
  <2> QED BY <1>7, <1>8, <2>5
<1>9. ASSUME NEW t \in Threads, Raises(t), Reports(t, Len(raised) + 1),
             slot' = [slot EXCEPT ![t] = 0]
      PROVE  Newest' /\ Once'
  <2>1. DOMAIN raised' = DOMAIN raised \cup {Len(raised) + 1} /\ NowRaisedBy(Len(raised) + 1) = t
    BY <1>9 DEF Raises
  <2>2. \A i \in DOMAIN reports : reports[i].error # Len(raised) + 1
    BY <1>1, <1>2
  <2> DEFINE e == Len(raised) + 1
  <2>3. e \in DOMAIN raised' /\ Reports(t, e) /\ NowRaisedBy(e) = t
        /\ (\A f \in DOMAIN raised' : f \notin DOMAIN raised => NowRaisedBy(f) = t)
        /\ \A i \in DOMAIN reports : reports[i].error # e
    BY <1>9, <2>1, <2>2
  <2> HIDE DEF e
  <2> QED BY <1>7, <1>9, <2>3
<1> QED BY <1>5, <1>6, <1>8, <1>9, ErrorSteps

\* The slots and the reports hold what they should from the start.
LEMMA ErrorsAlways == Spec => [](TypeOK /\ StackInv /\ Newest /\ Once)
<1>1. Init => Newest /\ Once
  BY DEF Init, Newest, Once
<1> QED BY <1>1, StacksInductive, ErrorsInductive, PTL DEF Spec

\* PendingIsNewest holds: a slot never keeps an exception when its thread has
\* had a newer one or has reported it.
THEOREM NewestPending == Spec => []PendingIsNewest
<1>1. Newest => PendingIsNewest
  BY DEF Newest, PendingIsNewest, RaisedBy, ReportedBy, ThreadOf
<1> QED BY <1>1, ErrorsAlways, PTL

\* ReportedOnceInItsThread holds: no interleaving of threads, nested calls and
\* pending exceptions makes a second Status of an exception, or one elsewhere.
THEOREM ReportedOnce == Spec => []ReportedOnceInItsThread
<1>1. Once => ReportedOnceInItsThread
  BY DEF Once, ReportedOnceInItsThread, RaisedBy, ReportedBy, ThreadOf
<1> QED BY <1>1, ErrorsAlways, PTL
---------------------------------------------------------------------------
(***************************************************************************)
(* Checked compilations.                                                   *)
(***************************************************************************)
\* A call is on one stack, once, and a compile() is never below another call.
LEMMA CallsApart ==
  ASSUME TypeOK, StackInv, NEW t \in Threads, stack[t] # <<>>,
         NEW s \in Threads, NEW i \in 1..Len(stack[s])
  PROVE  /\ stack[s][i].call \in 1..Len(calls)
         /\ stack[s][i].call = Top(t).call => s = t /\ i = Len(stack[t])
         /\ i # Len(stack[s]) => calls[stack[s][i].call].op # "compile"
<1> DEFINE Record == [thread : Threads, op : Operations]
<1>1. stack[s] \in Seq(Frame) /\ stack[t] \in Seq(Frame) /\ calls \in Seq(Record)
  BY DEF TypeOK, Frame
<1>2. stack[s][i] \in Frame
  BY <1>1
<1>3. stack[s][i].call \in 1..Len(calls)
  BY <1>2 DEF Frame
<1>4. calls[stack[s][i].call] \in Record
  <2> HIDE DEF Record
  <2> QED BY <1>1, <1>3
<1>5. ASSUME i # Len(stack[s]) PROVE calls[stack[s][i].call].op # "compile"
  <2>1. i < Len(stack[s])
    BY <1>1, <1>5
  <2>2. "python" \in PlacesOf[calls[stack[s][i].call].op]
    BY <2>1 DEF StackInv
  <2> QED BY <2>2 DEF PlacesOf
<1>6. Top(t) = stack[t][Len(stack[t])] /\ Len(stack[t]) \in 1..Len(stack[t]) /\ Top(t) \in Frame
  BY TopFacts
<1>7. ASSUME stack[s][i].call = Top(t).call PROVE s = t /\ i = Len(stack[t])
  <2>1. s = t
    BY <1>6, <1>7 DEF StackInv, ThreadOf
  <2>2. CASE i < Len(stack[t])
    <3>1. stack[t][i].call < Top(t).call
      BY <1>6, <2>1, <2>2 DEF StackInv
    <3>2. Top(t).call \in Nat
      BY <1>6 DEF Frame
    <3> QED BY <1>7, <2>1, <3>1, <3>2
  <2> QED BY <1>1, <2>1, <2>2
<1> QED BY <1>3, <1>5, <1>7

\* CleanInv is inductive: the slot of a thread is emptied only by a call that
\* fails or is no compile(), and the last call of a stack is the one that asks.
LEMMA CleanInductive ==
  ASSUME TypeOK, StackInv, CleanInv, [Next]_vars
  PROVE  CleanInv'
<1> DEFINE Clean ==
             /\ \A s \in Threads : \A i \in 1..Len(stack'[s]) :
                  /\ stack'[s][i].call \notin succeeded'
                  /\ \A e \in DOMAIN raised' :
                       /\ raised'[e].call = stack'[s][i].call
                       /\ calls'[stack'[s][i].call].op = "compile"
                       => slot'[s] # 0
             /\ \A e \in DOMAIN raised' :
                  calls'[raised'[e].call].op = "compile" => raised'[e].call \notin succeeded'
<1>1. /\ raised \in Seq(Frame) /\ DOMAIN raised = 1..Len(raised) /\ Len(raised) \in Nat
      /\ slot \in [Threads -> 0..Len(raised)] /\ succeeded \subseteq 1..Len(calls)
      /\ Len(calls) \in Nat
  BY DEF TypeOK, Frame
<1>2. \A e \in DOMAIN raised : raised[e].call \in 1..Len(calls)
  <2>1. \A e \in DOMAIN raised : raised[e] \in Frame
    BY <1>1
  <2> QED BY <2>1 DEF Frame
<1>3. /\ \A s \in Threads : \A i \in 1..Len(stack[s]) :
           /\ stack[s][i].call \notin succeeded
           /\ \A e \in DOMAIN raised :
                /\ raised[e].call = stack[s][i].call
                /\ calls[stack[s][i].call].op = "compile"
                => slot[s] # 0
      /\ \A e \in DOMAIN raised :
           calls[raised[e].call].op = "compile" => raised[e].call \notin succeeded
  BY DEF CleanInv, CheckedCompilesAreClean
<1>4. Clean => CleanInv'
  BY DEF CleanInv, CheckedCompilesAreClean
<1>5. ASSUME UNCHANGED vars PROVE Clean
  BY <1>3, <1>5 DEF vars
<1>6. ASSUME NEW s \in Threads, NEW i \in 1..Len(stack[s])
      PROVE  stack[s][i].call \in 1..Len(calls)
  <2>1. stack[s] \in Seq(Frame)
    BY DEF TypeOK, Frame
  <2>2. stack[s][i] \in Frame
    BY <2>1
  <2> QED BY <2>2 DEF Frame
<1>7. ASSUME NEW t \in Threads, NEW op \in Operations, Call(t, op)
      PROVE  Clean
  <2>1. UNCHANGED <<slot, raised, succeeded>>
    BY <1>7 DEF Call
  <2>2. \A c \in 1..Len(calls) : calls'[c] = calls[c]
    BY <1>7, CallFacts
  <2>3. ASSUME NEW s \in Threads, NEW i \in 1..Len(stack'[s])
        PROVE  /\ stack'[s][i].call \notin succeeded
               /\ \A e \in DOMAIN raised :
                    /\ raised[e].call = stack'[s][i].call
                    /\ calls'[stack'[s][i].call].op = "compile"
                    => slot[s] # 0
    <3>1. CASE i \in 1..Len(stack[s])
      <4>1. stack'[s][i] = stack[s][i]
        BY <1>7, <3>1, CallFacts
      <4> QED BY <1>3, <1>6, <2>2, <3>1, <4>1
    <3>2. CASE i \notin 1..Len(stack[s])
      <4>1. stack'[s][i].call = Len(calls) + 1
        BY <1>7, <3>2, CallFacts
      <4> QED BY <1>1, <1>2, <4>1
    <3> QED BY <3>1, <3>2
  <2> QED BY <1>2, <1>3, <2>1, <2>2, <2>3
<1>8. ASSUME NEW t \in Threads, NoteError(t)
      PROVE  Clean
  <2>1. /\ stack[t] # <<>> /\ UNCHANGED <<stack, calls, succeeded>>
        /\ raised' \in Seq(Frame) /\ Len(raised') = Len(raised) + 1
        /\ \A e \in 1..Len(raised) : raised'[e] = raised[e]
        /\ raised'[Len(raised) + 1] = Top(t)
        /\ slot'[t] = Len(raised) + 1 /\ \A s \in Threads \ {t} : slot'[s] = slot[s]
    BY <1>1, <1>8, NoteFacts
  <2>2. DOMAIN raised' = 1..(Len(raised) + 1)
    BY <2>1
  <2>3. DOMAIN raised' = DOMAIN raised \cup {Len(raised) + 1}
    BY <1>1, <2>2
  <2>4. Top(t) = stack[t][Len(stack[t])] /\ Len(stack[t]) \in 1..Len(stack[t])
    BY <2>1, TopFacts
  <2>5. ASSUME NEW s \in Threads, NEW i \in 1..Len(stack[s]), NEW e \in DOMAIN raised',
               raised'[e].call = stack[s][i].call, calls[stack[s][i].call].op = "compile"
        PROVE  slot'[s] # 0
    <3>1. CASE s = t
      BY <1>1, <2>1, <3>1
    <3>2. CASE s # t
      <4>1. e \in DOMAIN raised
        BY <2>1, <2>3, <2>5, <3>2, CallsApart
      <4> QED BY <1>1, <1>3, <2>1, <2>5, <3>2, <4>1
    <3> QED BY <3>1, <3>2
  <2>6. \A e \in DOMAIN raised' :
          calls[raised'[e].call].op = "compile" => raised'[e].call \notin succeeded
    BY <1>1, <1>3, <2>1, <2>3, <2>4
  <2> QED BY <1>3, <2>1, <2>5, <2>6
<1>9. ASSUME NEW t \in Threads, Settles(t)
      PROVE  Clean
  <2>1. /\ stack[t] # <<>> /\ UNCHANGED calls /\ Top(t) \in Frame
        /\ Top(t) = stack[t][Len(stack[t])] /\ Len(stack[t]) \in Nat \ {0}
    BY <1>9, TopFacts DEF Settles
  <2>2. \/ UNCHANGED raised
        \/ /\ DOMAIN raised' = DOMAIN raised \cup {Len(raised) + 1}
           /\ \A e \in DOMAIN raised : raised'[e] = raised[e]
           /\ raised'[Len(raised) + 1] = Top(t)
           /\ Op(t) = "eval" /\ UNCHANGED succeeded
    <3>1. ASSUME raised' = Append(raised, Top(t))
          PROVE  /\ DOMAIN raised' = DOMAIN raised \cup {Len(raised) + 1}
                 /\ \A e \in DOMAIN raised : raised'[e] = raised[e]
                 /\ raised'[Len(raised) + 1] = Top(t)
      <4>1. /\ DOMAIN raised' = 1..(Len(raised) + 1)
            /\ \A e \in 1..Len(raised) : raised'[e] = raised[e]
            /\ raised'[Len(raised) + 1] = Top(t)
        BY <1>1, <2>1, <3>1, Appended
      <4> QED BY <1>1, <4>1
    <3> QED BY <1>9, <3>1, SettledErrors
  <2>3. /\ \A s \in Threads \ {t} : stack'[s] = stack[s] /\ slot'[s] = slot[s]
        /\ \A s \in Threads : \A i \in 1..Len(stack'[s]) :
             i \in 1..Len(stack[s]) /\ stack'[s][i].call = stack[s][i].call
    <3>1. \A s \in Threads \ {t} : slot'[s] = slot[s]
      BY <1>1, <1>9, SettledErrors
    <3>2. /\ \A s \in Threads \ {t} : stack'[s] = stack[s]
          /\ Len(stack'[t]) \in {Len(stack[t]), Len(stack[t]) - 1}
          /\ \A i \in 1..Len(stack'[t]) : stack'[t][i].call = stack[t][i].call
      BY <1>9, SettledStack
    <3>3. \A i \in 1..Len(stack'[t]) : i \in 1..Len(stack[t])
      BY <2>1, <3>2
    <3> QED BY <3>1, <3>2, <3>3
  <2>4. \/ UNCHANGED succeeded
        \/ /\ succeeded' = succeeded \cup {Top(t).call}
           /\ Len(stack'[t]) = Len(stack[t]) - 1
           /\ Op(t) = "compile" => slot[t] = 0
           /\ UNCHANGED <<slot, raised>>
    <3>1. ASSUME Pops(t) PROVE Len(stack'[t]) = Len(stack[t]) - 1
      <4>1. stack'[t] = Front(stack[t])
        BY <3>1 DEF Pops, TypeOK
      <4> QED BY <2>1, <4>1, TopFacts
    <3> QED BY <1>9, <3>1 DEF Settles, GoesOn, Fails, Succeeds
  <2>5. ASSUME NEW s \in Threads, NEW i \in 1..Len(stack'[s])
        PROVE  stack'[s][i].call \notin succeeded'
    <3>1. stack[s][i].call \notin succeeded /\ stack'[s][i].call = stack[s][i].call
          /\ i \in 1..Len(stack[s])
      BY <1>3, <2>3
    <3>2. CASE UNCHANGED succeeded
      BY <3>1, <3>2
    <3>3. CASE succeeded' = succeeded \cup {Top(t).call} /\ Len(stack'[t]) = Len(stack[t]) - 1
      <4>1. ~ (s = t /\ i = Len(stack[t]))
        BY <2>1, <3>3
      <4>2. stack[s][i].call # Top(t).call
        BY <2>1, <3>1, <4>1, CallsApart
      <4> QED BY <3>1, <3>3, <4>2
    <3> QED BY <2>4, <3>2, <3>3
  <2>6. ASSUME NEW s \in Threads, NEW i \in 1..Len(stack'[s]), NEW e \in DOMAIN raised',
               raised'[e].call = stack'[s][i].call, calls[stack[s][i].call].op = "compile"
        PROVE  slot'[s] # 0
    <3>1. i \in 1..Len(stack[s]) /\ stack'[s][i].call = stack[s][i].call
      BY <2>3
    <3>2. e \in DOMAIN raised /\ raised'[e] = raised[e]
      <4>1. CASE UNCHANGED raised
        BY <4>1
      <4>2. CASE e \notin DOMAIN raised /\ raised'[e] = Top(t) /\ Op(t) = "eval"
        BY <2>6, <3>1, <4>2 DEF Op
      <4> QED BY <2>2, <4>1, <4>2
    <3>3. slot[s] # 0
      BY <1>3, <2>6, <3>1, <3>2
    <3>4. CASE s # t
      BY <2>3, <3>3, <3>4
    <3>5. CASE s = t
      <4>1. i = Len(stack[t])
        BY <2>1, <2>6, <3>1, <3>5, CallsApart
      <4>2. Op(t) = "compile" /\ Len(stack'[t]) # Len(stack[t]) - 1
        BY <2>1, <2>6, <3>5, <4>1 DEF Op
      <4>3. ~ Fails(t)
        <5>1. stack \in [Threads -> Seq(Frame)]
          BY DEF TypeOK, Frame
        <5>2. Fails(t) => stack'[t] = Front(stack[t])
          BY <5>1 DEF Fails, Pops
        <5> QED BY <2>1, <4>2, <5>2, TopFacts
      <4>4. UNCHANGED slot
        BY <1>9, <4>2, <4>3, SettledErrors
      <4> QED BY <3>3, <4>4
    <3> QED BY <3>4, <3>5
  <2>7. ASSUME NEW e \in DOMAIN raised', calls[raised'[e].call].op = "compile"
        PROVE  raised'[e].call \notin succeeded'
    <3>1. e \in DOMAIN raised /\ raised'[e] = raised[e]
      <4>1. CASE UNCHANGED raised
        BY <4>1
      <4>2. CASE e \notin DOMAIN raised /\ raised'[e] = Top(t) /\ Op(t) = "eval"
        BY <2>7, <4>2 DEF Op
      <4> QED BY <2>2, <4>1, <4>2
    <3>2. raised[e].call \notin succeeded
      BY <1>3, <2>7, <3>1
    <3>3. CASE raised[e].call = Top(t).call
      <4>1. slot[t] # 0
        BY <1>3, <2>1, <2>7, <3>1, <3>3
      <4>2. Op(t) = "compile"
        BY <2>7, <3>1, <3>3 DEF Op
      <4> QED BY <2>4, <3>1, <3>2, <4>1, <4>2
    <3>4. CASE raised[e].call # Top(t).call
      BY <2>4, <3>1, <3>2, <3>4
    <3> QED BY <3>3, <3>4
  <2> QED BY <2>1, <2>3, <2>5, <2>6, <2>7
<1> HIDE DEF Clean
<1> QED BY <1>4, <1>5, <1>7, <1>8, <1>9, StepsSettle

\* CheckedCompilesAreClean holds, however calls nest and threads interleave: no
\* compile() with checks returns an expression when its compiler's construction
\* or its check had an exception.
THEOREM CompilesAreClean == Spec => []CheckedCompilesAreClean
<1>1. Init => CleanInv
  BY DEF Init, CleanInv, CheckedCompilesAreClean
<1>2. CleanInv => CheckedCompilesAreClean
  BY DEF CleanInv
<1> QED BY <1>1, <1>2, StacksInductive, CleanInductive, PTL DEF Spec
=============================================================================
