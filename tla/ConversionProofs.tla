-------------------------- MODULE ConversionProofs --------------------------
(***************************************************************************)
(* Proofs about Conversion for any containers, variables and functions.    *)
(* What is pending is known at each step (PendingInv), and that is enough  *)
(* for the current exception; that an error is of its own object rests on  *)
(* what the frames of a map remember of their keys as well.  What frames   *)
(* remember of containers that change is NestedInv.  What objects and      *)
(* values have to do with each other is ConveyInv, and DynInv where a      *)
(* function's result is converted with type DYN.                           *)
(***************************************************************************)
EXTENDS Conversion, SequenceTheorems, TLAPS

\* The steps in which Python code runs or its exception is on its way.
PythonSteps == {"toPython", "pythonItems", "object", "function", "crash"}

\* Between the steps of Python code there is no exception but an IndexError,
\* and the slot has an exception of an object only until its conversion asks.
PendingInv ==
  /\ step.do \notin PythonSteps => exc.at \in {"none", "index"}
  /\ \/ slot.at \in {"none", "stale"}
     \/ step.do = "released" /\ slot = Fault("lookup", step.object)

\* ForPyObject leaves the current exception or none.
LEMMA FoundException ==
  ASSUME NEW o
  PROVE  ForPyObject(o).exc = exc \/ ForPyObject(o).exc = None
BY DEF ForPyObject, Found

\* Every step keeps PendingInv.
LEMMA PendingStep == PendingInv /\ [Next]_vars => PendingInv'
<1>. SUFFICES ASSUME PendingInv, [Next]_vars PROVE PendingInv'
  OBVIOUS
<1>. USE DEF PendingInv, PythonSteps, Fault, None, Stale
<1>1. CASE ToCelStep
  <2>. USE DEF Inside, KeepStatus, TakeStatus, Converts, Goto, CelResult, Give, Make,
               InvalidType
  <2>1. CASE ConvertNothing
    BY <2>1 DEF ConvertNothing
  <2>2. CASE ConvertDyn
    BY <2>2, FoundException DEF ConvertDyn, ToCel
  <2>3. CASE ConvertNull \/ ConvertBool \/ ConvertString \/ ConvertBytes \/ ConvertOther
    BY <2>3 DEF ConvertNull, ConvertBool, ConvertString, ConvertBytes, ConvertOther
  <2>4. CASE ConvertNumber
    BY <2>4 DEF ConvertNumber
  <2>5. CASE ConvertTime
    BY <2>5 DEF ConvertTime
  <2>6. CASE ConvertMessage
    BY <2>6, FoundException DEF ConvertMessage, Released
  <2>7. CASE LookupRaises
    BY <2>7 DEF LookupRaises
  <2>8. CASE FinishMessage
    BY <2>8 DEF FinishMessage
  <2>9. CASE BeginList \/ BeginMap
    BY <2>9, FoundException
    DEF BeginList, BeginMap, ConvertMessageAs, Call, CelItems, ToCel
  <2>10. CASE NextItem \/ NextEntry
    <3>1. step.do = "celItems"
      BY <2>10 DEF NextItem, NextEntry
    <3>2. slot' = slot /\ (exc' = exc \/ exc' = Fault("index", Top.object))
      <4>1. CASE NextItem
        BY <4>1 DEF NextItem
      <4>2. CASE NextEntry
        BY <4>2 DEF NextEntry
      <4>. QED  BY <2>10, <4>1, <4>2
    <3>. QED  BY <3>1, <3>2
  <2>11. CASE AddItem \/ ConvertEntryValue \/ PutEntry
    BY <2>11 DEF AddItem, ConvertEntryValue, PutEntry, Refuse, Again, Return, CelItems, ToCel
  <2>. QED  BY <1>1, <2>1, <2>2, <2>3, <2>4, <2>5, <2>6, <2>7, <2>8, <2>9, <2>10, <2>11
            DEF ToCelStep
<1>2. CASE ToPythonStep
  BY <1>2 DEF ToPythonStep, LeafToPython, MessageToPython, ContainerToPython, NextPythonItem,
              ItemFails, AddPythonItem, AddPythonKey, IsPython, Inside, KeepStatus, Goto, Call, Again,
              Return, PythonResult, PythonItems, ToPython, Crashed
<1>3. CASE EvalStep
  <2>1. CASE StartEval \/ LookupElsewhere \/ SelectField \/ EndProvide \/ EndEval \/ EndAccess \/ EndInvoke
    BY <2>1 DEF StartEval, LookupElsewhere, SelectField, EndProvide, EndEval, EndAccess, EndInvoke, Inside,
                Goto, Return, InRuntime, InUser
  <2>2. CASE CallFunction \/ FunctionFails \/ Access
    BY <2>2 DEF CallFunction, FunctionFails, Access, Inside, KeepStatus, TakeStatus, Goto,
                Again, Call, Return, Crashed, InFunction, InRuntime, InUser, ToPython
  <2>3. ASSUME NEW x \in Variables, Provide(x) PROVE PendingInv'
    BY <2>3 DEF Provide, MayCallBack, Call, ToCel, InRuntime
  <2>4. ASSUME NEW t \in Returns, Invoke(t) PROVE PendingInv'
    BY <2>4 DEF Invoke, MayCallBack, Call, ToPython, InRuntime
  <2>5. ASSUME NEW o, FunctionReturns(o) PROVE PendingInv'
    BY <2>5 DEF FunctionReturns, Again, ToCel
  <2>. QED  BY <1>3, <2>1, <2>2, <2>3, <2>4, <2>5 DEF EvalStep
<1>4. CASE UNCHANGED vars \/ \E c \in DOMAIN contents : Edit(c)
  BY <1>4 DEF vars, Edit
<1>. QED  BY <1>1, <1>2, <1>3, <1>4 DEF Next

\* PendingInv holds at first.
LEMMA PendingInit == Init => PendingInv
BY DEF Init, PendingInv, PythonSteps, InUser, None, Stale, Fault

\* No exception but the IndexError of a list that became shorter goes back to
\* the evaluation, whatever objects are converted.
THEOREM ExceptionsTaken == Spec => []OnlyIndexErrorsStay
<1>1. PendingInv => OnlyIndexErrorsStay
  BY DEF PendingInv, OnlyIndexErrorsStay, PythonSteps
<1>. QED  BY <1>1, PendingInit, PendingStep, PTL DEF Spec

-----------------------------------------------------------------------------
(* Errors and what they are about.                                         *)

\* A fault that an error about o may tell of.
Own(f, o) == f.at \in {"none", "stale", "index"} \/ f.of = o

Fields ==
  {"at", "object", "type", "value", "size", "pos", "entry", "key", "done", "since", "from"}

\* While the value of an entry is converted, a failed key tells of the key.
FrameOK(f) ==
  /\ DOMAIN f = Fields
  /\ f.at = "value" /\ Failed(f.key) => Own(f.key.fault, f.entry.key)

StackOK ==
  /\ \E S : stack \in Seq(S)
  /\ \A k \in DOMAIN stack : FrameOK(stack[k])

\* What is converted for a "key" frame is the key, and an error value is of it.
KeyOK ==
  In("key") =>
    /\ step.do \in {"toCel", "released"} => step.object = Top.entry.key
    /\ step.do = "cel" /\ step.value.kind = "error" => step.object = Top.entry.key

\* What holds of the stack and the step together.
BlameInv == StackOK /\ KeyOK /\ ErrorsAreTheirOwn

\* The innermost frame is a frame.
LEMMA TopOK == StackOK /\ stack # <<>> => FrameOK(Top)
<1>. SUFFICES ASSUME StackOK, stack # <<>> PROVE FrameOK(Top)
  OBVIOUS
<1>1. PICK S : stack \in Seq(S)
  BY DEF StackOK
<1>2. Len(stack) \in DOMAIN stack
  BY <1>1
<1>. QED  BY <1>2 DEF StackOK, Top, Last

\* A call puts its frame on top.
LEMMA PushFrame ==
  ASSUME StackOK, NEW f, FrameOK(f), stack' = Append(stack, f)
  PROVE  StackOK' /\ stack' # <<>> /\ Top' = f
<1>1. PICK S : stack \in Seq(S)
  BY DEF StackOK
<1>2. stack \in Seq(S \cup {f})
  BY <1>1
<1>3. stack' \in Seq(S \cup {f}) /\ Len(stack') = Len(stack) + 1 /\ stack'[Len(stack')] = f
  BY <1>2, AppendProperties
<1>4. \A k \in DOMAIN stack' : stack'[k] = f \/ (k \in DOMAIN stack /\ stack'[k] = stack[k])
  BY <1>2, AppendProperties
<1>5. StackOK'
  BY <1>3, <1>4 DEF StackOK, FrameOK, Own, Failed
<1>. QED  BY <1>3, <1>5 DEF Top, Last

\* A return takes the innermost frame away.
LEMMA PopFrame ==
  ASSUME StackOK, stack # <<>>, stack' = Front(stack)
  PROVE  StackOK'
<1>1. PICK S : stack \in Seq(S)
  BY DEF StackOK
<1>2. /\ stack' \in Seq(S)
      /\ \A k \in DOMAIN stack' : k \in DOMAIN stack /\ stack'[k] = stack[k]
  BY <1>1, SubSeqProperties DEF Front
<1>. QED  BY <1>2 DEF StackOK, FrameOK, Own, Failed

\* A function that goes on changes its frame.
LEMMA SetFrame ==
  ASSUME StackOK, stack # <<>>, NEW f, FrameOK(f), stack' = Append(Front(stack), f)
  PROVE  StackOK' /\ stack' # <<>> /\ Top' = f
<1>1. PICK S : stack \in Seq(S)
  BY DEF StackOK
<1>2. /\ Front(stack) \in Seq(S \cup {f})
      /\ \A k \in DOMAIN Front(stack) :
           k \in DOMAIN stack /\ Front(stack)[k] = stack[k]
  BY <1>1, SubSeqProperties DEF Front
<1>3. /\ stack' \in Seq(S \cup {f}) /\ Len(stack') = Len(Front(stack)) + 1
      /\ stack'[Len(stack')] = f
  BY <1>2, AppendProperties
<1>4. \A k \in DOMAIN stack' : stack'[k] = f \/ (k \in DOMAIN stack /\ stack'[k] = stack[k])
  BY <1>2, AppendProperties
<1>5. StackOK'
  BY <1>3, <1>4 DEF StackOK, FrameOK, Own, Failed
<1>. QED  BY <1>3, <1>5 DEF Top, Last

\* A frame of another place than "value" is a frame if it has the fields.
LEMMA OtherFrame ==
  ASSUME NEW f, DOMAIN f = Fields, f.at # "value"
  PROVE  FrameOK(f)
BY DEF FrameOK

\* A new frame has the fields.
LEMMA NewFrame ==
  ASSUME NEW at, NEW o, NEW t, NEW v
  PROVE  DOMAIN Frame(at, o, t, v) = Fields /\ Frame(at, o, t, v).at = at
BY DEF Frame, Fields

\* A conversion gives a value, or an error that its object has earned.
LEMMA Given ==
  ASSUME BlameInv, UNCHANGED stack, step.do \in {"toCel", "released"},
         NEW v, step' = CelResult(v, step.object),
         Failed(v) => Own(v.fault, step.object)
  PROVE  BlameInv'
<1>1. StackOK'
  BY DEF BlameInv, StackOK, FrameOK, Own, Failed
<1>2. KeyOK'
  BY DEF BlameInv, KeyOK, In, Top, CelResult
<1>3. ErrorsAreTheirOwn'
  BY DEF ErrorsAreTheirOwn, CelResult, Own, Failed
<1>. QED  BY <1>1, <1>2, <1>3 DEF BlameInv

\* A conversion goes on with the same object.
LEMMA GoesOn ==
  ASSUME BlameInv, UNCHANGED stack, step.do \in {"toCel", "released"},
         step'.do \in {"toCel", "released"}, step'.object = step.object
  PROVE  BlameInv'
<1>1. StackOK'
  BY DEF BlameInv, StackOK, FrameOK, Own, Failed
<1>2. KeyOK'
  BY DEF BlameInv, KeyOK, In, Top
<1>3. ErrorsAreTheirOwn'
  BY DEF ErrorsAreTheirOwn
<1>. QED  BY <1>1, <1>2, <1>3 DEF BlameInv

\* The frames stay, or all but the innermost one, and no conversion to CEL is
\* under way.
LEMMA Elsewhere ==
  ASSUME BlameInv, UNCHANGED stack \/ (stack # <<>> /\ stack' = Front(stack)),
         step'.do \notin {"toCel", "released", "cel"}
  PROVE  BlameInv'
<1>1. StackOK'
  BY PopFrame DEF BlameInv, StackOK, FrameOK, Own, Failed
<1>. QED  BY <1>1 DEF BlameInv, KeyOK, ErrorsAreTheirOwn

\* The innermost frame returns a value, or a Status that its object has earned.
LEMMA Returned ==
  ASSUME BlameInv, stack # <<>>, stack' = Front(stack),
         NEW v, NEW o, step' = CelResult(v, o), v.kind # "error",
         Failed(v) => Own(v.fault, o)
  PROVE  BlameInv'
<1>1. StackOK'
  BY PopFrame DEF BlameInv
<1>. QED  BY <1>1 DEF BlameInv, KeyOK, ErrorsAreTheirOwn, CelResult, Own, Failed

\* A frame is put on top or takes the innermost one's place, and what it waits
\* for begins.
LEMMA Awaited ==
  ASSUME BlameInv, NEW f, FrameOK(f),
         stack' = Append(stack, f) \/ (stack # <<>> /\ stack' = Append(Front(stack), f)),
         step'.do # "cel",
         f.at = "key" /\ step'.do \in {"toCel", "released"} => step'.object = f.entry.key
  PROVE  BlameInv'
<1>1. StackOK' /\ stack' # <<>> /\ Top' = f
  BY PushFrame, SetFrame DEF BlameInv
<1>. QED  BY <1>1 DEF BlameInv, KeyOK, ErrorsAreTheirOwn, In

\* ForPyObject's type aside, a failed conversion gives an error of its object.
LEMMA OwnFaults ==
  ASSUME NEW o
  PROVE  /\ \A at : Fault(at, o).of = o /\ Fault(at, o).at = at
         /\ \A f : /\ Failed(ErrorValue(f)) /\ ErrorValue(f).fault = f
                   /\ Failed(Status(f)) /\ Status(f).fault = f /\ Status(f).kind = "status"
         /\ \A k, d, items : Value(k, d, items).kind = k
BY DEF Fault, ErrorValue, Status, Failed, Value

\* PyObjectToCelValue's steps that touch no frame.
LEMMA LeafBlame ==
  ASSUME PendingInv, BlameInv,
         \/ ConvertNothing \/ ConvertDyn \/ ConvertNull \/ ConvertBool \/ ConvertNumber
         \/ ConvertString \/ ConvertBytes \/ ConvertTime \/ ConvertMessage \/ LookupRaises
         \/ FinishMessage \/ ConvertOther
  PROVE  BlameInv'
<1>. USE OwnFaults DEF Own
<1>. DEFINE Gives == \E v : /\ step' = CelResult(v, step.object)
                            /\ Failed(v) => Own(v.fault, step.object)
<1>1. ASSUME UNCHANGED stack, step.do \in {"toCel", "released"}, Gives
      PROVE  BlameInv'
  BY <1>1, Given
<1>. HIDE DEF Gives
<1>2. ASSUME NEW k \in {"null", "bool", "int", "uint", "double", "string", "bytes", "timestamp",
                        "duration"},
             NEW d
      PROVE  ~Failed(Value(k, d, <<>>))
  BY <1>2 DEF Failed, Value
<1>3. ASSUME NEW d, step.type.kind \in {"null", "bool", "int", "uint", "double", "string",
                                        "bytes", "timestamp", "duration"}, Make(d)
      PROVE  Gives /\ UNCHANGED stack
  BY <1>2, <1>3 DEF Make, Give, Goto, Gives
<1>4. ASSUME InvalidType PROVE Gives /\ UNCHANGED stack
  BY <1>4 DEF InvalidType, Give, Goto, Gives
<1>5. CASE ConvertNothing
  BY <1>5, <1>1 DEF ConvertNothing, Give, Goto, Gives
<1>6. CASE ConvertDyn
  <2>1. CASE ForPyObject(step.object).type = NoType
    BY <1>6, <2>1, <1>1 DEF ConvertDyn, Converts, Give, Goto, Gives
  <2>2. CASE ForPyObject(step.object).type # NoType
    BY <1>6, <2>2, GoesOn DEF ConvertDyn, Converts, Goto, ToCel
  <2>. QED  BY <2>1, <2>2
<1>7. CASE ConvertNull \/ ConvertBool \/ ConvertString \/ ConvertBytes
  BY <1>7, <1>1, <1>3, <1>4
  DEF ConvertNull, ConvertBool, ConvertString, ConvertBytes, Converts
<1>8. CASE ConvertNumber
  <2>1. step.do = "toCel" /\ exc.at \in {"none", "index"}
    BY <1>8 DEF ConvertNumber, Converts, PendingInv, PythonSteps
  <2>2. Gives /\ UNCHANGED stack
    <3>1. CASE step.bypass \/ IsNumber(step.object)
      <4>1. CASE Fits(step.object, step.type.kind)
        BY <1>8, <2>1, <3>1, <4>1, <1>3 DEF ConvertNumber, Converts, Give, Goto, Gives
      <4>2. CASE ~Fits(step.object, step.type.kind)
        BY <1>8, <2>1, <3>1, <4>2, <1>3 DEF ConvertNumber, Converts, Give, Goto, Gives
      <4>. QED  BY <4>1, <4>2
    <3>2. CASE ~(step.bypass \/ IsNumber(step.object))
      BY <1>8, <3>2, <1>4 DEF ConvertNumber
    <3>. QED  BY <3>1, <3>2
  <2>. QED  BY <1>1, <2>1, <2>2
<1>9. CASE ConvertTime
  <2>1. step.do = "toCel" /\ step.type.kind \in {"timestamp", "duration"}
    BY <1>9 DEF ConvertTime, Converts
  <2>2. \/ InvalidType
        \/ Give(Status(Fault("cast", step.object)))
        \/ Give(ErrorValue(Fault("range", step.object)))
        \/ Make(step.object.data)
    BY <1>9 DEF ConvertTime
  <2>. QED  BY <2>1, <2>2, <1>1, <1>3, <1>4 DEF Give, Goto, Gives
<1>10. CASE ConvertMessage
  <2>1. step.do = "toCel" /\ slot.at \in {"none", "stale"}
    BY <1>10 DEF ConvertMessage, Converts, PendingInv
  <2>2. \/ Give(Status(Fault("type", step.object)))
        \/ InvalidType
        \/ Give(ErrorValue(slot))
        \/ Goto(Released(step.object))
    BY <1>10 DEF ConvertMessage
  <2>3. CASE Goto(Released(step.object))
    BY <2>1, <2>3, GoesOn DEF Goto, Released
  <2>. QED  BY <2>1, <2>2, <2>3, <1>1, <1>4 DEF Give, Goto, Gives
<1>11. CASE LookupRaises
  BY <1>11, GoesOn DEF LookupRaises
<1>12. CASE FinishMessage
  <2>1. step.do = "released" /\ Own(TheStatus, step.object)
    BY <1>12 DEF FinishMessage, TheStatus, PendingInv, PythonSteps
  <2>2. Failed(Parsed(step.object)) => Own(Parsed(step.object).fault, step.object)
    <3>1. ~Failed(Wrapped(step.object))
      BY DEF Wrapped, Value, Failed
    <3>. QED  BY <3>1 DEF Parsed
  <2>. QED  BY <1>12, <2>1, <2>2, <1>1 DEF FinishMessage, Give, Goto, Gives
<1>13. CASE ConvertOther
  BY <1>13, <1>1 DEF ConvertOther, Converts, Give, Goto, Gives
<1>. QED  BY <1>5, <1>6, <1>7, <1>8, <1>9, <1>10, <1>11, <1>12, <1>13

\* PyObjectToCelValue's steps through lists and dicts.
LEMMA ContainerBlame ==
  ASSUME PendingInv, BlameInv,
         \/ BeginList \/ NextItem \/ AddItem \/ BeginMap \/ NextEntry
         \/ ConvertEntryValue \/ PutEntry
  PROVE  BlameInv'
<1>. USE OwnFaults
<1>1. stack # <<>> => FrameOK(Top) /\ DOMAIN Top = Fields
  BY TopOK DEF BlameInv, FrameOK
<1>2. ASSUME NEW name, step.do = "toCel", ConvertMessageAs(name) PROVE BlameInv'
  <2>1. \/ Give(Status(Fault("type", step.object)))
        \/ Goto(ToCel(step.object, ForPyObject(step.object).type, TRUE))
        \/ InvalidType
    BY <1>2 DEF ConvertMessageAs
  <2>2. CASE Goto(ToCel(step.object, ForPyObject(step.object).type, TRUE))
    BY <1>2, <2>2, GoesOn DEF Goto, ToCel
  <2>3. ASSUME NEW v, v \in {Status(Fault("type", step.object)),
                             ErrorValue(Fault("type", step.object))},
               Give(v)
        PROVE  BlameInv'
    <3>1. v.fault.of = step.object
      BY <2>3
    <3>2. UNCHANGED stack /\ step' = CelResult(v, step.object)
      BY <2>3 DEF Give, Goto
    <3>. QED  BY <1>2, <3>1, <3>2, Given DEF Own
  <2>. QED  BY <2>1, <2>2, <2>3 DEF InvalidType
<1>3. ASSUME step.do = "cel", stack # <<>>, Refuse PROVE BlameInv'
  BY <1>3, Returned DEF Refuse, Return, BlameInv, ErrorsAreTheirOwn, Own
<1>4. ASSUME step.do = "toCel",
             NEW at \in {"list", "map"},
             NEW n, Call([Frame(at, step.object, step.type, NoValue) EXCEPT !.size = n], CelItems)
      PROVE  BlameInv'
  <2>. DEFINE f == [Frame(at, step.object, step.type, NoValue) EXCEPT !.size = n]
  <2>1. DOMAIN f = Fields /\ f.at = at
    BY NewFrame DEF Frame
  <2>. HIDE DEF f
  <2>2. FrameOK(f)
    BY <2>1, OtherFrame
  <2>3. stack' = Append(stack, f) /\ step' = CelItems
    BY <1>4 DEF Call, f
  <2>. QED  BY <2>1, <2>2, <2>3, Awaited DEF CelItems
<1>0. ASSUME stack # <<>>, NEW kind \in {"list", "map"}, NEW d, NEW o,
              Return(CelResult(Value(kind, NoData, d), o))
       PROVE  BlameInv'
  <2>. DEFINE v == Value(kind, NoData, d)
  <2>1. v.kind # "error" /\ ~Failed(v)
    BY DEF Failed
  <2>2. stack' = Front(stack) /\ step' = CelResult(v, o)
    BY <1>0 DEF Return
  <2>. HIDE DEF v
  <2>. QED  BY <1>0, <2>1, <2>2, Returned
<1>5. CASE BeginList
  BY <1>5, <1>2, <1>4 DEF BeginList, Converts
<1>6. CASE BeginMap
  <2>1. ASSUME step.do = "toCel", Call(Frame("map", step.object, step.type, NoValue), CelItems)
        PROVE  BlameInv'
    <3>. DEFINE f == Frame("map", step.object, step.type, NoValue)
    <3>1. DOMAIN f = Fields /\ f.at = "map"
      BY NewFrame
    <3>. HIDE DEF f
    <3>2. FrameOK(f)
      BY <3>1, OtherFrame
    <3>3. stack' = Append(stack, f) /\ step' = CelItems
      BY <2>1 DEF Call, f
    <3>. QED  BY <3>1, <3>2, <3>3, Awaited DEF CelItems
  <2>. QED  BY <1>6, <1>2, <2>1 DEF BeginMap, Converts
<1>7. CASE NextItem
  <2>1. stack # <<>> /\ Top.at = "list" /\ DOMAIN Top = Fields
    BY <1>7, <1>1 DEF NextItem, In
  <2>2. ASSUME NEW i, NEW e, NEW o, NEW t,
               Again([Top EXCEPT !.pos = i, !.entry = e], ToCel(o, t, FALSE))
        PROVE  BlameInv'
    <3>. DEFINE f == [Top EXCEPT !.pos = i, !.entry = e]
    <3>1. DOMAIN f = Fields /\ f.at = "list"
      BY <2>1 DEF Fields
    <3>. HIDE DEF f
    <3>2. FrameOK(f)
      BY <3>1, OtherFrame
    <3>3. stack' = Append(Front(stack), f) /\ step' = ToCel(o, t, FALSE)
      BY <2>2 DEF Again, f
    <3>. QED  BY <2>1, <3>1, <3>2, <3>3, Awaited DEF ToCel
  <2>3. CASE Return(CelResult(Value("list", NoData, Top.done), Top.object))
    BY <2>1, <2>3, <1>0
  <2>. QED  BY <1>7, <2>2, <2>3 DEF NextItem
<1>8. CASE AddItem
  <2>1. step.do = "cel" /\ stack # <<>> /\ Top.at = "list" /\ DOMAIN Top = Fields
    BY <1>8, <1>1 DEF AddItem, In
  <2>2. ASSUME NEW d, NEW o, Again([Top EXCEPT !.done = d, !.from = o], CelItems)
        PROVE  BlameInv'
    <3>. DEFINE f == [Top EXCEPT !.done = d, !.from = o]
    <3>1. DOMAIN f = Fields /\ f.at = "list"
      BY <2>1 DEF Fields
    <3>. HIDE DEF f
    <3>2. FrameOK(f)
      BY <3>1, OtherFrame
    <3>3. stack' = Append(Front(stack), f) /\ step' = CelItems
      BY <2>2 DEF Again, f
    <3>. QED  BY <2>1, <3>1, <3>2, <3>3, Awaited DEF CelItems
  <2>. QED  BY <1>8, <2>1, <2>2, <1>3 DEF AddItem
<1>9. CASE NextEntry
  <2>1. stack # <<>> /\ Top.at = "map" /\ DOMAIN Top = Fields
    BY <1>9, <1>1 DEF NextEntry, In
  <2>2. ASSUME NEW i, NEW e, NEW t,
               Again([Top EXCEPT !.at = "key", !.pos = i, !.entry = e], ToCel(e.key, t, FALSE))
        PROVE  BlameInv'
    <3>. DEFINE f == [Top EXCEPT !.at = "key", !.pos = i, !.entry = e]
    <3>1. DOMAIN f = Fields /\ f.at = "key" /\ f.entry = e
      BY <2>1 DEF Fields
    <3>. HIDE DEF f
    <3>2. FrameOK(f)
      BY <3>1, OtherFrame
    <3>3. stack' = Append(Front(stack), f) /\ step' = ToCel(e.key, t, FALSE)
      BY <2>2 DEF Again, f
    <3>. QED  BY <2>1, <3>1, <3>2, <3>3, Awaited DEF ToCel
  <2>3. CASE Return(CelResult(Value("map", NoData, Top.done), Top.object))
    BY <2>1, <2>3, <1>0
  <2>. QED  BY <1>9, <2>2, <2>3 DEF NextEntry
<1>10. CASE ConvertEntryValue
  <2>1. step.do = "cel" /\ stack # <<>> /\ Top.at = "key" /\ DOMAIN Top = Fields /\ In("key")
    BY <1>10, <1>1 DEF ConvertEntryValue, In
  <2>2. CASE step.value.kind # "status"
              /\ Again([Top EXCEPT !.at = "value", !.key = step.value],
                       ToCel(Top.entry.value, Top.type.params[2], FALSE))
    <3>. DEFINE f == [Top EXCEPT !.at = "value", !.key = step.value]
    <3>1. DOMAIN f = Fields /\ f.at = "value" /\ f.key = step.value /\ f.entry = Top.entry
      BY <2>1 DEF Fields
    <3>. HIDE DEF f
    <3>2. Failed(step.value) => Own(step.value.fault, Top.entry.key)
      BY <2>1, <2>2 DEF BlameInv, KeyOK, ErrorsAreTheirOwn, Own, Failed
    <3>3. FrameOK(f)
      BY <3>1, <3>2 DEF FrameOK
    <3>4. stack' = Append(Front(stack), f)
            /\ step' = ToCel(Top.entry.value, Top.type.params[2], FALSE)
      BY <2>2 DEF Again, f
    <3>. QED  BY <2>1, <3>1, <3>3, <3>4, Awaited DEF ToCel
  <2>. QED  BY <1>10, <2>1, <2>2, <1>3 DEF ConvertEntryValue
<1>11. CASE PutEntry
  <2>1. step.do = "cel" /\ stack # <<>> /\ Top.at = "value" /\ DOMAIN Top = Fields
          /\ (Failed(Top.key) => Own(Top.key.fault, Top.entry.key))
    BY <1>11, <1>1 DEF PutEntry, In, FrameOK
  <2>. DEFINE fault == IF Failed(Top.key) THEN Top.key.fault ELSE Fault("key", Top.entry.key)
  <2>2. \/ Refuse
        \/ Return(CelResult(Status(fault), Top.entry.key))
        \/ Again([Top EXCEPT !.at = "map",
                             !.done = Append(@, Pair(Top.key, step.value)),
                             !.from = Append(@, Top.entry)], CelItems)
    BY <1>11 DEF PutEntry
  <2>3. CASE Return(CelResult(Status(fault), Top.entry.key))
    BY <2>1, <2>3, Returned DEF Return, Own
  <2>4. ASSUME NEW d, NEW o, Again([Top EXCEPT !.at = "map", !.done = d, !.from = o], CelItems)
        PROVE  BlameInv'
    <3>. DEFINE f == [Top EXCEPT !.at = "map", !.done = d, !.from = o]
    <3>1. DOMAIN f = Fields /\ f.at = "map"
      BY <2>1 DEF Fields
    <3>. HIDE DEF f
    <3>2. FrameOK(f)
      BY <3>1, OtherFrame
    <3>3. stack' = Append(Front(stack), f) /\ step' = CelItems
      BY <2>4 DEF Again, f
    <3>. QED  BY <2>1, <3>1, <3>2, <3>3, Awaited DEF CelItems
  <2>. QED  BY <1>3, <2>1, <2>2, <2>3, <2>4
<1>. QED  BY <1>5, <1>6, <1>7, <1>8, <1>9, <1>10, <1>11

\* CelValueToPyObject converts nothing to CEL.
LEMMA ToPythonBlame == BlameInv /\ ToPythonStep => BlameInv'
<1>. SUFFICES ASSUME BlameInv, ToPythonStep PROVE BlameInv'
  OBVIOUS
<1>1. stack # <<>> => FrameOK(Top) /\ DOMAIN Top = Fields
  BY TopOK DEF BlameInv, FrameOK
<1>2. CASE LeafToPython \/ MessageToPython
  <2>1. UNCHANGED stack /\ \E o : step' = PythonResult(o)
    BY <1>2 DEF LeafToPython, MessageToPython, Goto
  <2>. QED  BY <2>1, Elsewhere DEF PythonResult
<1>3. CASE ContainerToPython
  <2>. DEFINE f == Frame("python", nullptr, NoType, step.value)
  <2>1. DOMAIN f = Fields /\ f.at = "python"
    BY NewFrame
  <2>2. stack' = Append(stack, f) /\ step' = PythonItems
    BY <1>3 DEF ContainerToPython, Call
  <2>. HIDE DEF f
  <2>. QED  BY <2>1, <2>2, OtherFrame, Awaited DEF PythonItems
<1>4. ASSUME stack # <<>>, NEW f, NEW at \in {"python", "pythonKey"}, f.at = at,
             DOMAIN f = Fields, NEW s, Again(f, s), s.do \in {"toPython", "pythonItems"}
      PROVE  BlameInv'
  BY <1>4, OtherFrame, Awaited DEF Again
<1>5. CASE NextPythonItem
  <2>1. stack # <<>> /\ Top.at = "python" /\ DOMAIN Top = Fields
    BY <1>1, <1>5 DEF NextPythonItem, In
  <2>2. \/ \E o : Return(PythonResult(o))
        \/ \E i, v : \/ Again([Top EXCEPT !.pos = i], ToPython(v))
                     \/ Again([Top EXCEPT !.pos = i, !.at = "pythonKey"], ToPython(v))
    BY <1>5 DEF NextPythonItem
  <2>3. ASSUME NEW o, Return(PythonResult(o)) PROVE BlameInv'
    BY <2>1, <2>3, Elsewhere DEF Return, PythonResult
  <2>4. ASSUME NEW i, NEW v, Again([Top EXCEPT !.pos = i], ToPython(v)) PROVE BlameInv'
    <3>. DEFINE f == [Top EXCEPT !.pos = i]
    <3>1. DOMAIN f = Fields /\ f.at = "python"
      BY <2>1 DEF Fields
    <3>2. ToPython(v).do = "toPython"
      BY DEF ToPython
    <3>3. Again(f, ToPython(v))
      BY <2>4
    <3>. HIDE DEF f
    <3>. QED  BY <2>1, <3>1, <3>2, <3>3, <1>4
  <2>5. ASSUME NEW i, NEW v,
               Again([Top EXCEPT !.pos = i, !.at = "pythonKey"], ToPython(v))
        PROVE  BlameInv'
    <3>. DEFINE f == [Top EXCEPT !.pos = i, !.at = "pythonKey"]
    <3>1. DOMAIN f = Fields /\ f.at = "pythonKey"
      BY <2>1 DEF Fields
    <3>2. ToPython(v).do = "toPython"
      BY DEF ToPython
    <3>3. Again(f, ToPython(v))
      BY <2>5
    <3>. HIDE DEF f
    <3>. QED  BY <2>1, <3>1, <3>2, <3>3, <1>4
  <2>. QED  BY <2>2, <2>3, <2>4, <2>5
<1>8. CASE ItemFails
  <2>1. stack # <<>> /\ \E o : Return(PythonResult(o))
    BY <1>8 DEF ItemFails, In
  <2>. QED  BY <2>1, Elsewhere DEF Return, PythonResult
<1>6. CASE AddPythonItem
  <2>1. stack # <<>> /\ Top.at = "python" /\ DOMAIN Top = Fields
    BY <1>1, <1>6 DEF AddPythonItem, In
  <2>2. Goto(Crashed) \/ \E d : Again([Top EXCEPT !.done = d], PythonItems)
    BY <1>6 DEF AddPythonItem
  <2>3. CASE Goto(Crashed)
    BY <2>3, Elsewhere DEF Goto, Crashed
  <2>4. ASSUME NEW d, Again([Top EXCEPT !.done = d], PythonItems) PROVE BlameInv'
    <3>. DEFINE f == [Top EXCEPT !.done = d]
    <3>1. DOMAIN f = Fields /\ f.at = "python"
      BY <2>1 DEF Fields
    <3>. HIDE DEF f
    <3>. QED  BY <2>1, <2>4, <3>1, <1>4 DEF PythonItems, f
  <2>. QED  BY <2>2, <2>3, <2>4
<1>7. CASE AddPythonKey
  <2>1. stack # <<>> /\ DOMAIN Top = Fields
    BY <1>1, <1>7 DEF AddPythonKey, In
  <2>. DEFINE f == [Top EXCEPT !.at = "python", !.entry = Pair(step.object, nullptr)]
  <2>2. DOMAIN f = Fields /\ f.at = "python"
    BY <2>1 DEF Fields
  <2>3. Again(f, ToPython(Top.value.items[Top.pos].value))
    BY <1>7 DEF AddPythonKey
  <2>. HIDE DEF f
  <2>. QED  BY <2>1, <2>2, <2>3, <1>4 DEF ToPython
<1>. QED  BY <1>2, <1>3, <1>5, <1>6, <1>7, <1>8 DEF ToPythonStep

\* The evaluation and its callbacks.
LEMMA EvalBlame == BlameInv /\ EvalStep => BlameInv'
<1>. SUFFICES ASSUME BlameInv, EvalStep PROVE BlameInv'
  OBVIOUS
<1>1. stack # <<>> => FrameOK(Top) /\ DOMAIN Top = Fields
  BY TopOK DEF BlameInv, FrameOK
<1>2. ASSUME NEW at \in {"provide", "invoke", "access"}, NEW o, NEW t, NEW v, NEW s,
             Call(Frame(at, o, t, v), s), s.do # "cel"
      PROVE  BlameInv'
  <2>. DEFINE f == Frame(at, o, t, v)
  <2>1. DOMAIN f = Fields /\ f.at = at
    BY NewFrame
  <2>2. stack' = Append(stack, f) /\ step' = s
    BY <1>2 DEF Call
  <2>. HIDE DEF f
  <2>. QED  BY <1>2, <2>1, <2>2, OtherFrame, Awaited
<1>3. CASE StartEval \/ EndEval
  BY <1>3, Elsewhere DEF StartEval, EndEval, Goto, InRuntime, InUser
<1>4. CASE LookupElsewhere \/ SelectField
  <2>1. step' = step /\ stack' = stack /\ step.do \in {"runtime", "function"}
    BY <1>4 DEF LookupElsewhere, SelectField, InRuntime
  <2>. QED  BY <2>1, Elsewhere
<1>5. CASE EndProvide \/ FunctionFails \/ EndInvoke \/ EndAccess
  <2>1. stack # <<>> /\ stack' = Front(stack) /\ step' \in {InRuntime, InUser}
    BY <1>5 DEF EndProvide, FunctionFails, EndInvoke, EndAccess, Return, In
  <2>. QED  BY <2>1, Elsewhere DEF InRuntime, InUser
<1>6. CASE Access
  BY <1>6, <1>2 DEF Access, ToPython
<1>7. ASSUME NEW x \in Variables, Provide(x) PROVE BlameInv'
  <2>. DEFINE s == ToCel(x.object, x.type, FALSE)
  <2>1. s.do # "cel"
    BY DEF ToCel
  <2>2. Call(Frame("provide", x.object, x.type, NoValue), s)
    BY <1>7 DEF Provide
  <2>. HIDE DEF s
  <2>. QED  BY <2>1, <2>2, <1>2
<1>8. ASSUME NEW t \in Returns, Invoke(t) PROVE BlameInv'
  BY <1>8, <1>2 DEF Invoke, ToPython
<1>9. CASE CallFunction
  <2>1. stack # <<>> /\ DOMAIN Top = Fields
    BY <1>1, <1>9 DEF CallFunction, In
  <2>2. CASE Goto(Crashed)
    BY <2>2, Elsewhere DEF Goto, Crashed
  <2>. DEFINE f == [Top EXCEPT !.at = "function", !.from = <<step.object>>]
  <2>3. DOMAIN f = Fields /\ f.at = "function"
    BY <2>1 DEF Fields
  <2>4. CASE Again(f, InFunction(step.object))
    <3>1. stack' = Append(Front(stack), f) /\ step' = InFunction(step.object)
      BY <2>4 DEF Again
    <3>. HIDE DEF f
    <3>. QED  BY <2>1, <2>3, <3>1, OtherFrame, Awaited DEF InFunction
  <2>. QED  BY <1>9, <2>2, <2>4 DEF CallFunction
<1>10. ASSUME NEW o, FunctionReturns(o) PROVE BlameInv'
  <2>1. stack # <<>> /\ DOMAIN Top = Fields
    BY <1>1, <1>10 DEF FunctionReturns, In
  <2>. DEFINE f == [Top EXCEPT !.at = "result", !.object = o]
  <2>2. DOMAIN f = Fields /\ f.at = "result"
    BY <2>1 DEF Fields
  <2>3. stack' = Append(Front(stack), f) /\ step' = ToCel(o, Top.type, FALSE)
    BY <1>10 DEF FunctionReturns, Again
  <2>. HIDE DEF f
  <2>. QED  BY <2>1, <2>2, <2>3, OtherFrame, Awaited DEF ToCel
<1>. QED  BY <1>3, <1>4, <1>5, <1>6, <1>7, <1>8, <1>9, <1>10 DEF EvalStep

\* Every step keeps BlameInv.
LEMMA BlameStep == PendingInv /\ BlameInv /\ [Next]_vars => BlameInv'
<1>. SUFFICES ASSUME PendingInv, BlameInv, [Next]_vars PROVE BlameInv'
  OBVIOUS
<1>1. CASE ToCelStep
  BY <1>1, LeafBlame, ContainerBlame DEF ToCelStep
<1>2. CASE UNCHANGED vars \/ \E c \in DOMAIN contents : Edit(c)
  <2>1. UNCHANGED <<step, stack>>
    BY <1>2 DEF vars, Edit
  <2>. QED  BY <2>1 DEF BlameInv, StackOK, FrameOK, KeyOK, ErrorsAreTheirOwn, Own, Failed, In,
                        Top
<1>. QED  BY <1>1, <1>2, ToPythonBlame, EvalBlame DEF Next

\* BlameInv holds at first.
LEMMA BlameInit == Init => BlameInv
<1>. SUFFICES ASSUME Init PROVE BlameInv
  OBVIOUS
<1>1. stack = <<>> /\ step.do = "user"
  BY DEF Init, InUser
<1>2. stack \in Seq({})
  BY <1>1
<1>. QED  BY <1>1, <1>2 DEF BlameInv, StackOK, KeyOK, ErrorsAreTheirOwn, In

\* Whatever is converted, nested and interrupted, a failure tells of the object
\* that failed, or of what this thread had pending.
THEOREM FaultsAreOwn == Spec => []ErrorsAreTheirOwn
<1>1. Init => PendingInv /\ BlameInv
  BY PendingInit, BlameInit
<1>2. (PendingInv /\ BlameInv) /\ [Next]_vars => (PendingInv /\ BlameInv)'
  BY PendingStep, BlameStep
<1>3. BlameInv => ErrorsAreTheirOwn
  BY DEF BlameInv
<1>. QED  BY <1>1, <1>2, <1>3, PTL DEF Spec

-----------------------------------------------------------------------------
(***************************************************************************)
(* What frames hold while the containers change.  Everything here is said  *)
(* of a world (the versions of all containers), a stack and a step, so     *)
(* that it can be said of the next ones as well.                           *)
(***************************************************************************)
IsSeq(s) == \E S : s \in Seq(S)

VersionsIn(world, o) == IF o.data \in DOMAIN world THEN world[o.data] ELSE <<o.items>>

\* Every container has a version.
WorldOK(world) == \A c \in DOMAIN world : IsSeq(world[c]) /\ world[c] # <<>>

\* Containers get versions and keep those they have.
Grows(world, later) ==
  /\ DOMAIN later = DOMAIN world
  /\ \A c \in DOMAIN world :
       /\ Len(world[c]) <= Len(later[c])
       /\ \A n \in 1..Len(world[c]) : later[c][n] = world[c][n]

\* Something that is true of a version since the frame's conversion began.
Since(world, f) ==
  {VersionsIn(world, f.object)[n] : n \in f.since..Len(VersionsIn(world, f.object))}

Stood(world, f, i, o) == \E items \in Since(world, f) : i \in DOMAIN items /\ items[i] = o

WasEntry(world, f, e) ==
  \E slots \in Since(world, f) : f.pos \in DOMAIN slots /\ slots[f.pos] = e

Roots        == {"provide", "invoke", "function", "result", "access"}
DictFrames   == {"map", "key", "value"}
CelFrames    == {"list"} \cup DictFrames
PythonFrames == {"python", "pythonKey"}

\* The items of a list so far.
ListOK(world, f) ==
  /\ f.pos \in Nat
  /\ IsSeq(f.done) /\ IsSeq(f.from) /\ Len(f.done) = Len(f.from)
  /\ \A i \in 1..Len(f.done) : ~Failed(f.done[i]) /\ Stood(world, f, i, f.from[i])

\* The entries of a dict so far, and the one that is being converted.
DictOK(world, f) ==
  /\ f.pos = 0 \/ \E slots \in Since(world, f) : f.pos \in DOMAIN slots
  /\ IsSeq(f.done) /\ IsSeq(f.from) /\ Len(f.done) = Len(f.from)
  /\ \A i \in 1..Len(f.done) :
       /\ ~Failed(f.done[i].key) /\ ~Failed(f.done[i].value)
       /\ \E slots \in Since(world, f) : \E j \in DOMAIN slots : slots[j] = f.from[i]
       /\ \A j \in 1..Len(f.done) : f.done[j].key = f.done[i].key => j = i
  /\ f.at \in {"key", "value"} => WasEntry(world, f, f.entry)

Holds(world, f) ==
  /\ DOMAIN f = Fields
  /\ f.at \in Roots \cup CelFrames \cup PythonFrames
  /\ f.at \in CelFrames => f.since \in Nat \ {0} /\ f.since <= Len(VersionsIn(world, f.object))
  /\ f.at \in PythonFrames => f.pos \in Nat
  /\ f.at = "list" => ListOK(world, f)
  /\ f.at \in DictFrames => DictOK(world, f)

\* A frame that waits for another one; a list waits for the item at its place.
Waits(world, f) ==
  /\ Holds(world, f)
  /\ f.at \in AwaitCel \cup AwaitPython
  /\ f.at = "list" => f.pos = Len(f.done) + 1 /\ Stood(world, f, f.pos, f.entry.value)

\* An item that is gone is not converted.
Missing(p) ==
  \/ p.do = "toCel" /\ p.object = nullptr
  \/ p.do = "cel" /\ Failed(p.value)

\* What the thread does is what the innermost frame is about.
Matches(at, p) ==
  \/ p.do \in {"toCel", "released", "cel"} /\ at \in AwaitCel
  \/ p = CelItems /\ at \in {"list", "map"}
  \/ p.do \in {"toPython", "object"} /\ at \in AwaitPython
  \/ p = PythonItems /\ at = "python"
  \/ p.do = "function" /\ at = "function"
  \/ p.do = "crash" /\ at \in AwaitPython

Runs(world, f, p) ==
  /\ Holds(world, f)
  /\ Matches(f.at, p)
  /\ f.at = "list" =>
       IF p = CelItems
         THEN f.pos = Len(f.done)
         ELSE f.pos = Len(f.done) + 1 /\ (Stood(world, f, f.pos, f.entry.value) \/ Missing(p))

\* Which frame may call which one.
Calls(f, g) ==
  \/ f.at \in AwaitCel /\ g.at \in CelFrames
  \/ f.at \in AwaitPython /\ g.at \in PythonFrames

Idle == {"user", "runtime"}

Nested(world, s, p) ==
  /\ IsSeq(s)
  /\ s = <<>> <=> p.do \in Idle
  /\ \A k \in 1..Len(s) :
       /\ IF k = 1 THEN s[k].at \in Roots ELSE Calls(s[k - 1], s[k])
       /\ IF k = Len(s) THEN Runs(world, s[k], p) ELSE Waits(world, s[k])

NestedInv == WorldOK(contents) /\ Nested(contents, stack, step)

\* A sequence has the places from 1 to its length.
LEMMA SeqPlaces ==
  ASSUME NEW s, IsSeq(s)
  PROVE  Len(s) \in Nat /\ DOMAIN s = 1..Len(s) /\ (s = <<>> <=> Len(s) = 0)
BY DEF IsSeq

\* What Append does to a sequence of anything.
LEMMA AppendSeq ==
  ASSUME NEW s, IsSeq(s), NEW e
  PROVE  /\ IsSeq(Append(s, e)) /\ Len(Append(s, e)) = Len(s) + 1
         /\ \A k \in 1..Len(s) : Append(s, e)[k] = s[k]
         /\ Append(s, e)[Len(s) + 1] = e
<1>1. PICK S : s \in Seq(S)
  BY DEF IsSeq
<1>2. s \in Seq(S \cup {e})
  BY <1>1
<1>. QED  BY <1>2, AppendProperties DEF IsSeq

\* What Front does to a sequence of anything.
LEMMA FrontSeq ==
  ASSUME NEW s, IsSeq(s), s # <<>>
  PROVE  /\ IsSeq(Front(s)) /\ Len(Front(s)) = Len(s) - 1 /\ Len(s) \in Nat \ {0}
         /\ \A k \in 1..(Len(s) - 1) : Front(s)[k] = s[k]
<1>1. PICK S : s \in Seq(S)
  BY DEF IsSeq
<1>2. Len(s) \in Nat \ {0} /\ \A i \in 1..(Len(s) - 1) : s[i] \in S
  BY <1>1
<1>. DEFINE n == Len(s) - 1
            front == SubSeq(s, 1, n)
<1>3. n \in Nat
  BY <1>2
<1>. HIDE DEF n
<1>4. /\ front \in Seq(S) /\ Len(front) = (IF 1 =< n THEN n - 1 + 1 ELSE 0)
      /\ \A i \in 1..n - 1 + 1 : front[i] = s[1 + i - 1]
  <2>1. 1 \in Int /\ n \in Int /\ \A i \in 1..n : s[i] \in S
    BY <1>2, <1>3 DEF n
  <2>. QED  BY <2>1, SubSeqProperties
<1>5. Len(front) = n /\ \A i \in 1..n : front[i] = s[i]
  BY <1>3, <1>4
<1>. QED  BY <1>2, <1>4, <1>5 DEF IsSeq, Front, n

\* An object has a version.
LEMMA VersionsSeq ==
  ASSUME NEW world, WorldOK(world), NEW o
  PROVE  IsSeq(VersionsIn(world, o)) /\ Len(VersionsIn(world, o)) \in Nat \ {0}
<1>1. CASE o.data \in DOMAIN world
  BY <1>1, SeqPlaces DEF WorldOK, VersionsIn
<1>2. CASE o.data \notin DOMAIN world
  <2>1. <<o.items>> \in Seq({o.items}) /\ Len(<<o.items>>) = 1
    OBVIOUS
  <2>2. VersionsIn(world, o) \in Seq({o.items}) /\ Len(VersionsIn(world, o)) = 1
    BY <1>2, <2>1 DEF VersionsIn
  <2>. QED  BY <2>2 DEF IsSeq
<1>. QED  BY <1>1, <1>2

\* What was so since a conversion began still is in a later world.
LEMMA SinceGrows ==
  ASSUME NEW world, WorldOK(world), NEW later, WorldOK(later), Grows(world, later),
         NEW f, f.since \in Nat \ {0}
  PROVE  /\ Since(world, f) \subseteq Since(later, f)
         /\ Len(VersionsIn(world, f.object)) <= Len(VersionsIn(later, f.object))
<1>. DEFINE o == f.object
<1>1. Len(VersionsIn(world, o)) \in Nat /\ Len(VersionsIn(later, o)) \in Nat
  BY VersionsSeq
<1>2. CASE o.data \in DOMAIN world
  <2>1. /\ VersionsIn(world, o) = world[o.data] /\ VersionsIn(later, o) = later[o.data]
        /\ Len(world[o.data]) <= Len(later[o.data])
        /\ \A n \in 1..Len(world[o.data]) : later[o.data][n] = world[o.data][n]
    BY <1>2 DEF VersionsIn, Grows
  <2>2. ASSUME NEW n \in f.since..Len(world[o.data])
        PROVE  /\ n \in f.since..Len(later[o.data])
               /\ later[o.data][n] = world[o.data][n]
    BY <2>1, <2>2, <1>1
  <2>. QED  BY <2>1, <2>2 DEF Since
<1>3. CASE o.data \notin DOMAIN world
  <2>1. VersionsIn(world, o) = VersionsIn(later, o)
    BY <1>3 DEF VersionsIn, Grows
  <2>. QED  BY <2>1, <1>1 DEF Since
<1>. QED  BY <1>2, <1>3

\* A frame keeps what it holds, waiting or running, when containers change.
LEMMA FrameGrows ==
  ASSUME NEW world, WorldOK(world), NEW later, WorldOK(later), Grows(world, later),
         NEW f
  PROVE  /\ Holds(world, f) => Holds(later, f)
         /\ Waits(world, f) => Waits(later, f)
         /\ \A p : Runs(world, f, p) => Runs(later, f, p)
<1>1. CASE f.at \in CelFrames
  <2>1. ASSUME Holds(world, f)
        PROVE  /\ Since(world, f) \subseteq Since(later, f)
               /\ Len(VersionsIn(world, f.object)) <= Len(VersionsIn(later, f.object))
    BY <1>1, <2>1, SinceGrows DEF Holds
  <2>2. ASSUME Holds(world, f) PROVE Holds(later, f)
    <3>1. f.since <= Len(VersionsIn(later, f.object))
      BY <1>1, <2>1, <2>2, VersionsSeq DEF Holds
    <3>2. f.at = "list" => ListOK(later, f)
      BY <2>1, <2>2 DEF Holds, ListOK, Stood
    <3>3. f.at \in DictFrames => DictOK(later, f)
      BY <2>1, <2>2 DEF Holds, DictOK, WasEntry
    <3>. QED  BY <2>2, <3>1, <3>2, <3>3 DEF Holds
  <2>3. ASSUME Holds(world, f), NEW i, NEW o, Stood(world, f, i, o) PROVE Stood(later, f, i, o)
    BY <2>1, <2>3 DEF Stood
  <2>. QED  BY <2>2, <2>3 DEF Waits, Runs
<1>2. CASE f.at \notin CelFrames
  <2>1. Holds(world, f) => Holds(later, f)
    BY <1>2 DEF Holds, CelFrames
  <2>. QED  BY <1>2, <2>1 DEF Waits, Runs, CelFrames
<1>. QED  BY <1>1, <1>2

\* So does the stack.
LEMMA NestedGrows ==
  ASSUME NEW world, WorldOK(world), NEW later, WorldOK(later), Grows(world, later),
         NEW s, NEW p, Nested(world, s, p)
  PROVE  Nested(later, s, p)
BY FrameGrows DEF Nested

\* A call: its frame is put on top of one that waits for it.
LEMMA NestedPush ==
  ASSUME NEW world, NEW s, NEW p, Nested(world, s, p),
         NEW f, NEW q, Runs(world, f, q),
         s = <<>> => f.at \in Roots,
         s # <<>> => Waits(world, Last(s)) /\ Calls(Last(s), f)
  PROVE  Nested(world, Append(s, f), q)
<1>. DEFINE t == Append(s, f)
<1>1. /\ Len(s) \in Nat /\ (s = <<>> <=> Len(s) = 0) /\ IsSeq(t) /\ Len(t) = Len(s) + 1
      /\ \A k \in 1..Len(s) : t[k] = s[k]
      /\ t[Len(s) + 1] = f
  BY SeqPlaces, AppendSeq DEF Nested
<1>. HIDE DEF t
<1>2. q.do \notin Idle
  BY DEF Runs, Matches, Idle, CelItems, PythonItems
<1>3. t # <<>>
  BY <1>1, SeqPlaces
<1>4. ASSUME NEW k \in 1..Len(t)
      PROVE  /\ IF k = 1 THEN t[k].at \in Roots ELSE Calls(t[k - 1], t[k])
             /\ IF k = Len(t) THEN Runs(world, t[k], q) ELSE Waits(world, t[k])
  <2>1. CASE k = Len(s) + 1
    BY <1>1, <2>1 DEF Last
  <2>2. CASE k \in 1..Len(s)
    <3>1. t[k] = s[k] /\ k # Len(t) /\ (k # 1 => k - 1 \in 1..Len(s) /\ t[k - 1] = s[k - 1])
      BY <1>1, <2>2
    <3>2. IF k = 1 THEN s[k].at \in Roots ELSE Calls(s[k - 1], s[k])
      BY <2>2 DEF Nested
    <3>3. Waits(world, s[k])
      BY <1>1, <2>2 DEF Nested, Last
    <3>. QED  BY <3>1, <3>2, <3>3
  <2>. QED  BY <1>1, <2>1, <2>2
<1>. QED  BY <1>1, <1>2, <1>3, <1>4 DEF Nested, t

\* The innermost frame runs; below it is one that waits for it, or nothing.
LEMMA NestedTop ==
  ASSUME NEW world, NEW s, NEW p, Nested(world, s, p), s # <<>>
  PROVE  /\ Runs(world, Last(s), p)
         /\ Front(s) = <<>> <=> Last(s).at \in Roots
         /\ Front(s) # <<>> => Waits(world, Last(Front(s))) /\ Calls(Last(Front(s)), Last(s))
<1>1. /\ Len(s) \in Nat \ {0} /\ IsSeq(Front(s)) /\ Len(Front(s)) = Len(s) - 1
      /\ \A k \in 1..(Len(s) - 1) : Front(s)[k] = s[k]
  BY FrontSeq DEF Nested
<1>2. Front(s) = <<>> <=> Len(s) = 1
  BY <1>1, SeqPlaces
<1>3. \A f, g : Calls(f, g) => g.at \notin Roots
  BY DEF Calls, Roots, CelFrames, DictFrames, PythonFrames
<1>4. Runs(world, Last(s), p)
  BY <1>1 DEF Nested, Last
<1>5. Front(s) = <<>> <=> Last(s).at \in Roots
  BY <1>1, <1>2, <1>3 DEF Nested, Last
<1>6. ASSUME Front(s) # <<>>
      PROVE  Waits(world, Last(Front(s))) /\ Calls(Last(Front(s)), Last(s))
  <2>1. Len(s) - 1 \in 1..Len(s) /\ Len(s) - 1 # Len(s) /\ Len(s) # 1 /\ Len(s) \in 1..Len(s)
    BY <1>1, <1>2, <1>6
  <2>2. Last(Front(s)) = s[Len(s) - 1]
    BY <1>1, <2>1 DEF Last
  <2>. QED  BY <2>1, <2>2 DEF Nested, Last
<1>. QED  BY <1>4, <1>5, <1>6

\* A return: the innermost frame goes, and the one that waited runs.
LEMMA NestedPop ==
  ASSUME NEW world, NEW s, NEW p, Nested(world, s, p), s # <<>>,
         NEW q,
         Front(s) = <<>> <=> q.do \in Idle,
         Front(s) # <<>> => Runs(world, Last(Front(s)), q)
  PROVE  Nested(world, Front(s), q)
<1>. DEFINE t == Front(s)
<1>1. /\ Len(s) \in Nat \ {0} /\ IsSeq(t) /\ Len(t) = Len(s) - 1
      /\ \A k \in 1..(Len(s) - 1) : t[k] = s[k]
  BY FrontSeq DEF Nested
<1>2. Len(t) # 0 => Runs(world, t[Len(t)], q)
  BY <1>1, SeqPlaces DEF Last
<1>. HIDE DEF t
<1>3. ASSUME NEW k \in 1..Len(t)
      PROVE  /\ IF k = 1 THEN t[k].at \in Roots ELSE Calls(t[k - 1], t[k])
             /\ IF k = Len(t) THEN Runs(world, t[k], q) ELSE Waits(world, t[k])
  <2>1. /\ t[k] = s[k] /\ k \in 1..Len(s) /\ k # Len(s)
        /\ k # 1 => t[k - 1] = s[k - 1]
    BY <1>1
  <2>2. IF k = 1 THEN s[k].at \in Roots ELSE Calls(s[k - 1], s[k])
    BY <2>1 DEF Nested
  <2>3. Waits(world, s[k])
    BY <2>1 DEF Nested
  <2>. QED  BY <1>1, <1>2, <2>1, <2>2, <2>3
<1>. QED  BY <1>1, <1>3 DEF Nested, t

\* The innermost frame goes on, as a frame of its sort.
LEMMA NestedSet ==
  ASSUME NEW world, NEW s, NEW p, Nested(world, s, p), s # <<>>,
         NEW f, NEW q, Runs(world, f, q),
         \/ Last(s).at \in Roots /\ f.at \in Roots
         \/ Last(s).at \in CelFrames /\ f.at \in CelFrames
         \/ Last(s).at \in PythonFrames /\ f.at \in PythonFrames
  PROVE  Nested(world, Append(Front(s), f), q)
<1>. DEFINE t == Append(Front(s), f)
<1>1. /\ Len(s) \in Nat \ {0} /\ IsSeq(Front(s)) /\ Len(Front(s)) = Len(s) - 1
      /\ \A k \in 1..(Len(s) - 1) : Front(s)[k] = s[k]
  BY FrontSeq DEF Nested
<1>2. /\ IsSeq(t) /\ Len(t) = Len(s) /\ t[Len(s)] = f
      /\ \A k \in 1..(Len(s) - 1) : t[k] = s[k]
  BY <1>1, AppendSeq
<1>. HIDE DEF t
<1>3. q.do \notin Idle /\ t # <<>>
  BY <1>1, <1>2, SeqPlaces DEF Runs, Matches, Idle, CelItems, PythonItems
<1>4. IF Len(s) = 1 THEN Last(s).at \in Roots ELSE Calls(s[Len(s) - 1], Last(s))
  BY <1>1 DEF Nested, Last
<1>5. IF Len(s) = 1 THEN f.at \in Roots ELSE Calls(s[Len(s) - 1], f)
  BY <1>4 DEF Calls, Roots, CelFrames, DictFrames, PythonFrames
<1>6. ASSUME NEW k \in 1..Len(t)
      PROVE  /\ IF k = 1 THEN t[k].at \in Roots ELSE Calls(t[k - 1], t[k])
             /\ IF k = Len(t) THEN Runs(world, t[k], q) ELSE Waits(world, t[k])
  <2>1. CASE k = Len(s)
    <3>1. k # 1 => k - 1 \in 1..(Len(s) - 1)
      BY <1>1, <2>1
    <3>2. k # 1 => t[k - 1] = s[k - 1]
      BY <1>2, <3>1
    <3>. QED  BY <1>2, <1>5, <2>1, <3>2
  <2>2. CASE k # Len(s)
    <3>1. /\ t[k] = s[k] /\ k \in 1..Len(s)
          /\ k # 1 => t[k - 1] = s[k - 1]
      BY <1>1, <1>2, <2>2
    <3>2. IF k = 1 THEN s[k].at \in Roots ELSE Calls(s[k - 1], s[k])
      BY <3>1 DEF Nested
    <3>3. Waits(world, s[k])
      BY <2>2, <3>1 DEF Nested
    <3>. QED  BY <1>2, <2>2, <3>1, <3>2, <3>3
  <2>. QED  BY <2>1, <2>2
<1>. QED  BY <1>2, <1>3, <1>6 DEF Nested, t

\* The stack stays and the innermost frame has another step.
LEMMA NestedKeep ==
  ASSUME NEW world, NEW s, NEW p, Nested(world, s, p), s # <<>>,
         NEW q, Runs(world, Last(s), q)
  PROVE  Nested(world, s, q)
<1>1. q.do \notin Idle
  BY DEF Runs, Matches, Idle, CelItems, PythonItems
<1>. QED  BY <1>1, SeqPlaces DEF Nested, Last

\* A frame that has done nothing yet holds.
LEMMA FreshHolds ==
  ASSUME NEW world, WorldOK(world), NEW f, DOMAIN f = Fields,
         f.at \in Roots \cup {"list", "map", "python"}, f.pos = 0, f.done = <<>>, f.from = <<>>,
         f.since = Len(VersionsIn(world, f.object))
  PROVE  Holds(world, f)
<1>1. f.since \in Nat \ {0}
  BY VersionsSeq
<1>2. <<>> \in Seq({}) /\ Len(<<>>) = 0
  OBVIOUS
<1>3. IsSeq(f.done) /\ IsSeq(f.from) /\ Len(f.done) = 0 /\ Len(f.from) = 0
  BY <1>2 DEF IsSeq
<1>4. ListOK(world, f)
  BY <1>3 DEF ListOK
<1>5. f.at \notin {"key", "value"}
  BY DEF Roots
<1>6. DictOK(world, f)
  BY <1>3, <1>5 DEF DictOK
<1>. QED  BY <1>1, <1>4, <1>6 DEF Holds, CelFrames, DictFrames, PythonFrames

\* So does what Frame makes of an object.
LEMMA FrameHolds ==
  ASSUME WorldOK(contents), NEW at \in Roots \cup {"list", "map", "python"},
         NEW o, NEW f, DOMAIN f = Fields, f.at = at, f.object = o, f.pos = 0, f.done = <<>>,
         f.from = <<>>, f.since = Len(Versions(o))
  PROVE  Holds(contents, f)
<1>1. Versions(o) = VersionsIn(contents, o)
  BY DEF Versions, VersionsIn
<1>. QED  BY <1>1, FreshHolds

\* The innermost frame, while anything is on the stack.
LEMMA TopRuns ==
  ASSUME NestedInv, step.do \notin Idle
  PROVE  stack # <<>> /\ Runs(contents, Top, step) /\ Holds(contents, Top) /\ DOMAIN Top = Fields
BY NestedTop DEF NestedInv, Nested, Top, Runs, Holds

\* A conversion to CEL goes on or gives a value; one of nothing gives an error.
LEMMA CelGoesOn ==
  ASSUME NestedInv, step.do \in {"toCel", "released"}, UNCHANGED stack,
         step'.do \in {"toCel", "released", "cel"}, Missing(step) => Missing(step')
  PROVE  Nested(contents, stack', step')
<1>1. stack # <<>> /\ Runs(contents, Top, step)
  BY TopRuns DEF Idle
<1>2. Runs(contents, Top, step')
  BY <1>1 DEF Runs, Matches, CelItems, PythonItems
<1>. QED  BY <1>1, <1>2, NestedKeep DEF NestedInv, Top

\* A frame of a list or dict returns to one that waits for a CEL value.
LEMMA CelReturns ==
  ASSUME NestedInv, stack # <<>>, Top.at \in CelFrames, stack' = Front(stack), step'.do = "cel"
  PROVE  Nested(contents, stack', step')
<1>1. Front(stack) # <<>>
  BY NestedTop DEF NestedInv, Top, Roots, CelFrames, DictFrames
<1>2. Waits(contents, Last(Front(stack))) /\ Calls(Last(Front(stack)), Top)
  BY <1>1, NestedTop DEF NestedInv, Top
<1>3. Runs(contents, Last(Front(stack)), step')
  BY <1>2 DEF Waits, Runs, Matches, Calls, CelFrames, DictFrames, PythonFrames, CelItems
<1>. QED  BY <1>1, <1>3, NestedPop DEF NestedInv, Idle

\* A frame of a value returns to one that waits for an object.
LEMMA PythonReturns ==
  ASSUME NestedInv, stack # <<>>, Top.at \in PythonFrames, stack' = Front(stack),
         step'.do = "object"
  PROVE  Nested(contents, stack', step')
<1>1. Front(stack) # <<>>
  BY NestedTop DEF NestedInv, Top, Roots, PythonFrames
<1>2. Waits(contents, Last(Front(stack))) /\ Calls(Last(Front(stack)), Top)
  BY <1>1, NestedTop DEF NestedInv, Top
<1>3. Runs(contents, Last(Front(stack)), step')
  BY <1>2 DEF Waits, Runs, Matches, Calls, CelFrames, DictFrames, PythonFrames, AwaitPython
<1>. QED  BY <1>1, <1>3, NestedPop DEF NestedInv, Idle

\* A callback or an access ends.
LEMMA RootReturns ==
  ASSUME NestedInv, stack # <<>>, Top.at \in Roots, stack' = Front(stack), step'.do \in Idle
  PROVE  Nested(contents, stack', step')
BY NestedTop, NestedPop DEF NestedInv, Top

\* A conversion calls another one, or the evaluation does.
LEMMA FrameCalled ==
  ASSUME NestedInv, NEW f, stack' = Append(stack, f), Runs(contents, f, step'),
         \/ step.do \in Idle /\ f.at \in Roots
         \/ step.do = "toCel" /\ step.object # nullptr /\ f.at \in CelFrames
         \/ step.do = "toPython" /\ f.at \in PythonFrames
  PROVE  Nested(contents, stack', step')
<1>1. CASE step.do \in Idle
  <2>1. stack = <<>>
    BY <1>1 DEF NestedInv, Nested
  <2>. QED  BY <1>1, <2>1, NestedPush DEF NestedInv, Idle
<1>2. CASE step.do \notin Idle
  <2>1. stack # <<>> /\ Runs(contents, Top, step)
    BY <1>2, TopRuns
  <2>2. Waits(contents, Top) /\ Calls(Top, f)
    BY <1>2, <2>1
    DEF Runs, Waits, Matches, Missing, Calls, AwaitPython, CelItems, PythonItems, Idle
  <2>. QED  BY <2>1, <2>2, NestedPush DEF NestedInv, Top
<1>. QED  BY <1>1, <1>2

\* A frame goes on with its next step.
LEMMA FrameGoesOn ==
  ASSUME NestedInv, stack # <<>>, NEW f, stack' = Append(Front(stack), f),
         Runs(contents, f, step'),
         \/ Top.at \in Roots /\ f.at \in Roots
         \/ Top.at \in CelFrames /\ f.at \in CelFrames
         \/ Top.at \in PythonFrames /\ f.at \in PythonFrames
  PROVE  Nested(contents, stack', step')
BY NestedSet DEF NestedInv, Top

\* The steps of PyObjectToCelValue that are about no items.
LEMMA LeafNested ==
  ASSUME NestedInv,
         \/ ConvertNothing \/ ConvertDyn \/ ConvertNull \/ ConvertBool \/ ConvertNumber
         \/ ConvertString \/ ConvertBytes \/ ConvertTime \/ ConvertMessage \/ LookupRaises
         \/ FinishMessage \/ ConvertOther
  PROVE  Nested(contents, stack', step')
<1>. DEFINE Goes == /\ UNCHANGED stack
                    /\ step'.do \in {"toCel", "released", "cel"}
            Converted == step.do = "toCel" /\ step.object # nullptr
<1>1. ASSUME NEW v, Give(v) PROVE Goes
  BY <1>1 DEF Give, Goto, CelResult
<1>2. ASSUME NEW d, Make(d) \/ InvalidType PROVE Goes
  BY <1>1, <1>2 DEF Make, InvalidType
<1>3. ASSUME NEW kinds, Converts(kinds) PROVE Converted
  BY <1>3 DEF Converts
<1>4. ASSUME Converted \/ step.do = "released", Goes
      PROVE  Nested(contents, stack', step')
  BY <1>4, CelGoesOn DEF Missing
<1>5. CASE ConvertNothing
  <2>1. /\ step.do = "toCel" /\ UNCHANGED stack
        /\ step' = CelResult(ErrorValue(Fault("missing", nullptr)), step.object)
    BY <1>5 DEF ConvertNothing, Give, Goto
  <2>2. Failed(ErrorValue(Fault("missing", nullptr)))
    BY OwnFaults
  <2>. QED  BY <2>1, <2>2, CelGoesOn DEF Missing, CelResult
<1>6. CASE ConvertDyn
  <2>1. Converted
    BY <1>3, <1>6 DEF ConvertDyn
  <2>2. Goes
    BY <1>1, <1>6 DEF ConvertDyn, Goto, ToCel
  <2>. QED  BY <1>4, <2>1, <2>2
<1>7. CASE ConvertNull \/ ConvertBool \/ ConvertString \/ ConvertBytes
  <2>1. Converted
    BY <1>3, <1>7 DEF ConvertNull, ConvertBool, ConvertString, ConvertBytes
  <2>2. Goes
    BY <1>2, <1>7 DEF ConvertNull, ConvertBool, ConvertString, ConvertBytes
  <2>. QED  BY <1>4, <2>1, <2>2
<1>8. CASE ConvertNumber \/ ConvertTime
  <2>1. Converted
    BY <1>3, <1>8 DEF ConvertNumber, ConvertTime
  <2>2. InvalidType \/ \E v : Make(v) \/ Give(v)
    BY <1>8 DEF ConvertNumber, ConvertTime
  <2>. QED  BY <1>1, <1>2, <1>4, <2>1, <2>2
<1>9. CASE ConvertMessage
  <2>1. Converted
    BY <1>3, <1>9 DEF ConvertMessage
  <2>2. InvalidType \/ Goto(Released(step.object)) \/ \E v : Give(v)
    BY <1>9 DEF ConvertMessage
  <2>3. CASE Goto(Released(step.object))
    BY <1>4, <2>1, <2>3 DEF Goto, Released
  <2>. QED  BY <1>1, <1>2, <1>4, <2>1, <2>2, <2>3
<1>10. CASE LookupRaises
  BY <1>10, <1>4 DEF LookupRaises
<1>11. CASE FinishMessage
  BY <1>11, <1>1, <1>4 DEF FinishMessage
<1>12. CASE ConvertOther
  BY <1>12, <1>1, <1>3, <1>4 DEF ConvertOther
<1>. QED  BY <1>5, <1>6, <1>7, <1>8, <1>9, <1>10, <1>11, <1>12

\* A list or a dict begins to be converted, or a message in its place.
LEMMA BeginNested ==
  ASSUME NestedInv, BeginList \/ BeginMap
  PROVE  Nested(contents, stack', step')
<1>1. step.do = "toCel" /\ step.object # nullptr
  BY DEF BeginList, BeginMap, Converts
<1>2. ASSUME NEW name, ConvertMessageAs(name) PROVE Nested(contents, stack', step')
  <2>1. \/ \E v : Give(v)
        \/ Goto(ToCel(step.object, ForPyObject(step.object).type, TRUE))
    BY <1>2 DEF ConvertMessageAs, InvalidType
  <2>2. UNCHANGED stack /\ step'.do \in {"toCel", "cel"}
    BY <2>1 DEF Give, Goto, ToCel, CelResult
  <2>. QED  BY <1>1, <2>2, CelGoesOn DEF Missing
<1>3. ASSUME NEW at \in {"list", "map"}, NEW n, NEW f,
             \/ f = Frame(at, step.object, step.type, NoValue)
             \/ f = [Frame(at, step.object, step.type, NoValue) EXCEPT !.size = n],
             Call(f, CelItems)
      PROVE  Nested(contents, stack', step')
  <2>1. WorldOK(contents) /\ at \in Roots \cup {"list", "map", "python"}
    BY DEF NestedInv
  <2>. DEFINE o == step.object
  <2>2. /\ DOMAIN f = Fields /\ f.at = at /\ f.object = o /\ f.pos = 0 /\ f.done = <<>>
        /\ f.from = <<>> /\ f.since = Len(Versions(o))
    BY <1>3 DEF Frame, Fields
  <2>. HIDE DEF o
  <2>3. Holds(contents, f)
    BY <2>1, <2>2, FrameHolds
  <2>4. Runs(contents, f, CelItems)
    BY <2>2, <2>3 DEF Runs, Matches, ListOK
  <2>5. stack' = Append(stack, f) /\ step' = CelItems
    BY <1>3 DEF Call
  <2>6. f.at \in CelFrames
    BY <2>2 DEF CelFrames, DictFrames
  <2>. QED  BY <1>1, <2>4, <2>5, <2>6, FrameCalled
<1>4. CASE BeginList
  BY <1>2, <1>3, <1>4 DEF BeginList
<1>5. CASE BeginMap
  BY <1>2, <1>3, <1>5 DEF BeginMap
<1>. QED  BY <1>4, <1>5

\* The newest version of a container is one since its conversion began.
LEMMA NowIsSince ==
  ASSUME NestedInv, NEW f, Holds(contents, f), f.at \in CelFrames
  PROVE  Items(f.object) \in Since(contents, f)
<1>1. Versions(f.object) = VersionsIn(contents, f.object)
  BY DEF Versions, VersionsIn
<1>2. /\ f.since \in Nat \ {0} /\ f.since <= Len(VersionsIn(contents, f.object))
      /\ Len(VersionsIn(contents, f.object)) \in Nat \ {0}
  BY VersionsSeq DEF Holds, NestedInv
<1>. QED  BY <1>1, <1>2 DEF Since, Items, Last

\* A list takes its next item, or is complete.
LEMMA NextItemNested == NestedInv /\ NextItem => Nested(contents, stack', step')
<1>. SUFFICES ASSUME NestedInv, NextItem PROVE Nested(contents, stack', step')
  OBVIOUS
<1>1. /\ step.do = "celItems" /\ stack # <<>> /\ Top.at = "list" /\ DOMAIN Top = Fields
      /\ Runs(contents, Top, step) /\ Holds(contents, Top)
  BY TopRuns DEF NextItem, In, Idle
<1>2. ListOK(contents, Top) /\ Top.pos = Len(Top.done) /\ Len(Top.done) \in Nat
  BY <1>1, SeqPlaces DEF Runs, Holds, ListOK, Matches, CelItems
<1>. DEFINE i == Top.pos + 1
            items == Items(Top.object)
            Takes(e, o) == \E t : Again([Top EXCEPT !.pos = i, !.entry = e], ToCel(o, t, FALSE))
<1>3. ASSUME NEW e, NEW o, Takes(e, o), Stood(contents, Top, i, e.value) \/ o = nullptr
      PROVE  Nested(contents, stack', step')
  <2>. PICK t : Again([Top EXCEPT !.pos = i, !.entry = e], ToCel(o, t, FALSE))
    BY <1>3
  <2>. DEFINE f == [Top EXCEPT !.pos = i, !.entry = e]
  <2>1. /\ DOMAIN f = Fields /\ f.at = "list" /\ f.pos = i /\ f.entry = e /\ f.done = Top.done
        /\ f.from = Top.from /\ f.object = Top.object /\ f.since = Top.since
    BY <1>1 DEF Fields
  <2>2. stack' = Append(Front(stack), f) /\ step' = ToCel(o, t, FALSE)
    BY DEF Again
  <2>. HIDE DEF f
  <2>3. Since(contents, f) = Since(contents, Top)
    BY <2>1 DEF Since
  <2>4. Holds(contents, f)
    BY <1>1, <1>2, <1>3, <2>1, <2>3
    DEF Holds, ListOK, Stood, CelFrames, DictFrames, PythonFrames
  <2>5. Runs(contents, f, ToCel(o, t, FALSE))
    BY <1>2, <1>3, <2>1, <2>3, <2>4
    DEF Runs, Matches, AwaitCel, Stood, Missing, ToCel, CelItems
  <2>. QED  BY <1>1, <2>1, <2>2, <2>5, FrameGoesOn DEF CelFrames
<1>4. ASSUME NEW v, NEW o, Return(CelResult(v, o)) PROVE Nested(contents, stack', step')
  BY <1>1, <1>4, CelReturns DEF Return, CelResult, CelFrames
<1>5. i \in DOMAIN items => Stood(contents, Top, i, Pair(nullptr, items[i]).value)
  BY <1>1, NowIsSince DEF Stood, CelFrames, Pair
<1>6. \/ \E v, o : Return(CelResult(v, o))
      \/ i \in DOMAIN items /\ Takes(Pair(nullptr, items[i]), items[i])
      \/ Takes(Removed, nullptr)
  BY DEF NextItem
<1>. HIDE DEF items, i, Takes
<1>. QED  BY <1>3, <1>4, <1>5, <1>6

\* An item is added, and stood at the place where it is in the value.
LEMMA AddItemNested == NestedInv /\ AddItem => Nested(contents, stack', step')
<1>. SUFFICES ASSUME NestedInv, AddItem PROVE Nested(contents, stack', step')
  OBVIOUS
<1>1. /\ step.do = "cel" /\ stack # <<>> /\ Top.at = "list" /\ DOMAIN Top = Fields
      /\ Runs(contents, Top, step) /\ Holds(contents, Top)
  BY TopRuns DEF AddItem, In, Idle
<1>2. CASE Refuse
  BY <1>1, <1>2, CelReturns DEF Refuse, Return, CelResult, CelFrames
<1>3. CASE ~Failed(step.value)
           /\ Again([Top EXCEPT !.done = Append(@, step.value),
                                !.from = Append(@, Top.entry.value)], CelItems)
  <2>. DEFINE f == [Top EXCEPT !.done = Append(@, step.value),
                               !.from = Append(@, Top.entry.value)]
  <2>1. /\ DOMAIN f = Fields /\ f.at = "list" /\ f.pos = Top.pos
        /\ f.done = Append(Top.done, step.value)
        /\ f.from = Append(Top.from, Top.entry.value)
        /\ f.object = Top.object /\ f.since = Top.since
    BY <1>1 DEF Fields
  <2>2. stack' = Append(Front(stack), f) /\ step' = CelItems
    BY <1>3 DEF Again
  <2>. HIDE DEF f
  <2>3. Since(contents, f) = Since(contents, Top)
    BY <2>1 DEF Since
  <2>4. /\ ListOK(contents, Top) /\ Top.pos = Len(Top.done) + 1
        /\ Stood(contents, Top, Top.pos, Top.entry.value)
    BY <1>1, <1>3 DEF Runs, Holds, Missing, CelItems
  <2>5. /\ IsSeq(f.done) /\ IsSeq(f.from) /\ Len(Top.done) \in Nat
        /\ Len(f.done) = Len(Top.done) + 1 /\ Len(f.from) = Len(f.done)
        /\ f.done[Len(f.done)] = step.value /\ f.from[Len(f.done)] = Top.entry.value
        /\ \A k \in 1..Len(Top.done) : f.done[k] = Top.done[k] /\ f.from[k] = Top.from[k]
    BY <2>1, <2>4, AppendSeq, SeqPlaces DEF ListOK
  <2>6. ASSUME NEW k \in 1..Len(f.done)
        PROVE  ~Failed(f.done[k]) /\ Stood(contents, f, k, f.from[k])
    <3>1. CASE k = Len(f.done)
      BY <1>3, <2>3, <2>4, <2>5, <3>1 DEF Stood
    <3>2. CASE k \in 1..Len(Top.done)
      BY <2>3, <2>4, <2>5, <3>2 DEF ListOK, Stood
    <3>. QED  BY <2>5, <3>1, <3>2
  <2>7. Holds(contents, f)
    BY <1>1, <2>1, <2>4, <2>5, <2>6
    DEF Holds, ListOK, CelFrames, DictFrames, PythonFrames
  <2>8. Runs(contents, f, CelItems)
    BY <2>1, <2>4, <2>5, <2>7 DEF Runs, Matches
  <2>. QED  BY <1>1, <2>1, <2>2, <2>8, FrameGoesOn DEF CelFrames
<1>. QED  BY <1>2, <1>3 DEF AddItem


\* A frame of a dict is at another place of it, or waits for a key or a value.
LEMMA DictGoesOn ==
  ASSUME NestedInv, stack # <<>>, Top.at \in DictFrames, DOMAIN Top = Fields,
         NEW f, NEW q, stack' = Append(Front(stack), f), step' = q,
         DOMAIN f = Fields, f.object = Top.object, f.since = Top.since,
         DictOK(contents, f), f.at \in DictFrames,
         \/ q.do = "toCel" /\ f.at \in {"key", "value"}
         \/ q = CelItems /\ f.at = "map"
  PROVE  Nested(contents, stack', step')
<1>1. Holds(contents, Top)
  BY NestedTop DEF NestedInv, Top, Runs
<1>2. Holds(contents, f)
  BY <1>1 DEF Holds, CelFrames, DictFrames, PythonFrames
<1>3. Runs(contents, f, q)
  BY <1>2 DEF Runs, Matches, AwaitCel, DictFrames
<1>. QED  BY <1>3, FrameGoesOn DEF CelFrames

\* A dict takes its next entry, or is complete.
LEMMA NextEntryNested == NestedInv /\ NextEntry => Nested(contents, stack', step')
<1>. SUFFICES ASSUME NestedInv, NextEntry PROVE Nested(contents, stack', step')
  OBVIOUS
<1>1. /\ step.do = "celItems" /\ stack # <<>> /\ Top.at = "map" /\ DOMAIN Top = Fields
      /\ Holds(contents, Top) /\ DictOK(contents, Top)
  BY TopRuns DEF NextEntry, In, Idle, Holds, DictFrames
<1>2. ASSUME NEW v, NEW o, Return(CelResult(v, o)) PROVE Nested(contents, stack', step')
  BY <1>1, <1>2, CelReturns DEF Return, CelResult, CelFrames, DictFrames
<1>3. ASSUME NEW i \in DOMAIN Items(Top.object), NEW o, NEW t,
             Again([Top EXCEPT !.at = "key", !.pos = i, !.entry = Items(Top.object)[i]],
                   ToCel(o, t, FALSE))
      PROVE  Nested(contents, stack', step')
  <2>. DEFINE slots == Items(Top.object)
              f == [Top EXCEPT !.at = "key", !.pos = i, !.entry = slots[i]]
              q == ToCel(o, t, FALSE)
  <2>1. /\ DOMAIN f = Fields /\ f.at = "key" /\ f.pos = i /\ f.entry = slots[i]
        /\ f.done = Top.done /\ f.from = Top.from /\ f.object = Top.object /\ f.since = Top.since
    BY <1>1 DEF Fields
  <2>2. stack' = Append(Front(stack), f) /\ step' = q
    BY <1>3 DEF Again
  <2>3. q.do = "toCel"
    BY DEF ToCel
  <2>4. slots \in Since(contents, Top)
    BY <1>1, NowIsSince DEF CelFrames, DictFrames
  <2>. HIDE DEF f, q, slots
  <2>5. Since(contents, f) = Since(contents, Top)
    BY <2>1 DEF Since
  <2>6. i \in DOMAIN slots
    BY DEF slots
  <2>7. DictOK(contents, f)
    BY <1>1, <2>1, <2>4, <2>5, <2>6 DEF DictOK, WasEntry
  <2>8. f.at \in DictFrames /\ Top.at \in DictFrames
    BY <1>1, <2>1 DEF DictFrames
  <2>. QED  BY <1>1, <2>1, <2>2, <2>3, <2>7, <2>8, DictGoesOn
<1>4. \/ \E v, o : Return(CelResult(v, o))
      \/ \E i \in DOMAIN Items(Top.object) : \E o, t :
           Again([Top EXCEPT !.at = "key", !.pos = i, !.entry = Items(Top.object)[i]],
                 ToCel(o, t, FALSE))
  BY DEF NextEntry
<1>. QED  BY <1>2, <1>3, <1>4

\* The value of the entry is next, of which the key is.
LEMMA ConvertEntryValueNested ==
  NestedInv /\ ConvertEntryValue => Nested(contents, stack', step')
<1>. SUFFICES ASSUME NestedInv, ConvertEntryValue PROVE Nested(contents, stack', step')
  OBVIOUS
<1>1. /\ step.do = "cel" /\ stack # <<>> /\ Top.at = "key" /\ DOMAIN Top = Fields
      /\ DictOK(contents, Top)
  BY TopRuns DEF ConvertEntryValue, In, Idle, Holds, DictFrames
<1>2. CASE Refuse
  BY <1>1, <1>2, CelReturns DEF Refuse, Return, CelResult, CelFrames, DictFrames
<1>3. CASE ~Refuse
  <2>. DEFINE f == [Top EXCEPT !.at = "value", !.key = step.value]
              q == ToCel(Top.entry.value, Top.type.params[2], FALSE)
  <2>1. /\ DOMAIN f = Fields /\ f.at = "value" /\ f.pos = Top.pos /\ f.entry = Top.entry
        /\ f.done = Top.done /\ f.from = Top.from /\ f.object = Top.object /\ f.since = Top.since
    BY <1>1 DEF Fields
  <2>2. stack' = Append(Front(stack), f) /\ step' = q
    BY <1>3 DEF ConvertEntryValue, Again
  <2>3. q.do = "toCel"
    BY DEF ToCel
  <2>. HIDE DEF f, q
  <2>4. Since(contents, f) = Since(contents, Top)
    BY <2>1 DEF Since
  <2>5. DictOK(contents, f)
    BY <1>1, <2>1, <2>4 DEF DictOK, WasEntry
  <2>6. f.at \in DictFrames /\ Top.at \in DictFrames
    BY <1>1, <2>1 DEF DictFrames
  <2>. QED  BY <1>1, <2>1, <2>2, <2>3, <2>5, <2>6, DictGoesOn
<1>. QED  BY <1>2, <1>3

\* An entry is put into the map: neither part of it is a failure and the key is
\* new.
LEMMA PutEntryNested == NestedInv /\ PutEntry => Nested(contents, stack', step')
<1>. SUFFICES ASSUME NestedInv, PutEntry PROVE Nested(contents, stack', step')
  OBVIOUS
<1>1. /\ step.do = "cel" /\ stack # <<>> /\ Top.at = "value" /\ DOMAIN Top = Fields
      /\ DictOK(contents, Top)
  BY TopRuns DEF PutEntry, In, Idle, Holds, DictFrames
<1>2. ASSUME NEW v, NEW o, Return(CelResult(v, o)) PROVE Nested(contents, stack', step')
  BY <1>1, <1>2, CelReturns DEF Return, CelResult, CelFrames, DictFrames
<1>. DEFINE f == [Top EXCEPT !.at = "map", !.done = Append(@, Pair(Top.key, step.value)),
                             !.from = Append(@, Top.entry)]
<1>3. CASE /\ Again(f, CelItems) /\ ~Failed(Top.key) /\ ~Failed(step.value)
           /\ \A i \in DOMAIN Top.done : Top.done[i].key # Top.key
  <2>. DEFINE new == Pair(Top.key, step.value)
  <2>1. /\ DOMAIN f = Fields /\ f.at = "map" /\ f.pos = Top.pos
        /\ f.done = Append(Top.done, new) /\ f.from = Append(Top.from, Top.entry)
        /\ f.object = Top.object /\ f.since = Top.since
    BY <1>1 DEF Fields
  <2>2. stack' = Append(Front(stack), f) /\ step' = CelItems
    BY <1>3 DEF Again
  <2>3. /\ new.key = Top.key /\ new.value = step.value
        /\ ~Failed(Top.key) /\ ~Failed(step.value)
        /\ \A i \in DOMAIN Top.done : Top.done[i].key # Top.key
    BY <1>3 DEF Pair
  <2>. HIDE DEF f, new
  <2>4. Since(contents, f) = Since(contents, Top)
    BY <2>1 DEF Since
  <2>5. WasEntry(contents, Top, Top.entry)
    BY <1>1 DEF DictOK
  <2>6. /\ IsSeq(f.done) /\ IsSeq(f.from) /\ Len(Top.done) \in Nat
        /\ Len(f.done) = Len(Top.done) + 1 /\ Len(f.from) = Len(f.done)
        /\ f.done[Len(f.done)] = new /\ f.from[Len(f.done)] = Top.entry
        /\ \A k \in 1..Len(Top.done) : f.done[k] = Top.done[k] /\ f.from[k] = Top.from[k]
        /\ DOMAIN Top.done = 1..Len(Top.done)
    BY <1>1, <2>1, AppendSeq, SeqPlaces DEF DictOK
  <2>7. ASSUME NEW k \in 1..Len(f.done)
        PROVE  /\ ~Failed(f.done[k].key) /\ ~Failed(f.done[k].value)
               /\ \E slots \in Since(contents, f) : \E j \in DOMAIN slots : slots[j] = f.from[k]
               /\ \A j \in 1..Len(f.done) : f.done[j].key = f.done[k].key => j = k
    <3>1. CASE k = Len(f.done)
      <4>1. f.done[k] = new /\ f.from[k] = Top.entry
        BY <2>6, <3>1
      <4>2. \A j \in 1..Len(f.done) : j # k => f.done[j].key # Top.key
        <5>1. ASSUME NEW j \in 1..Len(f.done), j # k PROVE j \in 1..Len(Top.done)
          BY <2>6, <3>1, <5>1
        <5>2. ASSUME NEW j \in 1..Len(Top.done) PROVE f.done[j].key # Top.key
          BY <2>3, <2>6
        <5>. QED  BY <5>1, <5>2
      <4>3. \A j \in 1..Len(f.done) : f.done[j].key = f.done[k].key => j = k
        BY <2>3, <4>1, <4>2
      <4>4. \E slots \in Since(contents, f) : \E j \in DOMAIN slots : slots[j] = f.from[k]
        BY <2>4, <2>5, <4>1 DEF WasEntry
      <4>. QED  BY <2>3, <4>1, <4>3, <4>4
    <3>2. CASE k \in 1..Len(Top.done)
      <4>1. f.done[k] = Top.done[k] /\ f.from[k] = Top.from[k]
        BY <2>6, <3>2
      <4>2. \A j \in 1..Len(f.done) : f.done[j].key = f.done[k].key => j = k
        <5>1. ASSUME NEW j \in 1..Len(f.done), f.done[j].key = f.done[k].key PROVE j = k
          <6>1. j \in 1..Len(Top.done)
            BY <2>3, <2>6, <3>2, <4>1, <5>1
          <6>. QED  BY <1>1, <2>6, <3>2, <4>1, <5>1, <6>1 DEF DictOK
        <5>. QED  BY <5>1
      <4>. QED  BY <1>1, <2>4, <3>2, <4>1, <4>2 DEF DictOK
    <3>. QED  BY <2>6, <3>1, <3>2
  <2>8. DictOK(contents, f)
    BY <1>1, <2>1, <2>4, <2>6, <2>7 DEF DictOK
  <2>9. f.at \in DictFrames /\ Top.at \in DictFrames
    BY <1>1, <2>1 DEF DictFrames
  <2>. QED  BY <1>1, <2>1, <2>2, <2>8, <2>9, DictGoesOn
<1>4. \/ \E v, o : Return(CelResult(v, o))
      \/ /\ Again(f, CelItems) /\ ~Failed(Top.key) /\ ~Failed(step.value)
         /\ \A i \in DOMAIN Top.done : Top.done[i].key # Top.key
  <2>. DEFINE badKey == Failed(Top.key) \/ Top.key.kind \notin {"bool", "int", "uint", "string"}
              isThere == \E i \in DOMAIN Top.done : Top.done[i].key = Top.key
              refused == step.value.kind = "status" \/ (~badKey /\ Failed(step.value))
              fails == step.value.kind # "status" /\ (badKey \/ (~Failed(step.value) /\ isThere))
  <2>1. CASE refused
    BY <2>1 DEF PutEntry, Refuse
  <2>2. CASE ~refused /\ fails
    BY <2>2 DEF PutEntry
  <2>3. CASE ~refused /\ ~fails
    <3>1. Again(f, CelItems)
      BY <2>3 DEF PutEntry
    <3>. QED  BY <2>3, <3>1
  <2>. QED  BY <2>1, <2>2, <2>3
<1>. QED  BY <1>2, <1>3, <1>4


\* A frame of a callback or of a value that is made a Python object has nothing
\* to say of containers.
LEMMA OtherGoesOn ==
  ASSUME NestedInv, stack # <<>>, NEW f, NEW q, stack' = Append(Front(stack), f), step' = q,
         DOMAIN f = Fields, Matches(f.at, q),
         \/ Top.at \in Roots /\ f.at \in Roots
         \/ Top.at \in PythonFrames /\ f.at \in PythonFrames /\ f.pos \in Nat
  PROVE  Nested(contents, stack', step')
<1>1. /\ f.at \in Roots \cup PythonFrames /\ f.at \notin CelFrames
      /\ f.at \in PythonFrames => f.pos \in Nat
  BY DEF Roots, PythonFrames, CelFrames, DictFrames
<1>2. Holds(contents, f)
  BY <1>1 DEF Holds, CelFrames
<1>3. Runs(contents, f, q)
  BY <1>1, <1>2 DEF Runs, CelFrames
<1>. QED  BY <1>3, FrameGoesOn

\* A new frame of a callback or of a value.
LEMMA OtherCalled ==
  ASSUME NestedInv, NEW at, NEW o, NEW t, NEW v, NEW q, Call(Frame(at, o, t, v), q),
         Matches(at, q),
         \/ step.do \in Idle /\ at \in Roots
         \/ step.do = "toPython" /\ at = "python"
  PROVE  Nested(contents, stack', step')
<1>. DEFINE f == Frame(at, o, t, v)
<1>1. /\ DOMAIN f = Fields /\ f.at = at /\ f.object = o /\ f.pos = 0 /\ f.done = <<>>
      /\ f.from = <<>> /\ f.since = Len(Versions(o))
  BY DEF Frame, Fields
<1>2. stack' = Append(stack, f) /\ step' = q
  BY DEF Call
<1>. HIDE DEF f
<1>3. WorldOK(contents) /\ at \in Roots \cup {"list", "map", "python"}
  BY DEF NestedInv
<1>4. Holds(contents, f)
  BY <1>1, <1>3, FrameHolds
<1>5. f.at # "list"
  BY <1>1 DEF Roots
<1>6. Runs(contents, f, q)
  BY <1>1, <1>4, <1>5 DEF Runs
<1>. QED  BY <1>1, <1>2, <1>6, FrameCalled DEF PythonFrames

\* What the thread does to an object or value changes, not the stack.
LEMMA PythonGoesOn ==
  ASSUME NestedInv, step.do \in {"toPython", "object"}, UNCHANGED stack,
         step'.do \in {"object", "crash"}
  PROVE  Nested(contents, stack', step')
<1>1. stack # <<>> /\ Runs(contents, Top, step)
  BY TopRuns DEF Idle
<1>2. Runs(contents, Top, step')
  BY <1>1 DEF Runs, Matches, CelItems, PythonItems, AwaitPython
<1>. QED  BY <1>1, <1>2, NestedKeep DEF NestedInv, Top

\* The steps of CelValueToPyObject.
LEMMA ToPythonNested == NestedInv /\ ToPythonStep => Nested(contents, stack', step')
<1>. SUFFICES ASSUME NestedInv, ToPythonStep PROVE Nested(contents, stack', step')
  OBVIOUS
<1>1. ASSUME step.do \in {"pythonItems", "object"}
      PROVE  stack # <<>> /\ Holds(contents, Top) /\ DOMAIN Top = Fields
  BY <1>1, TopRuns DEF Idle
<1>2. ASSUME NEW o, Return(PythonResult(o)), In("python"), step.do = "pythonItems"
      PROVE  Nested(contents, stack', step')
  BY <1>2, PythonReturns DEF Return, PythonResult, In, PythonFrames
<1>3. CASE LeafToPython \/ MessageToPython
  BY <1>3, PythonGoesOn DEF LeafToPython, MessageToPython, IsPython, Goto, PythonResult
<1>4. CASE ContainerToPython
  BY <1>4, OtherCalled DEF ContainerToPython, IsPython, Matches, PythonItems
<1>5. CASE NextPythonItem
  <2>. DEFINE i == Top.pos + 1
  <2>1. /\ step.do = "pythonItems" /\ In("python")
        /\ \/ \E o : Return(PythonResult(o))
           \/ \E v : Again([Top EXCEPT !.pos = i], ToPython(v))
           \/ \E v : Again([Top EXCEPT !.pos = i, !.at = "pythonKey"], ToPython(v))
    BY <1>5 DEF NextPythonItem
  <2>2. stack # <<>> /\ Top.at = "python" /\ DOMAIN Top = Fields /\ i \in Nat
    BY <1>1, <2>1 DEF In, Holds, PythonFrames
  <2>. HIDE DEF i
  <2>3. ASSUME NEW v, Again([Top EXCEPT !.pos = i], ToPython(v))
        PROVE  Nested(contents, stack', step')
    <3>. DEFINE f == [Top EXCEPT !.pos = i]
    <3>1. DOMAIN f = Fields /\ f.at = "python" /\ f.pos = i
      BY <2>2 DEF Fields
    <3>2. stack' = Append(Front(stack), f) /\ step' = ToPython(v) /\ step'.do = "toPython"
      BY <2>3 DEF Again, ToPython
    <3>. HIDE DEF f
    <3>3. f.at \in PythonFrames /\ Top.at \in PythonFrames /\ Matches(f.at, step')
      BY <2>2, <3>1, <3>2 DEF Matches, PythonFrames, AwaitPython
    <3>. QED  BY <2>2, <3>1, <3>2, <3>3, OtherGoesOn
  <2>4. ASSUME NEW v, Again([Top EXCEPT !.pos = i, !.at = "pythonKey"], ToPython(v))
        PROVE  Nested(contents, stack', step')
    <3>. DEFINE f == [Top EXCEPT !.pos = i, !.at = "pythonKey"]
    <3>1. DOMAIN f = Fields /\ f.at = "pythonKey" /\ f.pos = i
      BY <2>2 DEF Fields
    <3>2. stack' = Append(Front(stack), f) /\ step' = ToPython(v) /\ step'.do = "toPython"
      BY <2>4 DEF Again, ToPython
    <3>. HIDE DEF f
    <3>3. f.at \in PythonFrames /\ Top.at \in PythonFrames /\ Matches(f.at, step')
      BY <2>2, <3>1, <3>2 DEF Matches, PythonFrames, AwaitPython
    <3>. QED  BY <2>2, <3>1, <3>2, <3>3, OtherGoesOn
  <2>. QED  BY <1>2, <2>1, <2>3, <2>4
<1>6. CASE ItemFails
  BY <1>2, <1>6 DEF ItemFails
<1>7. CASE AddPythonItem
  <2>1. /\ step.do = "object" /\ stack # <<>> /\ Top.at = "python" /\ DOMAIN Top = Fields
        /\ Top.pos \in Nat
    BY <1>1, <1>7 DEF AddPythonItem, In, Holds, PythonFrames
  <2>2. ASSUME NEW d, Again([Top EXCEPT !.done = d], PythonItems)
        PROVE  Nested(contents, stack', step')
    <3>. DEFINE f == [Top EXCEPT !.done = d]
    <3>1. DOMAIN f = Fields /\ f.at = "python" /\ f.pos = Top.pos
      BY <2>1 DEF Fields
    <3>2. stack' = Append(Front(stack), f) /\ step' = PythonItems
      BY <2>2 DEF Again
    <3>. HIDE DEF f
    <3>3. f.at \in PythonFrames /\ Top.at \in PythonFrames /\ Matches(f.at, step')
      BY <2>1, <3>1, <3>2 DEF Matches, PythonFrames
    <3>. QED  BY <2>1, <3>1, <3>2, <3>3, OtherGoesOn
  <2>3. CASE Goto(Crashed)
    BY <2>1, <2>3, PythonGoesOn DEF Goto, Crashed
  <2>4. Goto(Crashed) \/ \E d : Again([Top EXCEPT !.done = d], PythonItems)
    BY <1>7 DEF AddPythonItem
  <2>. QED  BY <2>2, <2>3, <2>4
<1>8. CASE AddPythonKey
  <2>1. /\ step.do = "object" /\ stack # <<>> /\ Top.at = "pythonKey" /\ DOMAIN Top = Fields
        /\ Top.pos \in Nat
    BY <1>1, <1>8 DEF AddPythonKey, In, Holds, PythonFrames
  <2>. DEFINE f == [Top EXCEPT !.at = "python", !.entry = Pair(step.object, nullptr)]
  <2>2. DOMAIN f = Fields /\ f.at = "python" /\ f.pos = Top.pos
    BY <2>1 DEF Fields
  <2>3. stack' = Append(Front(stack), f) /\ step'.do = "toPython"
    BY <1>8 DEF AddPythonKey, Again, ToPython
  <2>. HIDE DEF f
  <2>4. f.at \in PythonFrames /\ Top.at \in PythonFrames /\ Matches(f.at, step')
    BY <2>1, <2>2, <2>3 DEF Matches, PythonFrames, AwaitPython
  <2>. QED  BY <2>1, <2>2, <2>3, <2>4, OtherGoesOn
<1>. QED  BY <1>3, <1>4, <1>5, <1>6, <1>7, <1>8 DEF ToPythonStep


\* The steps of PyObjectToCelValue.
LEMMA ToCelNested == NestedInv /\ ToCelStep => Nested(contents, stack', step')
BY LeafNested, BeginNested, NextItemNested, AddItemNested, NextEntryNested,
   ConvertEntryValueNested, PutEntryNested DEF ToCelStep

\* The steps of the evaluation and its callbacks.
LEMMA EvalNested == NestedInv /\ EvalStep => Nested(contents, stack', step')
<1>. SUFFICES ASSUME NestedInv, EvalStep PROVE Nested(contents, stack', step')
  OBVIOUS
<1>1. ASSUME step.do \in Idle, UNCHANGED stack, step'.do \in Idle
      PROVE  Nested(contents, stack', step')
  <2>1. stack = <<>> /\ IsSeq(stack)
    BY <1>1 DEF NestedInv, Nested
  <2>. QED  BY <1>1, <2>1 DEF Nested
<1>2. InUser.do \in Idle /\ InRuntime.do \in Idle
  BY DEF InUser, InRuntime, Idle
<1>3. CASE StartEval \/ SelectField \/ EndEval
  BY <1>1, <1>2, <1>3 DEF StartEval, SelectField, EndEval, Goto
<1>4. CASE LookupElsewhere
  BY <1>4 DEF LookupElsewhere, NestedInv
<1>5. ASSUME Top.at \in Roots, stack # <<>>, Return(InUser) \/ Return(InRuntime)
      PROVE  Nested(contents, stack', step')
  BY <1>2, <1>5, RootReturns DEF Return
<1>6. CASE EndProvide \/ EndInvoke \/ EndAccess \/ FunctionFails
  BY <1>5, <1>6 DEF EndProvide, EndInvoke, EndAccess, FunctionFails, In, Roots
<1>7. CASE CallFunction
  <2>1. step.do = "object" /\ stack # <<>> /\ Top.at = "invoke" /\ DOMAIN Top = Fields
    BY <1>7, TopRuns DEF CallFunction, In, Idle
  <2>2. CASE Goto(Crashed)
    BY <2>1, <2>2, PythonGoesOn DEF Goto, Crashed
  <2>3. CASE Again([Top EXCEPT !.at = "function", !.from = <<step.object>>],
                   InFunction(step.object))
    <3>. DEFINE f == [Top EXCEPT !.at = "function", !.from = <<step.object>>]
    <3>1. DOMAIN f = Fields /\ f.at = "function"
      BY <2>1 DEF Fields
    <3>2. stack' = Append(Front(stack), f) /\ step'.do = "function"
      BY <2>3 DEF Again, InFunction
    <3>. HIDE DEF f
    <3>3. f.at \in Roots /\ Top.at \in Roots /\ Matches(f.at, step')
      BY <2>1, <3>1, <3>2 DEF Matches, Roots
    <3>. QED  BY <2>1, <3>1, <3>2, <3>3, OtherGoesOn
  <2>. QED  BY <1>7, <2>2, <2>3 DEF CallFunction
<1>8. CASE Access
  <2>1. /\ Call(Frame("access", nullptr, NoType, last), ToPython(last))
        /\ step.do \in Idle /\ "access" \in Roots
    BY <1>2, <1>8 DEF Access, Roots
  <2>2. Matches("access", ToPython(last))
    BY DEF Matches, AwaitPython, ToPython
  <2>. QED  BY <2>1, <2>2, OtherCalled
<1>9. ASSUME NEW x, Provide(x) PROVE Nested(contents, stack', step')
  <2>1. /\ Call(Frame("provide", x.object, x.type, NoValue), ToCel(x.object, x.type, FALSE))
        /\ step.do \in Idle /\ "provide" \in Roots
    BY <1>2, <1>9 DEF Provide, MayCallBack, Roots
  <2>2. Matches("provide", ToCel(x.object, x.type, FALSE))
    BY DEF Matches, AwaitCel, ToCel
  <2>. QED  BY <2>1, <2>2, OtherCalled
<1>10. ASSUME NEW t, Invoke(t) PROVE Nested(contents, stack', step')
  <2>1. /\ Call(Frame("invoke", nullptr, t, last), ToPython(last))
        /\ step.do \in Idle /\ "invoke" \in Roots
    BY <1>2, <1>10 DEF Invoke, MayCallBack, Roots
  <2>2. Matches("invoke", ToPython(last))
    BY DEF Matches, AwaitPython, ToPython
  <2>. QED  BY <2>1, <2>2, OtherCalled
<1>11. ASSUME NEW o, FunctionReturns(o) PROVE Nested(contents, stack', step')
  <2>1. /\ step.do = "function" /\ stack # <<>> /\ Top.at = "function" /\ DOMAIN Top = Fields
        /\ Again([Top EXCEPT !.at = "result", !.object = o], ToCel(o, Top.type, FALSE))
    BY <1>11, TopRuns DEF FunctionReturns, In, Idle
  <2>. DEFINE f == [Top EXCEPT !.at = "result", !.object = o]
  <2>2. DOMAIN f = Fields /\ f.at = "result"
    BY <2>1 DEF Fields
  <2>3. stack' = Append(Front(stack), f) /\ step'.do = "toCel"
    BY <2>1 DEF Again, ToCel
  <2>. HIDE DEF f
  <2>4. f.at \in Roots /\ Top.at \in Roots /\ Matches(f.at, step')
    BY <2>1, <2>2, <2>3 DEF Matches, Roots, AwaitCel
  <2>. QED  BY <2>1, <2>2, <2>3, <2>4, OtherGoesOn
<1>. QED  BY <1>3, <1>4, <1>6, <1>7, <1>8, <1>9, <1>10, <1>11 DEF EvalStep

\* Another thread gives one container a new version.
LEMMA EditGrows ==
  ASSUME WorldOK(contents), NEW c \in DOMAIN contents, Edit(c)
  PROVE  WorldOK(contents') /\ Grows(contents, contents')
<1>1. PICK new : contents' = [contents EXCEPT ![c] = Append(contents[c], new)]
  BY DEF Edit
<1>. DEFINE versions == Append(contents[c], new)
<1>2. /\ IsSeq(contents[c]) /\ Len(contents[c]) \in Nat
      /\ IsSeq(versions) /\ Len(versions) = Len(contents[c]) + 1
      /\ \A n \in 1..Len(contents[c]) : versions[n] = contents[c][n]
  BY AppendSeq, SeqPlaces DEF WorldOK
<1>3. versions # <<>>
  BY <1>2, SeqPlaces
<1>. HIDE DEF versions
<1>4. /\ DOMAIN contents' = DOMAIN contents /\ contents'[c] = versions
      /\ \A d \in DOMAIN contents : d # c => contents'[d] = contents[d]
  BY <1>1 DEF versions
<1>5. WorldOK(contents')
  BY <1>2, <1>3, <1>4 DEF WorldOK
<1>6. ASSUME NEW d \in DOMAIN contents
      PROVE  /\ Len(contents[d]) <= Len(contents'[d])
             /\ \A n \in 1..Len(contents[d]) : contents'[d][n] = contents[d][n]
  <2>1. CASE d = c
    BY <1>2, <1>4, <2>1
  <2>2. CASE d # c
    <3>1. Len(contents[d]) \in Nat
      BY SeqPlaces DEF WorldOK
    <3>. QED  BY <1>4, <2>2, <3>1
  <2>. QED  BY <2>1, <2>2
<1>. QED  BY <1>4, <1>5, <1>6 DEF Grows

\* The thread has nothing on its stack, and every container its first version.
LEMMA NestedInit == Init => NestedInv
<1>. SUFFICES ASSUME Init PROVE NestedInv
  OBVIOUS
<1>1. WorldOK(contents)
  <2>1. PICK host : contents = [c \in DOMAIN host |-> <<host[c]>>]
    BY DEF Init
  <2>2. ASSUME NEW c \in DOMAIN contents PROVE IsSeq(contents[c]) /\ contents[c] # <<>>
    <3>1. contents[c] = <<host[c]>>
      BY <2>1
    <3>2. <<host[c]>> \in Seq({host[c]}) /\ <<host[c]>> # <<>>
      OBVIOUS
    <3>. QED  BY <3>1, <3>2 DEF IsSeq
  <2>. QED  BY <2>2 DEF WorldOK
<1>2. stack = <<>> /\ step.do \in Idle
  BY DEF Init, InUser, Idle
<1>3. <<>> \in Seq({}) /\ Len(<<>>) = 0
  OBVIOUS
<1>4. Nested(contents, <<>>, step)
  BY <1>2, <1>3 DEF Nested, IsSeq
<1>. QED  BY <1>1, <1>2, <1>4 DEF NestedInv

\* Only the other threads change containers.
LEMMA ContentsStay == ToCelStep \/ ToPythonStep \/ EvalStep => UNCHANGED contents
<1>1. ASSUME ToCelStep PROVE UNCHANGED contents
  BY <1>1
  DEF ToCelStep, ConvertNothing, ConvertDyn, ConvertNull, ConvertBool, ConvertNumber,
      ConvertString, ConvertBytes, ConvertTime, ConvertMessage, LookupRaises, FinishMessage,
      BeginList, NextItem, AddItem, BeginMap, NextEntry, ConvertEntryValue, PutEntry,
      ConvertOther, Converts, Inside
<1>2. ASSUME ToPythonStep PROVE UNCHANGED contents
  BY <1>2
  DEF ToPythonStep, LeafToPython, MessageToPython, ContainerToPython, NextPythonItem, ItemFails,
      AddPythonItem, AddPythonKey, IsPython, Inside
<1>3. ASSUME EvalStep PROVE UNCHANGED contents
  BY <1>3
  DEF EvalStep, StartEval, LookupElsewhere, SelectField, EndProvide, CallFunction,
      FunctionFails, EndInvoke, EndEval, Access, EndAccess, Provide, Invoke, MayCallBack,
      FunctionReturns, Inside
<1>. QED  BY <1>1, <1>2, <1>3

\* No step breaks what the frames hold.
LEMMA NestedStep == NestedInv /\ [Next]_vars => NestedInv'
<1>. SUFFICES ASSUME NestedInv, [Next]_vars PROVE NestedInv'
  OBVIOUS
<1>1. CASE ToCelStep \/ ToPythonStep \/ EvalStep
  BY <1>1, ToCelNested, ToPythonNested, EvalNested, ContentsStay DEF NestedInv
<1>2. ASSUME NEW c \in DOMAIN contents, Edit(c) PROVE NestedInv'
  <2>1. stack' = stack /\ step' = step
    BY <1>2 DEF Edit
  <2>. QED  BY <1>2, <2>1, EditGrows, NestedGrows DEF NestedInv
<1>3. CASE UNCHANGED vars
  BY <1>3 DEF vars, NestedInv
<1>. QED  BY <1>1, <1>2, <1>3 DEF Next

\* What the frames hold, in every state.
THEOREM FramesHold == Spec => []NestedInv
BY NestedInit, NestedStep, PTL DEF Spec

\* Every item of a list's value stood at its place in the list since its conversion
\* began, none is left out and none is a failure, however other threads change
\* the list meanwhile (py_cel_value.cc:826-846).
THEOREM ListsKeepTheirItems == Spec => []ItemsInPlace
<1>1. NestedInv => ItemsInPlace
  <2>. SUFFICES ASSUME NestedInv, NEW k \in DOMAIN stack, stack[k].at = "list"
                PROVE  LET f == stack[k] IN
                       /\ Len(f.done) = IF k = Len(stack) /\ step = CelItems THEN f.pos ELSE f.pos - 1
                       /\ \A i \in DOMAIN f.done :
                            /\ ~Failed(f.done[i])
                            /\ \E n \in f.since..Len(Versions(f.object)) :
                                 i \in DOMAIN Versions(f.object)[n]
                                   /\ Versions(f.object)[n][i] = f.from[i]
    BY DEF ItemsInPlace
  <2>. DEFINE f == stack[k]
  <2>1. Len(stack) \in Nat /\ k \in 1..Len(stack)
    BY SeqPlaces DEF NestedInv, Nested
  <2>2. IF k = Len(stack) THEN Runs(contents, f, step) ELSE Waits(contents, f)
    BY <2>1 DEF NestedInv, Nested
  <2>. HIDE DEF f
  <2>3. Holds(contents, f) /\ f.at = "list"
    BY <2>2 DEF Runs, Waits, f
  <2>4. ListOK(contents, f) /\ Len(f.done) \in Nat /\ DOMAIN f.done = 1..Len(f.done)
    BY <2>3, SeqPlaces DEF Holds, ListOK
  <2>5. Len(f.done) = IF k = Len(stack) /\ step = CelItems THEN f.pos ELSE f.pos - 1
    BY <2>2, <2>3, <2>4 DEF Runs, Waits
  <2>6. Versions(f.object) = VersionsIn(contents, f.object)
    BY DEF Versions, VersionsIn
  <2>7. ASSUME NEW i \in DOMAIN f.done
        PROVE  /\ ~Failed(f.done[i])
               /\ \E n \in f.since..Len(Versions(f.object)) :
                    i \in DOMAIN Versions(f.object)[n] /\ Versions(f.object)[n][i] = f.from[i]
    BY <2>4, <2>6 DEF ListOK, Stood, Since
  <2>. QED  BY <2>5, <2>7 DEF f
<1>. QED  BY <1>1, FramesHold, PTL

\* A key and a value that are put into a map were one entry of the dict since its
\* conversion began, no key comes twice and nothing is a failure, however other
\* threads change the dict meanwhile (py_cel_value.cc:861-883).
THEOREM MapsKeepTheirEntries == Spec => []EntriesAreOfTheDict
<1>1. NestedInv => EntriesAreOfTheDict
  <2>. SUFFICES ASSUME NestedInv, NEW k \in DOMAIN stack, stack[k].at \in DictFrames,
                       NEW i \in DOMAIN stack[k].done
                PROVE  LET f == stack[k] IN
                       /\ ~Failed(f.done[i].key) /\ ~Failed(f.done[i].value)
                       /\ \E n \in f.since..Len(Versions(f.object)) :
                            \E j \in DOMAIN Versions(f.object)[n] :
                              Versions(f.object)[n][j] = f.from[i]
                       /\ \A j \in DOMAIN f.done : f.done[j].key = f.done[i].key => j = i
    BY DEF EntriesAreOfTheDict, DictFrames
  <2>. DEFINE f == stack[k]
  <2>1. Len(stack) \in Nat /\ k \in 1..Len(stack)
    BY SeqPlaces DEF NestedInv, Nested
  <2>2. IF k = Len(stack) THEN Runs(contents, f, step) ELSE Waits(contents, f)
    BY <2>1 DEF NestedInv, Nested
  <2>. HIDE DEF f
  <2>3. Holds(contents, f) /\ f.at \in DictFrames
    BY <2>2 DEF Runs, Waits, f
  <2>4. DictOK(contents, f) /\ DOMAIN f.done = 1..Len(f.done)
    BY <2>3, SeqPlaces DEF Holds, DictOK
  <2>5. i \in 1..Len(f.done)
    BY <2>4 DEF f
  <2>6. Versions(f.object) = VersionsIn(contents, f.object)
    BY DEF Versions, VersionsIn
  <2>7. \E n \in f.since..Len(Versions(f.object)) :
          \E j \in DOMAIN Versions(f.object)[n] : Versions(f.object)[n][j] = f.from[i]
    BY <2>4, <2>5, <2>6 DEF DictOK, Since
  <2>. QED  BY <2>4, <2>5, <2>7 DEF DictOK, f
<1>. QED  BY <1>1, FramesHold, PTL


-----------------------------------------------------------------------------
(* What TypeOK says of the rest of the state.                              *)

Named(f) == f.at = "none" => f = None

RestOK ==
  /\ Named(exc) /\ Named(slot)
  /\ Failed(last) => last.kind = "error"
  /\ callbacks \in 0..MaxCallbacks

\* Every step keeps RestOK.
LEMMA RestStep == RestOK /\ [Next]_vars => RestOK'
<1>. SUFFICES ASSUME RestOK, [Next]_vars PROVE RestOK'
  OBVIOUS
<1>1. ASSUME exc' = exc \/ exc'.at # "none" \/ exc' = None,
             slot' = slot \/ slot'.at # "none" \/ slot' = None, UNCHANGED <<last, callbacks>>
      PROVE  RestOK'
  BY <1>1 DEF RestOK, Named
<1>2. ASSUME UNCHANGED <<exc, slot>> \/ TakeStatus, UNCHANGED callbacks,
             Failed(last') => last'.kind = "error"
      PROVE  RestOK'
  BY <1>2 DEF RestOK, Named, TakeStatus
<1>3. \A at, o : Fault(at, o).at = at
  BY DEF Fault
<1>4. Stale.at # "none"
  BY <1>3 DEF Stale
<1>5. CASE ToCelStep
  <2>. USE DEF Inside, KeepStatus, TakeStatus, Converts, Make, InvalidType
  <2>1. CASE ConvertNothing \/ ConvertNull \/ ConvertBool \/ ConvertString \/ ConvertBytes
             \/ ConvertOther \/ ConvertNumber
    BY <1>1, <2>1
    DEF ConvertNothing, ConvertNull, ConvertBool, ConvertString, ConvertBytes, ConvertOther,
        ConvertNumber
  <2>2. CASE ConvertDyn \/ ConvertMessage \/ BeginList \/ BeginMap
    BY <1>1, <2>2, FoundException
    DEF ConvertDyn, ConvertMessage, BeginList, BeginMap, ConvertMessageAs
  <2>3. CASE ConvertTime
    BY <1>1, <2>3 DEF ConvertTime
  <2>4. CASE LookupRaises \/ FinishMessage
    BY <1>1, <1>3, <2>4 DEF LookupRaises, FinishMessage
  <2>5. CASE NextItem
    <3>1. UNCHANGED <<slot, last, callbacks>> /\ (exc' = exc \/ exc' = Fault("index", Top.object))
      BY <2>5 DEF NextItem
    <3>. QED  BY <1>1, <1>3, <3>1
  <2>6. CASE AddItem \/ NextEntry \/ ConvertEntryValue \/ PutEntry
    BY <1>1, <2>6 DEF AddItem, NextEntry, ConvertEntryValue, PutEntry
  <2>. QED  BY <1>5, <2>1, <2>2, <2>3, <2>4, <2>5, <2>6 DEF ToCelStep
<1>6. CASE ToPythonStep
  <2>. USE DEF Inside, KeepStatus, IsPython
  <2>1. CASE MessageToPython
    BY <1>1, <1>3, <2>1 DEF MessageToPython
  <2>2. CASE ItemFails
    BY <1>1, <1>3, <1>4, <2>2 DEF ItemFails
  <2>3. CASE LeafToPython \/ ContainerToPython \/ NextPythonItem \/ AddPythonItem \/ AddPythonKey
    BY <1>1, <2>3 DEF LeafToPython, ContainerToPython, NextPythonItem, AddPythonItem, AddPythonKey
  <2>. QED  BY <1>6, <2>1, <2>2, <2>3 DEF ToPythonStep
<1>7. CASE EvalStep
  <2>1. CASE StartEval \/ CallFunction \/ Access
    BY <1>1, <2>1 DEF StartEval, CallFunction, Access, Inside, KeepStatus
  <2>2. CASE LookupElsewhere
    BY <1>1, <1>4, <2>2 DEF LookupElsewhere, Inside
  <2>3. CASE EndAccess
    BY <1>1, <2>3 DEF EndAccess, Inside
  <2>4. /\ \A f : ErrorValue(f).kind = "error" /\ ErrorValue(f).kind # "status"
        /\ \A k, d, i : Value(k, d, i).kind = k
        /\ ~Failed(NoValue)
    BY DEF ErrorValue, Value, Failed, NoValue
  <2>5. CASE SelectField
    BY <1>2, <2>4, <2>5 DEF SelectField, Failed
  <2>6. CASE EndProvide
    BY <1>2, <2>4, <2>6 DEF EndProvide, Failed
  <2>7. CASE FunctionFails
    BY <1>2, <2>4, <2>7 DEF FunctionFails, Failed
  <2>8. CASE EndInvoke \/ EndEval
    BY <2>4, <2>8 DEF EndInvoke, EndEval, Failed, RestOK, Named
  <2>9. ASSUME MayCallBack PROVE RestOK'
    BY <2>9, ConversionBounds DEF MayCallBack, RestOK, Named
  <2>10. ASSUME NEW o, FunctionReturns(o) PROVE RestOK'
    BY <1>1, <2>10 DEF FunctionReturns, Inside
  <2>. QED  BY <1>7, <2>1, <2>2, <2>3, <2>5, <2>6, <2>7, <2>8, <2>9, <2>10
            DEF EvalStep, Provide, Invoke
<1>8. CASE UNCHANGED vars \/ \E c \in DOMAIN contents : Edit(c)
  BY <1>1, <1>8 DEF vars, Edit
<1>. QED  BY <1>5, <1>6, <1>7, <1>8 DEF Next

\* RestOK holds at first.
LEMMA RestInit == Init => RestOK
<1>1. ~Failed(NoValue)
  BY DEF Failed, NoValue, Value
<1>. QED  BY <1>1, ConversionBounds DEF Init, RestOK, Named, None, Stale, Fault

\* The call discipline: the frames of one callback or access are of one sort, what
\* a conversion returns is for a frame that waits for it, no place that
\* PyDict_Next stands at is beyond all versions of the dict, and only error
\* values reach the evaluation.
THEOREM ConversionTyped == Spec => []TypeOK
<1>1. NestedInv /\ RestOK => TypeOK
  <2>. SUFFICES ASSUME NestedInv, RestOK PROVE TypeOK
    OBVIOUS
  <2>1. stack = <<>> <=> step.do \in Idle
    BY DEF NestedInv, Nested
  <2>2. ASSUME step.do \notin Idle PROVE Matches(Top.at, step)
    BY <2>2, TopRuns DEF Runs
  <2>3. step.do \in {"user", "runtime", "crash", "toCel", "toPython", "cel", "object", "celItems",
                     "pythonItems", "released", "function"}
    BY <2>2 DEF Matches, Idle, CelItems, PythonItems
  <2>4. /\ step.do \in {"toCel", "released", "cel"} => Top.at \in AwaitCel
        /\ step.do \in {"toPython", "object"} => Top.at \in AwaitPython
    BY <2>2 DEF Matches, Idle, CelItems, PythonItems
  <2>5. ASSUME NEW k \in DOMAIN stack
        PROVE  LET f == stack[k] IN
               /\ f.at \in (IF k = 1 THEN {"provide", "invoke", "function", "result", "access"}
                                     ELSE {"list", "map", "key", "value", "python", "pythonKey"})
               /\ f.at \in {"list", "python", "pythonKey"} => f.pos \in Nat
               /\ f.at \in {"map", "key", "value"} /\ f.pos # 0 =>
                    \E n \in f.since..Len(Versions(f.object)) : f.pos \in DOMAIN Versions(f.object)[n]
    <3>. DEFINE f == stack[k]
    <3>1. Len(stack) \in Nat /\ k \in 1..Len(stack)
      BY SeqPlaces DEF NestedInv, Nested
    <3>2. /\ IF k = 1 THEN f.at \in Roots ELSE Calls(stack[k - 1], f)
          /\ IF k = Len(stack) THEN Runs(contents, f, step) ELSE Waits(contents, f)
      BY <3>1 DEF NestedInv, Nested
    <3>. HIDE DEF f
    <3>3. Holds(contents, f)
      BY <3>2 DEF Runs, Waits
    <3>4. f.at \in {"list", "python", "pythonKey"} => f.pos \in Nat
      BY <3>3 DEF Holds, ListOK, PythonFrames
    <3>5. ASSUME f.at \in {"map", "key", "value"}, f.pos # 0
          PROVE  \E n \in f.since..Len(Versions(f.object)) : f.pos \in DOMAIN Versions(f.object)[n]
      <4>1. Versions(f.object) = VersionsIn(contents, f.object)
        BY DEF Versions, VersionsIn
      <4>. QED  BY <3>3, <3>5, <4>1 DEF Holds, DictOK, DictFrames, Since
    <3>6. f.at \in (IF k = 1 THEN {"provide", "invoke", "function", "result", "access"}
                             ELSE {"list", "map", "key", "value", "python", "pythonKey"})
      BY <3>2 DEF Calls, Roots, CelFrames, DictFrames, PythonFrames
    <3>. QED  BY <3>4, <3>5, <3>6 DEF f
  <2>. QED  BY <2>1, <2>3, <2>4, <2>5 DEF TypeOK, RestOK, Named, Idle
<1>. QED  BY <1>1, FramesHold, RestInit, RestStep, PTL DEF Spec
-----------------------------------------------------------------------------
(***************************************************************************)
(* What becomes of a value on its way to Python and back.  StandsFor is    *)
(* the way there, Becomes the way back with type DYN; what they say of a   *)
(* list or map is said of its items once more, and no deeper.              *)
(***************************************************************************)
Leaves ==
  {"null", "bool", "int", "uint", "double", "string", "bytes", "timestamp", "duration"}

\* A value that conversions make.
Ok(v) ==
  \/ /\ v.kind \in Leaves /\ v.items = <<>>
     /\ v.kind = "null" => v.data = "None"
     /\ v.kind = "int"  => v.data \in {"negative", "small"}
     /\ v.kind = "uint" => v.data \in {"small", "big"}
  \/ v.kind = "message" /\ v.items \in {<<"TestAllTypes">>, <<"Lost">>}
  \/ v.kind \in {"list", "map"} /\ v.data = NoData /\ IsSeq(v.items)

\* One whose items are such values too.
Proper(v) ==
  /\ Ok(v)
  /\ v.kind = "list" => \A i \in 1..Len(v.items) : Ok(v.items[i])
  /\ v.kind = "map"  => \A i \in 1..Len(v.items) : Ok(v.items[i].key) /\ Ok(v.items[i].value)

\* A field of a message, which may fail as it is read.
IsField(v) == v.kind \in {"list", "map"} /\ v.data = "field"

\* The object that CelValueToPyObject makes of w, but for the items of a list or
\* map, or nullptr.
StandsFor(o, w) ==
  \/ o = nullptr \/ IsField(w)
  \/ w.kind \in DOMAIN PythonTypes /\ o = Object(PythonTypes[w.kind], w.data, <<>>)
  \/ w.kind = "message" /\ o = Object(w.items[1], w.data, <<>>)
  \/ w.kind = "list" /\ o.type = "list" /\ o.data = "made"
  \/ w.kind = "map"  /\ o.type = "dict" /\ o.data = "made"

EntryStands(e, d) == StandsFor(e.key, d.key) /\ StandsFor(e.value, d.value) /\ e.value # nullptr

\* The items too.
StandsForAll(o, w) ==
  /\ StandsFor(o, w)
  /\ w.kind \in {"list", "map"} /\ ~IsField(w) /\ IsSeq(w.items) /\ o # nullptr =>
       /\ IsSeq(o.items) /\ Len(o.items) = Len(w.items)
       /\ \A i \in 1..Len(w.items) :
            IF w.kind = "list" THEN StandsFor(o.items[i], w.items[i])
                               ELSE EntryStands(o.items[i], w.items[i])

\* What the innermost frame waits for: the object that is converted to CEL, the
\* value that is converted to Python.
AwaitedObject(f) ==
  CASE f.at \in {"provide", "result"} -> f.object
    [] f.at = "key" -> f.entry.key
    [] OTHER -> f.entry.value

AwaitedValue(f) ==
  CASE f.at \in {"invoke", "access"} -> f.value
    [] f.at = "pythonKey" -> f.value.items[f.pos].key
    [] f.at = "python" /\ f.value.kind = "map" -> f.value.items[f.pos].value
    [] OTHER -> f.value.items[f.pos]

\* The items of a list or dict that is made for Python so far.
ItemsStand(f) ==
  /\ f.pos \in Nat /\ IsSeq(f.done)
  /\ f.value.kind \in {"list", "map"} /\ (f.at = "pythonKey" => f.value.kind = "map")
  /\ ~IsField(f.value) /\ IsSeq(f.value.items) =>
       /\ f.pos <= Len(f.value.items)
       /\ \A i \in 1..Len(f.done) :
            IF f.value.kind = "list" THEN StandsFor(f.done[i], f.value.items[i])
                                     ELSE EntryStands(f.done[i], f.value.items[i])

\* A dict has the key of the entry whose value is converted.
WaitsForItem(f) ==
  /\ f.pos = Len(f.done) + 1
  /\ f.at = "python" /\ f.value.kind = "map" =>
       StandsFor(f.entry.key, f.value.items[f.pos].key)

\* What a frame has of values.
Carries(f) ==
  /\ f.at \in {"invoke", "function", "result"} => Proper(f.value) \/ IsField(f.value)
  /\ f.at \in {"function", "result"} =>
       f.from = <<f.from[1]>> /\ StandsForAll(f.from[1], f.value)
  /\ f.at = "list" => \A i \in 1..Len(f.done) : Ok(f.done[i])
  /\ f.at \in DictFrames => \A i \in 1..Len(f.done) : Ok(f.done[i].key) /\ Ok(f.done[i].value)
  /\ f.at = "value" => Failed(f.key) \/ Ok(f.key)
  /\ f.at \in PythonFrames => ItemsStand(f)

\* g does what f waits for.
Serves(f, g) ==
  /\ g.at \in CelFrames => g.object = AwaitedObject(f)
  /\ g.at \in PythonFrames => g.value = AwaitedValue(f)

\* What the thread does for the innermost frame.
Brings(f, p) ==
  /\ p.do \in {"toCel", "released"} => p.object = AwaitedObject(f)
  /\ p.do = "released" => p.object.type \in DOMAIN MessageNames
  /\ p.do = "cel" => Failed(p.value) \/ (Proper(p.value) /\ p.object = AwaitedObject(f))
  /\ p.do = "toPython" => p.value = AwaitedValue(f)
  /\ p.do = "object" => StandsForAll(p.object, AwaitedValue(f))
  /\ f.at \in PythonFrames =>
       IF p = PythonItems THEN f.pos = Len(f.done) ELSE WaitsForItem(f)

Conveys(s, p) ==
  /\ IsSeq(s)
  /\ \A k \in 1..Len(s) :
       /\ Carries(s[k])
       /\ k # 1 => Serves(s[k - 1], s[k])
       /\ IF k = Len(s) THEN Brings(s[k], p)
                        ELSE s[k].at \in PythonFrames => WaitsForItem(s[k])

LastOK == Failed(last) \/ last = NoValue \/ Proper(last) \/ IsField(last)

ConveyInv == Conveys(stack, step) /\ LastOK

-----------------------------------------------------------------------------
(* Results of functions that return DYN.                                   *)

Dyn == Scalar("dyn")

\* The type that ForPyObject finds where there is no exception.
TypeOf(o) ==
  CASE o.type \in DOMAIN PrimitiveTypes -> PrimitiveTypes[o.type]
    [] o.type = "int" /\ Fits(o, "int") -> Scalar("int")
    [] o.type = "int" /\ ~Fits(o, "int") /\ Fits(o, "uint") -> Scalar("uint")
    [] o.type \in DOMAIN MessageNames -> MessageType(<<MessageNames[o.type]>>)
    [] OTHER -> NoType

KindOf ==
  [NoneType |-> "null", bool |-> "bool", float |-> "double", str |-> "string",
   bytearray |-> "bytes", list |-> "list", dict |-> "map", TestAllTypes |-> "message",
   Lost |-> "message"]

\* The value of an object that stands for a value, but for the items of a list or
\* map; one of a time has none.
Becomes(o, c) ==
  \/ Failed(c)
  \/ /\ o # nullptr /\ o.type \notin {"datetime", "timedelta"}
     /\ o.type \in DOMAIN KindOf => c.kind = KindOf[o.type]
     /\ o.type = "NoneType" => c.data = "None"
     /\ o.type \in DOMAIN KindOf \ {"NoneType", "list", "dict"} => c.data = o.data
     /\ o.type = "int" =>
          /\ c.data = o.data
          /\ c.data \in {"negative", "small"} => c.kind = "int"
          /\ c.data = "big" => c.kind = "uint"
     /\ o.type \in {"list", "dict"} => c.data = NoData

EntryBecomes(e, d) == Becomes(e.key, d.key) /\ Becomes(e.value, d.value)

\* A list or dict that a conversion has made, and that has all its items.
Whole(o) ==
  /\ o.data = "made" /\ IsSeq(o.items)
  /\ o.type = "dict" => \A i \in 1..Len(o.items) : o.items[i] # Removed

BecomesAll(o, c) ==
  /\ Becomes(o, c)
  /\ o.type \in {"list", "dict"} /\ Whole(o) /\ ~Failed(c) =>
       /\ Len(c.items) = Len(o.items)
       /\ \A i \in 1..Len(o.items) :
            IF o.type = "list" THEN Becomes(o.items[i], c.items[i])
                               ELSE EntryBecomes(o.items[i], c.items[i])

\* A list or dict on its way.
ListBecomes(f) ==
  /\ f.type = ListType(Dyn) /\ f.object.type = "list"
  /\ \A i \in 1..Len(f.done) : Becomes(f.from[i], f.done[i])
  /\ Whole(f.object) => f.size = Len(f.object.items) /\ f.pos <= f.size

DictBecomes(f) ==
  /\ f.type = MapType(Dyn, Dyn) /\ f.object.type = "dict"
  /\ \A i \in 1..Len(f.done) : EntryBecomes(f.from[i], f.done[i])
  /\ f.at = "value" => Becomes(f.entry.key, f.key)
  /\ Whole(f.object) =>
       /\ f.pos \in 0..Len(f.object.items)
       /\ f.pos = Len(f.done) + (IF f.at = "map" THEN 0 ELSE 1)
       /\ \A i \in 1..Len(f.done) : f.from[i] = f.object.items[i]
       /\ f.at # "map" => f.entry = f.object.items[f.pos]

\* An item of a list is missing, or its absence has ended the conversion.
Gone ==
  \/ step.do = "toCel" /\ step.object = nullptr /\ In("list")
  \/ step.do = "cel" /\ Failed(step.value) /\ (In("list") \/ step.value.kind = "status")

IsDyn == stack # <<>> /\ stack[1].at = "result" /\ stack[1].type = Dyn

DynStep ==
  /\ exc = None \/ Gone
  /\ step.do \in {"toCel", "released", "cel", "celItems"}
  /\ step.do = "toCel" => step.type = Dyn \/ (step.type = TypeOf(step.object) /\ step.type # NoType)
  /\ step.do = "cel" => BecomesAll(step.object, step.value)

DynFrames ==
  \A k \in 2..Len(stack) :
    /\ stack[k].at \in CelFrames
    /\ stack[k].at = "list" => ListBecomes(stack[k])
    /\ stack[k].at \in DictFrames => DictBecomes(stack[k])

\* Nothing that a conversion has made belongs to the host.
DynInv == "made" \notin DOMAIN contents /\ (IsDyn => DynStep /\ DynFrames)

\* The innermost frame and the one below it.
LEMMA ConveyTop ==
  ASSUME NEW s, NEW p, Conveys(s, p), s # <<>>
  PROVE  /\ Carries(Last(s)) /\ Brings(Last(s), p)
         /\ Front(s) # <<>> =>
              /\ Serves(Last(Front(s)), Last(s))
              /\ Last(Front(s)).at \in PythonFrames => WaitsForItem(Last(Front(s)))
<1>1. /\ Len(s) \in Nat \ {0} /\ IsSeq(Front(s)) /\ Len(Front(s)) = Len(s) - 1
      /\ \A k \in 1..(Len(s) - 1) : Front(s)[k] = s[k]
  BY FrontSeq DEF Conveys
<1>2. Front(s) = <<>> <=> Len(s) = 1
  BY <1>1, SeqPlaces
<1>3. Carries(Last(s)) /\ Brings(Last(s), p)
  BY <1>1 DEF Conveys, Last
<1>4. ASSUME Front(s) # <<>>
      PROVE  /\ Serves(Last(Front(s)), Last(s))
             /\ Last(Front(s)).at \in PythonFrames => WaitsForItem(Last(Front(s)))
  <2>1. Len(s) - 1 \in 1..Len(s) /\ Len(s) - 1 # Len(s) /\ Len(s) # 1 /\ Len(s) \in 1..Len(s)
    BY <1>1, <1>2, <1>4
  <2>2. Last(Front(s)) = s[Len(s) - 1]
    BY <1>1, <2>1 DEF Last
  <2>3. Serves(s[Len(s) - 1], s[Len(s)])
    BY <2>1 DEF Conveys
  <2>4. s[Len(s) - 1].at \in PythonFrames => WaitsForItem(s[Len(s) - 1])
    BY <2>1 DEF Conveys
  <2>. QED  BY <2>2, <2>3, <2>4 DEF Last
<1>. QED  BY <1>3, <1>4

\* A call is for what the innermost frame waits for.
LEMMA ConveyPush ==
  ASSUME NEW s, NEW p, Conveys(s, p), NEW f, NEW q, Carries(f), Brings(f, q),
         s # <<>> => /\ Serves(Last(s), f)
                     /\ Last(s).at \in PythonFrames => WaitsForItem(Last(s))
  PROVE  Conveys(Append(s, f), q)
<1>. DEFINE t == Append(s, f)
<1>1. /\ Len(s) \in Nat /\ (s = <<>> <=> Len(s) = 0) /\ IsSeq(t) /\ Len(t) = Len(s) + 1
      /\ \A k \in 1..Len(s) : t[k] = s[k]
      /\ t[Len(s) + 1] = f
  BY SeqPlaces, AppendSeq DEF Conveys
<1>. HIDE DEF t
<1>2. ASSUME NEW k \in 1..Len(t)
      PROVE  /\ Carries(t[k])
             /\ k # 1 => Serves(t[k - 1], t[k])
             /\ IF k = Len(t) THEN Brings(t[k], q)
                              ELSE t[k].at \in PythonFrames => WaitsForItem(t[k])
  <2>1. CASE k = Len(s) + 1
    BY <1>1, <2>1 DEF Last
  <2>2. CASE k \in 1..Len(s)
    <3>1. t[k] = s[k] /\ k # Len(t) /\ (k # 1 => k - 1 \in 1..Len(s) /\ t[k - 1] = s[k - 1])
      BY <1>1, <2>2
    <3>2. Carries(s[k]) /\ (k # 1 => Serves(s[k - 1], s[k]))
      BY <2>2 DEF Conveys
    <3>3. s[k].at \in PythonFrames => WaitsForItem(s[k])
      BY <1>1, <2>2 DEF Conveys, Last
    <3>. QED  BY <3>1, <3>2, <3>3
  <2>. QED  BY <1>1, <2>1, <2>2
<1>. QED  BY <1>1, <1>2 DEF Conveys, t

\* A return brings the frame below what it waits for.
LEMMA ConveyPop ==
  ASSUME NEW s, NEW p, Conveys(s, p), s # <<>>, NEW q,
         Front(s) # <<>> => Brings(Last(Front(s)), q)
  PROVE  Conveys(Front(s), q)
<1>. DEFINE t == Front(s)
<1>1. /\ Len(s) \in Nat \ {0} /\ IsSeq(t) /\ Len(t) = Len(s) - 1
      /\ \A k \in 1..(Len(s) - 1) : t[k] = s[k]
  BY FrontSeq DEF Conveys
<1>2. Len(t) # 0 => Brings(t[Len(t)], q)
  BY <1>1, SeqPlaces DEF Last
<1>. HIDE DEF t
<1>3. ASSUME NEW k \in 1..Len(t)
      PROVE  /\ Carries(t[k])
             /\ k # 1 => Serves(t[k - 1], t[k])
             /\ IF k = Len(t) THEN Brings(t[k], q)
                              ELSE t[k].at \in PythonFrames => WaitsForItem(t[k])
  <2>1. /\ t[k] = s[k] /\ k \in 1..Len(s) /\ k # Len(s)
        /\ k # 1 => t[k - 1] = s[k - 1]
    BY <1>1
  <2>2. Carries(s[k]) /\ (k # 1 => Serves(s[k - 1], s[k]))
    BY <2>1 DEF Conveys
  <2>3. s[k].at \in PythonFrames => WaitsForItem(s[k])
    BY <2>1 DEF Conveys
  <2>. QED  BY <1>1, <1>2, <2>1, <2>2, <2>3
<1>. QED  BY <1>1, <1>3 DEF Conveys, t

\* The innermost frame goes on and still is about its object or value.
LEMMA ConveySet ==
  ASSUME NEW s, NEW p, Conveys(s, p), s # <<>>, NEW f, NEW q, Carries(f), Brings(f, q),
         f.at \in CelFrames => Last(s).at \in CelFrames /\ f.object = Last(s).object,
         f.at \in PythonFrames => Last(s).at \in PythonFrames /\ f.value = Last(s).value
  PROVE  Conveys(Append(Front(s), f), q)
<1>. DEFINE t == Append(Front(s), f)
<1>1. /\ Len(s) \in Nat \ {0} /\ IsSeq(Front(s)) /\ Len(Front(s)) = Len(s) - 1
      /\ \A k \in 1..(Len(s) - 1) : Front(s)[k] = s[k]
  BY FrontSeq DEF Conveys
<1>2. /\ IsSeq(t) /\ Len(t) = Len(s) /\ t[Len(s)] = f
      /\ \A k \in 1..(Len(s) - 1) : t[k] = s[k]
  BY <1>1, AppendSeq
<1>. HIDE DEF t
<1>3. Len(s) # 1 => Serves(s[Len(s) - 1], Last(s))
  BY <1>1 DEF Conveys, Last
<1>4. Len(s) # 1 => Serves(s[Len(s) - 1], f)
  BY <1>3 DEF Serves
<1>5. ASSUME NEW k \in 1..Len(t)
      PROVE  /\ Carries(t[k])
             /\ k # 1 => Serves(t[k - 1], t[k])
             /\ IF k = Len(t) THEN Brings(t[k], q)
                              ELSE t[k].at \in PythonFrames => WaitsForItem(t[k])
  <2>1. CASE k = Len(s)
    <3>1. k # 1 => k - 1 \in 1..(Len(s) - 1)
      BY <1>1, <2>1
    <3>2. k # 1 => t[k - 1] = s[k - 1]
      BY <1>2, <3>1
    <3>. QED  BY <1>2, <1>4, <2>1, <3>2
  <2>2. CASE k # Len(s)
    <3>1. /\ t[k] = s[k] /\ k \in 1..Len(s)
          /\ k # 1 => t[k - 1] = s[k - 1]
      BY <1>1, <1>2, <2>2
    <3>2. Carries(s[k]) /\ (k # 1 => Serves(s[k - 1], s[k]))
      BY <3>1 DEF Conveys
    <3>3. s[k].at \in PythonFrames => WaitsForItem(s[k])
      BY <2>2, <3>1 DEF Conveys
    <3>. QED  BY <1>2, <2>2, <3>1, <3>2, <3>3
  <2>. QED  BY <2>1, <2>2
<1>. QED  BY <1>2, <1>5 DEF Conveys, t

\* The stack stays and the innermost frame is brought something else.
LEMMA ConveyKeep ==
  ASSUME NEW s, NEW p, Conveys(s, p), s # <<>>, NEW q, Brings(Last(s), q)
  PROVE  Conveys(s, q)
<1>1. Len(s) \in 1..Len(s)
  BY SeqPlaces DEF Conveys
<1>. QED  BY <1>1 DEF Conveys, Last

\* Nothing is conveyed where nothing is converted.
LEMMA ConveyNothing == ASSUME NEW q PROVE Conveys(<<>>, q)
<1>1. <<>> \in Seq({}) /\ Len(<<>>) = 0
  OBVIOUS
<1>. QED  BY <1>1 DEF Conveys, IsSeq

\* A conversion to CEL goes on, or gives a value that is well made.
LEMMA CelBrings ==
  ASSUME NestedInv, ConveyInv, step.do \in {"toCel", "released"}, UNCHANGED stack,
         step'.object = step.object,
         \/ step'.do = "toCel"
         \/ step'.do = "released" /\ step.object.type \in DOMAIN MessageNames
         \/ step'.do = "cel" /\ (Failed(step'.value) \/ Proper(step'.value))
  PROVE  Conveys(stack', step')
<1>1. stack # <<>> /\ Matches(Top.at, step) /\ Brings(Top, step)
  BY TopRuns, ConveyTop DEF Idle, ConveyInv, Top, Runs
<1>2. Top.at \notin PythonFrames
  BY <1>1 DEF Matches, AwaitCel, PythonFrames, CelItems, PythonItems
<1>3. Brings(Top, step')
  BY <1>1, <1>2 DEF Brings
<1>. QED  BY <1>1, <1>3, ConveyKeep DEF ConveyInv, Top

\* A list or dict returns its value to the frame that waits for it, or fails.
LEMMA CelBringsBack ==
  ASSUME NestedInv, ConveyInv, stack # <<>>, Top.at \in CelFrames, NEW v, NEW o,
         Return(CelResult(v, o)), Failed(v) \/ (Proper(v) /\ o = Top.object)
  PROVE  Conveys(stack', step')
<1>1. /\ Front(stack) # <<>> => Serves(Last(Front(stack)), Top)
      /\ Front(stack) # <<>> => Calls(Last(Front(stack)), Top)
  BY ConveyTop, NestedTop DEF ConveyInv, NestedInv, Top
<1>2. Front(stack) # <<>> => Brings(Last(Front(stack)), CelResult(v, o))
  BY <1>1 DEF Brings, Serves, Calls, CelResult, AwaitCel, AwaitPython, PythonFrames, CelFrames,
              DictFrames
<1>. QED  BY <1>2, ConveyPop DEF Return, ConveyInv

\* The innermost frame of a list or dict goes on.
LEMMA CelBringsOn ==
  ASSUME NestedInv, ConveyInv, stack # <<>>, Top.at \in CelFrames, NEW f, NEW q, Again(f, q),
         f.at \in CelFrames, f.object = Top.object, Carries(f),
         q = CelItems \/ (q.do = "toCel" /\ q.object = AwaitedObject(f))
  PROVE  Conveys(stack', step')
<1>1. Brings(f, q)
  BY DEF Brings, CelItems, CelFrames, DictFrames, PythonFrames
<1>2. f.at \notin PythonFrames
  BY DEF CelFrames, DictFrames, PythonFrames
<1>. QED  BY <1>1, <1>2, ConveySet DEF Again, ConveyInv, Top

\* Every value of a leaf is well made.
LEMMA LeafProper ==
  ASSUME NEW k \in Leaves, NEW d, k = "null" => d = "None",
         k = "int" => d \in {"negative", "small"}, k = "uint" => d \in {"small", "big"}
  PROVE  Proper(Value(k, d, <<>>))
BY DEF Proper, Ok, Value, Leaves

\* So is what WrapMessage makes.
LEMMA WrappedProper ==
  ASSUME NEW o, o.type \in DOMAIN MessageNames
  PROVE  Proper(Wrapped(o))
<1>1. <<>> \in Seq({}) /\ Len(<<>>) = 0
  OBVIOUS
<1>2. IsSeq(<<>>)
  BY <1>1 DEF IsSeq
<1>3. o.type \in {"TestAllTypes", "Lost", "Int32Value", "ListValue", "Struct", "Timestamp",
                  "Duration"}
  BY DEF MessageNames
<1>4. CASE o.type \in {"Int32Value", "Timestamp", "Duration"}
  <2>1. Wrapped(o) \in
          {Value("int", "negative", <<>>), Value("int", "small", <<>>),
           Value("timestamp", o.data, <<>>), Value("duration", o.data, <<>>)}
    BY <1>4 DEF Wrapped
  <2>. QED  BY <2>1, LeafProper DEF Leaves
<1>5. CASE o.type \in {"ListValue", "Struct"}
  <2>1. Wrapped(o) \in {Value("list", NoData, <<>>), Value("map", NoData, <<>>)}
    BY <1>5 DEF Wrapped
  <2>2. \A kind \in {"list", "map"} : Ok(Value(kind, NoData, <<>>))
    BY <1>2 DEF Ok, Value
  <2>3. \A kind \in {"list", "map"} : Proper(Value(kind, NoData, <<>>))
    BY <1>1, <2>2 DEF Proper, Value
  <2>. QED  BY <2>1, <2>3
<1>6. CASE o.type \in {"TestAllTypes", "Lost"}
  BY <1>6 DEF Wrapped, Proper, Ok, Value
<1>. QED  BY <1>3, <1>4, <1>5, <1>6

\* The steps of PyObjectToCelValue that are about no items give values that are
\* well made.
LEMMA LeafConveyed ==
  ASSUME NestedInv, ConveyInv,
         \/ ConvertNothing \/ ConvertDyn \/ ConvertNull \/ ConvertBool \/ ConvertNumber
         \/ ConvertString \/ ConvertBytes \/ ConvertTime \/ ConvertMessage \/ LookupRaises
         \/ FinishMessage \/ ConvertOther
  PROVE  Conveys(stack', step')
<1>. DEFINE Gives == \E v : Give(v) /\ (Failed(v) \/ Proper(v))
            Runs1 == step.do \in {"toCel", "released"}
<1>1. ASSUME Gives, Runs1 PROVE Conveys(stack', step')
  BY <1>1, CelBrings DEF Give, Goto, CelResult
<1>2. ASSUME NEW f PROVE Failed(ErrorValue(f)) /\ Failed(Status(f))
  BY OwnFaults
<1>3. ASSUME NEW d, Make(d), step.type.kind \in Leaves, step.type.kind = "null" => d = "None",
             step.type.kind = "int" => d \in {"negative", "small"},
             step.type.kind = "uint" => d \in {"small", "big"}
      PROVE  Gives
  BY <1>3, LeafProper DEF Make
<1>4. ASSUME InvalidType PROVE Gives
  BY <1>2, <1>4 DEF InvalidType
<1>5. ASSUME NEW kinds, Converts(kinds) PROVE Runs1 /\ step.type.kind \in kinds
  BY <1>5 DEF Converts
<1>6. ASSUME NEW t, NEW b, Goto(ToCel(step.object, t, b)), Runs1 PROVE Conveys(stack', step')
  BY <1>6, CelBrings DEF Goto, ToCel
<1>. HIDE DEF Gives, Runs1
<1>7. CASE ConvertNothing \/ ConvertOther
  <2>1. Runs1
    BY <1>7 DEF ConvertNothing, ConvertOther, Converts, Runs1
  <2>2. Gives
    BY <1>2, <1>7 DEF ConvertNothing, ConvertOther, Gives
  <2>. QED  BY <1>1, <2>1, <2>2
<1>8. CASE ConvertDyn
  <2>1. Runs1
    BY <1>5, <1>8 DEF ConvertDyn
  <2>2. \/ Give(Status(Fault("type", step.object)))
        \/ Goto(ToCel(step.object, ForPyObject(step.object).type, TRUE))
    BY <1>8 DEF ConvertDyn
  <2>. QED  BY <1>1, <1>2, <1>6, <2>1, <2>2 DEF Gives
<1>9. CASE ConvertNull \/ ConvertBool \/ ConvertString \/ ConvertBytes
  <2>1. Runs1 /\ step.type.kind \in {"null", "bool", "string", "bytes"}
    BY <1>5, <1>9 DEF ConvertNull, ConvertBool, ConvertString, ConvertBytes
  <2>2. InvalidType \/ \E d : Make(d) /\ (step.type.kind = "null" => d = "None")
    BY <1>5, <1>9 DEF ConvertNull, ConvertBool, ConvertString, ConvertBytes
  <2>. QED  BY <1>1, <1>3, <1>4, <2>1, <2>2 DEF Leaves
<1>10. CASE ConvertNumber
  <2>1. Runs1 /\ step.type.kind \in {"int", "uint", "double"}
    BY <1>5, <1>10 DEF ConvertNumber
  <2>2. Fault("overflow", step.object) # None
    BY DEF Fault, None
  <2>3. \/ InvalidType \/ \E f : Give(ErrorValue(f))
        \/ Make(NumberOf(step.object)) /\ Fits(step.object, step.type.kind)
    BY <1>10, <2>2 DEF ConvertNumber
  <2>4. CASE Make(NumberOf(step.object)) /\ Fits(step.object, step.type.kind)
    <3>1. /\ step.type.kind = "int" => NumberOf(step.object) \in {"negative", "small"}
          /\ step.type.kind = "uint" => NumberOf(step.object) \in {"small", "big"}
      BY <2>4 DEF Fits, NumberOf
    <3>. QED  BY <1>1, <1>3, <2>1, <2>4, <3>1 DEF Leaves
  <2>. QED  BY <1>1, <1>2, <1>4, <2>1, <2>3, <2>4 DEF Gives
<1>11. CASE ConvertTime
  <2>1. Runs1 /\ step.type.kind \in {"timestamp", "duration"}
    BY <1>5, <1>11 DEF ConvertTime
  <2>2. \/ InvalidType
        \/ \E f : Give(Status(f)) \/ Give(ErrorValue(f))
        \/ Make(step.object.data)
    BY <1>11 DEF ConvertTime
  <2>. QED  BY <1>1, <1>2, <1>3, <1>4, <2>1, <2>2 DEF Gives, Leaves
<1>12. CASE ConvertMessage
  <2>1. Runs1
    BY <1>5, <1>12 DEF ConvertMessage
  <2>2. \/ InvalidType
        \/ \E f : Give(Status(f)) \/ Give(ErrorValue(f))
        \/ Goto(Released(step.object)) /\ step.object.type \in DOMAIN MessageNames
    BY <1>12 DEF ConvertMessage
  <2>3. CASE Goto(Released(step.object)) /\ step.object.type \in DOMAIN MessageNames
    BY <2>1, <2>3, CelBrings DEF Goto, Released, Runs1
  <2>. QED  BY <1>1, <1>2, <1>4, <2>1, <2>2, <2>3 DEF Gives
<1>13. CASE LookupRaises
  BY <1>13 DEF LookupRaises, ConveyInv
<1>14. CASE FinishMessage
  <2>1. Runs1 /\ step.do = "released"
    BY <1>14 DEF FinishMessage, Runs1
  <2>2. step.object.type \in DOMAIN MessageNames
    BY <2>1, TopRuns, ConveyTop DEF Idle, ConveyInv, Top, Brings
  <2>3. Failed(Parsed(step.object)) \/ Proper(Parsed(step.object))
    BY <1>2, <2>2, WrappedProper DEF Parsed
  <2>4. Gives
    BY <1>2, <1>14, <2>3 DEF FinishMessage, Gives
  <2>. QED  BY <1>1, <2>1, <2>4
<1>. QED  BY <1>7, <1>8, <1>9, <1>10, <1>11, <1>12, <1>13, <1>14

\* A list or a dict begins to be converted, or a message in its place.
LEMMA BeginConveyed ==
  ASSUME NestedInv, ConveyInv, BeginList \/ BeginMap
  PROVE  Conveys(stack', step')
<1>1. step.do = "toCel"
  BY DEF BeginList, BeginMap, Converts
<1>2. ASSUME NEW name, ConvertMessageAs(name) PROVE Conveys(stack', step')
  <2>1. \/ \E f : Give(Status(f)) \/ Give(ErrorValue(f))
        \/ Goto(ToCel(step.object, ForPyObject(step.object).type, TRUE))
    BY <1>2 DEF ConvertMessageAs, InvalidType
  <2>2. /\ UNCHANGED stack /\ step'.object = step.object
        /\ step'.do = "toCel" \/ (step'.do = "cel" /\ Failed(step'.value))
    BY <2>1, OwnFaults DEF Give, Goto, ToCel, CelResult
  <2>. QED  BY <1>1, <2>2, CelBrings
<1>3. ASSUME NEW at \in {"list", "map"}, NEW n, NEW f,
             \/ f = Frame(at, step.object, step.type, NoValue)
             \/ f = [Frame(at, step.object, step.type, NoValue) EXCEPT !.size = n],
             Call(f, CelItems)
      PROVE  Conveys(stack', step')
  <2>1. f.at = at /\ f.object = step.object /\ f.done = <<>>
    BY <1>3 DEF Frame
  <2>2. stack # <<>> /\ Matches(Top.at, step) /\ Brings(Top, step)
    BY <1>1, TopRuns, ConveyTop DEF Idle, ConveyInv, Top, Runs
  <2>3. Top.at \notin PythonFrames /\ f.at \in CelFrames /\ f.at \notin PythonFrames
    BY <1>1, <2>1, <2>2
    DEF Matches, AwaitCel, PythonFrames, CelFrames, DictFrames, CelItems, PythonItems
  <2>4. Len(f.done) = 0
    BY <2>1
  <2>5. Carries(f)
    BY <2>1, <2>3, <2>4 DEF Carries
  <2>6. Brings(f, CelItems) /\ Serves(Top, f)
    BY <1>1, <2>1, <2>2, <2>3 DEF Brings, Serves, CelItems
  <2>. QED  BY <1>3, <2>2, <2>3, <2>5, <2>6, ConveyPush DEF Call, ConveyInv, Top
<1>4. CASE BeginList
  BY <1>2, <1>3, <1>4 DEF BeginList
<1>5. CASE BeginMap
  BY <1>2, <1>3, <1>5 DEF BeginMap
<1>. QED  BY <1>4, <1>5

\* The innermost frame of a list or dict that is converted.
LEMMA CelTop ==
  ASSUME NestedInv, ConveyInv, step.do \in {"cel", "celItems"}, stack # <<>>,
         Top.at \in CelFrames
  PROVE  /\ DOMAIN Top = Fields /\ Carries(Top) /\ Brings(Top, step)
         /\ Runs(contents, Top, step)
         /\ IsSeq(Top.done) /\ IsSeq(Top.from) /\ Len(Top.done) = Len(Top.from)
         /\ Top.at = "list" => ListOK(contents, Top)
         /\ Top.at \in DictFrames => DictOK(contents, Top)
<1>1. Runs(contents, Top, step) /\ Holds(contents, Top) /\ DOMAIN Top = Fields
  BY TopRuns DEF Idle
<1>2. Carries(Top) /\ Brings(Top, step)
  BY ConveyTop DEF ConveyInv, Top
<1>. QED  BY <1>1, <1>2 DEF Holds, ListOK, DictOK, CelFrames

\* A list takes its next item, or its value is complete.
LEMMA NextItemConveyed == NestedInv /\ ConveyInv /\ NextItem => Conveys(stack', step')
<1>. SUFFICES ASSUME NestedInv, ConveyInv, NextItem PROVE Conveys(stack', step')
  OBVIOUS
<1>1. step.do = "celItems" /\ stack # <<>> /\ Top.at = "list" /\ Top.at \in CelFrames
  BY DEF NextItem, In, CelFrames
<1>2. /\ DOMAIN Top = Fields /\ Carries(Top) /\ IsSeq(Top.done)
  BY <1>1, CelTop
<1>. DEFINE i == Top.pos + 1
            items == Items(Top.object)
            Takes(e, o) == \E t : Again([Top EXCEPT !.pos = i, !.entry = e], ToCel(o, t, FALSE))
<1>3. ASSUME NEW e, NEW o, e.value = o, Takes(e, o) PROVE Conveys(stack', step')
  <2>. PICK t : Again([Top EXCEPT !.pos = i, !.entry = e], ToCel(o, t, FALSE))
    BY <1>3
  <2>. DEFINE f == [Top EXCEPT !.pos = i, !.entry = e]
  <2>1. /\ f.at = "list" /\ f.entry = e /\ f.done = Top.done /\ f.object = Top.object
    BY <1>1, <1>2 DEF Fields
  <2>2. Again(f, ToCel(o, t, FALSE))
    OBVIOUS
  <2>. HIDE DEF f
  <2>3. Carries(f)
    BY <1>1, <1>2, <2>1 DEF Carries, DictFrames, PythonFrames
  <2>4. AwaitedObject(f) = o
    BY <1>3, <2>1 DEF AwaitedObject
  <2>. QED  BY <1>1, <2>1, <2>2, <2>3, <2>4, CelBringsOn DEF ToCel
<1>4. ASSUME Return(CelResult(Value("list", NoData, Top.done), Top.object))
      PROVE  Conveys(stack', step')
  <2>1. Proper(Value("list", NoData, Top.done))
    BY <1>1, <1>2 DEF Proper, Ok, Value, Carries
  <2>. QED  BY <1>1, <1>4, <2>1, CelBringsBack
<1>5. \/ Return(CelResult(Value("list", NoData, Top.done), Top.object))
      \/ Takes(Pair(nullptr, items[i]), items[i])
      \/ Takes(Removed, nullptr)
  BY DEF NextItem
<1>6. Pair(nullptr, items[i]).value = items[i] /\ Removed.value = nullptr
  BY DEF Pair, Removed
<1>. HIDE DEF items, i, Takes
<1>. QED  BY <1>3, <1>4, <1>5, <1>6

\* What failed is refused, whatever the frame.
LEMMA Refused ==
  ASSUME NestedInv, ConveyInv, stack # <<>>, Top.at \in CelFrames, Refuse
  PROVE  Conveys(stack', step')
BY CelBringsBack, OwnFaults DEF Refuse

\* An item is added.
LEMMA AddItemConveyed == NestedInv /\ ConveyInv /\ AddItem => Conveys(stack', step')
<1>. SUFFICES ASSUME NestedInv, ConveyInv, AddItem PROVE Conveys(stack', step')
  OBVIOUS
<1>1. step.do = "cel" /\ stack # <<>> /\ Top.at = "list" /\ Top.at \in CelFrames
  BY DEF AddItem, In, CelFrames
<1>2. /\ DOMAIN Top = Fields /\ Carries(Top) /\ Brings(Top, step) /\ IsSeq(Top.done)
  BY <1>1, CelTop
<1>3. CASE ~Failed(step.value) /\ ~Refuse
  <2>. DEFINE f == [Top EXCEPT !.done = Append(@, step.value),
                               !.from = Append(@, Top.entry.value)]
  <2>1. f.at = "list" /\ f.done = Append(Top.done, step.value) /\ f.object = Top.object
    BY <1>1, <1>2 DEF Fields
  <2>2. Again(f, CelItems)
    BY <1>3 DEF AddItem
  <2>. HIDE DEF f
  <2>3. Ok(step.value)
    BY <1>1, <1>2, <1>3 DEF Brings, Proper
  <2>4. \A i \in 1..Len(f.done) : Ok(f.done[i])
    BY <1>1, <1>2, <2>1, <2>3, AppendSeq, SeqPlaces DEF Carries
  <2>5. Carries(f)
    BY <2>1, <2>4 DEF Carries, DictFrames, PythonFrames
  <2>. QED  BY <1>1, <2>1, <2>2, <2>5, CelBringsOn
<1>4. CASE Refuse
  BY <1>1, <1>4, Refused
<1>. QED  BY <1>3, <1>4 DEF AddItem

\* A dict's next entry, or the end of its value.
LEMMA NextEntryConveyed == NestedInv /\ ConveyInv /\ NextEntry => Conveys(stack', step')
<1>. SUFFICES ASSUME NestedInv, ConveyInv, NextEntry PROVE Conveys(stack', step')
  OBVIOUS
<1>1. step.do = "celItems" /\ stack # <<>> /\ Top.at = "map" /\ Top.at \in CelFrames
  BY DEF NextEntry, In, CelFrames, DictFrames
<1>2. /\ DOMAIN Top = Fields /\ Carries(Top) /\ IsSeq(Top.done)
  BY <1>1, CelTop
<1>3. CASE Return(CelResult(Value("map", NoData, Top.done), Top.object))
  <2>. DEFINE v == Value("map", NoData, Top.done)
  <2>1. v.kind = "map" /\ v.data = NoData /\ v.items = Top.done
    BY DEF Value
  <2>2. \A i \in 1..Len(Top.done) : Ok(Top.done[i].key) /\ Ok(Top.done[i].value)
    BY <1>1, <1>2 DEF Carries, DictFrames
  <2>. HIDE DEF v
  <2>3. Proper(v)
    BY <1>2, <2>1, <2>2 DEF Proper, Ok
  <2>. QED  BY <1>1, <1>3, <2>3, CelBringsBack DEF v
<1>4. ASSUME NEW i, NEW e, NEW t,
             Again([Top EXCEPT !.at = "key", !.pos = i, !.entry = e], ToCel(e.key, t, FALSE))
      PROVE  Conveys(stack', step')
  <2>. DEFINE f == [Top EXCEPT !.at = "key", !.pos = i, !.entry = e]
  <2>1. /\ f.at = "key" /\ f.entry = e /\ f.done = Top.done /\ f.object = Top.object
    BY <1>1, <1>2 DEF Fields
  <2>2. Again(f, ToCel(e.key, t, FALSE))
    BY <1>4
  <2>. HIDE DEF f
  <2>3. Carries(f) /\ f.at \in CelFrames
    BY <1>1, <1>2, <2>1 DEF Carries, CelFrames, DictFrames, PythonFrames
  <2>4. AwaitedObject(f) = e.key
    BY <2>1 DEF AwaitedObject
  <2>. QED  BY <1>1, <2>1, <2>2, <2>3, <2>4, CelBringsOn DEF ToCel
<1>. QED  BY <1>3, <1>4 DEF NextEntry

\* The value of an entry after its key.
LEMMA EntryValueConveyed ==
  NestedInv /\ ConveyInv /\ ConvertEntryValue => Conveys(stack', step')
<1>. SUFFICES ASSUME NestedInv, ConveyInv, ConvertEntryValue PROVE Conveys(stack', step')
  OBVIOUS
<1>1. step.do = "cel" /\ stack # <<>> /\ Top.at = "key" /\ Top.at \in CelFrames
  BY DEF ConvertEntryValue, In, CelFrames, DictFrames
<1>2. /\ DOMAIN Top = Fields /\ Carries(Top) /\ Brings(Top, step)
  BY <1>1, CelTop
<1>3. CASE Again([Top EXCEPT !.at = "value", !.key = step.value],
                 ToCel(Top.entry.value, Top.type.params[2], FALSE))
  <2>. DEFINE f == [Top EXCEPT !.at = "value", !.key = step.value]
              q == ToCel(Top.entry.value, Top.type.params[2], FALSE)
  <2>1. /\ f.at = "value" /\ f.entry = Top.entry /\ f.key = step.value /\ f.done = Top.done
        /\ f.object = Top.object
    BY <1>1, <1>2 DEF Fields
  <2>2. Again(f, q) /\ q.do = "toCel" /\ q.object = Top.entry.value
    BY <1>3 DEF ToCel
  <2>. HIDE DEF f, q
  <2>3. Failed(f.key) \/ Ok(f.key)
    BY <1>1, <1>2, <2>1 DEF Brings, Proper
  <2>4. Carries(f) /\ f.at \in CelFrames
    BY <1>1, <1>2, <2>1, <2>3 DEF Carries, CelFrames, DictFrames, PythonFrames
  <2>5. AwaitedObject(f) = Top.entry.value
    BY <2>1 DEF AwaitedObject
  <2>. QED  BY <1>1, <2>1, <2>2, <2>4, <2>5, CelBringsOn
<1>. QED  BY <1>1, <1>3, Refused DEF ConvertEntryValue

\* An entry is put, or refused for its key, its value or its being there already.
LEMMA PutEntryConveyed == NestedInv /\ ConveyInv /\ PutEntry => Conveys(stack', step')
<1>. SUFFICES ASSUME NestedInv, ConveyInv, PutEntry PROVE Conveys(stack', step')
  OBVIOUS
<1>1. step.do = "cel" /\ stack # <<>> /\ Top.at = "value" /\ Top.at \in CelFrames
  BY DEF PutEntry, In, CelFrames, DictFrames
<1>2. /\ DOMAIN Top = Fields /\ Carries(Top) /\ Brings(Top, step) /\ IsSeq(Top.done)
  BY <1>1, CelTop
<1>. DEFINE f == [Top EXCEPT !.at = "map",
                             !.done = Append(@, Pair(Top.key, step.value)),
                             !.from = Append(@, Top.entry)]
<1>3. \/ Refuse \/ \E fault : Return(CelResult(Status(fault), Top.entry.key))
      \/ ~Failed(Top.key) /\ ~Failed(step.value) /\ Again(f, CelItems)
  BY DEF PutEntry, Failed
<1>4. /\ f.at = "map" /\ f.done = Append(Top.done, Pair(Top.key, step.value))
      /\ f.object = Top.object
  BY <1>1, <1>2 DEF Fields
<1>. HIDE DEF f
<1>5. CASE ~Failed(Top.key) /\ ~Failed(step.value) /\ Again(f, CelItems)
  <2>1. Ok(Top.key) /\ Ok(step.value)
    BY <1>1, <1>2, <1>5 DEF Brings, Carries, Proper
  <2>2. ASSUME NEW i \in 1..Len(f.done) PROVE Ok(f.done[i].key) /\ Ok(f.done[i].value)
    <3>1. CASE i \in 1..Len(Top.done)
      BY <1>1, <1>2, <1>4, <3>1, AppendSeq DEF Carries, DictFrames
    <3>2. CASE i \notin 1..Len(Top.done)
      BY <1>2, <1>4, <2>1, <2>2, <3>2, AppendSeq, SeqPlaces DEF Pair
    <3>. QED  BY <3>1, <3>2
  <2>3. Carries(f) /\ f.at \in CelFrames
    BY <1>4, <2>2 DEF Carries, CelFrames, DictFrames, PythonFrames
  <2>. QED  BY <1>1, <1>4, <1>5, <2>3, CelBringsOn
<1>. QED  BY <1>1, <1>3, <1>5, Refused, CelBringsBack, OwnFaults

\* Conversions to CEL.
LEMMA ToCelConveyed == NestedInv /\ ConveyInv /\ ToCelStep => Conveys(stack', step')
BY LeafConveyed, BeginConveyed, NextItemConveyed, AddItemConveyed, NextEntryConveyed,
   EntryValueConveyed, PutEntryConveyed DEF ToCelStep

\* A leaf, a message or a container of a message's field needs no items.
LEMMA StandsPlain ==
  ASSUME NEW w, NEW o
  PROVE  /\ w.kind \in DOMAIN PythonTypes /\ o = Object(PythonTypes[w.kind], w.data, <<>>) =>
              StandsForAll(o, w)
         /\ w.kind = "message" /\ o = Object(w.items[1], w.data, <<>>) => StandsForAll(o, w)
         /\ o = nullptr \/ IsField(w) => StandsForAll(o, w)
BY DEF StandsForAll, StandsFor, PythonTypes, IsField

\* The innermost frame of a value that is converted.
LEMMA PythonTop ==
  ASSUME NestedInv, ConveyInv, step.do \in {"toPython", "object", "pythonItems"}
  PROVE  /\ stack # <<>> /\ DOMAIN Top = Fields /\ Carries(Top) /\ Brings(Top, step)
         /\ Matches(Top.at, step) /\ Top.at \in AwaitPython
BY TopRuns, ConveyTop
DEF Idle, ConveyInv, Top, Runs, Matches, AwaitPython, CelItems, PythonItems

\* An object is given for the value that is converted, or nothing is any more.
LEMMA PythonBrings ==
  ASSUME NestedInv, ConveyInv, step.do \in {"toPython", "object"}, UNCHANGED stack,
         \/ step' = Crashed
         \/ step.do = "toPython" /\ \E o : step' = PythonResult(o) /\ StandsForAll(o, step.value)
  PROVE  Conveys(stack', step')
<1>1. /\ stack # <<>> /\ Brings(Top, step)
  BY PythonTop
<1>2. Brings(Top, step')
  BY <1>1 DEF Brings, Crashed, PythonResult, PythonItems
<1>. QED  BY <1>1, <1>2, ConveyKeep DEF ConveyInv, Top

\* A list or dict is returned to the frame that waits for it.
LEMMA PythonBringsBack ==
  ASSUME NestedInv, ConveyInv, stack # <<>>, Top.at \in PythonFrames, NEW o,
         Return(PythonResult(o)), StandsForAll(o, Top.value)
  PROVE  Conveys(stack', step')
<1>1. Front(stack) # <<>> =>
        /\ Serves(Last(Front(stack)), Top) /\ Calls(Last(Front(stack)), Top)
        /\ Last(Front(stack)).at \in PythonFrames => WaitsForItem(Last(Front(stack)))
  BY ConveyTop, NestedTop DEF ConveyInv, NestedInv, Top
<1>2. Front(stack) # <<>> => Brings(Last(Front(stack)), PythonResult(o))
  BY <1>1 DEF Brings, Serves, PythonResult, PythonItems
<1>. QED  BY <1>2, ConveyPop DEF Return, ConveyInv

\* The innermost frame of a list or map goes on.
LEMMA PythonBringsOn ==
  ASSUME NestedInv, ConveyInv, stack # <<>>, Top.at \in PythonFrames, NEW f, NEW q,
         Again(f, q), f.at \in PythonFrames, f.value = Top.value, ItemsStand(f),
         \/ q = PythonItems /\ f.pos = Len(f.done)
         \/ q.do = "toPython" /\ q.value = AwaitedValue(f) /\ WaitsForItem(f)
  PROVE  Conveys(stack', step')
<1>1. Brings(f, q)
  BY DEF Brings, PythonItems
<1>2. f.at \notin CelFrames /\ Carries(f)
  BY DEF CelFrames, DictFrames, PythonFrames, Carries
<1>. QED  BY <1>1, <1>2, ConveySet DEF Again, ConveyInv, Top

\* The next item of a list or map, or all of them are converted.
LEMMA NextPythonConveyed == NestedInv /\ ConveyInv /\ NextPythonItem => Conveys(stack', step')
<1>. SUFFICES ASSUME NestedInv, ConveyInv, NextPythonItem PROVE Conveys(stack', step')
  OBVIOUS
<1>. DEFINE i == Top.pos + 1
            items == Top.value.items
            type == IF Top.value.kind = "list" THEN "list" ELSE "dict"
<1>1. step = PythonItems /\ Top.at = "python" /\ Top.at \in PythonFrames
  <2>1. step.do = "pythonItems" /\ Top.at = "python"
    BY DEF NextPythonItem, In
  <2>2. Matches(Top.at, step)
    BY <2>1, PythonTop
  <2>. QED  BY <2>1, <2>2 DEF Matches, AwaitPython, PythonFrames
<1>2. /\ stack # <<>> /\ DOMAIN Top = Fields /\ Carries(Top) /\ Brings(Top, step)
  BY <1>1, PythonTop DEF PythonItems
<1>3. ItemsStand(Top) /\ Top.pos = Len(Top.done)
  BY <1>1, <1>2 DEF Carries, Brings
<1>4. CASE i > Len(items) /\ Return(PythonResult(Made(type)))
  <2>1. StandsFor(Made(type), Top.value)
    BY <1>3 DEF StandsFor, Made, Object, ItemsStand
  <2>2. ASSUME ~IsField(Top.value), IsSeq(items)
        PROVE  /\ IsSeq(Made(type).items) /\ Len(Made(type).items) = Len(items)
               /\ \A k \in 1..Len(items) :
                    IF Top.value.kind = "list"
                      THEN StandsFor(Made(type).items[k], items[k])
                      ELSE EntryStands(Made(type).items[k], items[k])
    <3>1. Made(type).items = Top.done
      BY DEF Made, Object
    <3>2. Len(Top.done) = Len(items)
      BY <1>3, <1>4, <2>2, SeqPlaces DEF ItemsStand
    <3>. HIDE DEF type
    <3>. QED  BY <1>3, <2>2, <3>1, <3>2 DEF ItemsStand
  <2>. HIDE DEF type
  <2>3. StandsForAll(Made(type), Top.value)
    BY <2>1, <2>2 DEF StandsForAll
  <2>. QED  BY <1>1, <1>2, <1>4, <2>3, PythonBringsBack
<1>5. ASSUME NEW f, NEW v, Again(f, ToPython(v)), ~(i > Len(items)),
             \/ f = [Top EXCEPT !.pos = i] /\ Top.value.kind = "list" /\ v = items[i]
             \/ /\ f = [Top EXCEPT !.pos = i, !.at = "pythonKey"] /\ Top.value.kind = "map"
                /\ v = items[i].key
      PROVE  Conveys(stack', step')
  <2>1. /\ f.pos = i /\ f.done = Top.done /\ f.value = Top.value
        /\ \/ f.at = "python" /\ Top.value.kind = "list" /\ v = items[i]
           \/ f.at = "pythonKey" /\ Top.value.kind = "map" /\ v = items[i].key
    BY <1>1, <1>2, <1>5 DEF Fields
  <2>2. i \in Nat /\ i = Len(f.done) + 1
    BY <1>3, <2>1 DEF ItemsStand
  <2>3. AwaitedValue(f) = v /\ f.at \in PythonFrames
    BY <2>1 DEF AwaitedValue, PythonFrames
  <2>. HIDE DEF i
  <2>4. ItemsStand(f)
    BY <1>3, <1>5, <2>1, <2>2 DEF ItemsStand
  <2>5. WaitsForItem(f)
    BY <2>1, <2>2 DEF WaitsForItem
  <2>. QED  BY <1>1, <1>2, <1>5, <2>1, <2>3, <2>4, <2>5, PythonBringsOn DEF ToPython
<1>6. \/ i > Len(items) /\ Return(PythonResult(Made(type)))
      \/ /\ ~(i > Len(items)) /\ Top.value.kind = "list"
         /\ Again([Top EXCEPT !.pos = i], ToPython(items[i]))
      \/ /\ ~(i > Len(items)) /\ Top.value.kind # "list"
         /\ Again([Top EXCEPT !.pos = i, !.at = "pythonKey"], ToPython(items[i].key))
  BY DEF NextPythonItem
<1>7. Top.value.kind \in {"list", "map"}
  BY <1>3 DEF ItemsStand
<1>. HIDE DEF i, items, type
<1>. QED  BY <1>4, <1>5, <1>6, <1>7

\* An object is added, or the key of an entry kept until its value is there.
LEMMA AddPythonConveyed ==
  ASSUME NestedInv, ConveyInv, AddPythonItem \/ AddPythonKey
  PROVE  Conveys(stack', step')
<1>1. step.do = "object" /\ stack # <<>> /\ Top.at \in PythonFrames
  BY DEF AddPythonItem, AddPythonKey, In, PythonFrames
<1>2. /\ DOMAIN Top = Fields /\ Carries(Top) /\ Brings(Top, step)
  BY <1>1, PythonTop
<1>3. ItemsStand(Top) /\ WaitsForItem(Top) /\ StandsForAll(step.object, AwaitedValue(Top))
  BY <1>1, <1>2 DEF Carries, Brings, PythonItems
<1>4. StandsFor(step.object, AwaitedValue(Top))
  BY <1>3 DEF StandsForAll
<1>5. ASSUME NEW d, Top.at = "python", Again([Top EXCEPT !.done = Append(@, d)], PythonItems),
             IF Top.value.kind = "list"
               THEN StandsFor(d, Top.value.items[Top.pos])
               ELSE EntryStands(d, Top.value.items[Top.pos])
      PROVE  Conveys(stack', step')
  <2>. DEFINE f == [Top EXCEPT !.done = Append(@, d)]
  <2>1. /\ f.at = "python" /\ f.done = Append(Top.done, d) /\ f.pos = Top.pos
        /\ f.value = Top.value
    BY <1>2, <1>5 DEF Fields
  <2>2. Again(f, PythonItems)
    BY <1>5
  <2>. HIDE DEF f
  <2>3. /\ IsSeq(f.done) /\ Len(f.done) = Top.pos
        /\ \A i \in 1..(Top.pos - 1) : f.done[i] = Top.done[i]
        /\ f.done[Top.pos] = d /\ Len(Top.done) = Top.pos - 1 /\ Top.pos \in Nat
    BY <1>3, <2>1, AppendSeq, SeqPlaces DEF ItemsStand, WaitsForItem
  <2>4. ASSUME NEW i \in 1..Len(f.done), ~IsField(Top.value), IsSeq(Top.value.items)
        PROVE  IF Top.value.kind = "list"
                 THEN StandsFor(f.done[i], Top.value.items[i])
                 ELSE EntryStands(f.done[i], Top.value.items[i])
    <3>1. CASE i = Top.pos
      BY <1>5, <2>3, <3>1
    <3>2. CASE i # Top.pos
      <4>1. i \in 1..Len(Top.done) /\ f.done[i] = Top.done[i]
        BY <2>3, <2>4, <3>2
      <4>. QED  BY <1>3, <2>4, <4>1 DEF ItemsStand
    <3>. QED  BY <3>1, <3>2
  <2>5. ItemsStand(f)
    BY <1>3, <2>1, <2>3, <2>4 DEF ItemsStand
  <2>. QED  BY <1>1, <2>1, <2>2, <2>3, <2>5, PythonBringsOn DEF PythonFrames
<1>6. CASE AddPythonItem
  <2>1. Top.at = "python"
    BY <1>6 DEF AddPythonItem, In
  <2>2. Top.value.kind \in {"list", "map"}
    BY <1>3 DEF ItemsStand
  <2>3. CASE /\ Top.value.kind = "list"
             /\ Again([Top EXCEPT !.done = Append(@, step.object)], PythonItems)
    BY <1>4, <1>5, <2>1, <2>3 DEF AwaitedValue
  <2>4. CASE /\ Top.value.kind = "map" /\ step.object # nullptr
             /\ Again([Top EXCEPT !.done = Append(@, Pair(Top.entry.key, step.object))],
                      PythonItems)
    <3>1. EntryStands(Pair(Top.entry.key, step.object), Top.value.items[Top.pos])
      BY <1>3, <1>4, <2>1, <2>4 DEF EntryStands, WaitsForItem, AwaitedValue, Pair
    <3>. QED  BY <1>5, <2>1, <2>4, <3>1
  <2>5. CASE Goto(Crashed)
    BY <1>1, <2>5, PythonBrings DEF Goto
  <2>. QED  BY <1>6, <2>2, <2>3, <2>4, <2>5 DEF AddPythonItem
<1>7. CASE AddPythonKey
  <2>. DEFINE f == [Top EXCEPT !.at = "python", !.entry = Pair(step.object, nullptr)]
              q == ToPython(Top.value.items[Top.pos].value)
  <2>1. Top.at = "pythonKey" /\ Again(f, q)
    BY <1>7 DEF AddPythonKey, In
  <2>2. /\ f.at = "python" /\ f.entry.key = step.object /\ f.done = Top.done
        /\ f.pos = Top.pos /\ f.value = Top.value
        /\ q.do = "toPython" /\ q.value = Top.value.items[Top.pos].value
    BY <1>2, <2>1 DEF Fields, Pair, ToPython
  <2>. HIDE DEF f, q
  <2>3. ItemsStand(f) /\ f.value.kind = "map"
    BY <1>3, <2>1, <2>2 DEF ItemsStand
  <2>4. WaitsForItem(f) /\ AwaitedValue(f) = q.value
    BY <1>3, <1>4, <2>1, <2>2, <2>3 DEF WaitsForItem, AwaitedValue
  <2>. QED  BY <1>1, <2>1, <2>2, <2>3, <2>4, PythonBringsOn DEF PythonFrames
<1>. QED  BY <1>6, <1>7

\* Conversions to Python.
LEMMA ToPythonConveyed == NestedInv /\ ConveyInv /\ ToPythonStep => Conveys(stack', step')
<1>. SUFFICES ASSUME NestedInv, ConveyInv, ToPythonStep PROVE Conveys(stack', step')
  OBVIOUS
<1>1. CASE LeafToPython
  <2>1. /\ step.do = "toPython" /\ step.value.kind \in DOMAIN PythonTypes /\ UNCHANGED stack
        /\ step' = PythonResult(Object(PythonTypes[step.value.kind], step.value.data, <<>>))
    BY <1>1 DEF LeafToPython, IsPython, Goto
  <2>. QED  BY <2>1, StandsPlain, PythonBrings
<1>2. CASE MessageToPython
  <2>1. /\ step.do = "toPython" /\ step.value.kind = "message" /\ UNCHANGED stack
        /\ \/ step' = PythonResult(Object(step.value.items[1], step.value.data, <<>>))
           \/ step' = PythonResult(nullptr)
    BY <1>2 DEF MessageToPython, IsPython, Goto
  <2>. QED  BY <2>1, StandsPlain, PythonBrings
<1>3. CASE ContainerToPython
  <2>. DEFINE f == Frame("python", nullptr, NoType, step.value)
  <2>1. step.do = "toPython" /\ step.value.kind \in {"list", "map"} /\ Call(f, PythonItems)
    BY <1>3 DEF ContainerToPython, IsPython
  <2>2. f.at = "python" /\ f.value = step.value /\ f.done = <<>> /\ f.pos = 0
    BY DEF Frame
  <2>. HIDE DEF f
  <2>3. <<>> \in Seq({}) /\ Len(<<>>) = 0
    OBVIOUS
  <2>4. IsSeq(f.done) /\ Len(f.done) = 0
    BY <2>2, <2>3 DEF IsSeq
  <2>5. ItemsStand(f)
    BY <2>1, <2>2, <2>4, SeqPlaces DEF ItemsStand
  <2>6. Carries(f) /\ Brings(f, PythonItems)
    BY <2>2, <2>4, <2>5 DEF Carries, Brings, PythonItems, DictFrames, PythonFrames
  <2>7. stack # <<>> /\ Brings(Top, step) /\ step # PythonItems
    BY <2>1, PythonTop DEF PythonItems
  <2>8. Serves(Top, f) /\ (Top.at \in PythonFrames => WaitsForItem(Top))
    BY <2>1, <2>2, <2>7 DEF Brings, Serves, CelFrames, DictFrames
  <2>. QED  BY <2>1, <2>6, <2>7, <2>8, ConveyPush DEF Call, ConveyInv, Top
<1>4. CASE NextPythonItem
  BY <1>4, NextPythonConveyed
<1>5. CASE ItemFails
  <2>1. step.do = "pythonItems" /\ stack # <<>> /\ Top.at \in PythonFrames
    BY <1>5 DEF ItemFails, In, PythonFrames
  <2>2. IsField(Top.value) /\ \E o : Return(PythonResult(o))
    BY <1>5 DEF ItemFails, IsField
  <2>. QED  BY <2>1, <2>2, StandsPlain, PythonBringsBack
<1>6. CASE AddPythonItem \/ AddPythonKey
  BY <1>6, AddPythonConveyed
<1>. QED  BY <1>1, <1>2, <1>3, <1>4, <1>5, <1>6 DEF ToPythonStep

\* A value is well made when it is in the evaluation.
LEMMA EvalConveyed == NestedInv /\ ConveyInv /\ EvalStep => ConveyInv'
<1>. SUFFICES ASSUME NestedInv, ConveyInv, EvalStep PROVE ConveyInv'
  OBVIOUS
<1>1. step.do \in Idle => stack = <<>>
  BY DEF NestedInv, Nested
<1>2. ASSUME stack # <<>>, Top.at \in Roots, stack' = Front(stack) PROVE stack' = <<>>
  BY <1>2, NestedTop DEF NestedInv, Top
<1>3. ASSUME stack' = <<>>, LastOK' PROVE ConveyInv'
  BY <1>3, ConveyNothing DEF ConveyInv
<1>4. ASSUME NEW f, NEW q, stack = <<>>, Call(f, q), UNCHANGED last, Carries(f), Brings(f, q)
      PROVE  ConveyInv'
  BY <1>4, ConveyPush DEF Call, ConveyInv, LastOK
<1>5. ASSUME NEW f, NEW q, stack # <<>>, Again(f, q), UNCHANGED last, Carries(f), Brings(f, q),
             f.at \in Roots
      PROVE  ConveyInv'
  <2>1. f.at \notin CelFrames /\ f.at \notin PythonFrames
    BY <1>5 DEF Roots, CelFrames, DictFrames, PythonFrames
  <2>. QED  BY <1>5, <2>1, ConveySet DEF Again, ConveyInv, LastOK
<1>6. ASSUME NEW at, NEW o, NEW t, NEW v
      PROVE  /\ Frame(at, o, t, v).at = at /\ Frame(at, o, t, v).object = o
             /\ Frame(at, o, t, v).value = v
  BY DEF Frame
<1>7. LastOK
  BY DEF ConveyInv
<1>8. CASE StartEval \/ EndEval \/ SelectField
  <2>1. stack' = <<>>
    BY <1>1, <1>8 DEF StartEval, EndEval, SelectField, Goto, Idle, InUser, InRuntime
  <2>2. CASE StartEval \/ EndEval
    BY <1>3, <1>7, <2>1, <2>2 DEF StartEval, EndEval, LastOK
  <2>3. CASE SelectField
    <3>1. IsField(last')
      BY <2>3 DEF SelectField, IsField, Value
    <3>. QED  BY <1>3, <2>1, <3>1 DEF LastOK
  <2>. QED  BY <1>8, <2>2, <2>3
<1>9. CASE LookupElsewhere
  BY <1>9 DEF LookupElsewhere, ConveyInv, LastOK, Inside
<1>10. CASE EndProvide \/ EndInvoke
  <2>1. step.do = "cel" /\ stack # <<>> /\ Top.at \in Roots /\ stack' = Front(stack)
    BY <1>10 DEF EndProvide, EndInvoke, In, Return, Roots
  <2>2. Failed(step.value) \/ Proper(step.value)
    BY <2>1, ConveyTop DEF ConveyInv, Top, Brings
  <2>3. last' = step.value \/ last' = NoValue \/ \E f : last' = ErrorValue(f)
    BY <1>10 DEF EndProvide, EndInvoke
  <2>. QED  BY <1>2, <1>3, <2>1, <2>2, <2>3, OwnFaults DEF LastOK
<1>11. CASE EndAccess \/ FunctionFails
  <2>1. stack' = <<>>
    BY <1>2, <1>11 DEF EndAccess, FunctionFails, In, Return, Roots
  <2>2. last' = last \/ \E f : last' = ErrorValue(f)
    BY <1>11 DEF EndAccess, FunctionFails, Inside
  <2>. QED  BY <1>3, <1>7, <2>1, <2>2, OwnFaults DEF LastOK
<1>12. CASE CallFunction
  <2>1. step.do = "object" /\ stack # <<>> /\ Top.at = "invoke" /\ UNCHANGED last
    BY <1>12 DEF CallFunction, In, Inside
  <2>2. DOMAIN Top = Fields /\ Carries(Top) /\ Brings(Top, step)
    BY <2>1, PythonTop
  <2>3. CASE Goto(Crashed)
    BY <1>7, <2>1, <2>3, PythonBrings DEF Goto, ConveyInv, LastOK
  <2>4. CASE Again([Top EXCEPT !.at = "function", !.from = <<step.object>>],
                   InFunction(step.object))
    <3>. DEFINE f == [Top EXCEPT !.at = "function", !.from = <<step.object>>]
    <3>1. f.at = "function" /\ f.from = <<step.object>> /\ f.value = Top.value
      BY <2>2 DEF Fields
    <3>2. Again(f, InFunction(step.object))
      BY <2>4
    <3>. HIDE DEF f
    <3>3. Carries(f)
      BY <2>1, <2>2, <3>1 DEF Carries, Brings, AwaitedValue, DictFrames, PythonFrames
    <3>4. Brings(f, InFunction(step.object))
      BY <3>1 DEF Brings, InFunction, PythonFrames
    <3>. QED  BY <1>5, <2>1, <3>1, <3>2, <3>3, <3>4 DEF Roots
  <2>. QED  BY <1>12, <2>3, <2>4 DEF CallFunction
<1>13. CASE Access
  <2>. DEFINE f == Frame("access", nullptr, NoType, last)
  <2>1. stack = <<>> /\ Call(f, ToPython(last)) /\ UNCHANGED last
    BY <1>1, <1>13 DEF Access, InUser, Idle, Inside
  <2>2. f.at = "access" /\ f.value = last
    BY <1>6
  <2>. HIDE DEF f
  <2>3. Carries(f) /\ Brings(f, ToPython(last))
    BY <2>2 DEF Carries, Brings, AwaitedValue, DictFrames, PythonFrames, ToPython
  <2>. QED  BY <1>4, <2>1, <2>3
<1>14. ASSUME NEW x, Provide(x) PROVE ConveyInv'
  <2>. DEFINE f == Frame("provide", x.object, x.type, NoValue)
              q == ToCel(x.object, x.type, FALSE)
  <2>1. stack = <<>> /\ Call(f, q) /\ UNCHANGED last
    BY <1>1, <1>14 DEF Provide, MayCallBack, InRuntime, Idle
  <2>2. f.at = "provide" /\ f.object = x.object /\ q.do = "toCel" /\ q.object = x.object
    BY <1>6 DEF ToCel
  <2>. HIDE DEF f, q
  <2>3. Carries(f) /\ Brings(f, q)
    BY <2>2 DEF Carries, Brings, AwaitedObject, DictFrames, PythonFrames
  <2>. QED  BY <1>4, <2>1, <2>3
<1>15. ASSUME NEW t, Invoke(t) PROVE ConveyInv'
  <2>. DEFINE f == Frame("invoke", nullptr, t, last)
  <2>1. stack = <<>> /\ Call(f, ToPython(last)) /\ UNCHANGED last
    BY <1>1, <1>15 DEF Invoke, MayCallBack, InRuntime, Idle
  <2>2. Proper(last) \/ IsField(last)
    BY <1>7, <1>15 DEF Invoke, LastOK
  <2>3. f.at = "invoke" /\ f.value = last
    BY <1>6
  <2>. HIDE DEF f
  <2>4. Carries(f) /\ Brings(f, ToPython(last))
    BY <2>2, <2>3 DEF Carries, Brings, AwaitedValue, DictFrames, PythonFrames, ToPython
  <2>. QED  BY <1>4, <2>1, <2>4
<1>16. ASSUME NEW o, FunctionReturns(o) PROVE ConveyInv'
  <2>. DEFINE f == [Top EXCEPT !.at = "result", !.object = o]
              q == ToCel(o, Top.type, FALSE)
  <2>1. step.do = "function" /\ stack # <<>> /\ Top.at = "function" /\ UNCHANGED last
    BY <1>16 DEF FunctionReturns, In, Inside
  <2>2. DOMAIN Top = Fields /\ Carries(Top)
    BY <2>1, TopRuns, ConveyTop DEF Idle, ConveyInv, Top
  <2>3. Again(f, q)
    BY <1>16 DEF FunctionReturns
  <2>4. /\ f.at = "result" /\ f.object = o /\ f.value = Top.value /\ f.from = Top.from
        /\ q.do = "toCel" /\ q.object = o
    BY <2>2 DEF Fields, ToCel
  <2>. HIDE DEF f, q
  <2>5. Carries(f) /\ Brings(f, q)
    BY <2>1, <2>2, <2>4 DEF Carries, Brings, AwaitedObject, DictFrames, PythonFrames
  <2>. QED  BY <1>5, <2>1, <2>3, <2>4, <2>5 DEF Roots
<1>. QED  BY <1>8, <1>9, <1>10, <1>11, <1>12, <1>13, <1>14, <1>15, <1>16 DEF EvalStep

\* Conversions leave the evaluation's value alone.
LEMMA LastStays == ToCelStep \/ ToPythonStep => UNCHANGED last
<1>1. ASSUME ToCelStep PROVE UNCHANGED last
  BY <1>1
  DEF ToCelStep, ConvertNothing, ConvertDyn, ConvertNull, ConvertBool, ConvertNumber,
      ConvertString, ConvertBytes, ConvertTime, ConvertMessage, LookupRaises, FinishMessage,
      BeginList, NextItem, AddItem, BeginMap, NextEntry, ConvertEntryValue, PutEntry,
      ConvertOther, Converts, Inside
<1>2. ASSUME ToPythonStep PROVE UNCHANGED last
  BY <1>2
  DEF ToPythonStep, LeafToPython, MessageToPython, ContainerToPython, NextPythonItem, ItemFails,
      AddPythonItem, AddPythonKey, IsPython, Inside
<1>. QED  BY <1>1, <1>2

\* No step breaks what values and objects have to do with each other.
LEMMA ConveyStep == NestedInv /\ ConveyInv /\ [Next]_vars => ConveyInv'
<1>. SUFFICES ASSUME NestedInv, ConveyInv, [Next]_vars PROVE ConveyInv'
  OBVIOUS
<1>1. CASE ToCelStep \/ ToPythonStep
  BY <1>1, ToCelConveyed, ToPythonConveyed, LastStays DEF ConveyInv, LastOK
<1>2. CASE UNCHANGED vars \/ \E c \in DOMAIN contents : Edit(c)
  BY <1>2 DEF vars, Edit, ConveyInv, LastOK
<1>. QED  BY <1>1, <1>2, EvalConveyed DEF Next

\* There is no value at first.
LEMMA ConveyInit == Init => ConveyInv
BY ConveyNothing DEF Init, ConveyInv, LastOK

\* The types of a result with type DYN and of what it has in it.
LEMMA DynTypes ==
  /\ Dyn.kind = "dyn" /\ ListType(Dyn).kind = "list" /\ ListType(Dyn).params[1] = Dyn
  /\ MapType(Dyn, Dyn).kind = "map" /\ MapType(Dyn, Dyn).params[1] = Dyn
  /\ MapType(Dyn, Dyn).params[2] = Dyn /\ NoType.kind = "unsupported"
BY DEF Dyn, Scalar, ListType, MapType, Record, NoType, Unsupported

\* Without an exception ForPyObject finds the object's type and raises nothing.
LEMMA FoundType ==
  ASSUME NEW o, exc = None
  PROVE  ForPyObject(o).type = TypeOf(o) /\ ForPyObject(o).exc = None
BY DEF ForPyObject, TypeOf, Found, FitsInt, FitsUint, IsNumber

\* The objects whose type is of a kind.
LEMMA KindOfType ==
  ASSUME NEW o
  PROVE  LET k == TypeOf(o).kind IN
         /\ k = "null" => o.type = "NoneType"
         /\ k = "bool" => o.type = "bool"
         /\ k = "double" => o.type = "float"
         /\ k = "string" => o.type = "str"
         /\ k = "bytes" => o.type \in {"bytes", "bytearray"}
         /\ k = "list" => o.type = "list" /\ TypeOf(o) = ListType(Dyn)
         /\ k = "map" => o.type = "dict" /\ TypeOf(o) = MapType(Dyn, Dyn)
         /\ k = "int" => o.type = "int" /\ o.data \in {"negative", "small"}
         /\ k = "uint" => o.type = "int" /\ o.data = "big"
         /\ k \in {"timestamp", "duration"} => o.type \in {"Timestamp", "Duration"}
         /\ k = "message" => o.type \in DOMAIN MessageNames
         /\ k # "dyn"
         /\ o.type \in {"datetime", "timedelta"} => TypeOf(o) = NoType
<1>. DEFINE named == o.type \in {"NoneType", "bool", "float", "str", "bytes", "bytearray", "list",
                                 "dict"}
<1>1. DOMAIN PrimitiveTypes =
        {"NoneType", "bool", "float", "str", "bytes", "bytearray", "list", "dict"}
  BY DEF PrimitiveTypes
<1>2. CASE named
  <2>1. TypeOf(o) = PrimitiveTypes[o.type]
    <3>1. o.type \notin DOMAIN MessageNames /\ o.type # "int"
      BY <1>2 DEF MessageNames
    <3>. QED  BY <1>1, <1>2, <3>1 DEF TypeOf
  <2>. QED  BY <1>2, <2>1 DEF PrimitiveTypes, Scalar, ListType, MapType, Record, ScalarNames, Dyn
<1>3. CASE o.type = "int"
  <2>1. TypeOf(o) = (CASE Fits(o, "int") -> Scalar("int")
                       [] ~Fits(o, "int") /\ Fits(o, "uint") -> Scalar("uint")
                       [] OTHER -> NoType)
    BY <1>1, <1>3 DEF TypeOf, MessageNames
  <2>. QED  BY <1>3, <2>1 DEF Fits, Scalar, Record, NoType, Unsupported
<1>4. CASE ~named /\ o.type # "int" /\ o.type \in DOMAIN MessageNames
  <2>1. TypeOf(o) = MessageType(<<MessageNames[o.type]>>)
    BY <1>1, <1>4 DEF TypeOf
  <2>2. o.type \in {"TestAllTypes", "Lost", "Int32Value", "ListValue", "Struct", "Timestamp",
                    "Duration"}
    BY <1>4 DEF MessageNames
  <2>3. CASE o.type \in {"Timestamp", "Duration"}
    BY <2>1, <2>3 DEF MessageNames, MessageType, Scalar, Record, NoType, Unsupported
  <2>4. CASE o.type \notin {"Timestamp", "Duration"}
    <3>1. MessageNames[o.type] # "google.protobuf.Timestamp"
          /\ MessageNames[o.type] # "google.protobuf.Duration"
      BY <2>2, <2>4 DEF MessageNames
    <3>2. TypeOf(o).kind = "message"
      BY <2>1, <3>1 DEF MessageType, Record
    <3>. QED  BY <1>4, <2>2, <3>2
  <2>. QED  BY <2>3, <2>4
<1>5. CASE ~named /\ o.type # "int" /\ o.type \notin DOMAIN MessageNames
  BY <1>1, <1>5, DynTypes DEF TypeOf
<1>. QED  BY <1>2, <1>3, <1>4, <1>5

\* The names in KindOf.
LEMMA KindOfDomain ==
  /\ DOMAIN KindOf = {"NoneType", "bool", "float", "str", "bytearray", "list", "dict",
                      "TestAllTypes", "Lost"}
  /\ KindOf["NoneType"] = "null" /\ KindOf["bool"] = "bool" /\ KindOf["float"] = "double"
  /\ KindOf["str"] = "string" /\ KindOf["bytearray"] = "bytes" /\ KindOf["list"] = "list"
  /\ KindOf["dict"] = "map" /\ KindOf["TestAllTypes"] = "message" /\ KindOf["Lost"] = "message"
BY DEF KindOf

\* What steps do to the stack.
Moves ==
  \/ UNCHANGED stack
  \/ stack # <<>> /\ stack' = Front(stack)
  \/ \E f : f.at # "result" /\ stack' = Append(stack, f)
  \/ \E f : f.at # "result" /\ stack # <<>> /\ stack' = Append(Front(stack), f)

\* Whatever goes on below, the evaluation's result is of type DYN if it was.
LEMMA DynBefore ==
  ASSUME NestedInv, IsDyn', Moves
  PROVE  IsDyn
<1>1. IsSeq(stack)
  BY DEF NestedInv, Nested
<1>2. stack' # <<>> /\ stack'[1].at = "result" /\ stack'[1].type = Dyn
  BY DEF IsDyn, Dyn
<1>3. CASE UNCHANGED stack
  BY <1>2, <1>3 DEF IsDyn
<1>4. CASE stack # <<>> /\ stack' = Front(stack)
  <2>1. Len(stack') # 0 /\ Len(stack') = Len(stack) - 1 /\ Len(stack) \in Nat
    BY <1>1, <1>2, <1>4, FrontSeq, SeqPlaces
  <2>2. stack'[1] = stack[1]
    BY <1>1, <1>4, <2>1, FrontSeq
  <2>. QED  BY <1>2, <1>4, <2>2 DEF IsDyn
<1>5. ASSUME NEW f, f.at # "result", stack' = Append(stack, f) PROVE IsDyn
  <2>1. Len(stack) # 0 /\ Len(stack) \in Nat
    BY <1>1, <1>2, <1>5, AppendSeq, SeqPlaces
  <2>2. stack'[1] = stack[1] /\ stack # <<>>
    BY <1>1, <1>5, <2>1, AppendSeq, SeqPlaces
  <2>. QED  BY <1>2, <2>2 DEF IsDyn
<1>6. ASSUME NEW f, f.at # "result", stack # <<>>, stack' = Append(Front(stack), f) PROVE IsDyn
  <2>. DEFINE front == Front(stack)
  <2>1. IsSeq(front) /\ Len(front) = Len(stack) - 1 /\ Len(stack) \in Nat \ {0}
        /\ \A k \in 1..(Len(stack) - 1) : front[k] = stack[k]
    BY <1>1, <1>6, FrontSeq
  <2>. HIDE DEF front
  <2>2. stack' = Append(front, f)
    BY <1>6 DEF front
  <2>3. Len(front) # 0
    BY <1>2, <1>6, <2>1, <2>2, AppendSeq
  <2>4. stack'[1] = stack[1]
    BY <2>1, <2>2, <2>3, AppendSeq
  <2>. QED  BY <1>2, <1>6, <2>4 DEF IsDyn
<1>. QED  BY <1>3, <1>4, <1>5, <1>6 DEF Moves

\* A frame of a list or dict on its way.
FrameBecomes(f) ==
  /\ f.at \in CelFrames
  /\ f.at = "list" => ListBecomes(f)
  /\ f.at \in DictFrames => DictBecomes(f)

\* The frames above the result's stay as they are, but for the innermost one.
LEMMA DynFramesKept ==
  ASSUME NestedInv, stack # <<>>, DynFrames,
         \/ UNCHANGED stack
         \/ stack' = Front(stack)
         \/ \E f : FrameBecomes(f) /\ stack' = Append(stack, f)
         \/ \E f : FrameBecomes(f) /\ stack' = Append(Front(stack), f)
  PROVE  DynFrames'
<1>1. IsSeq(stack)
  BY DEF NestedInv, Nested
<1>2. ASSUME NEW k \in 2..Len(stack)
      PROVE  FrameBecomes(stack[k])
  BY <1>2 DEF DynFrames, FrameBecomes
<1>3. ASSUME \A k \in 2..Len(stack') : FrameBecomes(stack'[k])
      PROVE  DynFrames'
  BY <1>3
  DEF FrameBecomes, DynFrames, ListBecomes, DictBecomes, Becomes, EntryBecomes, Whole, Dyn, Failed
<1>4. CASE UNCHANGED stack
  BY <1>2, <1>3, <1>4
<1>5. CASE stack' = Front(stack)
  <2>1. Len(stack') = Len(stack) - 1 /\ Len(stack) \in Nat
        /\ \A k \in 1..(Len(stack) - 1) : stack'[k] = stack[k]
    BY <1>1, <1>5, FrontSeq
  <2>. QED  BY <1>2, <1>3, <2>1
<1>6. ASSUME NEW f, FrameBecomes(f), stack' = Append(stack, f) PROVE DynFrames'
  <2>1. Len(stack') = Len(stack) + 1 /\ stack'[Len(stack) + 1] = f /\ Len(stack) \in Nat
        /\ \A k \in 1..Len(stack) : stack'[k] = stack[k]
    BY <1>1, <1>6, AppendSeq, SeqPlaces
  <2>2. ASSUME NEW k \in 2..Len(stack') PROVE FrameBecomes(stack'[k])
    <3>1. CASE k = Len(stack) + 1
      BY <1>6, <2>1, <3>1
    <3>2. CASE k # Len(stack) + 1
      <4>1. k \in 2..Len(stack) /\ k \in 1..Len(stack)
        BY <2>1, <3>2
      <4>. QED  BY <1>2, <2>1, <4>1
    <3>. QED  BY <3>1, <3>2
  <2>. QED  BY <1>3, <2>2
<1>7. ASSUME NEW f, FrameBecomes(f), stack' = Append(Front(stack), f) PROVE DynFrames'
  <2>. DEFINE front == Front(stack)
  <2>1. IsSeq(front) /\ Len(front) = Len(stack) - 1 /\ Len(stack) \in Nat \ {0}
        /\ \A k \in 1..(Len(stack) - 1) : front[k] = stack[k]
    BY <1>1, FrontSeq
  <2>. HIDE DEF front
  <2>2. stack' = Append(front, f)
    BY <1>7 DEF front
  <2>3. Len(stack') = Len(stack) /\ stack'[Len(stack)] = f
        /\ \A k \in 1..(Len(stack) - 1) : stack'[k] = stack[k]
    BY <2>1, <2>2, AppendSeq
  <2>4. ASSUME NEW k \in 2..Len(stack') PROVE FrameBecomes(stack'[k])
    <3>1. CASE k = Len(stack)
      BY <1>7, <2>3, <3>1
    <3>2. CASE k # Len(stack)
      <4>1. k \in 2..Len(stack) /\ k \in 1..(Len(stack) - 1)
        BY <2>1, <2>3, <3>2
      <4>. QED  BY <1>2, <2>3, <4>1
    <3>. QED  BY <3>1, <3>2
  <2>. QED  BY <1>3, <2>4
<1>. QED  BY <1>4, <1>5, <1>6, <1>7

\* The innermost frame in a conversion of such a result.
LEMMA DynTop ==
  ASSUME NestedInv, ConveyInv, DynInv, IsDyn
  PROVE  /\ stack # <<>> /\ DOMAIN Top = Fields /\ Brings(Top, step) /\ DynStep /\ DynFrames
         /\ Runs(contents, Top, step) /\ Holds(contents, Top)
         /\ Top.at \in CelFrames => FrameBecomes(Top)
<1>1. DynStep /\ DynFrames
  BY DEF DynInv
<1>2. step.do \notin Idle
  BY <1>1 DEF DynStep, Idle
<1>3. stack # <<>> /\ DOMAIN Top = Fields /\ Runs(contents, Top, step) /\ Holds(contents, Top)
  BY <1>2, TopRuns
<1>4. Brings(Top, step)
  BY <1>3, ConveyTop DEF ConveyInv, Top
<1>5. ASSUME Top.at \in CelFrames PROVE FrameBecomes(Top)
  <2>1. IsSeq(stack) /\ Len(stack) \in Nat \ {0}
    BY <1>3, SeqPlaces DEF NestedInv, Nested
  <2>2. Len(stack) # 1
    <3>1. SUFFICES ASSUME Len(stack) = 1 PROVE FALSE
      OBVIOUS
    <3>2. Top.at = "result"
      BY <3>1 DEF Top, Last, IsDyn
    <3>. QED  BY <1>5, <3>2 DEF CelFrames, DictFrames
  <2>. DEFINE n == Len(stack)
  <2>3. n \in 2..n
    <3>. HIDE DEF n
    <3>1. n \in Nat \ {0} /\ n # 1
      BY <2>1, <2>2 DEF n
    <3>. QED  BY <3>1
  <2>. QED  BY <1>1, <2>3 DEF DynFrames, FrameBecomes, Top, Last
<1>. QED  BY <1>1, <1>3, <1>4, <1>5

\* A conversion to CEL goes on, or gives a value that its object becomes.
LEMMA DynBrings ==
  ASSUME NestedInv, DynInv, IsDyn, UNCHANGED <<stack, contents>>,
         step'.do \in {"toCel", "released", "cel"}, exc' = None,
         step'.do = "toCel" =>
           step'.type = Dyn \/ (step'.type = TypeOf(step'.object) /\ step'.type # NoType),
         step'.do = "cel" => BecomesAll(step'.object, step'.value)
  PROVE  DynInv'
<1>1. DynFrames'
  BY DynFramesKept DEF DynInv, IsDyn
<1>2. DynStep'
  BY DEF DynStep, Dyn, NoType, Unsupported, Record, Scalar, TypeOf, IsNumber, Fits, BecomesAll, Becomes,
         EntryBecomes, Whole, Failed
<1>. QED  BY <1>1, <1>2 DEF DynInv

\* One that fails ends with a Status, or in a list whose item is missing.
LEMMA DynFails ==
  ASSUME NestedInv, DynInv, IsDyn, UNCHANGED stack \/ stack' = Front(stack),
         UNCHANGED contents, step'.do = "cel", Failed(step'.value),
         exc' = None \/ step'.value.kind = "status" \/ (In("list") /\ UNCHANGED stack)
  PROVE  DynInv'
<1>1. DynFrames'
  BY DynFramesKept DEF DynInv, IsDyn
<1>2. BecomesAll(step'.object, step'.value)
  BY DEF BecomesAll, Becomes
<1>3. DynStep'
  BY <1>2 DEF DynStep, Gone, In, Top, BecomesAll, Becomes, EntryBecomes, Whole, Failed
<1>. QED  BY <1>1, <1>3 DEF DynInv

\* What a number becomes as an int, uint or double.
LEMMA NumberBecomes ==
  ASSUME NEW o, o # nullptr, NEW k \in {"int", "uint", "double"}, TypeOf(o).kind = k
  PROVE  Becomes(o, Value(k, NumberOf(o), <<>>))
<1>1. CASE k \in {"int", "uint"}
  <2>1. o.type = "int" /\ o.data \in (IF k = "int" THEN {"negative", "small"} ELSE {"big"})
    BY <1>1, KindOfType
  <2>. QED  BY <1>1, <2>1, KindOfDomain DEF Becomes, Value, NumberOf
<1>2. CASE k = "double"
  <2>1. o.type = "float"
    BY <1>2, KindOfType
  <2>. QED  BY <1>2, <2>1, KindOfDomain DEF Becomes, Value, NumberOf
<1>. QED  BY <1>1, <1>2

\* What WrapMessage makes of a message that stands for a value.
LEMMA MessageBecomes ==
  ASSUME NEW o, o.type \in DOMAIN MessageNames
  PROVE  Becomes(o, Wrapped(o))
<1>1. o.type \in {"TestAllTypes", "Lost", "Int32Value", "ListValue", "Struct", "Timestamp",
                  "Duration"}
  BY DEF MessageNames
<1>2. o # nullptr
  BY <1>1 DEF nullptr, Object
<1>3. CASE o.type \in {"TestAllTypes", "Lost"}
  <2>1. Wrapped(o) = Value("message", o.data, <<o.type>>)
    BY <1>3 DEF Wrapped
  <2>. QED  BY <1>2, <1>3, <2>1, KindOfDomain DEF Becomes, Value
<1>4. CASE o.type \notin {"TestAllTypes", "Lost"}
  BY <1>1, <1>2, <1>4, KindOfDomain DEF Becomes
<1>. QED  BY <1>3, <1>4

\* The steps of PyObjectToCelValue that are about no items.
LEMMA LeafBecomes ==
  ASSUME NestedInv, ConveyInv, DynInv, IsDyn,
         \/ ConvertNothing \/ ConvertDyn \/ ConvertNull \/ ConvertBool \/ ConvertNumber
         \/ ConvertString \/ ConvertBytes \/ ConvertTime \/ ConvertMessage \/ LookupRaises
         \/ FinishMessage \/ ConvertOther
  PROVE  DynInv'
<1>. DEFINE o == step.object
<1>1. DynStep /\ UNCHANGED contents /\ Brings(Top, step)
  BY DynTop, ContentsStay DEF ToCelStep
<1>2. ASSUME NEW v, Give(v), Failed(v), exc' = None PROVE DynInv'
  BY <1>1, <1>2, DynFails DEF Give, Goto, CelResult
<1>3. ASSUME NEW v, Give(v), Becomes(o, v), o.type \notin {"list", "dict"}, exc' = None
      PROVE  DynInv'
  <2>1. BecomesAll(o, v)
    BY <1>3 DEF BecomesAll
  <2>. QED  BY <1>1, <1>3, <2>1, DynBrings DEF Give, Goto, CelResult
<1>4. ASSUME NEW f PROVE Failed(ErrorValue(f)) /\ Failed(Status(f))
  BY OwnFaults
<1>5. ASSUME InvalidType, exc' = None PROVE DynInv'
  BY <1>2, <1>4, <1>5 DEF InvalidType
<1>6. ASSUME NEW kinds, Converts(kinds)
      PROVE  /\ exc = None /\ o # nullptr /\ step.type.kind \in kinds
             /\ "dyn" \notin kinds => step.type = TypeOf(o)
  BY <1>1, <1>6, DynTypes DEF Converts, DynStep, Gone
<1>7. CASE ConvertNothing
  <2>1. /\ UNCHANGED <<stack, exc>> /\ step.do = "toCel"
        /\ step' = CelResult(ErrorValue(Fault("missing", nullptr)), step.object)
    BY <1>7 DEF ConvertNothing, Give, Goto, KeepStatus
  <2>2. exc = None \/ In("list")
    BY <1>1, <2>1 DEF DynStep, Gone
  <2>. QED  BY <1>1, <1>4, <2>1, <2>2, DynFails DEF CelResult
<1>8. CASE ConvertDyn
  <2>1. exc = None
    BY <1>6, <1>8 DEF ConvertDyn
  <2>2. /\ exc' = None
        /\ \/ Give(Status(Fault("type", step.object)))
           \/ TypeOf(o) # NoType /\ Goto(ToCel(o, TypeOf(o), TRUE))
    BY <1>8, <2>1, FoundType DEF ConvertDyn
  <2>3. CASE TypeOf(o) # NoType /\ Goto(ToCel(o, TypeOf(o), TRUE))
    BY <1>1, <2>2, <2>3, DynBrings DEF Goto, ToCel
  <2>. QED  BY <1>2, <1>4, <2>2, <2>3
<1>9. CASE ConvertNull \/ ConvertBool \/ ConvertString \/ ConvertBytes
  <2>1. /\ step.type.kind \in {"null", "bool", "string", "bytes"}
        /\ exc = None /\ o # nullptr /\ step.type = TypeOf(o)
    BY <1>6, <1>9 DEF ConvertNull, ConvertBool, ConvertString, ConvertBytes
  <2>2. /\ o.type \in {"NoneType", "bool", "str", "bytes", "bytearray"}
        /\ o.type = "NoneType" => step.type.kind = "null"
        /\ o.type \in {"bool", "str", "bytearray"} => KindOf[o.type] = step.type.kind
    BY <2>1, KindOfType, KindOfDomain
  <2>3. \/ InvalidType /\ KeepStatus
        \/ \E d : /\ Make(d)
                  /\ o.type = "NoneType" => d = "None"
                  /\ o.type \in {"bool", "str", "bytearray"} => d = o.data
    BY <1>6, <1>9, <2>1, <2>2, KindOfType
    DEF ConvertNull, ConvertBool, ConvertString, ConvertBytes
  <2>4. ASSUME NEW d, o.type = "NoneType" => d = "None",
               o.type \in {"bool", "str", "bytearray"} => d = o.data
        PROVE  Becomes(o, Value(step.type.kind, d, <<>>))
    BY <2>1, <2>2, <2>4, KindOfDomain DEF Becomes, Value
  <2>. QED  BY <1>3, <1>5, <2>1, <2>2, <2>3, <2>4 DEF Make, KeepStatus
<1>10. CASE ConvertNumber
  <2>1. /\ step.type.kind \in {"int", "uint", "double"}
        /\ exc = None /\ o # nullptr /\ step.type = TypeOf(o)
    BY <1>6, <1>10 DEF ConvertNumber
  <2>2. o.type \notin {"list", "dict"}
    BY <2>1, KindOfType
  <2>3. \/ InvalidType /\ KeepStatus
        \/ Make(NumberOf(o))
        \/ \E f : Give(ErrorValue(f)) /\ TakeStatus
    BY <1>10 DEF ConvertNumber
  <2>. QED  BY <1>2, <1>3, <1>4, <1>5, <2>1, <2>2, <2>3, NumberBecomes
            DEF Make, KeepStatus, TakeStatus
<1>11. CASE ConvertTime
  <2>1. /\ step.type.kind \in {"timestamp", "duration"}
        /\ exc = None /\ o # nullptr /\ step.type = TypeOf(o)
    BY <1>6, <1>11 DEF ConvertTime
  <2>2. o.type \in {"Timestamp", "Duration"}
    BY <2>1, KindOfType
  <2>3. \/ InvalidType /\ KeepStatus
        \/ Make(o.data)
        \/ \E f : Give(Status(f)) /\ exc' = None
        \/ \E f : Give(ErrorValue(f)) /\ KeepStatus
    BY <1>11 DEF ConvertTime
  <2>4. Becomes(o, Value(step.type.kind, o.data, <<>>))
    BY <2>1, <2>2, KindOfDomain DEF Becomes
  <2>. QED  BY <1>2, <1>3, <1>4, <1>5, <2>1, <2>2, <2>3, <2>4 DEF Make, KeepStatus
<1>12. CASE ConvertMessage
  <2>1. exc = None
    BY <1>6, <1>12 DEF ConvertMessage
  <2>2. ForPyObject(o).exc = None
    BY <2>1, FoundType
  <2>3. /\ exc' = None
        /\ \/ InvalidType
           \/ \E f : Give(Status(f)) \/ Give(ErrorValue(f))
           \/ Goto(Released(o))
    BY <1>12, <2>1, <2>2 DEF ConvertMessage, KeepStatus, TakeStatus
  <2>4. CASE Goto(Released(o))
    BY <1>1, <2>3, <2>4, DynBrings DEF Goto, Released
  <2>. QED  BY <1>2, <1>4, <1>5, <2>3, <2>4
<1>13. CASE LookupRaises
  <2>1. step.do = "released" /\ UNCHANGED <<step, stack, exc>>
    BY <1>13 DEF LookupRaises
  <2>2. exc' = None
    BY <1>1, <2>1 DEF DynStep, Gone
  <2>. QED  BY <1>1, <2>1, <2>2, DynBrings
<1>14. CASE FinishMessage
  <2>1. step.do = "released" /\ exc' = None
    BY <1>14 DEF FinishMessage, TakeStatus
  <2>2. o.type \in DOMAIN MessageNames
    BY <1>1, <2>1 DEF Brings
  <2>3. o.type \notin {"list", "dict"}
    BY <2>2 DEF MessageNames
  <2>4. \/ \E f : Give(ErrorValue(f))
        \/ Give(Wrapped(o))
    BY <1>14 DEF FinishMessage, Parsed
  <2>. QED  BY <1>2, <1>3, <1>4, <2>1, <2>2, <2>3, <2>4, MessageBecomes
<1>15. CASE ConvertOther
  <2>1. exc' = None
    BY <1>6, <1>15 DEF ConvertOther, KeepStatus
  <2>. QED  BY <1>2, <1>4, <1>15, <2>1 DEF ConvertOther
<1>. QED  BY <1>7, <1>8, <1>9, <1>10, <1>11, <1>12, <1>13, <1>14, <1>15

\* The host changes no list or dict that a conversion has made.
LEMMA MadeSince ==
  ASSUME DynInv, NEW f, Holds(contents, f), f.at \in CelFrames, Whole(f.object)
  PROVE  /\ \A items \in Since(contents, f) : items = f.object.items
         /\ Items(f.object) = f.object.items
<1>. DEFINE items == f.object.items
<1>1. f.object.data \notin DOMAIN contents
  BY DEF DynInv, Whole
<1>2. VersionsIn(contents, f.object) = <<items>> /\ Versions(f.object) = <<items>>
  BY <1>1 DEF VersionsIn, Versions
<1>3. Len(<<items>>) = 1 /\ <<items>>[1] = items
  OBVIOUS
<1>4. f.since \in Nat \ {0} /\ f.since <= 1
  BY <1>2, <1>3 DEF Holds
<1>. HIDE DEF items
<1>5. \A n \in f.since..1 : n = 1
  BY <1>4
<1>6. \A all \in Since(contents, f) : all = items
  BY <1>2, <1>3, <1>5 DEF Since
<1>. QED  BY <1>2, <1>3, <1>6 DEF Items, Last, items

\* A frame is put on top or goes on, and waits for an item of a result of type DYN.
LEMMA DynGoesOn ==
  ASSUME NestedInv, DynInv, IsDyn, UNCHANGED contents, NEW f, FrameBecomes(f),
         stack' = Append(stack, f) \/ stack' = Append(Front(stack), f),
         \/ step' = CelItems /\ exc' = None
         \/ \E o : /\ step' = ToCel(o, Dyn, FALSE)
                   /\ exc' = None \/ (o = nullptr /\ f.at = "list")
  PROVE  DynInv'
<1>1. DynFrames'
  BY DynFramesKept DEF DynInv, IsDyn
<1>2. IsSeq(stack) /\ stack # <<>>
  BY DEF NestedInv, Nested, IsDyn
<1>3. stack' # <<>> /\ Last(stack') = f
  <2>1. ASSUME NEW s, IsSeq(s), stack' = Append(s, f) PROVE stack' # <<>> /\ Last(stack') = f
    <3>1. IsSeq(stack') /\ Len(stack') = Len(s) + 1 /\ stack'[Len(s) + 1] = f /\ Len(s) \in Nat
      BY <2>1, AppendSeq, SeqPlaces
    <3>2. Len(stack') # 0
      BY <3>1
    <3>. QED  BY <3>1, <3>2, SeqPlaces DEF Last
  <2>2. IsSeq(Front(stack))
    BY <1>2, FrontSeq
  <2>. QED  BY <1>2, <2>1, <2>2
<1>4. exc' = None \/ Gone'
  BY <1>3 DEF Gone, In, Top, ToCel
<1>5. DynStep'
  BY <1>4 DEF DynStep, Dyn, Scalar, Record, ToCel, CelItems
<1>. QED  BY <1>1, <1>5 DEF DynInv

\* A list or dict is complete.
LEMMA DynReturns ==
  ASSUME NestedInv, DynInv, IsDyn, UNCHANGED contents, stack' = Front(stack), exc' = None,
         NEW o, NEW v, step' = CelResult(v, o), BecomesAll(o, v)
  PROVE  DynInv'
<1>1. DynFrames'
  BY DynFramesKept DEF DynInv, IsDyn
<1>2. step'.do = "cel" /\ step'.object = o /\ step'.value = v
  BY DEF CelResult
<1>3. DynStep'
  BY <1>2 DEF DynStep
<1>. QED  BY <1>1, <1>3 DEF DynInv

\* A list or a dict begins to be converted; a message never has such a type.
LEMMA BeginBecomes ==
  ASSUME NestedInv, ConveyInv, DynInv, IsDyn, BeginList \/ BeginMap
  PROVE  DynInv'
<1>. DEFINE o == step.object
<1>1. DynStep /\ UNCHANGED contents
  BY DynTop, ContentsStay DEF ToCelStep
<1>2. /\ step.do = "toCel" /\ o # nullptr /\ step.type.kind \in {"list", "map"}
  BY DEF BeginList, BeginMap, Converts
<1>3. exc = None /\ step.type = TypeOf(o)
  BY <1>1, <1>2, DynTypes DEF DynStep, Gone
<1>4. Whole(o) => Items(o) = o.items
  <2>1. ASSUME Whole(o) PROVE Versions(o) = <<o.items>>
    BY <2>1 DEF Versions, DynInv, Whole
  <2>2. Len(<<o.items>>) = 1 /\ <<o.items>>[1] = o.items
    OBVIOUS
  <2>. QED  BY <2>1, <2>2 DEF Items, Last
<1>5. Len(<<>>) = 0 /\ (Whole(o) => Len(o.items) \in Nat)
  BY SeqPlaces DEF Whole
<1>6. CASE BeginList
  <2>1. o.type = "list" /\ step.type = ListType(Dyn)
    BY <1>3, <1>6, KindOfType DEF BeginList, Converts
  <2>. DEFINE f == [Frame("list", o, step.type, NoValue) EXCEPT !.size = Len(Items(o))]
  <2>2. stack' = Append(stack, f) /\ step' = CelItems /\ exc' = None
    BY <1>3, <1>6, <2>1 DEF BeginList, Call, KeepStatus
  <2>3. /\ f.at = "list" /\ f.object = o /\ f.type = step.type /\ f.done = <<>> /\ f.pos = 0
        /\ f.size = Len(Items(o))
    BY DEF Frame
  <2>. HIDE DEF f, o
  <2>4. FrameBecomes(f)
    BY <1>4, <1>5, <2>1, <2>3 DEF FrameBecomes, ListBecomes, CelFrames, DictFrames
  <2>. QED  BY <1>1, <2>2, <2>4, DynGoesOn
<1>7. CASE BeginMap
  <2>1. o.type = "dict" /\ step.type = MapType(Dyn, Dyn)
    BY <1>3, <1>7, KindOfType DEF BeginMap, Converts
  <2>. DEFINE f == Frame("map", o, step.type, NoValue)
  <2>2. stack' = Append(stack, f) /\ step' = CelItems /\ exc' = None
    BY <1>3, <1>7, <2>1 DEF BeginMap, Call, KeepStatus
  <2>3. /\ f.at = "map" /\ f.object = o /\ f.type = step.type /\ f.done = <<>> /\ f.pos = 0
    BY DEF Frame
  <2>. HIDE DEF f, o
  <2>4. FrameBecomes(f)
    BY <1>5, <2>1, <2>3 DEF FrameBecomes, DictBecomes, CelFrames, DictFrames
  <2>. QED  BY <1>1, <2>2, <2>4, DynGoesOn
<1>. QED  BY <1>6, <1>7

\* A list takes its next item, or its value is complete.
LEMMA NextItemBecomes ==
  ASSUME NestedInv, ConveyInv, DynInv, IsDyn, NextItem
  PROVE  DynInv'
<1>1. step.do = "celItems" /\ stack # <<>> /\ Top.at = "list" /\ Top.at \in CelFrames
  BY DEF NextItem, In, CelFrames
<1>2. /\ DOMAIN Top = Fields /\ Holds(contents, Top) /\ ListBecomes(Top) /\ exc = None
      /\ UNCHANGED contents /\ Top.pos = Len(Top.done) /\ Top.pos \in Nat
      /\ ListOK(contents, Top) /\ Len(Top.done) \in Nat
  <2>1. Runs(contents, Top, step) /\ DynStep /\ FrameBecomes(Top) /\ Holds(contents, Top)
        /\ DOMAIN Top = Fields
    BY <1>1, DynTop
  <2>2. step = CelItems
    BY <1>1, <2>1 DEF Runs, Matches, PythonItems
  <2>3. exc = None /\ ListBecomes(Top)
    BY <1>1, <2>1 DEF DynStep, Gone, FrameBecomes
  <2>4. ListOK(contents, Top) /\ Top.pos = Len(Top.done)
    BY <1>1, <2>1, <2>2 DEF Runs, Holds
  <2>5. UNCHANGED contents
    BY ContentsStay DEF ToCelStep
  <2>. QED  BY <2>1, <2>3, <2>4, <2>5, SeqPlaces DEF ListOK
<1>. DEFINE i == Top.pos + 1
            items == Items(Top.object)
            Takes(e, o) == Again([Top EXCEPT !.pos = i, !.entry = e], ToCel(o, Dyn, FALSE))
<1>3. ASSUME NEW e, NEW o, Takes(e, o), exc' = None \/ o = nullptr,
             i <= Top.size \/ ~(i > Top.size)
      PROVE  DynInv'
  <2>. DEFINE f == [Top EXCEPT !.pos = i, !.entry = e]
  <2>1. /\ f.at = "list" /\ f.pos = i /\ f.done = Top.done /\ f.object = Top.object
        /\ f.from = Top.from /\ f.type = Top.type /\ f.size = Top.size
    BY <1>1, <1>2 DEF Fields
  <2>2. stack' = Append(Front(stack), f) /\ step' = ToCel(o, Dyn, FALSE)
    BY <1>3 DEF Again
  <2>. HIDE DEF f
  <2>3. Whole(f.object) => f.size \in Nat
    BY <1>2, <2>1, SeqPlaces DEF ListBecomes, Whole
  <2>4. ListBecomes(f)
    BY <1>2, <1>3, <2>1, <2>3 DEF ListBecomes
  <2>5. FrameBecomes(f)
    BY <2>1, <2>4 DEF FrameBecomes, CelFrames, DictFrames
  <2>. QED  BY <1>2, <1>3, <2>1, <2>2, <2>5, DynGoesOn
<1>4. ASSUME Return(CelResult(Value("list", NoData, Top.done), Top.object)), i > Top.size,
             exc' = None
      PROVE  DynInv'
  <2>. DEFINE o == Top.object
              v == Value("list", NoData, Top.done)
  <2>1. v.kind = "list" /\ v.data = NoData /\ v.items = Top.done
    BY DEF Value
  <2>2. o.type = "list" /\ o # nullptr
    BY <1>2 DEF ListBecomes, nullptr, Object
  <2>. HIDE DEF v
  <2>3. Becomes(o, v)
    BY <2>1, <2>2, KindOfDomain DEF Becomes
  <2>4. ASSUME Whole(o)
        PROVE  /\ Len(v.items) = Len(o.items)
               /\ \A n \in 1..Len(o.items) : Becomes(o.items[n], v.items[n])
    <3>1. Top.pos <= Top.size /\ Top.size = Len(o.items) /\ Len(o.items) \in Nat
      BY <1>2, <2>4, SeqPlaces DEF ListBecomes, Whole
    <3>2. Len(o.items) = Len(Top.done)
      BY <1>2, <1>4, <3>1
    <3>3. ASSUME NEW n \in 1..Len(Top.done) PROVE Top.from[n] = o.items[n]
      BY <1>1, <1>2, <2>4, <3>3, MadeSince DEF ListOK, Stood
    <3>. QED  BY <1>2, <2>1, <3>2, <3>3 DEF ListBecomes
  <2>5. BecomesAll(o, v)
    BY <2>2, <2>3, <2>4 DEF BecomesAll
  <2>. QED  BY <1>2, <1>4, <2>5, DynReturns DEF Return, v
<1>5. Top.type.params[1] = Dyn
  BY <1>2, DynTypes DEF ListBecomes
<1>6. \/ /\ Return(CelResult(Value("list", NoData, Top.done), Top.object))
         /\ i > Top.size /\ exc' = None
      \/ \E e, o : /\ Takes(e, o) /\ (exc' = None \/ o = nullptr)
                   /\ i <= Top.size \/ ~(i > Top.size)
  BY <1>2, <1>5 DEF NextItem, KeepStatus
<1>. HIDE DEF items, i, Takes
<1>. QED  BY <1>3, <1>4, <1>6

\* An item is added.
LEMMA AddItemBecomes ==
  ASSUME NestedInv, ConveyInv, DynInv, IsDyn, AddItem
  PROVE  DynInv'
<1>1. step.do = "cel" /\ stack # <<>> /\ Top.at = "list" /\ Top.at \in CelFrames
      /\ KeepStatus /\ UNCHANGED contents
  BY ContentsStay DEF AddItem, In, CelFrames, ToCelStep
<1>2. /\ DOMAIN Top = Fields /\ Brings(Top, step) /\ ListBecomes(Top) /\ DynStep
      /\ IsSeq(Top.done) /\ IsSeq(Top.from) /\ Len(Top.done) = Len(Top.from)
  BY <1>1, DynTop, CelTop DEF FrameBecomes
<1>3. CASE Refuse
  <2>1. Failed(step.value) /\ stack' = Front(stack)
        /\ step' = CelResult(Status(step.value.fault), step.object)
    BY <1>3 DEF Refuse, Return
  <2>2. step'.do = "cel" /\ Failed(step'.value) /\ step'.value.kind = "status"
    BY <2>1, OwnFaults DEF CelResult
  <2>. QED  BY <1>1, <2>1, <2>2, DynFails
<1>4. CASE ~Failed(step.value)
           /\ Again([Top EXCEPT !.done = Append(@, step.value),
                                !.from = Append(@, Top.entry.value)], CelItems)
  <2>. DEFINE f == [Top EXCEPT !.done = Append(@, step.value),
                               !.from = Append(@, Top.entry.value)]
  <2>1. /\ f.at = "list" /\ f.done = Append(Top.done, step.value)
        /\ f.from = Append(Top.from, Top.entry.value)
        /\ f.object = Top.object /\ f.type = Top.type /\ f.size = Top.size /\ f.pos = Top.pos
    BY <1>1, <1>2 DEF Fields
  <2>2. stack' = Append(Front(stack), f) /\ step' = CelItems
    BY <1>4 DEF Again
  <2>. HIDE DEF f
  <2>3. exc' = None
    BY <1>1, <1>2, <1>4 DEF DynStep, Gone, KeepStatus
  <2>4. Becomes(Top.entry.value, step.value)
    BY <1>1, <1>2, <1>4 DEF Brings, AwaitedObject, DynStep, BecomesAll
  <2>5. \A n \in 1..Len(f.done) : Becomes(f.from[n], f.done[n])
    BY <1>2, <2>1, <2>4, AppendSeq, SeqPlaces DEF ListBecomes
  <2>6. FrameBecomes(f)
    BY <1>2, <2>1, <2>5 DEF FrameBecomes, ListBecomes, CelFrames, DictFrames
  <2>. QED  BY <1>1, <2>2, <2>3, <2>6, DynGoesOn
<1>. QED  BY <1>3, <1>4 DEF AddItem

\* The next entry of a dict, or the end of its value.
LEMMA NextEntryBecomes ==
  ASSUME NestedInv, ConveyInv, DynInv, IsDyn, NextEntry
  PROVE  DynInv'
<1>1. step.do = "celItems" /\ stack # <<>> /\ Top.at = "map" /\ Top.at \in CelFrames
      /\ Top.at \in DictFrames
  BY DEF NextEntry, In, CelFrames, DictFrames
<1>2. /\ DOMAIN Top = Fields /\ Holds(contents, Top) /\ DictBecomes(Top) /\ exc' = None
      /\ UNCHANGED contents /\ IsSeq(Top.done) /\ IsSeq(Top.from)
      /\ Len(Top.done) = Len(Top.from) /\ Len(Top.done) \in Nat
  <2>1. DynStep /\ FrameBecomes(Top) /\ Holds(contents, Top) /\ DOMAIN Top = Fields
    BY <1>1, DynTop
  <2>2. exc' = None
    BY <1>1, <2>1 DEF DynStep, Gone, NextEntry, KeepStatus
  <2>3. DictOK(contents, Top) /\ DictBecomes(Top)
    BY <1>1, <2>1 DEF Holds, FrameBecomes
  <2>4. UNCHANGED contents
    BY ContentsStay DEF ToCelStep
  <2>. QED  BY <2>1, <2>2, <2>3, <2>4, SeqPlaces DEF DictOK
<1>. DEFINE o == Top.object
            slots == Items(o)
            left == {i \in DOMAIN slots : i > Top.pos /\ slots[i] # Removed}
            Takes(i) == Again([Top EXCEPT !.at = "key", !.pos = i, !.entry = slots[i]],
                              ToCel(slots[i].key, Dyn, FALSE))
<1>3. ASSUME Whole(o)
      PROVE  /\ slots = o.items /\ Len(o.items) \in Nat /\ DOMAIN slots = 1..Len(o.items)
             /\ Top.pos \in 0..Len(o.items) /\ Top.pos = Len(Top.done)
             /\ left = (Top.pos + 1)..Len(o.items)
  <2>1. slots = o.items /\ Len(o.items) \in Nat /\ DOMAIN slots = 1..Len(o.items)
    BY <1>1, <1>2, <1>3, MadeSince, SeqPlaces DEF Whole
  <2>2. Top.pos \in 0..Len(o.items) /\ Top.pos = Len(Top.done)
    BY <1>1, <1>2, <1>3 DEF DictBecomes
  <2>3. \A i \in 1..Len(o.items) : slots[i] # Removed
    BY <1>2, <1>3, <2>1 DEF Whole, DictBecomes
  <2>4. left = (Top.pos + 1)..Len(o.items)
    <3>. HIDE DEF slots
    <3>. QED  BY <2>1, <2>2, <2>3
  <2>. QED  BY <2>1, <2>2, <2>4
<1>4. ASSUME left = {}, Return(CelResult(Value("map", NoData, Top.done), o))
      PROVE  DynInv'
  <2>. DEFINE v == Value("map", NoData, Top.done)
  <2>1. v.kind = "map" /\ v.data = NoData /\ v.items = Top.done
    BY DEF Value
  <2>2. o.type = "dict" /\ o # nullptr
    BY <1>2 DEF DictBecomes, nullptr, Object
  <2>. HIDE DEF v, left, slots
  <2>3. Becomes(o, v)
    BY <2>1, <2>2, KindOfDomain DEF Becomes
  <2>4. ASSUME Whole(o)
        PROVE  /\ Len(v.items) = Len(o.items)
               /\ \A n \in 1..Len(o.items) : EntryBecomes(o.items[n], v.items[n])
    <3>1. Top.pos = Len(o.items) /\ Top.pos = Len(Top.done)
      <4>1. /\ Len(o.items) \in Nat /\ Top.pos \in 0..Len(o.items) /\ Top.pos = Len(Top.done)
            /\ ~(Len(o.items) \in (Top.pos + 1)..Len(o.items))
        BY <1>3, <1>4, <2>4
      <4>. QED  BY <4>1
    <3>2. \A n \in 1..Len(Top.done) : Top.from[n] = o.items[n]
      BY <1>2, <2>4 DEF DictBecomes
    <3>. QED  BY <1>2, <2>1, <3>1, <3>2 DEF DictBecomes
  <2>5. BecomesAll(o, v)
    BY <2>2, <2>3, <2>4 DEF BecomesAll
  <2>. QED  BY <1>2, <1>4, <2>5, DynReturns DEF Return, v
<1>5. ASSUME NEW i \in left, \A j \in left : i <= j, Takes(i)
      PROVE  DynInv'
  <2>. DEFINE f == [Top EXCEPT !.at = "key", !.pos = i, !.entry = slots[i]]
  <2>1. /\ f.at = "key" /\ f.pos = i /\ f.entry = slots[i] /\ f.done = Top.done
        /\ f.object = o /\ f.from = Top.from /\ f.type = Top.type
    BY <1>2 DEF Fields
  <2>2. stack' = Append(Front(stack), f) /\ step' = ToCel(slots[i].key, Dyn, FALSE)
    BY <1>5 DEF Again
  <2>. HIDE DEF f, left, slots
  <2>3. ASSUME Whole(o)
        PROVE  i = Top.pos + 1 /\ i \in 0..Len(o.items) /\ slots[i] = o.items[i]
    <3>1. Top.pos \in Nat /\ Len(o.items) \in Nat
      BY <1>3, <2>3
    <3>2. i \in (Top.pos + 1)..Len(o.items)
      BY <1>3, <1>5, <2>3
    <3>3. Top.pos + 1 \in left
      BY <1>3, <2>3, <3>1, <3>2
    <3>4. i <= Top.pos + 1
      BY <1>5, <3>3
    <3>. QED  BY <1>3, <2>3, <3>1, <3>2, <3>4
  <2>4. FrameBecomes(f)
    BY <1>2, <1>3, <2>1, <2>3 DEF FrameBecomes, DictBecomes, CelFrames, DictFrames
  <2>. QED  BY <1>2, <2>2, <2>4, DynGoesOn
<1>6. Top.type.params[1] = Dyn
  BY <1>2, DynTypes DEF DictBecomes
<1>7. \/ left = {} /\ Return(CelResult(Value("map", NoData, Top.done), o))
      \/ \E i \in left : (\A j \in left : i <= j) /\ Takes(i)
  BY <1>6 DEF NextEntry
<1>. HIDE DEF left, Takes
<1>. QED  BY <1>4, <1>5, <1>7

\* What failed is refused, whatever the frame.
LEMMA RefusedBecomes ==
  ASSUME NestedInv, DynInv, IsDyn, UNCHANGED contents,
         Refuse \/ \E f, o : Return(CelResult(Status(f), o))
  PROVE  DynInv'
<1>1. \E f, o : stack' = Front(stack) /\ step' = CelResult(Status(f), o)
  BY DEF Refuse, Return
<1>2. step'.do = "cel" /\ Failed(step'.value) /\ step'.value.kind = "status"
  BY <1>1, OwnFaults DEF CelResult
<1>. QED  BY <1>1, <1>2, DynFails

\* The value of an entry after its key.
LEMMA EntryValueBecomes ==
  ASSUME NestedInv, ConveyInv, DynInv, IsDyn, ConvertEntryValue
  PROVE  DynInv'
<1>1. step.do = "cel" /\ stack # <<>> /\ Top.at = "key" /\ Top.at \in CelFrames
      /\ Top.at \in DictFrames /\ KeepStatus /\ UNCHANGED contents
  BY ContentsStay DEF ConvertEntryValue, In, CelFrames, DictFrames, ToCelStep
<1>2. DOMAIN Top = Fields /\ Brings(Top, step) /\ DictBecomes(Top) /\ DynStep
  BY <1>1, DynTop DEF FrameBecomes
<1>3. Top.type.params[2] = Dyn
  BY <1>2, DynTypes DEF DictBecomes
<1>4. CASE step.value.kind # "status"
           /\ Again([Top EXCEPT !.at = "value", !.key = step.value],
                    ToCel(Top.entry.value, Dyn, FALSE))
  <2>. DEFINE f == [Top EXCEPT !.at = "value", !.key = step.value]
  <2>1. /\ f.at = "value" /\ f.key = step.value /\ f.pos = Top.pos /\ f.entry = Top.entry
        /\ f.done = Top.done /\ f.object = Top.object /\ f.from = Top.from /\ f.type = Top.type
    BY <1>2 DEF Fields
  <2>2. stack' = Append(Front(stack), f) /\ step' = ToCel(Top.entry.value, Dyn, FALSE)
    BY <1>4 DEF Again
  <2>. HIDE DEF f
  <2>3. exc' = None
    BY <1>1, <1>2, <1>4 DEF DynStep, Gone, In, KeepStatus
  <2>4. Becomes(f.entry.key, f.key)
    BY <1>1, <1>2, <2>1 DEF Brings, AwaitedObject, DynStep, BecomesAll, Becomes
  <2>5. FrameBecomes(f)
    BY <1>1, <1>2, <2>1, <2>4 DEF FrameBecomes, DictBecomes, CelFrames, DictFrames
  <2>. QED  BY <1>1, <2>2, <2>3, <2>5, DynGoesOn
<1>5. CASE Refuse
  BY <1>1, <1>5, RefusedBecomes
<1>. QED  BY <1>3, <1>4, <1>5 DEF ConvertEntryValue

\* An entry is put, or refused for its key, its value or its being there already.
LEMMA PutEntryBecomes ==
  ASSUME NestedInv, ConveyInv, DynInv, IsDyn, PutEntry
  PROVE  DynInv'
<1>1. step.do = "cel" /\ stack # <<>> /\ Top.at = "value" /\ Top.at \in CelFrames
      /\ Top.at \in DictFrames /\ KeepStatus /\ UNCHANGED contents
  BY ContentsStay DEF PutEntry, In, CelFrames, DictFrames, ToCelStep
<1>2. /\ DOMAIN Top = Fields /\ Brings(Top, step) /\ DictBecomes(Top) /\ DynStep
      /\ IsSeq(Top.done) /\ IsSeq(Top.from) /\ Len(Top.done) = Len(Top.from)
      /\ Len(Top.done) \in Nat
  BY <1>1, DynTop, CelTop, SeqPlaces DEF FrameBecomes
<1>. DEFINE f == [Top EXCEPT !.at = "map",
                             !.done = Append(@, Pair(Top.key, step.value)),
                             !.from = Append(@, Top.entry)]
<1>3. \/ Refuse \/ \E fault : Return(CelResult(Status(fault), Top.entry.key))
      \/ ~Failed(step.value) /\ Again(f, CelItems)
  BY DEF PutEntry, Failed
<1>4. /\ f.at = "map" /\ f.done = Append(Top.done, Pair(Top.key, step.value))
      /\ f.from = Append(Top.from, Top.entry) /\ f.pos = Top.pos
      /\ f.object = Top.object /\ f.type = Top.type
  BY <1>1, <1>2 DEF Fields
<1>. HIDE DEF f
<1>5. CASE ~Failed(step.value) /\ Again(f, CelItems)
  <2>. DEFINE e == Pair(Top.key, step.value)
  <2>1. exc' = None
    BY <1>1, <1>2, <1>5 DEF DynStep, Gone, Failed, KeepStatus
  <2>2. EntryBecomes(Top.entry, e)
    BY <1>1, <1>2, <1>5
    DEF Brings, AwaitedObject, DynStep, BecomesAll, DictBecomes, EntryBecomes, Pair
  <2>. HIDE DEF e
  <2>3. /\ f.done = Append(Top.done, e) /\ Len(f.done) = Len(Top.done) + 1
        /\ f.done[Len(f.done)] = e /\ f.from[Len(f.done)] = Top.entry
        /\ \A n \in 1..Len(Top.done) : f.done[n] = Top.done[n] /\ f.from[n] = Top.from[n]
    BY <1>2, <1>4, AppendSeq DEF e
  <2>4. ASSUME NEW n \in 1..Len(f.done) PROVE n \in 1..Len(Top.done) \/ n = Len(f.done)
    BY <1>2, <2>3
  <2>5. \A n \in 1..Len(f.done) : EntryBecomes(f.from[n], f.done[n])
    BY <1>2, <2>2, <2>3, <2>4 DEF DictBecomes
  <2>6. ASSUME Whole(f.object)
        PROVE  /\ f.pos \in 0..Len(f.object.items) /\ f.pos = Len(f.done)
               /\ \A n \in 1..Len(f.done) : f.from[n] = f.object.items[n]
    BY <1>1, <1>2, <1>4, <2>3, <2>4, <2>6 DEF DictBecomes
  <2>7. FrameBecomes(f)
    BY <1>2, <1>4, <2>5, <2>6 DEF FrameBecomes, DictBecomes, CelFrames, DictFrames
  <2>. QED  BY <1>1, <1>5, <2>1, <2>7, DynGoesOn DEF Again
<1>. QED  BY <1>1, <1>3, <1>5, RefusedBecomes

\* A conversion of a result of type DYN goes on.
LEMMA ToCelBecomes ==
  ASSUME NestedInv, ConveyInv, DynInv, IsDyn, ToCelStep
  PROVE  DynInv'
BY LeafBecomes, BeginBecomes, NextItemBecomes, AddItemBecomes, NextEntryBecomes,
   EntryValueBecomes, PutEntryBecomes DEF ToCelStep

\* Nothing is made for Python while one is under way.
LEMMA NoToPython ==
  ASSUME NestedInv, DynInv, IsDyn
  PROVE  ~ToPythonStep
BY DEF DynInv, DynStep, ToPythonStep, LeafToPython, MessageToPython, ContainerToPython,
       NextPythonItem, ItemFails, AddPythonItem, AddPythonKey, IsPython

\* What the steps do to the stack, but for the one that begins such a conversion.
LEMMA StackMoves ==
  ASSUME NestedInv, ToPythonStep \/ ToCelStep \/ (EvalStep /\ ~\E o : FunctionReturns(o))
  PROVE  Moves
<1>1. ASSUME NEW s, Goto(s) \/ (stack # <<>> /\ Return(s)) PROVE Moves
  BY <1>1 DEF Goto, Return, Moves
<1>2. ASSUME NEW f, NEW s, Call(f, s) \/ (stack # <<>> /\ Again(f, s)), f.at # "result"
      PROVE  Moves
  BY <1>2 DEF Call, Again, Moves
<1>3. ASSUME NEW at, In(at), step.do \notin Idle PROVE stack # <<>> /\ DOMAIN Top = Fields /\ Top.at = at
  BY <1>3, TopRuns DEF In
<1>4. ASSUME NEW at \in {"list", "map", "python", "provide", "invoke", "access"}, NEW o, NEW t, NEW v
      PROVE  Frame(at, o, t, v).at # "result"
  BY DEF Frame
<1>5. CASE \/ ConvertNothing \/ ConvertDyn \/ ConvertNull \/ ConvertBool \/ ConvertNumber
           \/ ConvertString \/ ConvertBytes \/ ConvertTime \/ ConvertMessage \/ LookupRaises
           \/ FinishMessage \/ ConvertOther
  <2>1. UNCHANGED stack \/ \E s : Goto(s)
    BY <1>5 DEF ConvertNothing, ConvertDyn, ConvertNull, ConvertBool, ConvertNumber, ConvertString,
                ConvertBytes, ConvertTime, ConvertMessage, LookupRaises, FinishMessage, ConvertOther,
                Give, Make, InvalidType
  <2>. QED  BY <1>1, <2>1 DEF Moves
<1>6. CASE BeginList \/ BeginMap
  <2>1. ASSUME NEW name, ConvertMessageAs(name) PROVE \E s : Goto(s)
    BY <2>1 DEF ConvertMessageAs, Give, InvalidType
  <2>. DEFINE f(at) == Frame(at, step.object, step.type, NoValue)
  <2>2. \/ \E s : Goto(s) \/ Call(f("map"), s)
        \/ \E s, n : Call([f("list") EXCEPT !.size = n], s)
    BY <1>6, <2>1 DEF BeginList, BeginMap
  <2>3. \A n : [f("list") EXCEPT !.size = n].at # "result"
    BY DEF Frame
  <2>. HIDE DEF f
  <2>4. f("map").at # "result"
    BY DEF f, Frame
  <2>. QED  BY <1>1, <1>2, <2>2, <2>3, <2>4
<1>7. CASE NextItem \/ AddItem \/ NextEntry \/ ConvertEntryValue \/ PutEntry
  <2>1. \E at \in {"list", "map", "key", "value"} : In(at) /\ step.do \notin Idle
    BY <1>7 DEF NextItem, AddItem, NextEntry, ConvertEntryValue, PutEntry, Idle
  <2>2. stack # <<>> /\ DOMAIN Top = Fields /\ Top.at # "result"
    BY <1>3, <2>1
  <2>3. \/ \E s : Return(s)
        \/ \E s, i, e : Again([Top EXCEPT !.pos = i, !.entry = e], s)
        \/ \E s, i, e : Again([Top EXCEPT !.at = "key", !.pos = i, !.entry = e], s)
        \/ \E s, v : Again([Top EXCEPT !.at = "value", !.key = v], s)
        \/ \E s, d, e : Again([Top EXCEPT !.done = d, !.from = e], s)
        \/ \E s, d, e : Again([Top EXCEPT !.at = "map", !.done = d, !.from = e], s)
    BY <1>7 DEF NextItem, AddItem, NextEntry, ConvertEntryValue, PutEntry, Refuse
  <2>4. ASSUME NEW s, NEW i, NEW e,
               \/ Again([Top EXCEPT !.pos = i, !.entry = e], s)
               \/ Again([Top EXCEPT !.at = "key", !.pos = i, !.entry = e], s)
        PROVE  Moves
    <3>1. [Top EXCEPT !.pos = i, !.entry = e].at # "result"
          /\ [Top EXCEPT !.at = "key", !.pos = i, !.entry = e].at # "result"
      BY <2>2 DEF Fields
    <3>. QED  BY <1>2, <2>2, <2>4, <3>1
  <2>5. ASSUME NEW s, NEW v, Again([Top EXCEPT !.at = "value", !.key = v], s) PROVE Moves
    <3>1. [Top EXCEPT !.at = "value", !.key = v].at # "result"
      BY <2>2 DEF Fields
    <3>. QED  BY <1>2, <2>2, <2>5, <3>1
  <2>6. ASSUME NEW s, NEW d, NEW e,
               \/ Again([Top EXCEPT !.done = d, !.from = e], s)
               \/ Again([Top EXCEPT !.at = "map", !.done = d, !.from = e], s)
        PROVE  Moves
    <3>1. [Top EXCEPT !.done = d, !.from = e].at # "result"
          /\ [Top EXCEPT !.at = "map", !.done = d, !.from = e].at # "result"
      BY <2>2 DEF Fields
    <3>. QED  BY <1>2, <2>2, <2>6, <3>1
  <2>. QED  BY <1>1, <2>2, <2>3, <2>4, <2>5, <2>6
<1>8. CASE ToPythonStep
  <2>1. CASE LeafToPython \/ MessageToPython \/ ContainerToPython
    BY <1>1, <1>2, <1>4, <2>1 DEF LeafToPython, MessageToPython, ContainerToPython
  <2>2. CASE NextPythonItem \/ ItemFails \/ AddPythonItem \/ AddPythonKey
    <3>1. \E at \in {"python", "pythonKey"} : In(at) /\ step.do \notin Idle
      BY <2>2 DEF NextPythonItem, ItemFails, AddPythonItem, AddPythonKey, Idle
    <3>2. stack # <<>> /\ DOMAIN Top = Fields /\ Top.at # "result"
      BY <1>3, <3>1
    <3>3. \/ \E s : Return(s) \/ Goto(s)
          \/ \E s, i : Again([Top EXCEPT !.pos = i], s)
          \/ \E s, i : Again([Top EXCEPT !.pos = i, !.at = "pythonKey"], s)
          \/ \E s, d : Again([Top EXCEPT !.done = d], s)
          \/ \E s, e : Again([Top EXCEPT !.at = "python", !.entry = e], s)
      BY <2>2 DEF NextPythonItem, ItemFails, AddPythonItem, AddPythonKey
    <3>4. ASSUME NEW s, NEW i,
                 \/ Again([Top EXCEPT !.pos = i], s)
                 \/ Again([Top EXCEPT !.pos = i, !.at = "pythonKey"], s)
          PROVE  Moves
      <4>1. [Top EXCEPT !.pos = i].at # "result"
            /\ [Top EXCEPT !.pos = i, !.at = "pythonKey"].at # "result"
        BY <3>2 DEF Fields
      <4>. QED  BY <1>2, <3>2, <3>4, <4>1
    <3>5. ASSUME NEW s, NEW d,
                 \/ Again([Top EXCEPT !.done = d], s)
                 \/ Again([Top EXCEPT !.at = "python", !.entry = d], s)
          PROVE  Moves
      <4>1. [Top EXCEPT !.done = d].at # "result"
            /\ [Top EXCEPT !.at = "python", !.entry = d].at # "result"
        BY <3>2 DEF Fields
      <4>. QED  BY <1>2, <3>2, <3>5, <4>1
    <3>. QED  BY <1>1, <3>2, <3>3, <3>4, <3>5
  <2>. QED  BY <1>8, <2>1, <2>2 DEF ToPythonStep
<1>9. CASE EvalStep /\ ~\E o : FunctionReturns(o)
  <2>1. CASE StartEval \/ LookupElsewhere \/ SelectField \/ EndEval
    BY <1>1, <2>1 DEF StartEval, LookupElsewhere, SelectField, EndEval, Moves
  <2>2. CASE EndProvide \/ FunctionFails \/ EndInvoke \/ EndAccess
    BY <1>1, <2>2 DEF EndProvide, FunctionFails, EndInvoke, EndAccess, In
  <2>3. CASE CallFunction
    <3>1. stack # <<>> /\ DOMAIN Top = Fields
      BY <1>3, <2>3 DEF CallFunction, Idle
    <3>2. \/ \E s : Goto(s)
          \/ \E s, e : Again([Top EXCEPT !.at = "function", !.from = e], s)
      BY <2>3 DEF CallFunction
    <3>3. \A e : [Top EXCEPT !.at = "function", !.from = e].at # "result"
      BY <3>1 DEF Fields
    <3>. QED  BY <1>1, <1>2, <3>1, <3>2, <3>3
  <2>4. CASE Access \/ (\E x \in Variables : Provide(x)) \/ (\E t \in Returns : Invoke(t))
    <3>1. \E at \in {"provide", "invoke", "access"} : \E o, t, v, s : Call(Frame(at, o, t, v), s)
      BY <2>4 DEF Access, Provide, Invoke
    <3>. QED  BY <1>2, <1>4, <3>1
  <2>. QED  BY <1>9, <2>1, <2>2, <2>3, <2>4 DEF EvalStep
<1>. QED  BY <1>5, <1>6, <1>7, <1>8, <1>9 DEF ToCelStep

\* The function returns an object, whose conversion begins with no exception.
LEMMA ResultBegins ==
  ASSUME NestedInv, DynInv, NEW o, FunctionReturns(o)
  PROVE  DynInv'
<1>1. step.do = "function" /\ stack # <<>> /\ Top.at = "function" /\ DOMAIN Top = Fields
      /\ Front(stack) = <<>> /\ IsSeq(stack)
  BY TopRuns, NestedTop DEF FunctionReturns, In, Idle, Roots, NestedInv, Nested, Top
<1>. DEFINE f == [Top EXCEPT !.at = "result", !.object = o]
<1>2. /\ stack' = Append(Front(stack), f) /\ step' = ToCel(o, Top.type, FALSE) /\ exc' = None
      /\ UNCHANGED contents
  BY DEF FunctionReturns, Again, Inside
<1>3. f.type = Top.type
  BY <1>1 DEF Fields
<1>. HIDE DEF f
<1>4. Len(stack') = 1 /\ stack'[1] = f
  <2>1. IsSeq(Front(stack)) /\ Len(Front(stack)) = 0
    BY <1>1, FrontSeq, SeqPlaces
  <2>. QED  BY <1>2, <2>1, AppendSeq
<1>5. DynFrames'
  BY <1>4 DEF DynFrames
<1>6. ASSUME IsDyn' PROVE DynStep'
  <2>1. Top.type = Dyn
    BY <1>3, <1>4, <1>6 DEF IsDyn, Dyn
  <2>. QED  BY <1>2, <2>1 DEF DynStep, ToCel, Dyn, Scalar, Record
<1>. QED  BY <1>2, <1>5, <1>6 DEF DynInv

\* No step breaks what holds of a result of type DYN.
LEMMA DynInvStep == NestedInv /\ ConveyInv /\ DynInv /\ [Next]_vars => DynInv'
<1>. SUFFICES ASSUME NestedInv, ConveyInv, DynInv, [Next]_vars PROVE DynInv'
  OBVIOUS
<1>1. ASSUME Moves, UNCHANGED contents, ~IsDyn PROVE DynInv'
  BY <1>1, DynBefore DEF DynInv
<1>2. CASE ToCelStep
  BY <1>1, <1>2, StackMoves, ContentsStay, ToCelBecomes
<1>3. CASE ToPythonStep
  BY <1>1, <1>3, StackMoves, ContentsStay, NoToPython
<1>4. CASE EvalStep /\ ~\E o : FunctionReturns(o)
  <2>1. Moves /\ UNCHANGED contents
    BY <1>4, StackMoves, ContentsStay
  <2>2. CASE IsDyn
    <3>1. step.do \in {"toCel", "released", "cel", "celItems"} /\ stack # <<>>
      BY <2>2 DEF DynInv, DynStep, IsDyn
    <3>2. EndProvide \/ EndInvoke
      <4>1. step # InUser /\ step # InRuntime /\ step.do \notin {"runtime", "function", "object"}
        BY <3>1 DEF InUser, InRuntime
      <4>2. ~(StartEval \/ LookupElsewhere \/ SelectField \/ CallFunction \/ FunctionFails)
        BY <4>1 DEF StartEval, LookupElsewhere, SelectField, CallFunction, FunctionFails
      <4>3. ~(EndEval \/ Access \/ EndAccess)
        BY <4>1 DEF EndEval, Access, EndAccess
      <4>4. \A x : ~Provide(x) /\ ~Invoke(x)
        BY <4>1 DEF Provide, Invoke, MayCallBack
      <4>. QED  BY <1>4, <4>2, <4>3, <4>4 DEF EvalStep
    <3>3. Top.at \in Roots /\ stack' = Front(stack)
      BY <3>2 DEF EndProvide, EndInvoke, In, Return, Roots
    <3>4. stack' = <<>>
      BY <3>1, <3>3, NestedTop DEF NestedInv, Top
    <3>. QED  BY <2>1, <3>4 DEF DynInv, IsDyn
  <2>. QED  BY <1>1, <2>1, <2>2
<1>5. ASSUME NEW o, FunctionReturns(o) PROVE DynInv'
  BY <1>5, ResultBegins
<1>6. CASE UNCHANGED vars \/ \E c \in DOMAIN contents : Edit(c)
  <2>1. UNCHANGED <<stack, step, exc>> /\ DOMAIN contents' = DOMAIN contents
    BY <1>6 DEF vars, Edit
  <2>2. IsDyn' => IsDyn
    BY <2>1 DEF IsDyn, Dyn
  <2>3. DynStep => DynStep'
    BY <2>1 DEF DynStep, Gone, In, Top
  <2>4. IsDyn /\ DynFrames => DynFrames'
    BY <2>1, DynFramesKept DEF IsDyn
  <2>. QED  BY <2>1, <2>2, <2>3, <2>4 DEF DynInv
<1>. QED  BY <1>2, <1>3, <1>4, <1>5, <1>6 DEF Next

\* No function returns at first.
LEMMA DynInit == Init => DynInv
BY HostsAreNamed DEF Init, DynInv, IsDyn

\* A value that has been to Python and back is as it was, but for its items.
LEMMA BackAgain ==
  ASSUME NEW o, NEW w, NEW c, Ok(w), StandsFor(o, w), Becomes(o, c), ~Failed(c)
  PROVE  Alike(c, w)
<1>1. /\ o # nullptr /\ ~IsField(w) /\ o.type \notin {"datetime", "timedelta"}
  BY DEF Becomes, Ok, IsField, NoData, Leaves
<1>2. \A type, data, items : Object(type, data, items).type = type /\ Object(type, data, items).data = data
  BY DEF Object
<1>3. CASE w.kind \in Leaves
  <2>1. o = Object(PythonTypes[w.kind], w.data, <<>>)
    BY <1>1, <1>3 DEF StandsFor, Leaves
  <2>2. o.type = PythonTypes[w.kind] /\ o.data = w.data
    BY <1>2, <2>1
  <2>3. /\ w.kind = "null" => w.data = "None"
        /\ w.kind = "int"  => w.data \in {"negative", "small"}
        /\ w.kind = "uint" => w.data \in {"small", "big"}
    BY <1>3 DEF Ok, Leaves
  <2>4. CASE w.kind \in {"int", "uint"}
    <3>1. o.type = "int"
      BY <2>2, <2>4 DEF PythonTypes
    <3>. QED  BY <2>2, <2>3, <2>4, <3>1 DEF Becomes, Alike
  <2>5. CASE w.kind \in {"null", "bool", "double", "string", "bytes"}
    <3>1. /\ w.kind = "null" => o.type = "NoneType"
          /\ w.kind = "bool" => o.type = "bool"
          /\ w.kind = "double" => o.type = "float"
          /\ w.kind = "string" => o.type = "str"
          /\ w.kind = "bytes" => o.type = "bytearray"
      BY <2>2, <2>5 DEF PythonTypes
    <3>. QED  BY <2>2, <2>3, <2>5, <3>1, KindOfDomain DEF Becomes, Alike
  <2>6. CASE w.kind \in {"timestamp", "duration"}
    BY <1>1, <2>2, <2>6 DEF PythonTypes
  <2>. QED  BY <1>3, <2>4, <2>5, <2>6 DEF Leaves
<1>4. CASE w.kind = "message"
  <2>1. o = Object(w.items[1], w.data, <<>>) /\ w.items[1] \in {"TestAllTypes", "Lost"}
    BY <1>1, <1>4 DEF StandsFor, Ok, Leaves, PythonTypes
  <2>2. o.type \in {"TestAllTypes", "Lost"} /\ o.data = w.data
    BY <1>2, <2>1
  <2>. QED  BY <1>4, <2>2, KindOfDomain DEF Becomes, Alike
<1>5. CASE w.kind \in {"list", "map"}
  <2>1. w.data = NoData /\ o.type = (IF w.kind = "list" THEN "list" ELSE "dict")
    BY <1>1, <1>5 DEF StandsFor, Ok, Leaves, PythonTypes
  <2>. QED  BY <1>5, <2>1, KindOfDomain DEF Becomes, Alike
<1>. QED  BY <1>3, <1>4, <1>5 DEF Ok

\* With its items too.
LEMMA AllBackAgain ==
  ASSUME NEW o, NEW w, NEW c, Proper(w), StandsForAll(o, w), BecomesAll(o, c), Proper(c),
         ~Failed(c)
  PROVE  Same(c, w)
<1>1. Ok(w) /\ Ok(c) /\ Alike(c, w) /\ o # nullptr /\ ~IsField(w)
  BY BackAgain DEF Proper, StandsForAll, BecomesAll, Becomes, Ok, IsField, NoData, Leaves
<1>2. CASE w.kind \in Leaves
  <2>1. w.items = <<>> /\ c.items = <<>>
    BY <1>1, <1>2 DEF Ok, Alike, Leaves
  <2>. QED  BY <1>1, <2>1 DEF Same
<1>3. CASE w.kind = "message"
  BY <1>1, <1>3 DEF Same, Alike
<1>4. ASSUME NEW v, Ok(v) PROVE ~Failed(v)
  BY <1>4 DEF Ok, Failed, Leaves
<1>5. CASE w.kind \in {"list", "map"}
  <2>1. /\ c.kind = w.kind /\ IsSeq(c.items) /\ IsSeq(w.items)
    BY <1>1, <1>5 DEF Alike, Ok, Leaves
  <2>2. /\ IsSeq(o.items) /\ Len(o.items) = Len(w.items)
        /\ \A i \in 1..Len(w.items) :
             IF w.kind = "list" THEN StandsFor(o.items[i], w.items[i])
                                ELSE EntryStands(o.items[i], w.items[i])
    BY <1>1, <1>5, <2>1 DEF StandsForAll
  <2>3. o.data = "made" /\ o.type = (IF w.kind = "list" THEN "list" ELSE "dict")
    BY <1>1, <1>5 DEF StandsForAll, StandsFor, PythonTypes
  <2>4. Whole(o)
    BY <1>5, <2>2, <2>3 DEF Whole, EntryStands, Removed, Pair
  <2>5. /\ Len(c.items) = Len(o.items)
        /\ \A i \in 1..Len(o.items) :
             IF w.kind = "list" THEN Becomes(o.items[i], c.items[i])
                                ELSE EntryBecomes(o.items[i], c.items[i])
    BY <1>5, <2>3, <2>4 DEF BecomesAll
  <2>6. DOMAIN c.items = 1..Len(w.items)
    BY <2>1, <2>2, <2>5, SeqPlaces
  <2>7. ASSUME NEW i \in 1..Len(w.items), w.kind = "list" PROVE Alike(c.items[i], w.items[i])
    <3>1. Ok(w.items[i]) /\ Ok(c.items[i])
      BY <2>1, <2>2, <2>5, <2>7 DEF Proper
    <3>. QED  BY <1>4, <2>2, <2>5, <2>7, <3>1, BackAgain
  <2>8. ASSUME NEW i \in 1..Len(w.items), w.kind = "map"
        PROVE  /\ Alike(c.items[i].key, w.items[i].key)
               /\ Alike(c.items[i].value, w.items[i].value)
    <3>1. /\ Ok(w.items[i].key) /\ Ok(w.items[i].value)
          /\ Ok(c.items[i].key) /\ Ok(c.items[i].value)
      BY <2>1, <2>2, <2>5, <2>8 DEF Proper
    <3>2. EntryStands(o.items[i], w.items[i]) /\ EntryBecomes(o.items[i], c.items[i])
      BY <2>2, <2>5, <2>8
    <3>. QED  BY <1>4, <3>1, <3>2, BackAgain DEF EntryStands, EntryBecomes
  <2>. QED  BY <1>1, <1>5, <2>1, <2>2, <2>5, <2>6, <2>7, <2>8 DEF Same
<1>. QED  BY <1>1, <1>2, <1>3, <1>5 DEF Ok

\* Where the function's result is ready, it is of type DYN, is the argument's
\* object, and stands for the argument: it becomes the argument again.
LEMMA IdentityLocal == NestedInv /\ ConveyInv /\ DynInv => IdentityKeepsValues
<1>. SUFFICES ASSUME NestedInv, ConveyInv, DynInv, step.do = "cel", In("result"),
                     Top.type = Scalar("dyn"), <<Top.object>> = Top.from,
                     Top.value.data # "field", ~Failed(step.value)
              PROVE  Same(step.value, Top.value)
  BY DEF IdentityKeepsValues
<1>1. stack # <<>> /\ Top.at = "result" /\ Front(stack) = <<>> /\ IsSeq(stack)
  BY NestedTop DEF In, Roots, NestedInv, Nested, Top
<1>2. Len(stack) = 1
  <2>1. Len(Front(stack)) = Len(stack) - 1 /\ Len(stack) \in Nat /\ IsSeq(Front(stack))
    BY <1>1, FrontSeq
  <2>2. Len(Front(stack)) = 0
    BY <1>1, <2>1, SeqPlaces
  <2>. QED  BY <2>1, <2>2
<1>3. IsDyn
  BY <1>1, <1>2 DEF IsDyn, Top, Last, Dyn
<1>4. Carries(Top) /\ Brings(Top, step)
  BY <1>1, ConveyTop DEF ConveyInv, Top
<1>5. Proper(Top.value) /\ StandsForAll(Top.object, Top.value)
  <2>1. Top.from = <<Top.from[1]>> /\ StandsForAll(Top.from[1], Top.value)
        /\ Proper(Top.value)
    BY <1>1, <1>4 DEF Carries, IsField
  <2>2. <<Top.object>>[1] = Top.object
    OBVIOUS
  <2>. QED  BY <2>1, <2>2
<1>6. Proper(step.value) /\ step.object = Top.object
  BY <1>1, <1>4 DEF Brings, AwaitedObject
<1>7. BecomesAll(Top.object, step.value)
  BY <1>3, <1>6 DEF DynInv, DynStep
<1>. QED  BY <1>5, <1>6, <1>7, AllBackAgain

\* A value that a Python function with return type DYN returns as it got it is
\* the same value or an error, for any value that a conversion can make, with
\* lists and maps of any length, and whatever other threads change meanwhile
\* (py_cel_value.cc:323-487, 599-823; py_cel_type.cc:404-456).
THEOREM IdentityHolds == Spec => []IdentityKeepsValues
<1>1. Init => NestedInv /\ ConveyInv /\ DynInv
  BY NestedInit, ConveyInit, DynInit
<1>2. NestedInv /\ ConveyInv /\ DynInv /\ [Next]_vars => NestedInv' /\ ConveyInv' /\ DynInv'
  BY NestedStep, ConveyStep, DynInvStep
<1>. QED  BY <1>1, <1>2, IdentityLocal, PTL DEF Spec
=============================================================================
