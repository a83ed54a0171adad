----------------------------- MODULE Conversion -----------------------------
(***************************************************************************)
(* Values on their way between Python and CEL (py_cel_value.cc,            *)
(* PyObjectToCelValue and CelValueToPyObject), as an evaluation needs      *)
(* them: a variable of the activation is provided, a Python function is    *)
(* called with a value and returns an object, the result is asked for with *)
(* plain_value().                                                          *)
(*                                                                         *)
(* One thread evaluates; stack is its C++ stack, step what it does next.   *)
(* It goes from item to item of lists and dicts that belong to the host    *)
(* program, whose other threads may change them meanwhile: with the GIL    *)
(* where the evaluation has given it up, in a free-threaded build always.  *)
(* What Python raises is the thread's current exception until some code    *)
(* takes it, and what a descriptor lookup raises is in the slot of         *)
(* py_error_status.cc.                                                     *)
(*                                                                         *)
(* The host keeps a reference to every object that was in one of its       *)
(* containers, and PyDict_Next and PyList_GetItem are atomic: what a       *)
(* conversion borrows stays valid.  No list contains itself, and strings   *)
(* have a UTF-8 encoding.                                                  *)
(***************************************************************************)
EXTENDS CelTypes

CONSTANTS
  Hosts,          \* what the host's containers may have at first, by name
  Dicts,          \* names of those that are dicts; the others are lists
  Variables,      \* the variables of the activation: an object, a declared type
  Returns,        \* return types of the functions
  Others,         \* objects that functions return and the host puts into containers
  Keys,           \* those that it puts into dicts as keys
  FreeThreaded,   \* TRUE in a Py_GIL_DISABLED build
  DictSlots,      \* entries, removed ones too, before a dict is compacted
  MaxCallbacks,   \* bound: callbacks of an evaluation
  MaxVersions     \* bound: versions of all containers

ASSUME ConversionBounds ==
  /\ FreeThreaded \in BOOLEAN
  /\ DictSlots \in Nat /\ MaxCallbacks \in Nat /\ MaxVersions \in Nat

\* No container of the host has the name that those of conversions have.
ASSUME HostsAreNamed == \A host \in Hosts : "made" \notin DOMAIN host

VARIABLES
  step,       \* what the thread does next
  stack,      \* the calls that wait for a conversion, the innermost last
  exc,        \* the thread's current Python exception
  slot,       \* its PendingPyError()
  last,       \* the value of the last callback
  callbacks,  \* callbacks of this evaluation
  contents    \* contents[c]: all versions of container c, the newest last

vars == <<step, stack, exc, slot, last, callbacks, contents>>

-----------------------------------------------------------------------------
(***************************************************************************)
(* Python objects: the name of a type, and what matters of the data.  A    *)
(* list or dict of the host has its name as data; one that a conversion    *)
(* makes has its items with it.  An int is negative (of 64 bits), small    *)
(* (of 63), big (of 64) or huge (no double either).                        *)
(***************************************************************************)
Object(type, data, items) == [type |-> type, data |-> data, items |-> items]

\* The data where only the type, or the items, matter.
NoData == ""

nullptr == Object("nullptr", NoData, <<>>)

Pair(k, v) == [key |-> k, value |-> v]

\* An entry that was removed from a dict; what PyDict_Next passes over.
Removed == Pair(nullptr, nullptr)

Versions(o) == IF o.data \in DOMAIN contents THEN contents[o.data] ELSE <<o.items>>

Items(o) == Last(Versions(o))

\* Full names of the messages by the names of their Python types.
MessageNames ==
  [TestAllTypes |-> "TestAllTypes", Lost |-> "Lost",
   Int32Value |-> "google.protobuf.Int32Value",
   ListValue |-> "google.protobuf.ListValue", Struct |-> "google.protobuf.Struct",
   Timestamp |-> "google.protobuf.Timestamp", Duration |-> "google.protobuf.Duration"]

\* PyNumber_Check, and whether PyLong_AsLongLong, PyLong_AsUnsignedLongLong or
\* PyFloat_AsDouble returns without an exception.
IsNumber(o) == o.type \in {"bool", "int", "float"}

Fits(o, kind) ==
  CASE kind = "int"    -> o.type = "bool" \/ (o.type = "int" /\ o.data \in {"negative", "small"})
    [] kind = "uint"   -> o.type = "bool" \/ (o.type = "int" /\ o.data \in {"small", "big"})
    [] kind = "double" -> IsNumber(o) /\ ~(o.type = "int" /\ o.data = "huge")

(***************************************************************************)
(* CEL values, and what a conversion has instead of one: an ErrorValue or  *)
(* a Status, with the exception or the fault it tells of.                  *)
(***************************************************************************)
Fault(at, of) == [at |-> at, of |-> of]

None == Fault("none", nullptr)

\* What a lookup of somebody else has left in the slot.
Stale == Fault("stale", nullptr)

Value(kind, data, items) ==
  [kind |-> kind, data |-> data, items |-> items, fault |-> None]

NoValue == Value("none", NoData, <<>>)

ErrorValue(f) == [kind |-> "error", data |-> NoData, items |-> <<>>, fault |-> f]
Status(f)     == [kind |-> "status", data |-> NoData, items |-> <<>>, fault |-> f]
Failed(v)         == v.kind \in {"error", "status"}

-----------------------------------------------------------------------------
(* Steps and frames.                                                       *)

InUser    == [do |-> "user"]      \* Python code outside of evaluations
InRuntime == [do |-> "runtime"]   \* the evaluation, without the GIL
Crashed   == [do |-> "crash"]

\* PyObjectToCelValue(object, type) and CelValueToPyObject(value) are called.
ToCel(o, t, bypass) == [do |-> "toCel", object |-> o, type |-> t, bypass |-> bypass]
ToPython(v)         == [do |-> "toPython", value |-> v]

\* They return to the innermost frame; o is the object that was converted, in
\* an error the one that it is about.
CelResult(v, o) == [do |-> "cel", value |-> v, object |-> o]
PythonResult(o) == [do |-> "object", object |-> o]

\* The innermost frame goes on to its next item.
CelItems    == [do |-> "celItems"]
PythonItems == [do |-> "pythonItems"]

\* ProtoMessageToCelValue has released the GIL.
Released(o) == [do |-> "released", object |-> o]

\* A Python function runs, with an argument.
InFunction(o) == [do |-> "function", object |-> o]

(***************************************************************************)
(* A frame: which function, of what object or value, and its local         *)
(* variables: pos counts items or slots, entry is the key and value that   *)
(* PyDict_Next returned, key the converted key, done the converted items.  *)
(* since (the version at the start) and from (what done was made of) are   *)
(* for the properties.                                                     *)
(***************************************************************************)
Frame(at, object, type, value) ==
  [at |-> at, object |-> object, type |-> type, value |-> value, size |-> 0,
   pos |-> 0, entry |-> Removed, key |-> NoValue, done |-> <<>>,
   since |-> Len(Versions(object)), from |-> <<>>]

Top   == Last(stack)
In(f) == stack # <<>> /\ Top.at = f

Call(frame, s)  == stack' = Append(stack, frame) /\ step' = s
Again(frame, s) == stack' = Append(Front(stack), frame) /\ step' = s
Return(s)       == stack' = Front(stack) /\ step' = s
Goto(s)         == step' = s /\ UNCHANGED stack

\* PyErr_toStatus: the current exception, else what is pending; both are empty
\* then.
TheStatus == IF exc # None THEN exc ELSE slot

TakeStatus == exc' = None /\ slot' = None

KeepStatus == UNCHANGED <<exc, slot>>

Inside == UNCHANGED <<last, callbacks, contents>>

Init ==
  /\ step = InUser
  /\ stack = <<>>
  /\ exc = None
  /\ slot \in {None, Stale}
  /\ last = NoValue
  /\ callbacks = 0
  /\ \E host \in Hosts : contents = [c \in DOMAIN host |-> <<host[c]>>]

-----------------------------------------------------------------------------
(* PyObjectToCelValue, one action per case.                                *)

\* Python types that ForPyObject knows by name.
PrimitiveTypes ==
  [NoneType |-> Scalar("null"), bool |-> Scalar("bool"), float |-> Scalar("double"),
   str |-> Scalar("string"), bytes |-> Scalar("bytes"), bytearray |-> Scalar("bytes"),
   list |-> ListType(Scalar("dyn")), dict |-> MapType(Scalar("dyn"), Scalar("dyn"))]

NoType == Unsupported

Found(t, e) == [type |-> t, exc |-> e]

\* Whether PyLong_AsLongLong seems to succeed: an exception that is there already
\* looks like one of its own.
FitsInt(o) == IsNumber(o) /\ Fits(o, "int") /\ exc = None

\* It fails, and PyLong_AsUnsignedLongLong succeeds.
FitsUint(o) == IsNumber(o) /\ ~FitsInt(o) /\ Fits(o, "uint")

\* Mutant: numbers are tried first.
ForPyObject_NumbersFirst(o) ==
  CASE FitsInt(o)  -> Found(Scalar("int"), exc)
    [] FitsUint(o) -> Found(Scalar("uint"), None)
    [] o.type \in DOMAIN PrimitiveTypes /\ ~FitsInt(o) /\ ~FitsUint(o) ->
         Found(PrimitiveTypes[o.type], exc)
    [] o.type \in DOMAIN MessageNames -> Found(MessageType(<<MessageNames[o.type]>>), exc)
    [] OTHER -> Found(NoType, None)

\* Mutant: the exception of an integer that is out of range stays.
ForPyObject_NoClear(o) ==
  CASE o.type \in DOMAIN PrimitiveTypes -> Found(PrimitiveTypes[o.type], exc)
    [] o.type = "int" /\ FitsInt(o)  -> Found(Scalar("int"), exc)
    [] o.type = "int" /\ FitsUint(o) -> Found(Scalar("uint"), None)
    [] o.type = "int" /\ ~FitsInt(o) /\ ~FitsUint(o) -> Found(NoType, Fault("overflow", o))
    [] o.type \in DOMAIN MessageNames -> Found(MessageType(<<MessageNames[o.type]>>), exc)
    [] OTHER -> Found(NoType, None)

\* PyCelType::ForPyObject: a type or a Status, and the current exception after
\* it.  Of the numbers only an int has no type by its name.
ForPyObject(o) ==
  CASE o.type \in DOMAIN PrimitiveTypes -> Found(PrimitiveTypes[o.type], exc)
    [] o.type = "int" /\ FitsInt(o)  -> Found(Scalar("int"), exc)
    [] o.type = "int" /\ FitsUint(o) -> Found(Scalar("uint"), None)
    [] o.type \in DOMAIN MessageNames -> Found(MessageType(<<MessageNames[o.type]>>), exc)
    [] OTHER -> Found(NoType, None)

\* PyObjectToCelValue is called for an object and a type of one of the kinds.
Converts(kinds) ==
  step.do = "toCel" /\ step.object # nullptr /\ step.type.kind \in kinds /\ Inside

\* It returns a value, which needs no more of Python.
Give(v) == Goto(CelResult(v, step.object))

Make(data) == Give(Value(step.type.kind, data, <<>>)) /\ KeepStatus

InvalidType == Give(ErrorValue(Fault("type", step.object)))

\* A missing item, argument or result.
ConvertNothing ==
  /\ step.do = "toCel" /\ step.object = nullptr /\ Inside
  /\ Give(ErrorValue(Fault("missing", nullptr))) /\ KeepStatus

ConvertDyn ==
  /\ Converts({"dyn"})
  /\ UNCHANGED slot
  /\ LET found == ForPyObject(step.object) IN
     /\ exc' = found.exc
     /\ IF found.type = NoType
          THEN Give(Status(Fault("type", step.object)))
          ELSE Goto(ToCel(step.object, found.type, TRUE))

ConvertNull == Converts({"null"}) /\ Make("None")

ConvertBool ==
  /\ Converts({"bool"})
  /\ IF step.object.type = "bool"
       THEN Make(step.object.data)
       ELSE InvalidType /\ KeepStatus

\* What a number is as an int, uint or double: True is 1.
NumberOf(o) == IF o.type = "bool" THEN "small" ELSE o.data

\* PyErr_Occurred cannot tell an older exception from one of this object.
ConvertNumber ==
  /\ Converts({"int", "uint", "double"})
  /\ IF step.bypass \/ IsNumber(step.object)
       THEN LET raised == IF Fits(step.object, step.type.kind)
                            THEN exc
                            ELSE Fault("overflow", step.object)
            IN IF raised = None
                 THEN Make(NumberOf(step.object))
                 ELSE Give(ErrorValue(raised)) /\ TakeStatus
       ELSE InvalidType /\ KeepStatus

\* PyBytes_AsString as a C string.
Cut(data) == IF data = "nul" THEN "cut" ELSE data

ConvertString ==
  /\ Converts({"string"})
  /\ CASE step.object.type = "str"   -> Make(step.object.data)
       [] step.object.type = "bytes" -> Make(Cut(step.object.data))
       [] OTHER -> InvalidType /\ KeepStatus

ConvertBytes ==
  /\ Converts({"bytes"})
  /\ CASE step.object.type = "bytearray" -> Make(step.object.data)
       [] step.object.type = "bytes"     -> Make(Cut(step.object.data))
       [] OTHER -> InvalidType /\ KeepStatus

\* A datetime or timedelta, by a cast that may fail, or a message of which two
\* attributes are read; PyErr_Occurred is asked after each.
ConvertTime ==
  /\ Converts({"timestamp", "duration"})
  /\ LET o == step.object
         native  == o.type = (IF step.type.kind = "timestamp" THEN "datetime" ELSE "timedelta")
         message == o.type = (IF step.type.kind = "timestamp" THEN "Timestamp" ELSE "Duration")
     IN CASE ~native /\ ~message -> InvalidType /\ KeepStatus
          [] (native \/ message) /\ (o.data = "bad" \/ (message /\ exc # None)) ->
               Give(Status(Fault("cast", o))) /\ exc' = None /\ UNCHANGED slot
          [] OTHER -> IF o.data = "out"
                        THEN Give(ErrorValue(Fault("range", o))) /\ KeepStatus
                        ELSE Make(o.data)

NormalizeTypeName(n) ==
  IF n = <<"google.protobuf.Int32Value">> THEN <<"google.protobuf.Int64Value">> ELSE n

\* SerializePartialToString raises, also because an exception is there already
\* or only messages have it: the exception is cleared first and a Status asked
\* for then.
ConvertMessage ==
  /\ Converts({"message"})
  /\ LET o == step.object
         found == ForPyObject(o)
         name == found.type.name
         wrong == ~step.bypass /\ NormalizeTypeName(name) # NormalizeTypeName(step.type.name)
         raises == \/ o.type \notin DOMAIN MessageNames
                   \/ o.data = "unserializable" \/ exc # None
     IN CASE found.type = NoType ->
               Give(Status(Fault("type", o))) /\ exc' = found.exc /\ UNCHANGED slot
          [] found.type # NoType /\ wrong ->
               InvalidType /\ exc' = found.exc /\ UNCHANGED slot
          [] found.type # NoType /\ ~wrong /\ raises ->
               Give(ErrorValue(slot)) /\ TakeStatus
          [] OTHER -> IF o.data = "text"
                        THEN InvalidType /\ KeepStatus
                        ELSE Goto(Released(o)) /\ KeepStatus

\* The descriptor pool asks PyDescriptorDatabase, which notes an exception.
LookupRaises ==
  /\ step.do = "released"
  /\ slot' = Fault("lookup", step.object)
  /\ UNCHANGED <<step, stack, exc>> /\ Inside

\* What WrapMessage makes of a message; an int32 is negative or small.
Wrapped(o) ==
  CASE o.type = "Int32Value" ->
         Value("int", IF o.data = "negative" THEN "negative" ELSE "small", <<>>)
    [] o.type = "Timestamp"  -> Value("timestamp", o.data, <<>>)
    [] o.type = "Duration"   -> Value("duration", o.data, <<>>)
    [] o.type = "ListValue"  -> Value("list", NoData, <<>>)
    [] o.type = "Struct"     -> Value("map", NoData, <<>>)
    [] OTHER -> Value("message", o.data, <<o.type>>)

\* The value of ProtoMessageToCelValue, if there is no pending exception.
Parsed(o) ==
  IF MessageNames[o.type] \in LostMessages \/ o.data = "corrupt"
    THEN ErrorValue(Fault("parse", o))
    ELSE Wrapped(o)

\* Mutant: the value is looked at before the pending exception.
FinishMessage_ValueFirst ==
  /\ step.do = "released" /\ Inside
  /\ IF Failed(Parsed(step.object))
       THEN Give(Parsed(step.object)) /\ KeepStatus
       ELSE Give(IF TheStatus # None THEN ErrorValue(TheStatus) ELSE Parsed(step.object))
            /\ TakeStatus

\* It has the GIL again.
FinishMessage ==
  /\ step.do = "released" /\ Inside
  /\ Give(IF TheStatus # None THEN ErrorValue(TheStatus) ELSE Parsed(step.object))
  /\ TakeStatus

\* The object for a list or map type is no list or dict.
ConvertMessageAs(name) ==
  /\ UNCHANGED slot
  /\ LET found == ForPyObject(step.object) IN
     /\ exc' = found.exc
     /\ CASE found.type = NoType -> Give(Status(Fault("type", step.object)))
          [] found.type.name = <<name>> -> Goto(ToCel(step.object, found.type, TRUE))
          [] OTHER -> InvalidType

BeginList ==
  /\ Converts({"list"})
  /\ IF step.object.type = "list"
       THEN /\ Call([Frame("list", step.object, step.type, NoValue)
                       EXCEPT !.size = Len(Items(step.object))], CelItems)
            /\ KeepStatus
       ELSE ConvertMessageAs("google.protobuf.ListValue")

\* PyList_GetItem of an item that is gone raises an IndexError, which stays.
NextItem ==
  /\ step.do = "celItems" /\ In("list") /\ Inside
  /\ LET i == Top.pos + 1
         items == Items(Top.object)
         element == Top.type.params[1]
     IN CASE i > Top.size ->
               Return(CelResult(Value("list", NoData, Top.done), Top.object)) /\ KeepStatus
          [] i <= Top.size /\ i \in DOMAIN items ->
               /\ Again([Top EXCEPT !.pos = i, !.entry = Pair(nullptr, items[i])],
                        ToCel(items[i], element, FALSE))
               /\ KeepStatus
          [] OTHER ->
               /\ Again([Top EXCEPT !.pos = i, !.entry = Removed],
                        ToCel(nullptr, element, FALSE))
               /\ exc' = Fault("index", Top.object) /\ UNCHANGED slot

\* A Status goes to the caller, and builder->Add makes one of an error.
Refuse == Failed(step.value) /\ Return(CelResult(Status(step.value.fault), step.object))

\* Mutant: an item that is an error is left out.
AddItem_Skip ==
  /\ step.do = "cel" /\ In("list") /\ Inside /\ KeepStatus
  /\ Again(IF Failed(step.value)
             THEN Top
             ELSE [Top EXCEPT !.done = Append(@, step.value),
                              !.from = Append(@, Top.entry.value)], CelItems)

AddItem ==
  /\ step.do = "cel" /\ In("list") /\ Inside /\ KeepStatus
  /\ \/ Refuse
     \/ /\ ~Failed(step.value)
        /\ Again([Top EXCEPT !.done = Append(@, step.value),
                             !.from = Append(@, Top.entry.value)], CelItems)

BeginMap ==
  /\ Converts({"map"})
  /\ IF step.object.type = "dict"
       THEN Call(Frame("map", step.object, step.type, NoValue), CelItems) /\ KeepStatus
       ELSE ConvertMessageAs("google.protobuf.Struct")

\* PyDict_Next: the next slot that has an entry.
NextEntry ==
  /\ step.do = "celItems" /\ In("map") /\ Inside /\ KeepStatus
  /\ LET slots == Items(Top.object)
         left  == {i \in DOMAIN slots : i > Top.pos /\ slots[i] # Removed}
     IN \/ /\ left = {}
           /\ Return(CelResult(Value("map", NoData, Top.done), Top.object))
        \/ \E i \in left :
             /\ \A j \in left : i <= j
             /\ Again([Top EXCEPT !.at = "key", !.pos = i, !.entry = slots[i]],
                      ToCel(slots[i].key, Top.type.params[1], FALSE))

\* Mutant: the value is taken from the dict once the key is converted.
ConvertEntryValue_Reread ==
  /\ step.do = "cel" /\ In("key") /\ Inside /\ KeepStatus
  /\ \/ step.value.kind = "status" /\ Refuse
     \/ /\ step.value.kind # "status"
        /\ LET slots == Items(Top.object)
               now == IF Top.pos <= Len(slots) THEN slots[Top.pos].value ELSE nullptr
           IN Again([Top EXCEPT !.at = "value", !.key = step.value, !.entry = Pair(Top.entry.key, now)],
                    ToCel(now, Top.type.params[2], FALSE))

\* The key is a value or an error value, which builder->Put sees later.
ConvertEntryValue ==
  /\ step.do = "cel" /\ In("key") /\ Inside /\ KeepStatus
  /\ \/ step.value.kind = "status" /\ Refuse
     \/ /\ step.value.kind # "status"
        /\ Again([Top EXCEPT !.at = "value", !.key = step.value],
                 ToCel(Top.entry.value, Top.type.params[2], FALSE))

\* builder->Put: the key is checked first, then the value, then whether the key
\* is new.
PutEntry ==
  /\ step.do = "cel" /\ In("value") /\ Inside /\ KeepStatus
  /\ LET badKey == Failed(Top.key) \/ Top.key.kind \notin {"bool", "int", "uint", "string"}
         isThere == \E i \in DOMAIN Top.done : Top.done[i].key = Top.key
         fault == IF Failed(Top.key) THEN Top.key.fault ELSE Fault("key", Top.entry.key)
     IN CASE step.value.kind = "status" \/ (~badKey /\ Failed(step.value)) -> Refuse
          [] step.value.kind # "status" /\ (badKey \/ (~Failed(step.value) /\ isThere)) ->
               Return(CelResult(Status(fault), Top.entry.key))
          [] OTHER ->
               Again([Top EXCEPT !.at = "map",
                                 !.done = Append(@, Pair(Top.key, step.value)),
                                 !.from = Append(@, Top.entry)], CelItems)

\* A kind that the switch has no case for.
ConvertOther ==
  /\ Converts({"type", "error", "unknown"})
  /\ Give(Status(Fault("kind", step.object))) /\ KeepStatus

ToCelStep ==
  \/ ConvertNothing \/ ConvertDyn \/ ConvertNull \/ ConvertBool \/ ConvertNumber
  \/ ConvertString \/ ConvertBytes \/ ConvertTime \/ ConvertMessage \/ LookupRaises
  \/ FinishMessage \/ BeginList \/ NextItem \/ AddItem \/ BeginMap \/ NextEntry
  \/ ConvertEntryValue \/ PutEntry \/ ConvertOther

-----------------------------------------------------------------------------
(* CelValueToPyObject with plain_value, one action per case.               *)

PythonTypes ==
  [null |-> "NoneType", bool |-> "bool", int |-> "int", uint |-> "int", double |-> "float",
   string |-> "str", bytes |-> "bytearray", timestamp |-> "datetime",
   duration |-> "timedelta", error |-> "str"]

IsPython(kinds) == step.do = "toPython" /\ step.value.kind \in kinds /\ Inside

LeafToPython ==
  /\ IsPython(DOMAIN PythonTypes) /\ KeepStatus
  /\ Goto(PythonResult(Object(PythonTypes[step.value.kind], step.value.data, <<>>)))

\* FromString: the class may be unknown to the Python pool, and no call of
\* Python succeeds while there is an exception.
MessageToPython ==
  /\ IsPython({"message"}) /\ UNCHANGED slot
  /\ LET o == Object(step.value.items[1], step.value.data, <<>>) IN
     \/ exc = None /\ UNCHANGED exc /\ Goto(PythonResult(o))
     \/ exc' = Fault("import", o) /\ Goto(PythonResult(nullptr))

ContainerToPython ==
  /\ IsPython({"list", "map"}) /\ KeepStatus
  /\ Call(Frame("python", nullptr, NoType, step.value), PythonItems)

Made(type) == Object(type, "made", Top.done)

NextPythonItem ==
  /\ step.do = "pythonItems" /\ In("python") /\ Inside /\ KeepStatus
  /\ LET i == Top.pos + 1
         items == Top.value.items
     IN CASE i > Len(items) ->
               Return(PythonResult(Made(IF Top.value.kind = "list" THEN "list" ELSE "dict")))
          [] ~(i > Len(items)) /\ Top.value.kind = "list" ->
               Again([Top EXCEPT !.pos = i], ToPython(items[i]))
          [] OTHER -> Again([Top EXCEPT !.pos = i, !.at = "pythonKey"], ToPython(items[i].key))

\* The Get of a message's field fails for an item, and notes why or does not: a
\* list becomes the text of its error, a map raises.
ItemFails ==
  /\ step.do = "pythonItems" /\ In("python") /\ Inside
  /\ Top.value.data = "field" /\ Top.pos < Len(Top.value.items)
  /\ slot' \in {slot, Stale}
  /\ \/ Top.value.kind = "list"
        /\ Return(PythonResult(Object("str", "status", <<>>))) /\ UNCHANGED exc
     \/ Top.value.kind = "map"
        /\ Return(PythonResult(nullptr)) /\ exc' = Fault("get", nullptr)

\* PyList_SetItem takes a nullptr: the list has a hole.  PyDict_SetItem does not.
AddPythonItem ==
  /\ step.do = "object" /\ In("python") /\ Inside /\ KeepStatus
  /\ CASE Top.value.kind = "list" ->
            Again([Top EXCEPT !.done = Append(@, step.object)], PythonItems)
       [] Top.value.kind = "map" /\ step.object # nullptr ->
            Again([Top EXCEPT !.done = Append(@, Pair(Top.entry.key, step.object))], PythonItems)
       [] OTHER -> Goto(Crashed)

AddPythonKey ==
  /\ step.do = "object" /\ In("pythonKey") /\ Inside /\ KeepStatus
  /\ Again([Top EXCEPT !.at = "python", !.entry = Pair(step.object, nullptr)],
           ToPython(Top.value.items[Top.pos].value))

ToPythonStep ==
  \/ LeafToPython \/ MessageToPython \/ ContainerToPython \/ NextPythonItem
  \/ ItemFails \/ AddPythonItem \/ AddPythonKey

-----------------------------------------------------------------------------
(* The evaluation and its callbacks.                                       *)

\* eval() releases the GIL.
StartEval ==
  /\ step = InUser
  /\ Goto(InRuntime)
  /\ UNCHANGED <<exc, slot, last, callbacks, contents>>

\* Something else in this thread looks a type up, and nobody asks.
LookupElsewhere ==
  /\ step.do \in {"runtime", "function"}
  /\ slot' = Stale
  /\ UNCHANGED <<step, stack, exc>> /\ Inside

\* The evaluation selects a repeated field or a map of a message.
SelectField ==
  /\ step = InRuntime /\ last.kind = "message"
  /\ last' \in {Value("list", "field", <<last>>),
                Value("map", "field", <<Pair(Value("string", "a", <<>>), last)>>)}
  /\ UNCHANGED <<step, stack, exc, slot, callbacks, contents>>

MayCallBack ==
  /\ step = InRuntime
  /\ callbacks < MaxCallbacks
  /\ callbacks' = callbacks + 1
  /\ UNCHANGED <<exc, slot, last, contents>>

\* PyCelValueProvider::Provide converts a variable and makes an error value of
\* a Status.
Provide(x) ==
  /\ MayCallBack
  /\ Call(Frame("provide", x.object, x.type, NoValue), ToCel(x.object, x.type, FALSE))

\* Mutant: a Status is kept as it is.
EndProvide_Status ==
  /\ step.do = "cel" /\ In("provide")
  /\ last' = step.value
  /\ Return(InRuntime)
  /\ UNCHANGED <<exc, slot, callbacks, contents>>

EndProvide ==
  /\ step.do = "cel" /\ In("provide")
  /\ last' = IF step.value.kind = "status" THEN ErrorValue(step.value.fault) ELSE step.value
  /\ Return(InRuntime)
  /\ UNCHANGED <<exc, slot, callbacks, contents>>

\* PyCelFunctionAdapter::Invoke: the arguments first, whatever they turn out to
\* be.
Invoke(t) ==
  /\ MayCallBack
  /\ last # NoValue /\ ~Failed(last)
  /\ Call(Frame("invoke", nullptr, t, last), ToPython(last))

\* CPython may or may not survive an argument that is nullptr.
CallFunction ==
  /\ step.do = "object" /\ In("invoke") /\ Inside /\ KeepStatus
  /\ \/ step.object = nullptr /\ Goto(Crashed)
     \/ Again([Top EXCEPT !.at = "function", !.from = <<step.object>>], InFunction(step.object))

\* Its result is an error: the exception that it has raised, or that was there
\* when it was called, or what a lookup has left.
FunctionFails ==
  /\ step.do = "function" /\ In("function")
  /\ \E fault \in {TheStatus, Fault("raise", step.object)} :
       /\ fault # None
       /\ last' = ErrorValue(fault)
  /\ TakeStatus
  /\ Return(InRuntime)
  /\ UNCHANGED <<callbacks, contents>>

\* It returns an object, and nothing is pending: a handler of its own may have
\* taken the exception that was there.
FunctionReturns(o) ==
  /\ step.do = "function" /\ In("function") /\ Inside
  /\ slot = None /\ UNCHANGED slot
  /\ exc' = None
  /\ Again([Top EXCEPT !.at = "result", !.object = o], ToCel(o, Top.type, FALSE))

\* A Status ends the evaluation, and eval() raises.
EndInvoke ==
  /\ step.do = "cel" /\ In("result")
  /\ IF step.value.kind = "status"
       THEN Return(InUser) /\ last' = NoValue /\ exc' = None
       ELSE Return(InRuntime) /\ last' = step.value /\ UNCHANGED exc
  /\ UNCHANGED <<slot, callbacks, contents>>

\* eval() returns a Value; CPython makes a SystemError of it if there is an
\* exception.
EndEval ==
  /\ step = InRuntime
  /\ Goto(InUser)
  /\ exc' = None
  /\ last' = IF exc = None THEN last ELSE NoValue
  /\ UNCHANGED <<slot, callbacks, contents>>

\* plain_value() of a Value that has no object yet.
Access ==
  /\ step = InUser /\ last # NoValue
  /\ Call(Frame("access", nullptr, NoType, last), ToPython(last))
  /\ KeepStatus /\ Inside

EndAccess ==
  /\ step.do = "object" /\ In("access")
  /\ Return(InUser)
  /\ exc' = None
  /\ UNCHANGED slot /\ Inside

EvalStep ==
  \/ StartEval \/ LookupElsewhere \/ SelectField \/ EndProvide \/ CallFunction \/ FunctionFails
  \/ EndInvoke \/ EndEval \/ Access \/ EndAccess
  \/ \E x \in Variables : Provide(x)
  \/ \E t \in Returns : Invoke(t)
  \/ \E o \in Others : FunctionReturns(o)
  \/ step.do = "function" /\ FunctionReturns(step.object)

-----------------------------------------------------------------------------
(* The host program's other threads.                                       *)

ListEdits(items) ==
  {[items EXCEPT ![i] = o] : i \in DOMAIN items, o \in Others}
    \cup {RemoveAt(items, i) : i \in DOMAIN items}
    \cup {Append(items, o) : o \in Others}

\* A dict that has no slot left is compacted before an entry is added.
DictEdits(slots) ==
  LET used == {i \in DOMAIN slots : slots[i] # Removed}
      keys == {slots[i].key : i \in used}
      room == IF Len(slots) < DictSlots
                THEN slots
                ELSE SelectSeq(slots, LAMBDA e : e # Removed)
  IN {[slots EXCEPT ![i].value = o] : i \in used, o \in Others}
       \cup {[slots EXCEPT ![i] = Removed] : i \in used}
       \cup {Append(room, Pair(k, o)) : k \in Keys \ keys, o \in Others}

\* Another thread runs: it has the GIL or needs none.  What it does to a
\* container that is not being converted is left out: a conversion may start
\* with any contents of Hosts.
Edit(c) ==
  /\ FreeThreaded \/ step.do = "released"
  /\ \E k \in DOMAIN stack : stack[k].object.data = c
  /\ FoldFunction(LAMBDA versions, n : n + Len(versions), 0, contents) < MaxVersions
  /\ LET now == Last(contents[c]) IN
     \E new \in (IF c \in Dicts THEN DictEdits(now) ELSE ListEdits(now)) :
       contents' = [contents EXCEPT ![c] = Append(@, new)]
  /\ UNCHANGED <<step, stack, exc, slot, last, callbacks>>

Next == ToCelStep \/ ToPythonStep \/ EvalStep \/ \E c \in DOMAIN contents : Edit(c)

Spec == Init /\ [][Next]_vars

-----------------------------------------------------------------------------
(* Properties.                                                             *)

\* The frames that wait for a CEL value, and for an object.
AwaitCel    == {"provide", "result", "list", "key", "value"}
AwaitPython == {"invoke", "access", "python", "pythonKey"}

\* Types.  Conversions of one sort nest in one callback or access, and what a
\* conversion returns is for a frame that waits for it.  Where PyDict_Next stands
\* was a slot of the dict once, and need not be one now that it is compacted.
TypeOK ==
  /\ step.do \in {"user", "runtime", "crash", "toCel", "toPython", "cel", "object", "celItems",
                  "pythonItems", "released", "function"}
  /\ stack = <<>> <=> step.do \in {"user", "runtime"}
  /\ \A k \in DOMAIN stack :
       LET f == stack[k] IN
       /\ f.at \in (IF k = 1 THEN {"provide", "invoke", "function", "result", "access"}
                             ELSE {"list", "map", "key", "value", "python", "pythonKey"})
       /\ f.at \in {"list", "python", "pythonKey"} => f.pos \in Nat
       /\ f.at \in {"map", "key", "value"} /\ f.pos # 0 =>
            \E n \in f.since..Len(Versions(f.object)) : f.pos \in DOMAIN Versions(f.object)[n]
  /\ step.do \in {"toCel", "released", "cel"} => Top.at \in AwaitCel
  /\ step.do \in {"toPython", "object"} => Top.at \in AwaitPython
  /\ \A f \in {exc, slot} : f.at = "none" => f = None
  /\ Failed(last) => last.kind = "error"
  /\ callbacks \in 0..MaxCallbacks

\* While other threads change a list, its conversion takes its size once and
\* its items one by one: every item of the value stood at its place in the list
\* at some moment since the conversion began, none is left out and none is a
\* failure (py_cel_value.cc:826-846).
ItemsInPlace ==
  \A k \in DOMAIN stack : stack[k].at = "list" =>
    LET f == stack[k] IN
    /\ Len(f.done) = IF k = Len(stack) /\ step = CelItems THEN f.pos ELSE f.pos - 1
    /\ \A i \in DOMAIN f.done :
         /\ ~Failed(f.done[i])
         /\ \E n \in f.since..Len(Versions(f.object)) :
              i \in DOMAIN Versions(f.object)[n] /\ Versions(f.object)[n][i] = f.from[i]

\* While other threads change a dict, a key and a value that are put into the
\* map were one entry of the dict at some moment since its conversion began, no
\* key comes twice and nothing is a failure (py_cel_value.cc:861-883).
EntriesAreOfTheDict ==
  \A k \in DOMAIN stack : stack[k].at \in {"map", "key", "value"} =>
    LET f == stack[k] IN
    \A i \in DOMAIN f.done :
      /\ ~Failed(f.done[i].key) /\ ~Failed(f.done[i].value)
      /\ \E n \in f.since..Len(Versions(f.object)) :
           \E j \in DOMAIN Versions(f.object)[n] : Versions(f.object)[n][j] = f.from[i]
      /\ \A j \in DOMAIN f.done : f.done[j].key = f.done[i].key => j = i

\* Whatever the conversions raise is cleared or becomes an error before they
\* return to the evaluation, but for the IndexError of a list that has become
\* shorter (py_cel_value.cc:619-645, 798-812, 830; py_cel_type.cc:416-449).
OnlyIndexErrorsStay ==
  step.do \notin {"toPython", "pythonItems", "object", "function", "crash"} =>
    exc.at \in {"none", "index"}

\* An object's conversion fails with a fault of this object, although the slot
\* and the current exception outlive conversions: no other object's lookup or
\* overflow is reported for it.  What remains is what else was pending, such an
\* IndexError, and an error of no fault where serialization raises
\* (py_cel_value.cc:573-582, 804-812; py_error_status.cc:106-135).
ErrorsAreTheirOwn ==
  step.do = "cel" /\ Failed(step.value) =>
    \/ step.value.fault.at \in {"none", "stale", "index"}
    \/ step.value.fault.of = step.object

\* An int for a uint that fits is what Python makes of it.
Alike(v, w) ==
  v.data = w.data /\ (v.kind = w.kind \/ (v.kind = "int" /\ w.kind = "uint"))

Same(v, w) ==
  /\ Alike(v, w)
  /\ v.kind # "message" =>
       /\ Len(v.items) = Len(w.items)
       /\ \A i \in DOMAIN v.items :
            IF v.kind = "map"
              THEN Alike(v.items[i].key, w.items[i].key)
                     /\ Alike(v.items[i].value, w.items[i].value)
              ELSE Alike(v.items[i], w.items[i])

\* A value that is an argument of a Python function and that the function
\* returns as it is, with return type DYN, is the same value or an error: the
\* two conversions and ForPyObject agree, but for a message's field, whose items
\* may fail (py_cel_value.cc:323-487, 599-823;
\* py_cel_type.cc:404-456).
IdentityKeepsValues ==
  /\ step.do = "cel" /\ In("result")
  /\ Top.type = Scalar("dyn") /\ <<Top.object>> = Top.from
  /\ Top.value.data # "field"
  => Failed(step.value) \/ Same(step.value, Top.value)

=============================================================================
