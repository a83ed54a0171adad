------------------------------ MODULE CelTypes ------------------------------
(***************************************************************************)
(* The types of py_cel_type.cc and their conversions: PyCelType to the     *)
(* TypeInfo of a configuration, a parsed signature to PyCelType, and       *)
(* cel::Type to PyCelType on its two ways, FromCelType for the types that  *)
(* the environment converts values to and FromTypeProto for those that a   *)
(* compiled expression reports.                                            *)
(*                                                                         *)
(* A type of each sort is a record of its kind, its name and its           *)
(* parameters.  A name is a sequence that starts with a string, and what   *)
(* GetName returns has the printed parameters after it: for a type with    *)
(* parameters it is what it is in the code, a name that nothing else       *)
(* knows.                                                                  *)
(***************************************************************************)
EXTENDS Integers, Sequences, SequencesExt

CONSTANTS
  KnownMessages,   \* message types that the descriptor pool has
  LostMessages,    \* message types that it does not have
  OpaqueNames,     \* names of abstract types, such as optional_type
  MaxTypeDepth     \* bound: how deep types are nested

\* A protobuf message may be named like a type of CEL if it has no package, and
\* would be taken for that type where only the name is left; there is none here,
\* nor one that is named like an abstract type or like TYPE is printed.
ASSUME TypesAreNamed ==
  /\ MaxTypeDepth \in Nat
  /\ \A n \in KnownMessages \cup LostMessages \cup OpaqueNames :
       n \notin {"null", "bool", "int", "uint", "double", "string", "bytes", "timestamp",
                "duration", "dyn", "list", "map", "type"}
  /\ \A n \in KnownMessages : n \notin OpaqueNames /\ n # "TYPE"

\* Two wrappers stand for the nine of them, and the messages that CEL takes for
\* JSON values, which are maps, lists and the like to it, are left out.
ASSUME OtherMessagesLeftOut ==
  \A n \in {"Struct", "Value", "ListValue", "BoolValue", "Int32Value", "UInt32Value",
           "UInt64Value", "FloatValue", "DoubleValue", "BytesValue"} :
    "google.protobuf." \o n \notin KnownMessages \cup LostMessages

Record(k, n, ps) == [kind |-> k, name |-> n, params |-> ps]

---------------------------------------------------------------------------
(***************************************************************************)
(* PyCelType.                                                              *)
(***************************************************************************)
ScalarNames ==
  [null |-> "NULL", bool |-> "BOOL", int |-> "INT", uint |-> "UINT",
   double |-> "DOUBLE", string |-> "STRING", bytes |-> "BYTES",
   timestamp |-> "TIMESTAMP", duration |-> "DURATION", dyn |-> "DYN"]

Scalars == DOMAIN ScalarNames

Scalar(k) == Record(k, <<ScalarNames[k]>>, <<>>)

Error == Record("error", <<"ERROR">>, <<>>)

Unknown == Record("unknown", <<"UNKNOWN">>, <<>>)

Type == Record("type", <<"TYPE">>, <<>>)

\* What MapType throws; whoever makes a type of it throws as well.
Unsupported == Record("unsupported", <<>>, <<>>)

\* The constructor from a name: two messages are types of their own.
MessageType(n) ==
  CASE n = <<"google.protobuf.Timestamp">> -> Scalar("timestamp")
    [] n = <<"google.protobuf.Duration">> -> Scalar("duration")
    [] OTHER -> Record("message", n, <<>>)

ListType(t) == Record("list", <<"LIST">>, <<t>>)

MapType(k, t) ==
  IF k.kind \in {"bool", "int", "uint", "string", "dyn"}
    THEN Record("map", <<"MAP">>, <<k, t>>)
    ELSE Unsupported

TypeType(t) == Record("type", <<"TYPE">>, <<t>>)

AbstractType(n, ps) == Record("type", n, ps)

\* The types a program can make, up to a depth.
FlatTypes ==
  {Scalar(k) : k \in Scalars} \cup {Error, Unknown, Type}
    \cup {MessageType(<<n>>) : n \in KnownMessages \cup LostMessages}
    \cup {AbstractType(<<n>>, <<>>) : n \in OpaqueNames}

TypesOver(S) ==
  S \cup {ListType(t) : t \in S}
    \cup {MapType(Scalar(k), t) : k \in {"string", "dyn"}, t \in S}
    \cup {TypeType(t) : t \in S}
    \cup {AbstractType(<<n>>, <<t>>) : n \in OpaqueNames, t \in S}

PyCelTypesUpTo[d \in 0..MaxTypeDepth] ==
  IF d = 0 THEN FlatTypes ELSE TypesOver(PyCelTypesUpTo[d - 1])

PyCelTypes == PyCelTypesUpTo[MaxTypeDepth]

\* The printed name, parameters included.
GetName[t \in PyCelTypes] ==
  t.name \o [i \in DOMAIN t.params |-> GetName[t.params[i]]]

---------------------------------------------------------------------------
(***************************************************************************)
(* Config::TypeInfo, a name with parameters, as a configuration has it.    *)
(***************************************************************************)
Info(n, ps) == Record("info", n, ps)

InfoName_NoTimestamp(t) ==
  IF t.kind \in (Scalars \ {"timestamp"}) \cup {"list", "map"} THEN <<t.kind>> ELSE GetName[t]

InfoName(t) == IF t.kind \in Scalars \cup {"list", "map"} THEN <<t.kind>> ELSE GetName[t]

ToTypeInfo[t \in PyCelTypes] ==
  Info(InfoName(t), [i \in DOMAIN t.params |-> ToTypeInfo[t.params[i]]])

\* The type infos of YAML configurations and of parsed signatures, to a depth.
FlatInfos ==
  {Info(<<n>>, <<>>) : n \in Scalars \cup {"list", "map", "type"}
                                  \cup KnownMessages \cup LostMessages}

InfosOver(S) ==
  S \cup {Info(<<n>>, <<i>>) : n \in {"list", "type"} \cup OpaqueNames, i \in S}
    \cup {Info(<<"map">>, <<Info(<<k>>, <<>>), i>>) : k \in {"string", "double"}, i \in S}

WrittenInfosUpTo[d \in 0..MaxTypeDepth] ==
  IF d = 0 THEN FlatInfos ELSE InfosOver(WrittenInfosUpTo[d - 1])

WrittenInfos == WrittenInfosUpTo[MaxTypeDepth]

TypeInfos == WrittenInfos \cup {ToTypeInfo[t] : t \in PyCelTypes}

\* What cel.Type(signature) and the parameters of cel.Overload(signature) are.
FromTypeInfo[i \in WrittenInfos] ==
  LET params == [j \in DOMAIN i.params |-> FromTypeInfo[i.params[j]]]
      dyn == Scalar("dyn")
      is(n) == i.name = <<n>>
  IN CASE \E k \in Scalars : is(k) -> Scalar(i.name[1])
       [] is("list") -> ListType(IF params = <<>> THEN dyn ELSE params[1])
       [] is("map") -> IF Len(params) < 2
                         THEN MapType(dyn, dyn)
                         ELSE MapType(params[1], params[2])
       [] is("type") -> IF params = <<>> THEN Type ELSE TypeType(params[1])
       [] OTHER -> IF params = <<>>
                     THEN MessageType(i.name)
                     ELSE AbstractType(i.name, params)

---------------------------------------------------------------------------
(***************************************************************************)
(* cel::Type, which cel-cpp makes of a TypeInfo.  A name that the pool has *)
(* no message for becomes an opaque type.                                  *)
(***************************************************************************)
Wrappers == {"google.protobuf.Int64Value", "google.protobuf.StringValue"}

TypeOfInfo(i, params) ==
  LET dyn == Record("dyn", <<>>, <<>>)
      is(n) == i.name = <<n>>
  IN CASE \E k \in Scalars : is(k) -> Record(i.name[1], <<>>, <<>>)
       [] is("list") -> Record("list", <<>>, IF params = <<>> THEN <<dyn>> ELSE params)
       [] is("map") -> Record("map", <<>>, IF params = <<>> THEN <<dyn, dyn>> ELSE params)
       [] is("type") -> Record("type", <<>>, params)
       [] is("google.protobuf.Any") -> Record("any", i.name, <<>>)
       [] \E n \in Wrappers : is(n) -> Record("wrapper", i.name, <<>>)
       [] /\ params = <<>>
          /\ \E n \in KnownMessages \ (Wrappers \cup {"google.protobuf.Any"}) : is(n) ->
            IF MessageType(i.name).kind = "message"
              THEN Record("message", i.name, <<>>)
              ELSE Record(MessageType(i.name).kind, <<>>, <<>>)
       [] OTHER -> Record("opaque", i.name, params)

TypeInfoToType[i \in TypeInfos] ==
  TypeOfInfo(i, [j \in DOMAIN i.params |-> TypeInfoToType[i.params[j]]])

CelTypesMade == {TypeInfoToType[i] : i \in TypeInfos}

OfCelType(c, params) ==
  CASE c.kind \in Scalars -> Scalar(c.kind)
    [] c.kind \in {"message", "any", "wrapper"} -> MessageType(c.name)
    [] c.kind = "list" -> ListType(params[1])
    [] c.kind = "map" -> MapType(params[1], params[2])
    [] c.kind = "type" -> IF params = <<>> THEN Type ELSE TypeType(params[1])
    [] c.kind = "opaque" -> AbstractType(c.name, params)

FromCelType[c \in CelTypesMade] ==
  OfCelType(c, [j \in DOMAIN c.params |-> FromCelType[c.params[j]]])

\* The proto of a wrapper has the primitive type inside; Any is a well-known
\* type there, for which there is no case.
WrappedKind(n) == IF n = <<"google.protobuf.Int64Value">> THEN "int" ELSE "string"

OfTypeProto(c, params) ==
  CASE c.kind \in Scalars -> Scalar(c.kind)
    [] c.kind = "wrapper" -> Scalar(WrappedKind(c.name))
    [] c.kind = "any" -> Error
    [] c.kind = "message" -> MessageType(c.name)
    [] c.kind = "list" -> ListType(params[1])
    [] c.kind = "map" -> MapType(params[1], params[2])
    [] c.kind = "type" -> IF params = <<>> THEN Type ELSE TypeType(params[1])
    [] c.kind = "opaque" -> AbstractType(c.name, params)

FromTypeProto[c \in CelTypesMade] ==
  OfTypeProto(c, [j \in DOMAIN c.params |-> FromTypeProto[c.params[j]]])

ReportedTypes == {FromTypeProto[c] : c \in CelTypesMade}

(***************************************************************************)
(* The way of a Python extension, which does not go through a              *)
(* configuration: kinds without a case are DYN to the checker, a message   *)
(* that the pool does not have is an error.                                *)
(***************************************************************************)
NotFound == Record("not_found", <<>>, <<>>)

OfPyCelType(t, params) ==
  CASE t.kind \in Scalars \ {"null"} -> Record(t.kind, <<>>, <<>>)
    [] t.kind = "message" ->
         IF t.name[1] \in KnownMessages THEN TypeInfoToType[ToTypeInfo[t]] ELSE NotFound
    [] t.kind \in {"list", "map"} ->
         IF NotFound \in Range(params) THEN NotFound ELSE Record(t.kind, <<>>, params)
    [] OTHER -> Record("dyn", <<>>, <<>>)

ToCelType[t \in PyCelTypes] ==
  OfPyCelType(t, [i \in DOMAIN t.params |-> ToCelType[t.params[i]]])

---------------------------------------------------------------------------
(***************************************************************************)
(* Kinds are compared everywhere, names of messages only; an expected type *)
(* without parameters takes any.                                           *)
(***************************************************************************)
IsAssignableFrom[pair \in PyCelTypes \X (PyCelTypes \cup ReportedTypes)] ==
  LET t == pair[1]
      u == pair[2]
  IN /\ t.kind = u.kind
     /\ \/ t.kind = "message" /\ t.name = u.name
        \/ t.kind # "message" /\ t.params = <<>>
        \/ /\ t.kind # "message"
           /\ DOMAIN t.params = DOMAIN u.params
           /\ \A i \in DOMAIN t.params : IsAssignableFrom[<<t.params[i], u.params[i]>>]

\* The second type, a reported one, is DYN wherever it is not the first one.
Covers[pair \in PyCelTypes \X ReportedTypes] ==
  LET t == pair[1]
      r == pair[2]
  IN \/ r.kind = "dyn"
     \/ /\ r.kind = t.kind /\ r.name = t.name
        /\ DOMAIN r.params = DOMAIN t.params
        /\ \A i \in DOMAIN r.params : Covers[<<t.params[i], r.params[i]>>]

\* The kinds and the names in a type.
AllTypes == PyCelTypes \cup ReportedTypes \cup {FromCelType[c] : c \in CelTypesMade}

KindsIn[t \in AllTypes] == {t.kind} \cup UNION {KindsIn[t.params[i]] : i \in DOMAIN t.params}

NamesIn[t \in AllTypes] == {t.name} \cup UNION {NamesIn[t.params[i]] : i \in DOMAIN t.params}

\* Types that keep their meaning in a configuration: those made of scalars, of
\* lists and maps, and of messages that the pool knows.
Plain(t) ==
  /\ KindsIn[t] \subseteq Scalars \cup {"list", "map", "message"}
  /\ \A n \in LostMessages : <<n>> \notin NamesIn[t]
=============================================================================
