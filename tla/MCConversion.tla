---------------------------- MODULE MCConversion ----------------------------
(***************************************************************************)
(* A small instance of Conversion: a list or a dict of the host that other *)
(* threads change, variables of every type with objects that fit it and    *)
(* objects that do not, and what functions return.                         *)
(***************************************************************************)
EXTENDS Conversion, TLC

PlainObject(type, data) == Object(type, data, <<>>)

Message == PlainObject("TestAllTypes", "m")

Integer(data) == PlainObject("int", data)

Text(data) == PlainObject("str", data)

MCOthers == {Integer("huge"), Message}

MCKeys == {Text("a"), Text("b")}

MCHosts ==
  {[L |-> <<Message, Integer("big")>>],
   [D |-> <<Pair(Text("a"), Message), Pair(PlainObject("bool", "True"), Integer("small"))>>],
   [L |-> <<Integer("small")>>, D |-> <<Pair(Text("a"), PlainObject("list", "L"))>>]}

Variable(o, t) == [object |-> o, type |-> t]

Dyn == Scalar("dyn")

MCVariables ==
  {Variable(PlainObject("list", "L"), ListType(Dyn)), Variable(PlainObject("list", "L"), Scalar("bool")),
   Variable(PlainObject("dict", "D"), Dyn), Variable(PlainObject("dict", "D"), MapType(Scalar("string"), Dyn)),
   Variable(Integer("negative"), Scalar("uint")), Variable(Integer("small"), Dyn),
   Variable(Integer("huge"), Scalar("double")), Variable(PlainObject("bool", "True"), Dyn),
   Variable(PlainObject("bool", "True"), Scalar("bool")), Variable(PlainObject("bytes", "nul"), Scalar("string")),
   Variable(PlainObject("bytearray", "nul"), Dyn), Variable(PlainObject("bytes", "nul"), Dyn),
   Variable(Text("s"), Dyn), Variable(Text("s"), Scalar("bytes")), Variable(Text("s"), Scalar("int")),
   Variable(Integer("small"), Scalar("string")),
   Variable(PlainObject("NoneType", "None"), Dyn), Variable(Integer("small"), Type),
   Variable(PlainObject("datetime", "t"), Scalar("timestamp")),
   Variable(PlainObject("Timestamp", "t"), Dyn), Variable(PlainObject("Timestamp", "bad"), Dyn),
   Variable(PlainObject("Duration", "out"), Scalar("duration")), Variable(Text("s"), Scalar("duration")),
   Variable(Message, MessageType(<<"Lost">>)), Variable(Message, Dyn),
   Variable(PlainObject("TestAllTypes", "unserializable"), Dyn), Variable(PlainObject("Lost", "m"), Dyn),
   Variable(PlainObject("TestAllTypes", "text"), Dyn), Variable(Text("s"), MessageType(<<"Lost">>)),
   Variable(PlainObject("set", ""), MessageType(<<"Lost">>)),
   Variable(PlainObject("Int32Value", "small"), MessageType(<<"google.protobuf.Int64Value">>)),
   Variable(PlainObject("ListValue", ""), ListType(Dyn)), Variable(PlainObject("Struct", ""), MapType(Dyn, Dyn)),
   Variable(PlainObject("set", ""), ListType(Dyn)), Variable(Message, MapType(Dyn, Dyn))}

MCReturns == {Dyn, ListType(Dyn)}
=============================================================================
