---------------------------- MODULE MCEnvConfig ----------------------------
(***************************************************************************)
(* Arguments of NewEnv for a small instance of EnvConfig: each call has    *)
(* something of one or two kinds, and whatever two of them could disagree  *)
(* about is there.                                                         *)
(***************************************************************************)
EXTENDS EnvConfig, TLC

Container(n, abbreviations, aliases) ==
  [name |-> n, abbreviations |-> abbreviations, aliases |-> aliases]

Alias(a, n) == [alias |-> a, name |-> n]

Math(v) ==
  [class |-> "CelExtension", name |-> "cel.lib.ext.math", alias |-> "math", version |-> v,
   functions |-> {}]

Overload(id, t, ps, impl) ==
  PyCelOverload([id |-> id, return_type |-> t, parameters |-> ps, is_member |-> FALSE,
                 impl |-> impl, signature |-> NoSignature])

\* x.f(timestamp, list(int)), or f(...).
Signature(member) ==
  [text |-> IF member THEN "string.h()" ELSE "h()", is_member |-> member,
   arg_types |-> <<Info(<<"timestamp">>, <<>>), Info(<<"list">>, <<Info(<<"int">>, <<>>)>>)>>]

OverloadOf(id, signature, t, impl) ==
  PyCelOverload([id |-> id, return_type |-> t, parameters |-> <<>>, is_member |-> FALSE,
                 impl |-> impl, signature |-> signature])

Function(n, overloads) == [name |-> n, overloads |-> overloads]

\* Two overloads that an activation has to provide, of which a call finds the
\* first one only, and one that is there.
Hello ==
  [class |-> "PyCelPythonExtension", name |-> "hello", alias |-> "", version |-> -1,
   functions |->
     {Function("greet",
        <<Overload("greet1", MapType(Scalar("string"), Type),
                   <<Scalar("timestamp"), ListType(Scalar("dyn")), Scalar("null")>>, NoImpl),
          Overload("greet2", ListType(Scalar("dyn")), <<Scalar("int")>>, "a"),
          Overload("greet3", Scalar("null"),
                   <<Scalar("dyn"), MessageType(<<"google.protobuf.Any">>)>>, NoImpl)>>)}]

NotAnExtension ==
  [class |-> "str", name |-> "str", alias |-> "", version |-> -1, functions |-> {}]

MCLibraries == {Math(0), Math(1), Hello, NotAnExtension}

\* Variables that are declared together, with types of every sort, some of them
\* from a signature.
VariableSets ==
  {[a |-> Scalar("int"), b |-> Scalar("null"), c |-> Type],
   [a |-> Error, b |-> TypeType(ListType(Scalar("int"))), c |-> MessageType(<<"Lost">>)],
   [a |-> FromTypeInfo[Info(<<"list">>, <<Info(<<"map">>, <<Info(<<"string">>, <<>>),
                                                           Info(<<"TestAllTypes">>, <<>>)>>)>>)],
    b |-> MapType(Scalar("dyn"), ListType(Scalar("timestamp"))),
    c |-> MessageType(<<"google.protobuf.Timestamp">>)],
   [a |-> MessageType(<<"google.protobuf.Any">>),
    b |-> MessageType(<<"google.protobuf.Int64Value">>),
    c |-> FromTypeInfo[Info(<<"optional_type">>, <<Info(<<"string">>, <<>>)>>)]],
   [d |-> Scalar("bool"), y |-> ListType(Scalar("dyn"))]}

MCCalls ==
  {[NoCall EXCEPT !.variables = vs] : vs \in VariableSets}
    \cup {[NoCall EXCEPT !.extensions = s] : s \in
            {<<Math(0)>>, <<Math(1)>>, <<Hello>>, <<Hello, Math(1)>>, <<Math(0), Math(1)>>, <<Hello, NotAnExtension>>}}
    \cup {[NoCall EXCEPT !.container = c] : c \in
            {Container("", {"q.f"}, {Alias("f", "a.f")}),
             Container("q", {}, {Alias("f", "b.f"), Alias("g", "a.g")})}}
    \cup {[NoCall EXCEPT !.functions = s, !.impls = i] : s \in
            {<<Function("h", <<OverloadOf("h1", Signature(FALSE), ListType(Scalar("string")), "a")>>)>>,
             <<Function("h", <<OverloadOf("h1", Signature(TRUE), Scalar("int"), NoImpl)>>),
               Function("k", <<Overload("k1", Scalar("dyn"), <<Scalar("dyn"), Type>>, "b"),
                               Overload("h1", Scalar("dyn"), <<>>, "b")>>)>>},
            i \in {Empty, "h1" :> "c", "z1" :> "c"}}
    \cup {[NoCall EXCEPT !.functions = <<Function("k", <<Overload("k2", Scalar("bool"), <<>>, "a"),
                                                         Overload("k2", Scalar("bool"), <<>>, "b")>>)>>]}

Yaml ==
  [variables |-> Empty, extensions |-> Empty, functions |-> {},
   container |-> Container("", {}, {})]

MCConfigs ==
  {Yaml,
   [Yaml EXCEPT !.variables = "y" :> Info(<<"type">>, <<Info(<<"list">>, <<>>)>>),
                !.extensions = "cel.lib.ext.math" :> 0],
   [Yaml EXCEPT !.variables = "y" :> Info(<<"map">>, <<Info(<<"double">>, <<>>), Info(<<"int">>, <<>>)>>)],
   [Yaml EXCEPT !.variables = "y" :> Info(<<"optional_type">>, <<Info(<<"google.protobuf.Any">>, <<>>)>>),
                !.extensions = "math" :> 1,
                !.functions = {[name |-> "z", id |-> "z1", return_type |-> Info(<<"map">>, <<>>),
                                parameters |-> <<Info(<<"google.protobuf.Any">>, <<>>)>>,
                                is_member |-> FALSE]},
                !.container = Container("p", {}, {Alias("f", "a.f")})]}
=============================================================================
