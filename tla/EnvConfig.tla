----------------------------- MODULE EnvConfig -----------------------------
(***************************************************************************)
(* NewEnv (py_cel_env_internal.cc): how the configuration of a call and    *)
(* its other arguments become the configuration, the types of variables    *)
(* and the implementations of functions of an environment.  Environments   *)
(* form a chain: each call is given the configuration of the environment   *)
(* before it, the first one a configuration from YAML.                     *)
(*                                                                         *)
(* A call works on a copy of the configuration, item by item, and returns  *)
(* an error at the first item that does not fit; nothing but the last step *)
(* makes anything anybody else can see.                                    *)
(***************************************************************************)
EXTENDS CelTypes

CONSTANTS
  Configs,     \* the configurations a chain may start with
  Libraries,   \* the objects given as extensions
  Calls        \* the other arguments a call may have

\* No two libraries can be taken for each other, and one library has one alias.
ASSUME LibrariesDiffer ==
  \A l, m \in Libraries :
    /\ l.name # ""
    /\ l.name = m.name => l.alias = m.alias
    /\ l.name # m.name => l.name # m.alias /\ (l.alias = m.alias => l.alias = "")

\* The types of an overload are PyCelTypes.
IsOverload(o) == o.return_type \in PyCelTypes /\ o.parameters \in Seq(PyCelTypes)

ASSUME LibrariesAreTyped ==
  \A l \in Libraries :
    /\ l.version \in Int
    /\ \A f \in l.functions : \A o \in Range(f.overloads) : IsOverload(o)

\* A configuration lists a library by its name or by its alias.
ListedOnce(extensions) ==
  /\ "" \notin DOMAIN extensions
  /\ \A l \in Libraries :
       l.name \in DOMAIN extensions /\ l.alias \in DOMAIN extensions => l.name = l.alias

Latest == -1

\* The fields of a configuration, and the type infos and versions in them.
IsConfig(c) ==
  /\ DOMAIN c = {"variables", "extensions", "container", "functions"}
  /\ \A v \in DOMAIN c.variables : c.variables[v] \in TypeInfos
  /\ \A n \in DOMAIN c.extensions : c.extensions[n] \in Nat \cup {Latest}
  /\ \A f \in c.functions : f.return_type \in TypeInfos /\ f.parameters \in Seq(TypeInfos)

ASSUME ConfigsAreWellFormed ==
  \A c \in Configs :
    /\ IsConfig(c)
    /\ ListedOnce(c.extensions)
    /\ \A a, b \in c.container.aliases : a.alias = b.alias => a.name = b.name

\* What a caller can give: types that PyCelType makes, extension objects, a
\* container that gives an alias once.
ASSUME CallsAreTyped ==
  \A c \in Calls :
    /\ \A v \in DOMAIN c.variables : c.variables[v] \in PyCelTypes
    /\ c.extensions \in Seq(Libraries)
    /\ c.functions \in Seq(Range(c.functions))
    /\ \A a, b \in c.container.aliases : a.alias = b.alias => a.name = b.name
    /\ \A f \in Range(c.functions) : \A o \in Range(f.overloads) : IsOverload(o)

VARIABLES
  config,      \* env_config_ of the newest environment
  env,         \* the rest of it: types, impls and libraries
  busy,        \* a call of NewEnv is under way
  new,         \* its local copy of the configuration
  impls,       \* its local map of implementations
  left,        \* the arguments it has still to look at
  call,        \* all of its arguments
  declared     \* history: what the calls of the chain have declared

vars == <<config, env, busy, new, impls, left, call, declared>>

chain == <<config, env, declared>>

NoImpl == "none"

Put(f, k, v) == [x \in DOMAIN f \cup {k} |-> IF x = k THEN v ELSE f[x]]

Empty == [x \in {} |-> x]

---------------------------------------------------------------------------
(***************************************************************************)
(* Extensions.                                                             *)
(***************************************************************************)
\* The object is an extension, made in Python or in C++.
GetExtension(object) == object.class \in {"PyCelPythonExtension", "CelExtension"}

\* The name an extension goes by: its alias, unless the configuration has its
\* name or there is no alias.
EntryName_AliasFirst(lib, extensions) == IF lib.alias = "" THEN lib.name ELSE lib.alias

EntryName(lib, extensions) ==
  IF lib.alias \in {"", lib.name} \/ lib.name \in DOMAIN extensions
    THEN lib.name
    ELSE lib.alias

EntryVersion(lib) == IF lib.version >= 0 THEN lib.version ELSE Latest

\* Config::AddExtensionConfig takes a second entry only with the same version.
Fits_Replaces(name, version, extensions) == TRUE

Fits(name, version, extensions) ==
  name \in DOMAIN extensions => extensions[name] = version

(***************************************************************************)
(* Functions.                                                              *)
(***************************************************************************)
NoSignature == [text |-> "", arg_types |-> <<>>, is_member |-> FALSE]

\* cel.Overload of a signature, or of an id and parameters (it throws when there
\* are both or neither, and no call has such an overload).  With a signature,
\* its text is the id unless one is given, and whether the overload is a member
\* is what the signature says.
PyCelOverload(given) ==
  LET signature == given.signature
      types == signature.arg_types
  IN IF signature = NoSignature
       THEN [id |-> given.id, return_type |-> given.return_type, impl |-> given.impl,
             parameters |-> given.parameters, is_member |-> given.is_member]
       ELSE [id |-> IF given.id = "" THEN signature.text ELSE given.id,
             return_type |-> given.return_type, impl |-> given.impl,
             parameters |-> [i \in DOMAIN types |-> FromTypeInfo[types[i]]],
             is_member |-> signature.is_member]

Implemented(function) == {i \in DOMAIN function.overloads : function.overloads[i].impl # NoImpl}

\* An overload id that two overloads, or an overload and an earlier one, implement.
ImplementedTwice_Earlier(function) ==
  \E i \in Implemented(function) : function.overloads[i].id \in DOMAIN impls

ImplementedTwice(function) ==
  \E i \in Implemented(function) :
    \/ function.overloads[i].id \in DOMAIN impls
    \/ \E j \in Implemented(function) \ {i} :
         function.overloads[i].id = function.overloads[j].id

TypeInfosOf(types) == [i \in DOMAIN types |-> ToTypeInfo[types[i]]]

ToFunctionConfigs_NoReceiver(function) ==
  {[name |-> function.name, id |-> o.id, return_type |-> ToTypeInfo[o.return_type],
    parameters |-> TypeInfosOf(o.parameters), is_member |-> FALSE] :
     o \in Range(function.overloads)}

ToFunctionConfigs(function) ==
  {[name |-> function.name, id |-> o.id, return_type |-> ToTypeInfo[o.return_type],
    parameters |-> TypeInfosOf(o.parameters), is_member |-> o.is_member] :
     o \in Range(function.overloads)}

WithImpls(function) ==
  LET ids == {function.overloads[i].id : i \in Implemented(function)}
  IN [id \in DOMAIN impls \cup ids |->
        IF id \in DOMAIN impls
          THEN impls[id]
          ELSE function.overloads[CHOOSE i \in Implemented(function) :
                                    function.overloads[i].id = id].impl]

(***************************************************************************)
(* Types.                                                                  *)
(***************************************************************************)
\* What the constructor makes of a variable's TypeInfo.
VariableType(info) == FromCelType[TypeInfoToType[info]]

GetVariableType_DeclaredOnly(v) ==
  IF v \in DOMAIN env.types \cap DOMAIN declared.variables THEN env.types[v] ELSE Scalar("dyn")

GetVariableType(v) == IF v \in DOMAIN env.types THEN env.types[v] ELSE Scalar("dyn")

\* The adapters that BuildRuntime registers; the other overloads are left to
\* the activation.
Adapters ==
  {[id |-> f.id, return_type |-> FromCelType[TypeInfoToType[f.return_type]],
    impl |-> env.impls[f.id]] : f \in {g \in config.functions : g.id \in DOMAIN env.impls}}

(***************************************************************************)
(* A runtime tells overloads apart by a descriptor: the name, whether it   *)
(* is a member, and the kinds of the parameters.  Three pieces of code     *)
(* make descriptors, of a TypeInfo or of a PyCelType.                      *)
(***************************************************************************)
Descriptor(name, is_member, kinds) == [name |-> name, is_member |-> is_member, kinds |-> kinds]

\* BuildRuntime.
FunctionDescriptor(f) ==
  Descriptor(f.name, f.is_member,
             [i \in DOMAIN f.parameters |-> TypeInfoToType[f.parameters[i]].kind])

\* ConfigureRuntime of a Python extension: "any" is the wildcard of runtimes.
ExtensionDescriptor(name, o) ==
  Descriptor(name, o.is_member,
             [i \in DOMAIN o.parameters |->
                IF o.parameters[i].kind = "dyn" THEN "any" ELSE o.parameters[i].kind])

\* A function of an activation.
ActivationDescriptor(name, o) ==
  Descriptor(name, o.is_member, [i \in DOMAIN o.parameters |-> o.parameters[i].kind])

ShapeMatches(d, e) ==
  /\ d.name = e.name /\ d.is_member = e.is_member
  /\ Len(d.kinds) = Len(e.kinds)
  /\ \A i \in DOMAIN d.kinds : "any" \in {d.kinds[i], e.kinds[i]} \/ d.kinds[i] = e.kinds[i]

\* The kinds of the values of a type.  DYN, Any and wrappers have no values of
\* their own: an argument is what is in them.
ArgumentKinds(t) ==
  CASE t.kind = "dyn" \/ t.name = <<"google.protobuf.Any">> ->
         (Scalars \ {"dyn"}) \cup {"list", "map", "message", "type"}
    [] \E n \in Wrappers : t.name = <<n>> -> {"null", WrappedKind(t.name)}
    [] OTHER -> {t.kind}

\* A call may have arguments of any of the kinds; no kind but "any" stands for
\* another one (py_cel_python_extension.cc:121-122).
ArgumentsMatch(d, parameters) ==
  /\ Len(d.kinds) = Len(parameters)
  /\ \A i \in DOMAIN parameters :
       \A k \in ArgumentKinds(parameters[i]) : d.kinds[i] \in {"any", k}

\* The functions of the Python extensions of the environment, with their names.
ExtensionOverloads ==
  UNION {{[name |-> f.name, overload |-> o] : o \in Range(f.overloads)} :
           f \in UNION {lib.functions : lib \in
                           {l \in env.libraries : l.class = "PyCelPythonExtension"}}}

\* What ConfigureChecker tells the checker that an overload returns.
DeclaredResult(o) == ToCelType[o.return_type]

Unimplemented == {e \in ExtensionOverloads : e.overload.impl = NoImpl}

\* What is registered without an implementation, for an activation to provide.
LazyFunctions ==
  {FunctionDescriptor(f) : f \in {g \in config.functions : g.id \notin DOMAIN env.impls}}
    \cup {ExtensionDescriptor(e.name, e.overload) : e \in Unimplemented}

\* What the type of an expression that is a variable is reported to be.
GetReturnType_Parsed(v) == Scalar("dyn")

GetReturnType(v) == FromTypeProto[TypeInfoToType[config.variables[v]]]

---------------------------------------------------------------------------
NoCall == [variables |-> Empty, extensions |-> <<>>, functions |-> <<>>, impls |-> Empty,
           container |-> [name |-> "", abbreviations |-> {}, aliases |-> {}]]

Nothing == [variables |-> {}, extensions |-> <<>>, functions |-> <<>>, impls |-> {},
            container |-> FALSE]

Init ==
  /\ config \in Configs
  /\ env = [types |-> Empty, impls |-> Empty, libraries |-> {}]
  /\ busy = FALSE
  /\ new = config
  /\ impls = Empty
  /\ left = Nothing
  /\ call = NoCall
  /\ declared = [variables |-> Empty, overloads |-> {}, libraries |-> {}, offered |-> {}]

NewEnv(c) ==
  /\ ~ busy
  /\ busy' = TRUE
  /\ new' = config
  /\ impls' = Empty
  /\ call' = c
  /\ left' = [variables |-> DOMAIN c.variables, extensions |-> c.extensions,
              functions |-> c.functions, impls |-> DOMAIN c.impls, container |-> TRUE]
  /\ UNCHANGED chain

\* An error status: the copy and what is in it go.
Return_KeepsImpls ==
  /\ busy' = FALSE
  /\ new' = config
  /\ call' = NoCall
  /\ left' = Nothing
  /\ UNCHANGED impls

Return ==
  /\ busy' = FALSE
  /\ new' = config
  /\ impls' = Empty
  /\ call' = NoCall
  /\ left' = Nothing

Fail == Return /\ UNCHANGED chain

AddVariable ==
  /\ busy
  /\ \E v \in left.variables :
       IF v \in DOMAIN new.variables
         THEN Fail
         ELSE /\ new' = [new EXCEPT !.variables = Put(@, v, ToTypeInfo[call.variables[v]])]
              /\ left' = [left EXCEPT !.variables = @ \ {v}]
              /\ UNCHANGED <<chain, busy, impls, call>>

AddExtension ==
  /\ busy /\ left.variables = {} /\ left.extensions # <<>>
  /\ LET lib == Head(left.extensions)
         name == EntryName(lib, new.extensions)
     IN IF GetExtension(lib) /\ Fits(name, EntryVersion(lib), new.extensions)
          THEN /\ new' = [new EXCEPT !.extensions = Put(@, name, EntryVersion(lib))]
               /\ left' = [left EXCEPT !.extensions = Tail(@)]
               /\ UNCHANGED <<chain, busy, impls, call>>
          ELSE Fail

\* An alias that both have, for different names.
Redefines_Never(given, old) == FALSE

Redefines(given, old) ==
  \E a \in given.aliases, b \in old.aliases : a.alias = b.alias /\ a.name # b.name

\* A name that is given replaces the one of the configuration, abbreviations
\* and aliases are added to those it has.
MergeContainer ==
  /\ busy /\ left.variables = {} /\ left.extensions = <<>> /\ left.container
  /\ LET given == call.container
         old == new.container
     IN IF Redefines(given, old)
          THEN Fail
          ELSE /\ new' = [new EXCEPT !.container =
                    [name |-> IF given.name = "" THEN old.name ELSE given.name,
                     abbreviations |-> old.abbreviations \cup given.abbreviations,
                     aliases |-> old.aliases \cup given.aliases]]
               /\ left' = [left EXCEPT !.container = FALSE]
               /\ UNCHANGED <<chain, busy, impls, call>>

AtFunctions == busy /\ left.variables = {} /\ left.extensions = <<>> /\ ~ left.container

AddFunction ==
  /\ AtFunctions /\ left.functions # <<>>
  /\ LET function == Head(left.functions)
     IN IF ImplementedTwice(function)
          THEN Fail
          ELSE /\ new' = [new EXCEPT !.functions = @ \cup ToFunctionConfigs(function)]
               /\ impls' = WithImpls(function)
               /\ left' = [left EXCEPT !.functions = Tail(@)]
               /\ UNCHANGED <<chain, busy, call>>

AddImplementation ==
  /\ AtFunctions /\ left.functions = <<>>
  /\ \E id \in left.impls :
       IF id \in DOMAIN impls
         THEN Fail
         ELSE /\ impls' = Put(impls, id, call.impls[id])
              /\ left' = [left EXCEPT !.impls = @ \ {id}]
              /\ UNCHANGED <<chain, busy, new, call>>

\* Everything a call offers as an implementation.
Offered(c) ==
  {<<id, c.impls[id]>> : id \in DOMAIN c.impls}
    \cup UNION {{<<o.id, o.impl>> : o \in {p \in Range(f.overloads) : p.impl # NoImpl}} :
                  f \in Range(c.functions)}

\* The constructor.  It throws when the type of a variable in a configuration
\* is a map with an unsupported key.
Construct ==
  /\ AtFunctions /\ left.functions = <<>> /\ left.impls = {}
  /\ LET types == [v \in DOMAIN new.variables |-> VariableType(new.variables[v])]
     IN IF \E v \in DOMAIN types : "unsupported" \in KindsIn[types[v]]
          THEN Fail
          ELSE /\ config' = new
               /\ env' = [types |-> types, impls |-> impls, libraries |-> Range(call.extensions)]
               /\ declared' =
                    [variables |-> [v \in DOMAIN declared.variables \cup DOMAIN call.variables |->
                       IF v \in DOMAIN call.variables THEN call.variables[v]
                                                      ELSE declared.variables[v]],
                     overloads |-> declared.overloads
                       \cup UNION {{[name |-> f.name, overload |-> o] :
                                      o \in Range(f.overloads)} : f \in Range(call.functions)},
                     libraries |-> declared.libraries \cup Range(call.extensions),
                     offered |-> Offered(call)]
               /\ busy' = FALSE
               /\ new' = new
               /\ impls' = Empty
               /\ call' = NoCall
               /\ left' = Nothing

Next ==
  \/ \E c \in Calls : NewEnv(c)
  \/ AddVariable
  \/ AddExtension
  \/ MergeContainer
  \/ AddFunction
  \/ AddImplementation
  \/ Construct

Spec == Init /\ [][Next]_vars

---------------------------------------------------------------------------
(***************************************************************************)
(* Properties.                                                             *)
(***************************************************************************)
\* Types: configurations are well formed, an idle library has no call, and the
\* types of the variables are those of the configuration's variables.
TypeOK ==
  /\ IsConfig(config) /\ IsConfig(new)
  /\ busy \in BOOLEAN
  /\ ~ busy => call = NoCall /\ left = Nothing /\ new = config /\ impls = Empty
  /\ left.variables \subseteq DOMAIN call.variables
  /\ left.impls \subseteq DOMAIN call.impls
  /\ DOMAIN env.types \subseteq DOMAIN config.variables

\* The type that the values of a variable are converted to is the one a call
\* of the chain has declared it with, however many configurations ago, and the
\* results of a function that Python implements are converted to its declared
\* return type (ToTypeInfo, TypeInfoToType and FromCelType in a row).
DeclaredTypesSurvive ==
  /\ \A v \in DOMAIN declared.variables :
       Plain(declared.variables[v]) => GetVariableType(v) = declared.variables[v]
  /\ \A d \in declared.overloads :
       LET o == d.overload
       IN Plain(o.return_type) /\ o.id \in DOMAIN env.impls =>
            [id |-> o.id, return_type |-> o.return_type, impl |-> env.impls[o.id]] \in Adapters

\* A parameter whose kind is the one of its arguments on every way to a runtime.
\* It is not for TYPE, which is stored by its printed name; nor for DYN and Any:
\* an activation's function keeps kDyn, or message for Any, where their values
\* have other kinds, and only an extension makes the wildcard of DYN.
Dispatchable(t) ==
  /\ t.kind \notin {"error", "unknown", "type", "dyn"}
  /\ \A n \in LostMessages \cup Wrappers \cup {"google.protobuf.Any"} : t.name # <<n>>

\* A function that an activation provides, with the parameters its overload was
\* declared with, is the one that a late-bound call of that overload finds: its
\* descriptor matches the one registered without an implementation and the
\* kinds of the arguments.  It is so in the runtime of an environment any number
\* of configurations after the declaration, where the registered kinds have
\* been through a TypeInfo and cel::Type, and in that of an extension, where
\* they have not (py_cel_env_internal.cc:317-335, py_cel_activation.cc:66-79).
LateBoundFunctionsMeet ==
  LET late == Unimplemented
                \cup {d \in declared.overloads : d.overload.id \notin DOMAIN env.impls}
  IN \A d \in late :
       LET f == ActivationDescriptor(d.name, d.overload)
       IN \/ \E i \in DOMAIN d.overload.parameters : ~ Dispatchable(d.overload.parameters[i])
          \/ /\ \E lazy \in LazyFunctions : ShapeMatches(lazy, f)
             /\ ArgumentsMatch(f, d.overload.parameters)

\* The type a compiled variable reports is the type its values are converted
\* to, whatever its declaration, unless Any or a wrapper is in it: the two come
\* from one cel::Type through different code (FromCelType, FromTypeProto).
ReportedIsConverted ==
  \A v \in DOMAIN env.types :
    \/ GetReturnType(v) = GetVariableType(v)
    \/ \E n \in Wrappers \cup {"google.protobuf.Any"} : <<n>> \in NamesIn[GetVariableType(v)]

\* A program that checks what it compiles with is_assignable_from, against the
\* type it has declared, is not told otherwise: the parameters of TYPE and of
\* abstract types do not survive the configuration, but assignability does.
\* Nor is it told more of the result of an extension's function than the
\* adapter makes of it: DYN, or the return type.
ReportedTypesFit ==
  LET changed(t) ==
        \E n \in LostMessages \cup Wrappers \cup {"google.protobuf.Any"} : <<n>> \in NamesIn[t]
  IN /\ \A v \in DOMAIN declared.variables :
          LET t == declared.variables[v]
          IN \/ IsAssignableFrom[<<t, GetReturnType(v)>>]
             \/ KindsIn[t] \cap {"error", "unknown"} # {}
             \/ changed(t)
     /\ \A e \in ExtensionOverloads :
          LET t == e.overload.return_type
          IN changed(t) \/ Covers[<<t, FromTypeProto[DeclaredResult(e.overload)]>>]

\* An extension that some call of the chain has registered is listed once, by
\* name or by alias, and with its version: two versions of one library cannot
\* meet, by whichever name each of them came in.
RegistrationsAgree ==
  \A lib \in declared.libraries :
    \E n \in {lib.name, lib.alias} :
      /\ {lib.name, lib.alias} \cap DOMAIN config.extensions = {n}
      /\ config.extensions[n] = EntryVersion(lib)

\* An alias of the configuration means one thing, wherever its parts are from.
\* (An abbreviation may clash with an alias or another abbreviation; the
\* compiler of such an environment cannot be built.)
AliasesMeanOneThing ==
  \A a, b \in config.container.aliases : a.alias = b.alias => a.name = b.name

\* A call that has returned an environment has kept each implementation that
\* its functions and its function_impls offer: none stands in for another.
ImplementationsKept ==
  \A p \in declared.offered : p[1] \in DOMAIN env.impls /\ env.impls[p[1]] = p[2]

\* An environment may add to the configuration it is made from, never change
\* what that says of a variable, an extension, an alias or a function.
Extends(c, d) ==
  /\ \A v \in DOMAIN c.variables :
       v \in DOMAIN d.variables /\ d.variables[v] = c.variables[v]
  /\ \A n \in DOMAIN c.extensions :
       n \in DOMAIN d.extensions /\ d.extensions[n] = c.extensions[n]
  /\ c.container.aliases \subseteq d.container.aliases
  /\ c.container.abbreviations \subseteq d.container.abbreviations
  /\ c.functions \subseteq d.functions

EarlierEntriesStay == [][Extends(config, config')]_vars
=============================================================================
