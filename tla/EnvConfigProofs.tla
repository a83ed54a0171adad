-------------------------- MODULE EnvConfigProofs --------------------------
(***************************************************************************)
(* EnvConfig for every set of configurations, libraries and calls.  All of *)
(* it is about what the copy that a call works on may become; the          *)
(* invariants below say of the copy, item by item, what the properties say *)
(* of the configuration it will be, and of the configuration, entry by     *)
(* entry, what the calls of the chain have declared.                       *)
(***************************************************************************)
EXTENDS EnvConfig, CelTypesProofs, SequenceTheorems, TLAPS

\* The fields of the records that the steps update.
Shapes ==
  /\ {"variables", "extensions", "container", "functions"} = DOMAIN config
  /\ DOMAIN new = DOMAIN config
  /\ {"variables", "extensions", "functions", "impls", "container"} = DOMAIN left
  /\ left.extensions \in Seq(Libraries)
  /\ call.extensions \in Seq(Libraries)

\* Each of the libraries in a set is listed once, and with its version.
Agree(extensions, libraries) ==
  \A lib \in libraries :
    \E n \in {lib.name, lib.alias} :
      /\ {lib.name, lib.alias} \cap DOMAIN extensions = {n}
      /\ extensions[n] = EntryVersion(lib)

\* The extensions of a call that it has been through.
Seen == Range(call.extensions) \ Range(left.extensions)

ExtensionsInv ==
  /\ declared.libraries \subseteq Libraries
  /\ ListedOnce(config.extensions) /\ ListedOnce(new.extensions)
  /\ Agree(config.extensions, declared.libraries)
  /\ Agree(new.extensions, declared.libraries \cup Seen)

---------------------------------------------------------------------------
\* What is in a sequence is its head or in its tail.
LEMMA HeadAndTail ==
  ASSUME NEW S, NEW s \in Seq(S), s # <<>>
  PROVE  /\ Head(s) \in S /\ Tail(s) \in Seq(S)
         /\ Range(s) \subseteq {Head(s)} \cup Range(Tail(s))
<1>1. ASSUME NEW i \in DOMAIN s, i # 1 PROVE s[i] \in Range(Tail(s))
  <2>1. i - 1 \in DOMAIN Tail(s) /\ Tail(s)[i - 1] = s[i]
    BY <1>1
  <2> QED BY <2>1 DEF Range
<1>2. s[1] = Head(s)
  OBVIOUS
<1> QED BY <1>1, <1>2 DEF Range

\* An entry that fits, under the name that the code picks, keeps every library
\* listed once and with its version, and lists the new one so.
LEMMA EntryAgrees ==
  ASSUME NEW extensions, ListedOnce(extensions),
         NEW libraries, libraries \subseteq Libraries, Agree(extensions, libraries),
         NEW lib \in Libraries,
         Fits(EntryName(lib, extensions), EntryVersion(lib), extensions)
  PROVE  /\ ListedOnce(Put(extensions, EntryName(lib, extensions), EntryVersion(lib)))
         /\ Agree(Put(extensions, EntryName(lib, extensions), EntryVersion(lib)),
                  libraries \cup {lib})
<1> DEFINE name == EntryName(lib, extensions)
           after == Put(extensions, name, EntryVersion(lib))
<1>1. /\ DOMAIN after = DOMAIN extensions \cup {name}
      /\ \A n \in DOMAIN extensions : after[n] = extensions[n]
      /\ after[name] = EntryVersion(lib)
  BY DEF Put, Fits
<1>2. name \in {lib.name, lib.alias} /\ name # ""
  BY LibrariesDiffer DEF EntryName
<1>3. name \notin DOMAIN extensions =>
        /\ lib.name \notin DOMAIN extensions
        /\ lib.alias \notin DOMAIN extensions
        /\ name = lib.name => lib.alias \in {"", lib.name}
  BY DEF EntryName, ListedOnce
<1>4. ASSUME NEW m \in Libraries, name \notin DOMAIN extensions, name \in {m.name, m.alias}
      PROVE  m.name = lib.name /\ m.alias = lib.alias
  BY <1>2, <1>4, LibrariesDiffer
<1>5. ListedOnce(after)
  BY <1>1, <1>2, <1>3, <1>4, LibrariesDiffer DEF ListedOnce
<1>6. ASSUME NEW m \in libraries
      PROVE  \E n \in {m.name, m.alias} :
               {m.name, m.alias} \cap DOMAIN after = {n} /\ after[n] = EntryVersion(m)
  <2>1. PICK n \in {m.name, m.alias} :
          {m.name, m.alias} \cap DOMAIN extensions = {n} /\ extensions[n] = EntryVersion(m)
    BY DEF Agree
  <2>2. name \in {m.name, m.alias} => name \in DOMAIN extensions
    BY <1>3, <1>4, <2>1
  <2>3. {m.name, m.alias} \cap DOMAIN after = {n} /\ after[n] = EntryVersion(m)
    BY <1>1, <2>1, <2>2
  <2> QED BY <2>3
<1>7. {lib.name, lib.alias} \cap DOMAIN after = {name} /\ after[name] = EntryVersion(lib)
  BY <1>1, <1>2, <1>5 DEF ListedOnce, EntryName
<1> QED BY <1>2, <1>5, <1>6, <1>7 DEF Agree

---------------------------------------------------------------------------
(***************************************************************************)
(* What a step leaves of the extensions: all of them, all but those of the *)
(* configuration, or it is one of the two steps that matter.               *)
(***************************************************************************)
\* A step of a call that is about something else.
Elsewhere ==
  /\ UNCHANGED <<config, declared, call>>
  /\ new'.extensions = new.extensions /\ left'.extensions = left.extensions
  /\ DOMAIN new' = DOMAIN new /\ DOMAIN left' = DOMAIN left

\* An error status takes the copy back to the configuration (Fail).
LEMMA FailExtensions ==
  ASSUME Shapes, ExtensionsInv, Fail
  PROVE  Shapes' /\ ExtensionsInv'
<1>1. new' = config /\ call' = NoCall /\ left' = Nothing /\ UNCHANGED <<config, declared>>
  BY DEF Fail, Return, chain
<1>2. Seen' = {}
  BY <1>1 DEF Seen, NoCall, Nothing, Range
<1>3. Shapes'
  <2>1. DOMAIN Nothing = DOMAIN left
    BY DEF Shapes, Nothing
  <2>2. Nothing.extensions = <<>> /\ NoCall.extensions = <<>>
    BY DEF NoCall, Nothing
  <2> QED BY <1>1, <2>1, <2>2 DEF Shapes
<1> QED BY <1>1, <1>2, <1>3 DEF ExtensionsInv, Agree

\* The steps about variables, the container, functions and implementations.
LEMMA ElsewhereExtensions ==
  ASSUME Shapes, ExtensionsInv, Elsewhere
  PROVE  Shapes' /\ ExtensionsInv'
<1>1. Seen' = Seen
  BY DEF Elsewhere, Seen
<1> QED BY <1>1 DEF Elsewhere, Shapes, ExtensionsInv, Agree

\* The types of a call, as far as the extensions need them, and the invariant
\* about the extensions, are inductive.
LEMMA ExtensionsInductive ==
  /\ Init => Shapes /\ ExtensionsInv
  /\ Shapes /\ ExtensionsInv /\ [Next]_vars => Shapes' /\ ExtensionsInv'
<1>1. ASSUME Init PROVE Shapes /\ ExtensionsInv
  <2>1. Seen = {}
    BY <1>1 DEF Init, Seen, NoCall, Nothing, Range
  <2>2. Shapes
    <3>1. NoCall.extensions = <<>> /\ Nothing.extensions = <<>>
          /\ DOMAIN Nothing = {"variables", "extensions", "functions", "impls", "container"}
      BY DEF NoCall, Nothing
    <3> QED BY <1>1, <3>1, ConfigsAreWellFormed DEF Init, Shapes, IsConfig
  <2>3. declared.libraries = {} /\ ListedOnce(config.extensions) /\ new = config
    BY <1>1, ConfigsAreWellFormed DEF Init
  <2> QED BY <2>1, <2>2, <2>3 DEF ExtensionsInv, Agree
<1>2. ASSUME Shapes, ExtensionsInv, [Next]_vars PROVE Shapes' /\ ExtensionsInv'
  <2> USE <1>2
  <2>1. ASSUME NEW c \in Calls, NewEnv(c) PROVE Shapes' /\ ExtensionsInv'
    <3>1. /\ UNCHANGED <<config, declared>> /\ new' = config
          /\ call'.extensions = c.extensions /\ left'.extensions = c.extensions
          /\ DOMAIN left' = {"variables", "extensions", "functions", "impls", "container"}
      BY <2>1 DEF NewEnv, chain
    <3>2. Seen' = {}
      BY <3>1 DEF Seen
    <3> QED BY <3>1, <3>2, CallsAreTyped DEF Shapes, ExtensionsInv, Agree
  <2>2. CASE AddVariable
    <3>1. Fail \/ Elsewhere
      BY <2>2 DEF AddVariable, Elsewhere, Shapes, chain
    <3> QED BY <3>1, FailExtensions, ElsewhereExtensions
  <2>3. CASE AddExtension
    <3> DEFINE lib == Head(left.extensions)
               name == EntryName(lib, new.extensions)
    <3>1. CASE GetExtension(lib) /\ Fits(name, EntryVersion(lib), new.extensions)
      <4>1. /\ new' = [new EXCEPT !.extensions = Put(@, name, EntryVersion(lib))]
            /\ left' = [left EXCEPT !.extensions = Tail(@)]
            /\ UNCHANGED <<config, declared, call>>
            /\ left.extensions # <<>>
        BY <2>3, <3>1 DEF AddExtension, chain
      <4>2. /\ new'.extensions = Put(new.extensions, name, EntryVersion(lib))
            /\ left'.extensions = Tail(left.extensions)
            /\ DOMAIN new' = DOMAIN new /\ DOMAIN left' = DOMAIN left
        BY <4>1 DEF Shapes
      <4>3. lib \in Libraries /\ Tail(left.extensions) \in Seq(Libraries)
        BY <4>1 DEF Shapes
      <4>4. Range(left.extensions) \subseteq {lib} \cup Range(Tail(left.extensions))
        BY <4>1, HeadAndTail DEF Shapes
      <4>5. Seen \subseteq Libraries
        <5>1. Range(call.extensions) \subseteq Libraries
          BY DEF Shapes, Range
        <5> QED BY <5>1 DEF Seen
      <4>6. Seen' \subseteq Seen \cup {lib}
        BY <4>1, <4>2, <4>4 DEF Seen
      <4>7. /\ ListedOnce(new'.extensions)
            /\ Agree(new'.extensions, declared.libraries \cup Seen \cup {lib})
        <5>1. /\ ListedOnce(new.extensions)
              /\ declared.libraries \cup Seen \subseteq Libraries
              /\ Agree(new.extensions, declared.libraries \cup Seen)
          BY <4>5 DEF ExtensionsInv
        <5>2. lib \in Libraries
          BY <4>3
        <5>3. /\ ListedOnce(Put(new.extensions, name, EntryVersion(lib)))
              /\ Agree(Put(new.extensions, name, EntryVersion(lib)),
                       (declared.libraries \cup Seen) \cup {lib})
          BY <3>1, <5>1, <5>2, EntryAgrees
        <5> QED BY <4>2, <5>3
      <4> QED BY <4>1, <4>2, <4>3, <4>6, <4>7 DEF Shapes, ExtensionsInv, Agree
    <3>2. CASE ~ (GetExtension(lib) /\ Fits(name, EntryVersion(lib), new.extensions))
      <4>1. Fail
        BY <2>3, <3>2 DEF AddExtension
      <4> QED BY <4>1, FailExtensions
    <3> QED BY <3>1, <3>2
  <2>4. CASE MergeContainer
    <3>1. Fail \/ Elsewhere
      BY <2>4 DEF MergeContainer, Elsewhere, Shapes, chain
    <3> QED BY <3>1, FailExtensions, ElsewhereExtensions
  <2>5. CASE AddFunction
    <3>1. Fail \/ Elsewhere
      BY <2>5 DEF AddFunction, Elsewhere, Shapes, chain
    <3> QED BY <3>1, FailExtensions, ElsewhereExtensions
  <2>6. CASE AddImplementation
    <3>1. Fail \/ Elsewhere
      BY <2>6 DEF AddImplementation, Elsewhere, Shapes, chain
    <3> QED BY <3>1, FailExtensions, ElsewhereExtensions
  <2>7. CASE Construct
    <3>1. CASE Fail
      BY <3>1, FailExtensions
    <3>2. CASE ~ Fail
      <4>1. /\ config' = new /\ new' = new /\ call' = NoCall /\ left' = Nothing
            /\ declared'.libraries = declared.libraries \cup Range(call.extensions)
            /\ left.extensions = <<>>
        BY <2>7, <3>2 DEF Construct, AtFunctions
      <4>2. Seen = Range(call.extensions) /\ Seen' = {} /\ Seen \subseteq Libraries
        <5>1. Range(call.extensions) \subseteq Libraries
          BY DEF Shapes, Range
        <5>2. Range(<<>>) = {} /\ NoCall.extensions = <<>>
          BY DEF Range, NoCall
        <5> QED BY <4>1, <5>1, <5>2 DEF Seen
      <4>3. Shapes'
        <5>1. DOMAIN Nothing = DOMAIN left /\ Nothing.extensions = <<>> /\ NoCall.extensions = <<>>
          BY DEF Shapes, Nothing, NoCall
        <5> QED BY <4>1, <5>1 DEF Shapes
      <4> QED BY <4>1, <4>2, <4>3 DEF ExtensionsInv, Agree
    <3> QED BY <3>1, <3>2
  <2>8. CASE UNCHANGED vars
    <3>1. Elsewhere
      BY <2>8 DEF vars, Elsewhere
    <3> QED BY <3>1, ElsewhereExtensions
  <2> QED BY <2>1, <2>2, <2>3, <2>4, <2>5, <2>6, <2>7, <2>8 DEF Next
<1> QED BY <1>1, <1>2

\* However long the chain, an extension that has been registered is listed
\* once and with its version, whichever of its names each call found it under
\* (the lookup by name before the alias in NewCelEnvInternal).
THEOREM Registrations == Spec => []RegistrationsAgree
<1>1. Shapes /\ ExtensionsInv => RegistrationsAgree
  BY DEF ExtensionsInv, Agree, RegistrationsAgree
<1> QED BY <1>1, ExtensionsInductive, PTL DEF Spec

---------------------------------------------------------------------------
(***************************************************************************)
(* The configuration only grows.                                           *)
(***************************************************************************)
HasFields == DOMAIN new = {"variables", "extensions", "container", "functions"}

\* The copy starts as the configuration and is only added to.
GrowthInv == HasFields /\ DOMAIN config = DOMAIN new /\ Extends(config, new)

\* What is added to an addition to a configuration is added to that.
LEMMA ExtendsTwice ==
  ASSUME NEW c, NEW d, NEW e, Extends(c, d), Extends(d, e)
  PROVE  Extends(c, e)
BY DEF Extends

\* GrowthInv holds at first and every step keeps it.
LEMMA GrowthInductive ==
  /\ Init => GrowthInv
  /\ GrowthInv /\ [Next]_vars => GrowthInv'
<1>1. ASSUME NEW c PROVE Extends(c, c)
  BY DEF Extends
<1>2. Init => GrowthInv
  BY <1>1, ConfigsAreWellFormed DEF Init, GrowthInv, HasFields, IsConfig
<1>3. ASSUME GrowthInv, [Next]_vars PROVE GrowthInv'
  <2> USE <1>3
  <2>1. ASSUME new' = config \/ new' = new, UNCHANGED config PROVE GrowthInv'
    BY <1>1, <2>1 DEF GrowthInv, HasFields
  <2>2. Fail => GrowthInv'
    BY <2>1 DEF Fail, Return, chain
  <2>3. ASSUME UNCHANGED config, DOMAIN new' = DOMAIN new, Extends(new, new')
        PROVE  GrowthInv'
    BY <2>3, ExtendsTwice DEF GrowthInv, HasFields
  <2>4. ASSUME NEW c \in Calls, NewEnv(c) PROVE GrowthInv'
    BY <2>1, <2>4 DEF NewEnv, chain
  <2>5. CASE AddVariable
    <3>1. CASE Fail
      BY <2>2, <3>1
    <3>2. CASE ~ Fail
      <4>1. PICK v \in left.variables :
              /\ v \notin DOMAIN new.variables
              /\ new' = [new EXCEPT !.variables = Put(@, v, ToTypeInfo[call.variables[v]])]
              /\ UNCHANGED config
        BY <2>5, <3>2 DEF AddVariable, chain
      <4>2. Extends(new, new') /\ DOMAIN new' = DOMAIN new
        BY <4>1 DEF Extends, Put, GrowthInv, HasFields
      <4> QED BY <2>3, <4>1, <4>2
    <3> QED BY <3>1, <3>2
  <2>6. CASE AddExtension
    <3>1. CASE Fail
      BY <2>2, <3>1
    <3>2. CASE ~ Fail
      <4>1. PICK name, version :
              /\ Fits(name, version, new.extensions)
              /\ new' = [new EXCEPT !.extensions = Put(@, name, version)]
              /\ UNCHANGED config
        BY <2>6, <3>2 DEF AddExtension, chain
      <4>2. Extends(new, new') /\ DOMAIN new' = DOMAIN new
        BY <4>1 DEF Extends, Put, Fits, GrowthInv, HasFields
      <4> QED BY <2>3, <4>1, <4>2
    <3> QED BY <3>1, <3>2
  <2>7. CASE MergeContainer
    <3>1. CASE Fail
      BY <2>2, <3>1
    <3>2. CASE ~ Fail
      <4> DEFINE merged ==
            [name |-> IF call.container.name = "" THEN new.container.name
                                                  ELSE call.container.name,
             abbreviations |-> new.container.abbreviations \cup call.container.abbreviations,
             aliases |-> new.container.aliases \cup call.container.aliases]
      <4>1. new' = [new EXCEPT !.container = merged] /\ UNCHANGED config
        BY <2>7, <3>2 DEF MergeContainer, chain
      <4>2. /\ new'.container = merged /\ DOMAIN new' = DOMAIN new
            /\ new'.variables = new.variables /\ new'.extensions = new.extensions
            /\ new'.functions = new.functions
        <5> HIDE DEF merged
        <5> QED BY <4>1 DEF GrowthInv, HasFields
      <4>3. /\ merged.aliases = new.container.aliases \cup call.container.aliases
            /\ merged.abbreviations
                 = new.container.abbreviations \cup call.container.abbreviations
        OBVIOUS
      <4>4. Extends(new, new')
        <5> HIDE DEF merged
        <5> QED BY <4>2, <4>3 DEF Extends
      <4> QED BY <2>3, <4>1, <4>2, <4>4
    <3> QED BY <3>1, <3>2
  <2>8. CASE AddFunction
    <3>1. CASE Fail
      BY <2>2, <3>1
    <3>2. CASE ~ Fail
      <4>1. PICK functions :
              new' = [new EXCEPT !.functions = @ \cup functions] /\ UNCHANGED config
        BY <2>8, <3>2 DEF AddFunction, chain
      <4>2. Extends(new, new') /\ DOMAIN new' = DOMAIN new
        BY <4>1 DEF Extends, GrowthInv, HasFields
      <4> QED BY <2>3, <4>1, <4>2
    <3> QED BY <3>1, <3>2
  <2>9. CASE AddImplementation
    BY <2>1, <2>2, <2>9 DEF AddImplementation, chain
  <2>10. CASE Construct
    <3>1. CASE Fail
      BY <2>2, <3>1
    <3>2. CASE ~ Fail
      <4>1. config' = new /\ new' = new
        BY <2>10, <3>2 DEF Construct
      <4> QED BY <1>1, <4>1 DEF GrowthInv, HasFields
    <3> QED BY <3>1, <3>2
  <2>11. CASE UNCHANGED vars
    BY <2>1, <2>11 DEF vars
  <2> QED BY <2>4, <2>5, <2>6, <2>7, <2>8, <2>9, <2>10, <2>11 DEF Next
<1> QED BY <1>2, <1>3

\* No environment changes what the configuration it is made from says: Construct
\* is the only step that others see, and the copy it takes has only been added to.
THEOREM OnlyAdditions == Spec => EarlierEntriesStay
<1>1. GrowthInv /\ [Next]_vars => [Extends(config, config')]_vars
  <2> SUFFICES ASSUME GrowthInv, Next PROVE Extends(config, config')
    BY DEF vars
  <2>1. config' = config \/ config' = new
    BY DEF Next, NewEnv, AddVariable, AddExtension, MergeContainer, AddFunction,
           AddImplementation, Construct, Fail, chain
  <2>2. Extends(config, config) /\ Extends(config, new)
    BY DEF Extends, GrowthInv
  <2> QED BY <2>1, <2>2
<1> QED BY <1>1, GrowthInductive, PTL DEF Spec, EarlierEntriesStay

---------------------------------------------------------------------------
(***************************************************************************)
(* Aliases.                                                                *)
(***************************************************************************)
OneThing(aliases) == \A a, b \in aliases : a.alias = b.alias => a.name = b.name

AliasesInv ==
  /\ OneThing(config.container.aliases)
  /\ OneThing(new.container.aliases)
  /\ OneThing(call.container.aliases)

\* AliasesInv holds at first and every step keeps it.
LEMMA AliasesInductive ==
  /\ Init => AliasesInv
  /\ GrowthInv /\ AliasesInv /\ [Next]_vars => AliasesInv'
<1> DEFINE nothing == NoCall.container.aliases
<1>1. OneThing(nothing)
  BY DEF NoCall, OneThing
<1>2. Init => AliasesInv
  BY <1>1, ConfigsAreWellFormed DEF Init, AliasesInv, OneThing
<1>3. ASSUME GrowthInv, AliasesInv, [Next]_vars PROVE AliasesInv'
  <2> USE <1>3
  <2>1. ASSUME UNCHANGED <<config, call>>, new'.container = new.container
        PROVE  AliasesInv'
    BY <2>1 DEF AliasesInv, OneThing
  <2>2. ASSUME Fail PROVE AliasesInv'
    <3>1. config' = config /\ new' = config /\ call' = NoCall
      BY <2>2 DEF Fail, Return, chain
    <3> QED BY <1>1, <3>1 DEF AliasesInv, OneThing
  <2>3. ASSUME NEW c \in Calls, NewEnv(c) PROVE AliasesInv'
    <3>1. config' = config /\ new' = config /\ call' = c
      BY <2>3 DEF NewEnv, chain
    <3>2. OneThing(c.container.aliases)
      BY CallsAreTyped DEF OneThing
    <3> QED BY <3>1, <3>2 DEF AliasesInv, OneThing
  <2>4. CASE AddVariable
    <3>1. Fail \/ (UNCHANGED <<config, call>> /\ new'.container = new.container)
      BY <2>4 DEF AddVariable, chain, GrowthInv, HasFields
    <3> QED BY <2>1, <2>2, <3>1
  <2>5. CASE AddExtension
    <3>1. Fail \/ (UNCHANGED <<config, call>> /\ new'.container = new.container)
      BY <2>5 DEF AddExtension, chain, GrowthInv, HasFields
    <3> QED BY <2>1, <2>2, <3>1
  <2>6. CASE MergeContainer
    <3> DEFINE old == new.container.aliases
               given == call.container.aliases
    <3>1. CASE Fail
      BY <2>2, <3>1
    <3>2. CASE ~ Fail
      <4>1. ~ Redefines(call.container, new.container) /\ UNCHANGED <<config, call>>
        BY <2>6, <3>2 DEF MergeContainer, chain
      <4>2. new'.container.aliases = old \cup given
        <5> DEFINE name == IF call.container.name = "" THEN new.container.name
                                                       ELSE call.container.name
                   abbreviations == new.container.abbreviations
                                      \cup call.container.abbreviations
        <5>1. new' = [new EXCEPT !.container =
                [name |-> name, abbreviations |-> abbreviations, aliases |-> old \cup given]]
          BY <2>6, <3>2 DEF MergeContainer
        <5> HIDE DEF name, abbreviations, old, given
        <5>2. new'.container =
                [name |-> name, abbreviations |-> abbreviations, aliases |-> old \cup given]
          BY <5>1 DEF GrowthInv, HasFields
        <5> QED BY <5>2
      <4>3. OneThing(old \cup given)
        BY <4>1 DEF Redefines, AliasesInv, OneThing
      <4> QED BY <4>1, <4>2, <4>3 DEF AliasesInv, OneThing
    <3> QED BY <3>1, <3>2
  <2>7. CASE AddFunction
    <3>1. Fail \/ (UNCHANGED <<config, call>> /\ new'.container = new.container)
      BY <2>7 DEF AddFunction, chain, GrowthInv, HasFields
    <3> QED BY <2>1, <2>2, <3>1
  <2>8. CASE AddImplementation
    <3>1. Fail \/ UNCHANGED <<config, call, new>>
      BY <2>8 DEF AddImplementation, chain
    <3> QED BY <2>1, <2>2, <3>1
  <2>9. CASE Construct
    <3>1. CASE Fail
      BY <2>2, <3>1
    <3>2. CASE ~ Fail
      <4>1. config' = new /\ new' = new /\ call' = NoCall
        BY <2>9, <3>2 DEF Construct
      <4> QED BY <1>1, <4>1 DEF AliasesInv, OneThing
    <3> QED BY <3>1, <3>2
  <2>10. CASE UNCHANGED vars
    BY <2>1, <2>10 DEF vars
  <2> QED BY <2>3, <2>4, <2>5, <2>6, <2>7, <2>8, <2>9, <2>10 DEF Next
<1> QED BY <1>2, <1>3

\* An alias never gets a second meaning: the comparison with the aliases that
\* the configuration has is enough, as the container of a call has none twice.
THEOREM Aliases == Spec => []AliasesMeanOneThing
<1>1. AliasesInv => AliasesMeanOneThing
  BY DEF AliasesInv, OneThing, AliasesMeanOneThing
<1> QED BY <1>1, AliasesInductive, GrowthInductive, PTL DEF Spec

---------------------------------------------------------------------------
(***************************************************************************)
(* Implementations.                                                        *)
(***************************************************************************)
OfferedBy(function) ==
  {<<o.id, o.impl>> : o \in {p \in Range(function.overloads) : p.impl # NoImpl}}

Kept(p, kept) == p[1] \in DOMAIN kept /\ kept[p[1]] = p[2]

\* What a call offers is kept or still to come.
ImplementationsInv ==
  /\ left.functions \in Seq(Range(call.functions))
  /\ DOMAIN left = {"variables", "extensions", "functions", "impls", "container"}
  /\ \A p \in Offered(call) :
       \/ p[1] \in left.impls /\ p[2] = call.impls[p[1]]
       \/ \E f \in Range(left.functions) : p \in OfferedBy(f)
       \/ Kept(p, impls)
  /\ \A p \in declared.offered : Kept(p, env.impls)

\* A function none of whose implementations is there yet adds them all.
LEMMA FunctionKept ==
  ASSUME NEW function, ~ ImplementedTwice(function)
  PROVE  /\ \A p \in OfferedBy(function) : Kept(p, WithImpls(function))
         /\ \A p : Kept(p, impls) => Kept(p, WithImpls(function))
<1> DEFINE ids == {function.overloads[i].id : i \in Implemented(function)}
           of(id) == CHOOSE i \in Implemented(function) : function.overloads[i].id = id
<1>1. ASSUME NEW p, Kept(p, impls) PROVE Kept(p, WithImpls(function))
  BY <1>1 DEF Kept, WithImpls
<1>2. ASSUME NEW p \in OfferedBy(function) PROVE Kept(p, WithImpls(function))
  <2>1. PICK i \in Implemented(function) :
          p = <<function.overloads[i].id, function.overloads[i].impl>>
    BY DEF OfferedBy, Implemented, Range
  <2>2. p[1] = function.overloads[i].id /\ p[2] = function.overloads[i].impl
    BY <2>1
  <2>3. p[1] \in ids /\ p[1] \notin DOMAIN impls
    BY <2>2 DEF ImplementedTwice
  <2>4. of(p[1]) = i
    <3>1. of(p[1]) \in Implemented(function) /\ function.overloads[of(p[1])].id = p[1]
      BY <2>2
    <3> QED BY <2>2, <3>1 DEF ImplementedTwice
  <2>5. WithImpls(function)[p[1]] = function.overloads[of(p[1])].impl
        /\ p[1] \in DOMAIN WithImpls(function)
    BY <2>3 DEF WithImpls
  <2> QED BY <2>2, <2>4, <2>5 DEF Kept
<1> QED BY <1>1, <1>2

\* ImplementationsInv holds at first and every step keeps it.
LEMMA ImplementationsInductive ==
  /\ Init => ImplementationsInv
  /\ ImplementationsInv /\ [Next]_vars => ImplementationsInv'
<1>1. /\ Offered(NoCall) = {} /\ Nothing.functions \in Seq(Range(NoCall.functions))
      /\ DOMAIN Nothing = {"variables", "extensions", "functions", "impls", "container"}
  <2>1. <<>> \in Seq(Range(NoCall.functions)) /\ Nothing.functions = <<>>
    BY DEF Nothing
  <2> QED BY <2>1 DEF Offered, NoCall, Nothing, Empty, Range
<1>2. Init => ImplementationsInv
  BY <1>1 DEF Init, ImplementationsInv
<1>3. ASSUME ImplementationsInv, [Next]_vars PROVE ImplementationsInv'
  <2> USE <1>3
  <2>1. ASSUME UNCHANGED <<env, declared, call, impls>>,
               left'.functions = left.functions, left'.impls = left.impls,
               DOMAIN left' = DOMAIN left
        PROVE  ImplementationsInv'
    BY <2>1 DEF ImplementationsInv, Kept, Offered
  <2>2. ASSUME Fail PROVE ImplementationsInv'
    <3>1. call' = NoCall /\ left' = Nothing /\ UNCHANGED <<env, declared>>
      BY <2>2 DEF Fail, Return, chain
    <3>2. Offered(call)' = {}
      BY <1>1, <3>1 DEF Offered
    <3> QED BY <1>1, <3>1, <3>2 DEF ImplementationsInv, Kept
  <2>3. ASSUME NEW c \in Calls, NewEnv(c) PROVE ImplementationsInv'
    <3>1. /\ call' = c /\ left'.functions = c.functions /\ left'.impls = DOMAIN c.impls
          /\ DOMAIN left' = {"variables", "extensions", "functions", "impls", "container"}
          /\ UNCHANGED <<env, declared>>
      BY <2>3 DEF NewEnv, chain
    <3>2. c.functions \in Seq(Range(c.functions))
      BY CallsAreTyped
    <3>3. ASSUME NEW p \in Offered(c)
          PROVE  \/ p[1] \in DOMAIN c.impls /\ p[2] = c.impls[p[1]]
                 \/ \E f \in Range(c.functions) : p \in OfferedBy(f)
      BY DEF Offered, OfferedBy
    <3>4. Offered(call)' = Offered(c)
      BY <3>1 DEF Offered
    <3> QED BY <3>1, <3>2, <3>3, <3>4 DEF ImplementationsInv, Kept
  <2>4. CASE AddVariable
    <3>1. Fail \/ /\ UNCHANGED <<env, declared, call, impls>>
                  /\ \E vs : left' = [left EXCEPT !.variables = vs]
      BY <2>4 DEF AddVariable, chain
    <3> QED BY <2>1, <2>2, <3>1 DEF ImplementationsInv
  <2>5. CASE AddExtension
    <3>1. Fail \/ /\ UNCHANGED <<env, declared, call, impls>>
                  /\ left' = [left EXCEPT !.extensions = Tail(@)]
      BY <2>5 DEF AddExtension, chain
    <3> QED BY <2>1, <2>2, <3>1 DEF ImplementationsInv
  <2>6. CASE MergeContainer
    <3>1. Fail \/ /\ UNCHANGED <<env, declared, call, impls>>
                  /\ left' = [left EXCEPT !.container = FALSE]
      BY <2>6 DEF MergeContainer, chain
    <3> QED BY <2>1, <2>2, <3>1 DEF ImplementationsInv
  <2>7. CASE AddFunction
    <3> DEFINE function == Head(left.functions)
    <3>1. CASE Fail
      BY <2>2, <3>1
    <3>2. CASE ~ Fail
      <4>1. /\ ~ ImplementedTwice(function) /\ impls' = WithImpls(function)
            /\ left' = [left EXCEPT !.functions = Tail(@)] /\ left.functions # <<>>
            /\ UNCHANGED <<env, declared, call>>
        BY <2>7, <3>2 DEF AddFunction, chain
      <4>2. /\ left'.functions = Tail(left.functions) /\ left'.impls = left.impls
            /\ DOMAIN left' = DOMAIN left
        BY <4>1 DEF ImplementationsInv
      <4>3. /\ Tail(left.functions) \in Seq(Range(call.functions))
            /\ Range(left.functions) \subseteq {function} \cup Range(Tail(left.functions))
        BY <4>1, HeadAndTail DEF ImplementationsInv
      <4>4. /\ \A p \in OfferedBy(function) : Kept(p, impls')
            /\ \A p : Kept(p, impls) => Kept(p, impls')
        BY <4>1, FunctionKept
      <4>5. Offered(call)' = Offered(call)
        BY <4>1 DEF Offered
      <4>6. ASSUME NEW p \in Offered(call)
            PROVE  \/ p[1] \in left'.impls /\ p[2] = call.impls[p[1]]
                   \/ \E f \in Range(left'.functions) : p \in OfferedBy(f)
                   \/ Kept(p, impls')
        BY <4>2, <4>3, <4>4 DEF ImplementationsInv
      <4>7. \A p \in declared'.offered : Kept(p, env'.impls)
        BY <4>1 DEF ImplementationsInv, Kept
      <4> QED BY <4>1, <4>2, <4>3, <4>5, <4>6, <4>7 DEF ImplementationsInv, Kept
    <3> QED BY <3>1, <3>2
  <2>8. CASE AddImplementation
    <3>1. CASE Fail
      BY <2>2, <3>1
    <3>2. CASE ~ Fail
      <4>1. PICK id \in left.impls :
              /\ id \notin DOMAIN impls /\ impls' = Put(impls, id, call.impls[id])
              /\ left' = [left EXCEPT !.impls = @ \ {id}]
              /\ UNCHANGED <<env, declared, call>>
        BY <2>8, <3>2 DEF AddImplementation, chain
      <4>2. /\ left'.functions = left.functions /\ left'.impls = left.impls \ {id}
            /\ DOMAIN left' = DOMAIN left
        BY <4>1 DEF ImplementationsInv
      <4>3. /\ \A p : Kept(p, impls) => Kept(p, impls')
            /\ \A p : p[1] = id /\ p[2] = call.impls[id] => Kept(p, impls')
        BY <4>1 DEF Kept, Put
      <4>4. Offered(call)' = Offered(call)
        BY <4>1 DEF Offered
      <4>5. ASSUME NEW p \in Offered(call)
            PROVE  \/ p[1] \in left'.impls /\ p[2] = call.impls[p[1]]
                   \/ \E f \in Range(left'.functions) : p \in OfferedBy(f)
                   \/ Kept(p, impls')
        BY <4>2, <4>3 DEF ImplementationsInv
      <4>6. \A p \in declared'.offered : Kept(p, env'.impls)
        BY <4>1 DEF ImplementationsInv, Kept
      <4> QED BY <4>1, <4>2, <4>4, <4>5, <4>6 DEF ImplementationsInv, Kept
    <3> QED BY <3>1, <3>2
  <2>9. CASE Construct
    <3>1. CASE Fail
      BY <2>2, <3>1
    <3>2. CASE ~ Fail
      <4>1. /\ left.functions = <<>> /\ left.impls = {} /\ env'.impls = impls
            /\ declared'.offered = Offered(call) /\ call' = NoCall /\ left' = Nothing
        BY <2>9, <3>2 DEF Construct, AtFunctions
      <4>2. \A p \in Offered(call) : Kept(p, impls)
        BY <4>1 DEF ImplementationsInv, Range
      <4>3. Offered(call)' = {}
        BY <1>1, <4>1 DEF Offered
      <4> QED BY <1>1, <4>1, <4>2, <4>3 DEF ImplementationsInv, Kept
    <3> QED BY <3>1, <3>2
  <2>10. CASE UNCHANGED vars
    BY <2>1, <2>10 DEF vars
  <2> QED BY <2>3, <2>4, <2>5, <2>6, <2>7, <2>8, <2>9, <2>10 DEF Next
<1> QED BY <1>2, <1>3

\* An environment has each implementation that its call was given, under the
\* overload it was given for: the two loops of NewCelEnvInternal that fill impls
\* return an error before one would be lost to another.
THEOREM Implementations == Spec => []ImplementationsKept
<1>1. ImplementationsInv => ImplementationsKept
  BY DEF ImplementationsInv, Kept, ImplementationsKept
<1> QED BY <1>1, ImplementationsInductive, PTL DEF Spec

---------------------------------------------------------------------------
(***************************************************************************)
(* What a step that goes on does to the fields of the copy and of the      *)
(* arguments that are left.                                                *)
(***************************************************************************)
\* AddVariable, when the configuration does not have the variable yet.
LEMMA VariableAdded ==
  ASSUME Shapes, AddVariable, ~ Fail
  PROVE  /\ UNCHANGED <<config, env, declared, busy, impls, call>>
         /\ DOMAIN new' = DOMAIN new /\ DOMAIN left' = DOMAIN left
         /\ new'.extensions = new.extensions /\ new'.functions = new.functions
         /\ left'.functions = left.functions /\ left'.impls = left.impls
         /\ busy
         /\ \E v \in left.variables :
              /\ v \notin DOMAIN new.variables
              /\ new'.variables = Put(new.variables, v, ToTypeInfo[call.variables[v]])
              /\ left'.variables = left.variables \ {v}
<1>1. PICK v \in left.variables :
        /\ v \notin DOMAIN new.variables
        /\ new' = [new EXCEPT !.variables = Put(@, v, ToTypeInfo[call.variables[v]])]
        /\ left' = [left EXCEPT !.variables = @ \ {v}]
        /\ UNCHANGED <<config, env, declared, busy, impls, call>> /\ busy
  BY DEF AddVariable, chain
<1>2. /\ new'.variables = Put(new.variables, v, ToTypeInfo[call.variables[v]])
      /\ new'.extensions = new.extensions /\ new'.functions = new.functions
      /\ DOMAIN new' = DOMAIN new
  BY <1>1 DEF Shapes
<1>3. /\ left'.variables = left.variables \ {v}
      /\ left'.functions = left.functions /\ left'.impls = left.impls
      /\ DOMAIN left' = DOMAIN left
  BY <1>1 DEF Shapes
<1> QED BY <1>1, <1>2, <1>3

\* AddExtension, when the object is an extension and fits.
LEMMA ExtensionAdded ==
  ASSUME Shapes, AddExtension, ~ Fail
  PROVE  /\ UNCHANGED <<config, env, declared, busy, impls, call>>
         /\ DOMAIN new' = DOMAIN new /\ DOMAIN left' = DOMAIN left
         /\ new'.variables = new.variables /\ new'.functions = new.functions
         /\ left'.functions = left.functions /\ left'.impls = left.impls
         /\ left'.variables = left.variables
         /\ busy
         /\ \E lib \in Libraries : \E name :
              new'.extensions = Put(new.extensions, name, EntryVersion(lib))
<1> DEFINE lib == Head(left.extensions)
           name == EntryName(lib, new.extensions)
<1>1. /\ new' = [new EXCEPT !.extensions = Put(@, name, EntryVersion(lib))]
      /\ left' = [left EXCEPT !.extensions = Tail(@)]
      /\ UNCHANGED <<config, env, declared, busy, impls, call>> /\ busy
      /\ left.extensions # <<>>
  BY DEF AddExtension, chain
<1>2. lib \in Libraries
  BY <1>1 DEF Shapes
<1> HIDE DEF lib, name
<1>3. /\ new'.extensions = Put(new.extensions, name, EntryVersion(lib))
      /\ new'.variables = new.variables /\ new'.functions = new.functions
      /\ DOMAIN new' = DOMAIN new
  BY <1>1 DEF Shapes
<1>4. /\ left'.variables = left.variables
      /\ left'.functions = left.functions /\ left'.impls = left.impls
      /\ DOMAIN left' = DOMAIN left
  BY <1>1 DEF Shapes
<1> QED BY <1>1, <1>2, <1>3, <1>4

\* MergeContainer, when no alias gets a second meaning.
LEMMA ContainerMerged ==
  ASSUME Shapes, MergeContainer, ~ Fail
  PROVE  /\ UNCHANGED <<config, env, declared, busy, impls, call>>
         /\ DOMAIN new' = DOMAIN new /\ DOMAIN left' = DOMAIN left
         /\ new'.variables = new.variables /\ new'.functions = new.functions
         /\ new'.extensions = new.extensions
         /\ left'.functions = left.functions /\ left'.impls = left.impls
         /\ left'.variables = left.variables
         /\ busy
<1>1. PICK merged :
        /\ new' = [new EXCEPT !.container = merged]
        /\ left' = [left EXCEPT !.container = FALSE]
        /\ UNCHANGED <<config, env, declared, busy, impls, call>> /\ busy
  BY DEF MergeContainer, chain
<1>2. /\ new'.variables = new.variables /\ new'.functions = new.functions
      /\ new'.extensions = new.extensions /\ DOMAIN new' = DOMAIN new
  BY <1>1 DEF Shapes
<1>3. /\ left'.variables = left.variables
      /\ left'.functions = left.functions /\ left'.impls = left.impls
      /\ DOMAIN left' = DOMAIN left
  BY <1>1 DEF Shapes
<1> QED BY <1>1, <1>2, <1>3

\* AddFunction, when each implementation of the function is the first of its id.
LEMMA FunctionAdded ==
  ASSUME Shapes, AddFunction, ~ Fail
  PROVE  /\ UNCHANGED <<config, env, declared, busy, call>>
         /\ DOMAIN new' = DOMAIN new /\ DOMAIN left' = DOMAIN left
         /\ new'.variables = new.variables /\ new'.extensions = new.extensions
         /\ left.functions # <<>>
         /\ new'.functions = new.functions \cup ToFunctionConfigs(Head(left.functions))
         /\ left'.functions = Tail(left.functions) /\ left'.impls = left.impls
         /\ left'.variables = left.variables
         /\ busy
<1> DEFINE added == ToFunctionConfigs(Head(left.functions))
<1>1. /\ new' = [new EXCEPT !.functions = @ \cup added]
      /\ left' = [left EXCEPT !.functions = Tail(@)] /\ left.functions # <<>>
      /\ UNCHANGED <<config, env, declared, busy, call>> /\ busy
  BY DEF AddFunction, AtFunctions, chain
<1> HIDE DEF added
<1>2. /\ new'.variables = new.variables /\ new'.extensions = new.extensions
      /\ new'.functions = new.functions \cup added
      /\ DOMAIN new' = DOMAIN new
  BY <1>1 DEF Shapes
<1>3. /\ left'.variables = left.variables
      /\ left'.functions = Tail(left.functions) /\ left'.impls = left.impls
      /\ DOMAIN left' = DOMAIN left
  BY <1>1 DEF Shapes
<1> QED BY <1>1, <1>2, <1>3 DEF added

\* AddImplementation, when no function implements the id.
LEMMA ImplementationAdded ==
  ASSUME Shapes, AddImplementation, ~ Fail
  PROVE  /\ UNCHANGED <<config, env, declared, busy, call, new>>
         /\ DOMAIN left' = DOMAIN left
         /\ left'.functions = left.functions /\ left'.impls \subseteq left.impls
         /\ left'.variables = left.variables
         /\ busy
<1>1. PICK id \in left.impls :
        /\ left' = [left EXCEPT !.impls = @ \ {id}]
        /\ UNCHANGED <<config, env, declared, busy, call, new>> /\ busy
  BY DEF AddImplementation, AtFunctions, chain
<1>2. /\ left'.variables = left.variables
      /\ left'.functions = left.functions /\ left'.impls = left.impls \ {id}
      /\ DOMAIN left' = DOMAIN left
  BY <1>1 DEF Shapes
<1> QED BY <1>1, <1>2

---------------------------------------------------------------------------
(***************************************************************************)
(* Types.                                                                  *)
(***************************************************************************)
\* A call is one of those that can be made.
CallInv == call \in Calls \cup {NoCall}

\* CallInv holds at first and every step keeps it.
LEMMA CallInductive ==
  /\ Init => CallInv
  /\ CallInv /\ [Next]_vars => CallInv'
<1>1. Init => CallInv
  BY DEF Init, CallInv
<1>2. ASSUME CallInv, [Next]_vars PROVE CallInv'
  <2>1. UNCHANGED call \/ call' = NoCall \/ call' \in Calls
    BY <1>2 DEF Next, NewEnv, AddVariable, AddExtension, MergeContainer, AddFunction,
         AddImplementation, Construct, Fail, Return, vars
  <2> QED BY <1>2, <2>1 DEF CallInv
<1> QED BY <1>1, <1>2

\* The variables and the overloads of a call have types.
LEMMA CallTyped ==
  ASSUME CallInv
  PROVE  /\ \A v \in DOMAIN call.variables : call.variables[v] \in PyCelTypes
         /\ \A f \in Range(call.functions) : \A o \in Range(f.overloads) : IsOverload(o)
         /\ call.extensions \in Seq(Libraries)
<1>1. CASE call \in Calls
  BY <1>1, CallsAreTyped
<1>2. CASE call = NoCall
  <2>1. /\ NoCall.variables = Empty /\ NoCall.functions = <<>> /\ NoCall.extensions = <<>>
        /\ DOMAIN Empty = {} /\ Range(<<>>) = {}
    BY DEF NoCall, Empty, Range
  <2> QED BY <1>2, <2>1
<1> QED BY <1>1, <1>2 DEF CallInv

\* What a function puts into a configuration is well formed.
LEMMA FunctionConfigsTyped ==
  ASSUME NEW function, \A o \in Range(function.overloads) : IsOverload(o),
         NEW f \in ToFunctionConfigs(function)
  PROVE  f.return_type \in TypeInfos /\ f.parameters \in Seq(TypeInfos)
<1>1. PICK o \in Range(function.overloads) :
        f = [name |-> function.name, id |-> o.id, return_type |-> ToTypeInfo[o.return_type],
             parameters |-> TypeInfosOf(o.parameters), is_member |-> o.is_member]
  BY DEF ToFunctionConfigs
<1>2. f.return_type = ToTypeInfo[o.return_type] /\ f.parameters = TypeInfosOf(o.parameters)
  BY <1>1
<1>3. o.return_type \in PyCelTypes /\ o.parameters \in Seq(PyCelTypes)
  BY DEF IsOverload
<1>4. \A t \in PyCelTypes : ToTypeInfo[t] \in TypeInfos
  BY DEF TypeInfos
<1>5. TypeInfosOf(o.parameters) \in Seq(TypeInfos)
  BY <1>3, <1>4 DEF TypeInfosOf
<1> QED BY <1>2, <1>3, <1>4, <1>5

\* The empty call and the arguments that it has left.
LEMMA NothingLeft ==
  /\ Nothing.variables = {} /\ Nothing.impls = {} /\ Nothing.functions = <<>>
  /\ DOMAIN NoCall.variables = {} /\ DOMAIN NoCall.impls = {} /\ NoCall.functions = <<>>
BY DEF Nothing, NoCall, Empty

\* TypeOK holds at first and every step keeps it.
LEMMA TypesInductive ==
  /\ Init => TypeOK
  /\ CallInv /\ Shapes /\ ImplementationsInv /\ TypeOK /\ [Next]_vars => TypeOK'
<1>1. ASSUME Init PROVE TypeOK
  <2>1. /\ config \in Configs /\ new = config /\ busy = FALSE /\ call = NoCall /\ left = Nothing
        /\ impls = Empty /\ DOMAIN env.types = {}
    BY <1>1 DEF Init, Empty
  <2> QED BY <2>1, ConfigsAreWellFormed, NothingLeft DEF TypeOK
<1>2. ASSUME CallInv, Shapes, ImplementationsInv, TypeOK, [Next]_vars PROVE TypeOK'
  <2> USE <1>2
  <2>1. ASSUME UNCHANGED <<config, env, busy, call>>, busy, IsConfig(new'),
               left'.variables \subseteq left.variables, left'.impls \subseteq left.impls
        PROVE  TypeOK'
    BY <2>1 DEF TypeOK, IsConfig
  <2>2. ASSUME Fail PROVE TypeOK'
    <3>1. /\ busy' = FALSE /\ new' = config /\ impls' = Empty /\ call' = NoCall
          /\ left' = Nothing /\ UNCHANGED <<config, env>>
      BY <2>2 DEF Fail, Return, chain
    <3> QED BY <3>1, NothingLeft DEF TypeOK, IsConfig
  <2>3. ASSUME NEW c \in Calls, NewEnv(c) PROVE TypeOK'
    <3>1. /\ busy' = TRUE /\ new' = config /\ call' = c
          /\ left'.variables = DOMAIN c.variables /\ left'.impls = DOMAIN c.impls
          /\ UNCHANGED <<config, env>>
      BY <2>3 DEF NewEnv, chain
    <3> QED BY <3>1 DEF TypeOK, IsConfig
  <2>4. CASE AddVariable /\ ~ Fail
    <3>1. PICK v \in left.variables :
            /\ new'.variables = Put(new.variables, v, ToTypeInfo[call.variables[v]])
            /\ left'.variables = left.variables \ {v}
      BY <2>4, VariableAdded
    <3>2. call.variables[v] \in PyCelTypes
      BY CallTyped DEF TypeOK
    <3>3. ToTypeInfo[call.variables[v]] \in TypeInfos
      BY <3>2 DEF TypeInfos
    <3>4. \A w \in DOMAIN new'.variables : new'.variables[w] \in TypeInfos
      BY <3>1, <3>3 DEF Put, TypeOK, IsConfig
    <3>5. /\ new'.extensions = new.extensions /\ new'.functions = new.functions
          /\ DOMAIN new' = DOMAIN new /\ left'.impls = left.impls /\ busy
          /\ UNCHANGED <<config, env, busy, call>>
      BY <2>4, VariableAdded
    <3>6. IsConfig(new')
      BY <3>4, <3>5 DEF TypeOK, IsConfig
    <3> QED BY <2>1, <3>1, <3>5, <3>6
  <2>5. CASE AddExtension /\ ~ Fail
    <3>1. PICK lib \in Libraries :
            \E name : new'.extensions = Put(new.extensions, name, EntryVersion(lib))
      BY <2>5, ExtensionAdded
    <3>2. EntryVersion(lib) \in Nat \cup {Latest}
      BY LibrariesAreTyped DEF EntryVersion, Latest
    <3>3. \A n \in DOMAIN new'.extensions : new'.extensions[n] \in Nat \cup {Latest}
      BY <3>1, <3>2 DEF Put, TypeOK, IsConfig
    <3>4. /\ new'.variables = new.variables /\ new'.functions = new.functions
          /\ DOMAIN new' = DOMAIN new /\ left'.impls = left.impls
          /\ left'.variables = left.variables /\ busy
          /\ UNCHANGED <<config, env, busy, call>>
      BY <2>5, ExtensionAdded
    <3>5. IsConfig(new')
      BY <3>3, <3>4 DEF TypeOK, IsConfig
    <3> QED BY <2>1, <3>4, <3>5
  <2>6. CASE MergeContainer /\ ~ Fail
    <3>1. /\ new'.variables = new.variables /\ new'.functions = new.functions
          /\ new'.extensions = new.extensions
          /\ DOMAIN new' = DOMAIN new /\ left'.impls = left.impls
          /\ left'.variables = left.variables /\ busy
          /\ UNCHANGED <<config, env, busy, call>>
      BY <2>6, ContainerMerged
    <3>2. IsConfig(new')
      BY <3>1 DEF TypeOK, IsConfig
    <3> QED BY <2>1, <3>1, <3>2
  <2>7. CASE AddFunction /\ ~ Fail
    <3> DEFINE function == Head(left.functions)
    <3>1. /\ new'.functions = new.functions \cup ToFunctionConfigs(function)
          /\ left.functions # <<>>
          /\ new'.variables = new.variables /\ new'.extensions = new.extensions
          /\ DOMAIN new' = DOMAIN new /\ left'.impls = left.impls
          /\ left'.variables = left.variables /\ busy
          /\ UNCHANGED <<config, env, busy, call>>
      BY <2>7, FunctionAdded
    <3>2. function \in Range(call.functions)
      BY <3>1, HeadAndTail DEF ImplementationsInv
    <3>3. \A o \in Range(function.overloads) : IsOverload(o)
      BY <3>2, CallTyped
    <3> HIDE DEF function
    <3>4. \A f \in new'.functions : f.return_type \in TypeInfos /\ f.parameters \in Seq(TypeInfos)
      BY <3>1, <3>3, FunctionConfigsTyped DEF TypeOK, IsConfig
    <3>5. IsConfig(new')
      BY <3>1, <3>4 DEF TypeOK, IsConfig
    <3> QED BY <2>1, <3>1, <3>5
  <2>8. CASE AddImplementation /\ ~ Fail
    <3>1. IsConfig(new')
      BY <2>8, ImplementationAdded DEF TypeOK
    <3> QED BY <2>1, <2>8, <3>1, ImplementationAdded
  <2>9. CASE Construct /\ ~ Fail
    <3>1. /\ config' = new /\ new' = new /\ busy' = FALSE /\ impls' = Empty /\ call' = NoCall
          /\ left' = Nothing
          /\ env'.types = [v \in DOMAIN new.variables |-> VariableType(new.variables[v])]
      BY <2>9 DEF Construct
    <3>2. DOMAIN env'.types = DOMAIN new.variables
      BY <3>1
    <3> QED BY <3>1, <3>2, NothingLeft DEF TypeOK
  <2>10. CASE UNCHANGED vars
    BY <2>10 DEF vars, TypeOK, IsConfig
  <2> QED BY <2>2, <2>3, <2>4, <2>5, <2>6, <2>7, <2>8, <2>9, <2>10 DEF Next
<1> QED BY <1>1, <1>2

\* Configurations are well formed throughout, and an environment that nobody is
\* making has nothing left over from a call, whether it failed or returned.
THEOREM ConfigTyped == Spec => []TypeOK
BY CallInductive, ExtensionsInductive, ImplementationsInductive, TypesInductive, PTL DEF Spec

---------------------------------------------------------------------------
(***************************************************************************)
(* What is declared.                                                       *)
(***************************************************************************)
\* What a configuration says of an overload that has been declared.
ConfigOf(name, o) ==
  [name |-> name, id |-> o.id, return_type |-> ToTypeInfo[o.return_type],
   parameters |-> TypeInfosOf(o.parameters), is_member |-> o.is_member]

\* The configuration has what the calls of the chain have declared, and the copy
\* has what the call has declared and has been added already.
DeclaredInv ==
  /\ \A v \in DOMAIN declared.variables :
       /\ declared.variables[v] \in PyCelTypes
       /\ v \in DOMAIN env.types
       /\ config.variables[v] = ToTypeInfo[declared.variables[v]]
  /\ \A v \in DOMAIN call.variables \ left.variables :
       v \in DOMAIN new.variables /\ new.variables[v] = ToTypeInfo[call.variables[v]]
  /\ \A d \in declared.overloads :
       IsOverload(d.overload) /\ ConfigOf(d.name, d.overload) \in config.functions
  /\ \A f \in Range(call.functions) \ Range(left.functions) :
       ToFunctionConfigs(f) \subseteq new.functions

\* An environment is made of its configuration and of its libraries.
EnvInv ==
  /\ \A v \in DOMAIN env.types :
       /\ env.types[v] = VariableType(config.variables[v])
       /\ "unsupported" \notin KindsIn[env.types[v]]
  /\ env.libraries \subseteq Libraries

\* The overloads of a function are in its configurations.
LEMMA ConfigsOfFunction ==
  ASSUME NEW function, NEW o \in Range(function.overloads)
  PROVE  ConfigOf(function.name, o) \in ToFunctionConfigs(function)
BY DEF ConfigOf, ToFunctionConfigs

\* DeclaredInv holds at first and every step keeps it.
LEMMA DeclaredInductive ==
  /\ Init => DeclaredInv
  /\ CallInv /\ Shapes /\ GrowthInv /\ ImplementationsInv /\ TypeOK /\ DeclaredInv /\ [Next]_vars
       => DeclaredInv'
<1>1. ASSUME Init PROVE DeclaredInv
  <2>1. /\ DOMAIN declared.variables = {} /\ declared.overloads = {}
        /\ call = NoCall /\ left = Nothing
    BY <1>1 DEF Init, Empty
  <2>2. Range(call.functions) = {}
    BY <2>1, NothingLeft DEF Range
  <2> QED BY <2>1, <2>2, NothingLeft DEF DeclaredInv
<1>2. ASSUME CallInv, Shapes, GrowthInv, ImplementationsInv, TypeOK, DeclaredInv, [Next]_vars
      PROVE  DeclaredInv'
  <2> USE <1>2
  <2>1. ASSUME UNCHANGED <<config, env, declared>>,
               \A v \in DOMAIN call'.variables \ left'.variables :
                 v \in DOMAIN new'.variables /\ new'.variables[v] = ToTypeInfo[call'.variables[v]],
               \A f \in Range(call'.functions) \ Range(left'.functions) :
                 ToFunctionConfigs(f) \subseteq new'.functions
        PROVE  DeclaredInv'
    BY <2>1 DEF DeclaredInv
  <2>2. ASSUME UNCHANGED <<config, env, declared, call>>, Extends(new, new'),
               left'.variables = left.variables, left'.functions = left.functions
        PROVE  DeclaredInv'
    BY <2>2 DEF DeclaredInv, Extends
  <2>3. ASSUME Fail PROVE DeclaredInv'
    <3>1. call' = NoCall /\ UNCHANGED <<config, env, declared>>
      BY <2>3 DEF Fail, Return, chain
    <3>2. DOMAIN call'.variables = {} /\ Range(call'.functions) = {}
      BY <3>1, NothingLeft DEF Range
    <3> QED BY <2>1, <3>1, <3>2
  <2>4. ASSUME NEW c \in Calls, NewEnv(c) PROVE DeclaredInv'
    <3>1. /\ call' = c /\ left'.variables = DOMAIN c.variables /\ left'.functions = c.functions
          /\ UNCHANGED <<config, env, declared>>
      BY <2>4 DEF NewEnv, chain
    <3> QED BY <2>1, <3>1
  <2>5. CASE AddVariable /\ ~ Fail
    <3>1. PICK v \in left.variables :
            /\ v \notin DOMAIN new.variables
            /\ new'.variables = Put(new.variables, v, ToTypeInfo[call.variables[v]])
            /\ left'.variables = left.variables \ {v}
      BY <2>5, VariableAdded
    <3>2. /\ new'.functions = new.functions /\ left'.functions = left.functions
          /\ UNCHANGED <<config, env, declared, call>>
      BY <2>5, VariableAdded
    <3>3. ASSUME NEW w \in DOMAIN call.variables \ left'.variables
          PROVE  w \in DOMAIN new'.variables /\ new'.variables[w] = ToTypeInfo[call.variables[w]]
      BY <3>1 DEF Put, DeclaredInv
    <3>4. \A f \in Range(call.functions) \ Range(left'.functions) :
            ToFunctionConfigs(f) \subseteq new'.functions
      BY <3>2 DEF DeclaredInv
    <3> QED BY <2>1, <3>2, <3>3, <3>4
  <2>6. CASE AddExtension /\ ~ Fail
    <3>1. /\ new'.variables = new.variables /\ new'.functions = new.functions
          /\ left'.variables = left.variables /\ left'.functions = left.functions
          /\ UNCHANGED <<config, env, declared, call>>
      BY <2>6, ExtensionAdded
    <3> QED BY <2>1, <3>1 DEF DeclaredInv
  <2>7. CASE MergeContainer /\ ~ Fail
    <3>1. /\ new'.variables = new.variables /\ new'.functions = new.functions
          /\ left'.variables = left.variables /\ left'.functions = left.functions
          /\ UNCHANGED <<config, env, declared, call>>
      BY <2>7, ContainerMerged
    <3> QED BY <2>1, <3>1 DEF DeclaredInv
  <2>8. CASE AddFunction /\ ~ Fail
    <3> DEFINE function == Head(left.functions)
    <3>1. /\ new'.functions = new.functions \cup ToFunctionConfigs(function)
          /\ left.functions # <<>> /\ left'.functions = Tail(left.functions)
          /\ new'.variables = new.variables
          /\ left'.variables = left.variables
          /\ UNCHANGED <<config, env, declared, call>>
      BY <2>8, FunctionAdded
    <3>2. Range(left.functions) \subseteq {function} \cup Range(left'.functions)
      BY <3>1, HeadAndTail DEF ImplementationsInv
    <3> HIDE DEF function
    <3>3. \A f \in Range(call.functions) \ Range(left'.functions) :
            ToFunctionConfigs(f) \subseteq new'.functions
      BY <3>1, <3>2 DEF DeclaredInv
    <3>4. \A v \in DOMAIN call.variables \ left'.variables :
            v \in DOMAIN new'.variables /\ new'.variables[v] = ToTypeInfo[call.variables[v]]
      BY <3>1 DEF DeclaredInv
    <3> QED BY <2>1, <3>1, <3>3, <3>4
  <2>9. CASE AddImplementation /\ ~ Fail
    <3>1. /\ left'.variables = left.variables /\ left'.functions = left.functions
          /\ UNCHANGED <<config, env, declared, call, new>>
      BY <2>9, ImplementationAdded
    <3> QED BY <2>1, <3>1 DEF DeclaredInv
  <2>10. CASE Construct /\ ~ Fail
    <3> DEFINE added == UNION {{[name |-> f.name, overload |-> o] : o \in Range(f.overloads)} :
                                f \in Range(call.functions)}
               variables == [v \in DOMAIN declared.variables \cup DOMAIN call.variables |->
                               IF v \in DOMAIN call.variables THEN call.variables[v]
                                                              ELSE declared.variables[v]]
    <3>1. /\ config' = new /\ call' = NoCall
          /\ left.variables = {} /\ left.functions = <<>>
          /\ env'.types = [v \in DOMAIN new.variables |-> VariableType(new.variables[v])]
      BY <2>10 DEF Construct, AtFunctions
    <3>2. /\ declared'.variables = variables
          /\ declared'.overloads = declared.overloads \cup added
      <4> DEFINE libraries == declared.libraries \cup Range(call.extensions)
                 offered == Offered(call)
                 record == [variables |-> variables, overloads |-> declared.overloads \cup added,
                            libraries |-> libraries, offered |-> offered]
      <4>1. ~ \E v \in DOMAIN new.variables : "unsupported" \in KindsIn[VariableType(new.variables[v])]
        BY <2>10 DEF Construct
      <4>2. declared' = record
        BY <2>10, <4>1 DEF Construct
      <4> HIDE DEF variables, added, libraries, offered
      <4> QED BY <4>2
    <3>3. DOMAIN env'.types = DOMAIN new.variables
      BY <3>1
    <3>4. Range(left.functions) = {}
      BY <3>1 DEF Range
    <3>5. ASSUME NEW v \in DOMAIN declared'.variables
          PROVE  /\ declared'.variables[v] \in PyCelTypes
                 /\ v \in DOMAIN new.variables
                 /\ new.variables[v] = ToTypeInfo[declared'.variables[v]]
      <4>1. CASE v \in DOMAIN call.variables
        <5>1. declared'.variables[v] = call.variables[v]
          BY <3>2, <4>1
        <5> QED BY <3>1, <4>1, <5>1, CallTyped DEF DeclaredInv
      <4>2. CASE v \notin DOMAIN call.variables
        <5>1. v \in DOMAIN declared.variables /\ declared'.variables[v] = declared.variables[v]
          BY <3>2, <4>2
        <5>2. v \in DOMAIN config.variables
          BY <5>1 DEF DeclaredInv, TypeOK
        <5> QED BY <5>1, <5>2 DEF DeclaredInv, GrowthInv, Extends
      <4> QED BY <4>1, <4>2
    <3>6. ASSUME NEW d \in declared'.overloads
          PROVE  IsOverload(d.overload) /\ ConfigOf(d.name, d.overload) \in new.functions
      <4>1. CASE d \in declared.overloads
        BY <4>1 DEF DeclaredInv, GrowthInv, Extends
      <4>2. CASE d \in added
        <5>0. PICK f \in Range(call.functions) :
                \E o \in Range(f.overloads) : d = [name |-> f.name, overload |-> o]
          BY <4>2
        <5>1. PICK o \in Range(f.overloads) : d = [name |-> f.name, overload |-> o]
          BY <5>0
        <5>2. d.name = f.name /\ d.overload = o
          BY <5>1
        <5>3. ToFunctionConfigs(f) \subseteq new.functions
          BY <3>4 DEF DeclaredInv
        <5> QED BY <5>2, <5>3, CallTyped, ConfigsOfFunction
      <4> QED BY <3>2, <4>1, <4>2
    <3>7. DOMAIN call'.variables = {} /\ Range(call'.functions) = {}
      BY <3>1, NothingLeft DEF Range
    <3> QED BY <3>1, <3>3, <3>5, <3>6, <3>7 DEF DeclaredInv
  <2>11. CASE UNCHANGED vars
    <3>1. UNCHANGED <<config, env, declared, call, left, new>>
      BY <2>11 DEF vars
    <3> QED BY <2>1, <3>1 DEF DeclaredInv
  <2> QED BY <2>3, <2>4, <2>5, <2>6, <2>7, <2>8, <2>9, <2>10, <2>11 DEF Next
<1> QED BY <1>1, <1>2

\* EnvInv holds at first and every step keeps it.
LEMMA EnvInductive ==
  /\ Init => EnvInv
  /\ CallInv /\ EnvInv /\ [Next]_vars => EnvInv'
<1>1. ASSUME Init PROVE EnvInv
  <2>1. DOMAIN env.types = {} /\ env.libraries = {}
    BY <1>1 DEF Init, Empty
  <2> QED BY <2>1 DEF EnvInv
<1>2. ASSUME CallInv, EnvInv, [Next]_vars PROVE EnvInv'
  <2>1. CASE UNCHANGED <<config, env>>
    <3>1. config' = config /\ env' = env
      BY <2>1
    <3> QED BY <1>2, <3>1 DEF EnvInv, VariableType
  <2>2. CASE Construct /\ ~ Fail
    <3> DEFINE types == [v \in DOMAIN new.variables |-> VariableType(new.variables[v])]
    <3>1. /\ config' = new
          /\ env' = [types |-> types, impls |-> impls, libraries |-> Range(call.extensions)]
          /\ \A v \in DOMAIN types : "unsupported" \notin KindsIn[types[v]]
      BY <2>2 DEF Construct
    <3>2. \A v \in DOMAIN types : types[v] = VariableType(new.variables[v])
      OBVIOUS
    <3> HIDE DEF types
    <3>3. env'.types = types /\ env'.libraries = Range(call.extensions)
      BY <3>1
    <3>4. Range(call.extensions) \subseteq Libraries
      BY <1>2, CallTyped DEF Range
    <3> QED BY <3>1, <3>2, <3>3, <3>4 DEF EnvInv, VariableType
  <2>3. UNCHANGED <<config, env>> \/ (Construct /\ ~ Fail)
    BY <1>2 DEF Next, NewEnv, AddVariable, AddExtension, MergeContainer, AddFunction,
         AddImplementation, Fail, chain, vars
  <2> QED BY <2>1, <2>2, <2>3
<1> QED BY <1>1, <1>2

\* What every environment of a chain has.
ChainInv == TypeOK /\ DeclaredInv /\ EnvInv

\* Every reachable state has it.
LEMMA ChainInductive == Spec => []ChainInv
<1>1. TypeOK /\ DeclaredInv /\ EnvInv => ChainInv
  BY DEF ChainInv
<1> QED BY <1>1, CallInductive, ExtensionsInductive, GrowthInductive, ImplementationsInductive,
           TypesInductive, DeclaredInductive, EnvInductive, PTL DEF Spec

\* Variables and results keep the types they were declared with, however many
\* environments ago: NewEnv stores each as a TypeInfo, nothing changes that, and
\* a plain type comes back from it (PlainTypesSurvive).
THEOREM DeclaredTypes == Spec => []DeclaredTypesSurvive
<1>1. ASSUME ChainInv PROVE DeclaredTypesSurvive
  <2> USE <1>1
  <2>1. ASSUME NEW v \in DOMAIN declared.variables, Plain(declared.variables[v])
        PROVE  GetVariableType(v) = declared.variables[v]
    <3>1. /\ v \in DOMAIN env.types /\ declared.variables[v] \in PyCelTypes
          /\ env.types[v] = VariableType(config.variables[v])
          /\ config.variables[v] = ToTypeInfo[declared.variables[v]]
      BY DEF ChainInv, DeclaredInv, EnvInv
    <3>2. FromCelType[TypeInfoToType[ToTypeInfo[declared.variables[v]]]] = declared.variables[v]
      BY <2>1, <3>1, PlainTypesSurvive
    <3> QED BY <3>1, <3>2 DEF GetVariableType, VariableType
  <2>2. ASSUME NEW d \in declared.overloads, Plain(d.overload.return_type),
               d.overload.id \in DOMAIN env.impls
        PROVE  [id |-> d.overload.id, return_type |-> d.overload.return_type,
                impl |-> env.impls[d.overload.id]] \in Adapters
    <3> DEFINE o == d.overload
               f == ConfigOf(d.name, o)
    <3>1. f \in config.functions /\ o.return_type \in PyCelTypes
      BY DEF ChainInv, DeclaredInv, IsOverload
    <3>2. f.id = o.id /\ f.return_type = ToTypeInfo[o.return_type]
      BY DEF ConfigOf
    <3>3. FromCelType[TypeInfoToType[ToTypeInfo[o.return_type]]] = o.return_type
      BY <2>2, <3>1, PlainTypesSurvive
    <3> HIDE DEF f
    <3>4. f \in {g \in config.functions : g.id \in DOMAIN env.impls}
      BY <2>2, <3>1, <3>2
    <3>5. [id |-> f.id, return_type |-> FromCelType[TypeInfoToType[f.return_type]],
           impl |-> env.impls[f.id]] \in Adapters
      BY <3>4 DEF Adapters
    <3> QED BY <3>2, <3>3, <3>5
  <2> QED BY <2>1, <2>2 DEF DeclaredTypesSurvive
<1> QED BY <1>1, ChainInductive, PTL

\* The type of a variable that a compiled expression reports is the one its
\* values are converted to: the constructor made that of the type info of the
\* configuration, of which the compiler makes the other (ReportsAgree), and no
\* environment is made of a map that PyCelType does not have.
THEOREM Reports == Spec => []ReportedIsConverted
<1>1. ASSUME ChainInv PROVE ReportedIsConverted
  <2> SUFFICES ASSUME NEW v \in DOMAIN env.types
               PROVE  \/ GetReturnType(v) = GetVariableType(v)
                      \/ \E n \in Wrappers \cup {"google.protobuf.Any"} :
                           <<n>> \in NamesIn[GetVariableType(v)]
    BY DEF ReportedIsConverted
  <2> DEFINE c == TypeInfoToType[config.variables[v]]
  <2>1. config.variables[v] \in TypeInfos
    BY <1>1 DEF ChainInv, TypeOK, IsConfig
  <2>2. c \in CelTypesMade
    BY <2>1 DEF CelTypesMade
  <2>3. FromTypeProto[c] = FromCelType[c] \/ Excepted(FromCelType[c])
    BY <2>2, ReportsAgree
  <2>4. env.types[v] = FromCelType[c] /\ "unsupported" \notin KindsIn[env.types[v]]
    BY <1>1 DEF ChainInv, EnvInv, VariableType
  <2>5. GetVariableType(v) = FromCelType[c] /\ GetReturnType(v) = FromTypeProto[c]
    BY <2>4 DEF GetVariableType, GetReturnType
  <2> HIDE DEF c
  <2> QED BY <2>3, <2>4, <2>5 DEF Excepted
<1> QED BY <1>1, ChainInductive, PTL

\* The overloads of the Python extensions of an environment have typed results.
LEMMA ExtensionsTyped ==
  ASSUME ChainInv, NEW e \in ExtensionOverloads
  PROVE  e.overload.return_type \in PyCelTypes
<1> DEFINE Libs == {l \in env.libraries : l.class = "PyCelPythonExtension"}
<1>1. PICK f \in UNION {l.functions : l \in Libs} :
        e \in {[name |-> f.name, overload |-> o] : o \in Range(f.overloads)}
  BY DEF ExtensionOverloads
<1>2. PICK o \in Range(f.overloads) : e = [name |-> f.name, overload |-> o]
  BY <1>1
<1>3. PICK l \in Libs : f \in l.functions
  BY <1>1
<1>4. IsOverload(o)
  <2>1. l \in Libraries
    BY <1>3 DEF ChainInv, EnvInv
  <2> QED BY <1>2, <1>3, <2>1, LibrariesAreTyped
<1> QED BY <1>2, <1>4 DEF IsOverload

\* Code that checks what it compiles against what it has declared is not told
\* otherwise: the configuration has the TypeInfo of the declared type, from which
\* the reported one can still be assigned (StillAssignable), and the adapter of a
\* Python extension says DYN or the return type (AdaptersReport).
THEOREM ReportedFit == Spec => []ReportedTypesFit
<1>1. ASSUME ChainInv PROVE ReportedTypesFit
  <2>1. ASSUME NEW v \in DOMAIN declared.variables
        PROVE  LET t == declared.variables[v]
               IN \/ IsAssignableFrom[<<t, GetReturnType(v)>>]
                  \/ KindsIn[t] \cap {"error", "unknown"} # {}
                  \/ Changes(t)
    <3> DEFINE t == declared.variables[v]
    <3>1. t \in PyCelTypes /\ config.variables[v] = ToTypeInfo[t]
      BY <1>1 DEF ChainInv, DeclaredInv
    <3> HIDE DEF t
    <3>2. GetReturnType(v) = Reported(t)
      BY <3>1, Zenon DEF GetReturnType, Reported
    <3>3. \/ IsAssignableFrom[<<t, Reported(t)>>]
          \/ KindsIn[t] \cap {"error", "unknown"} # {}
          \/ Changes(t)
      BY <3>1, StillAssignable, Zenon
    <3> QED BY <3>2, <3>3, Zenon DEF t
  <2>2. ASSUME NEW e \in ExtensionOverloads
        PROVE  LET t == e.overload.return_type
               IN Changes(t) \/ Covers[<<t, FromTypeProto[DeclaredResult(e.overload)]>>]
    <3>1. e.overload.return_type \in PyCelTypes
      BY <1>1, ExtensionsTyped
    <3> QED BY <3>1, AdaptersReport, Zenon DEF DeclaredResult
  <2> QED BY <2>1, <2>2, Zenon DEF ReportedTypesFit, Changes
<1> QED BY <1>1, ChainInductive, PTL

---------------------------------------------------------------------------
(***************************************************************************)
(* Late-bound functions.                                                   *)
(***************************************************************************)
\* An activation's function takes arguments of the types of its parameters, if
\* they can be dispatched on.
LEMMA ArgumentsTaken ==
  ASSUME NEW name, NEW o, IsOverload(o),
         \A i \in DOMAIN o.parameters : Dispatchable(o.parameters[i])
  PROVE  ArgumentsMatch(ActivationDescriptor(name, o), o.parameters)
<1> DEFINE ps == o.parameters
           kinds == [i \in DOMAIN ps |-> ps[i].kind]
<1>1. ps \in Seq(PyCelTypes)
  BY DEF IsOverload
<1>2. Len(kinds) = Len(ps)
  BY <1>1
<1>3. ActivationDescriptor(name, o).kinds = kinds
  BY DEF ActivationDescriptor, Descriptor
<1>4. ASSUME NEW i \in DOMAIN ps, NEW k \in ArgumentKinds(ps[i]) PROVE kinds[i] = k
  BY <1>4 DEF ArgumentKinds, Dispatchable
<1> HIDE DEF kinds
<1> QED BY <1>2, <1>3, <1>4 DEF ArgumentsMatch

\* A parameter that can be dispatched on reaches a runtime through a
\* configuration with its kind, or as a wildcard.
LEMMA DispatchedKind ==
  ASSUME NEW t \in PyCelTypes, Dispatchable(t)
  PROVE  TypeInfoToType[ToTypeInfo[t]].kind \in {t.kind, "any"}
<1> DEFINE c == TypeInfoToType[ToTypeInfo[t]]
<1>1. ToTypeInfo[t] \in TypeInfos
  BY OnTheWay
<1>2. \A k, n, ps : Record(k, n, ps).kind = k /\ Record(k, n, ps).name = n
  BY DEF Record
<1>3. /\ t.kind \notin {"error", "unknown", "type"}
      /\ \A n \in LostMessages \cup Wrappers : t.name # <<n>>
  BY DEF Dispatchable
<1>4. ASSUME NEW k \in Scalars, t = Scalar(k) PROVE c.kind \in {t.kind, "any"}
  <2>1. ToTypeInfo[t] = Info(<<k>>, <<>>)
    BY <1>4, ScalarInfoOf, Zenon
  <2>2. c = Record(k, <<>>, <<>>)
    BY <1>1, <2>1, ScalarMade
  <2>3. t.kind = k
    BY <1>2, <1>4 DEF Scalar
  <2> QED BY <1>2, <2>2, <2>3
<1>5. ASSUME NEW n \in KnownMessages \cup LostMessages,
             n \notin {"google.protobuf.Timestamp", "google.protobuf.Duration"},
             t = Record("message", <<n>>, <<>>)
      PROVE  c.kind \in {t.kind, "any"}
  <2>1. n \in KnownMessages /\ n \notin Wrappers /\ t.kind = "message"
    BY <1>2, <1>3, <1>5
  <2>2. ToTypeInfo[t] = Info(<<n>>, <<>>)
    BY <1>5, NamedInfoOf
  <2>3. PICK k \in {"any", "wrapper", "message"} :
          TypeInfoToType[Info(<<n>>, <<>>)] = Record(k, <<n>>, <<>>) /\ (k = "wrapper" => n \in Wrappers)
    BY <1>1, <1>5, <2>1, <2>2, MessageMade
  <2> QED BY <1>2, <2>1, <2>2, <2>3
<1>6. ASSUME NEW u \in PyCelTypes, t = ListType(u) PROVE c.kind \in {t.kind, "any"}
  <2>1. ToTypeInfo[t] = Info(<<"list">>, <<ToTypeInfo[u]>>)
    BY <1>6, ListInfoOf, Zenon
  <2>2. c = Record("list", <<>>, <<TypeInfoToType[ToTypeInfo[u]]>>)
    BY <1>1, <2>1, ListMade
  <2>3. t.kind = "list"
    BY <1>2, <1>6 DEF ListType
  <2> QED BY <1>2, <2>2, <2>3
<1>7. ASSUME NEW k \in {"string", "dyn"}, NEW u \in PyCelTypes, t = MapType(Scalar(k), u)
      PROVE  c.kind \in {t.kind, "any"}
  <2>1. ToTypeInfo[t] = Info(<<"map">>, <<Info(<<k>>, <<>>), ToTypeInfo[u]>>)
    BY <1>7, MapInfoOf, Zenon
  <2>2. c = Record("map", <<>>, <<TypeInfoToType[Info(<<k>>, <<>>)], TypeInfoToType[ToTypeInfo[u]]>>)
    BY <1>1, <2>1, MapMade
  <2>3. Scalar(k).kind = k
    BY <1>2 DEF Scalar
  <2>4. t.kind = "map"
    BY <1>2, <1>7, <2>3 DEF MapType
  <2> QED BY <1>2, <2>2, <2>4
<1>8. /\ \A u : TypeType(u).kind = "type"
      /\ \A n, ps : AbstractType(n, ps).kind = "type" /\ Record("type", n, ps).kind = "type"
      /\ Error.kind = "error" /\ Unknown.kind = "unknown" /\ Type.kind = "type"
  BY <1>2 DEF TypeType, AbstractType, Error, Unknown, Type
<1>9. ASSUME t \in FlatTypes PROVE c.kind \in {t.kind, "any"}
  <2>1. \/ \E k \in Scalars : t = Scalar(k)
        \/ t \in {Error, Unknown, Type}
        \/ \E n \in KnownMessages \cup LostMessages :
             /\ n \notin {"google.protobuf.Timestamp", "google.protobuf.Duration"}
             /\ t = Record("message", <<n>>, <<>>)
        \/ \E n \in OpaqueNames : t = Record("type", <<n>>, <<>>)
    BY <1>9, FlatForms
  <2> HIDE DEF c
  <2> QED BY <1>3, <1>4, <1>5, <1>8, <2>1
<1>10. ASSUME \E u \in PyCelTypes :
                \/ t = ListType(u)
                \/ \E k \in {"string", "dyn"} : t = MapType(Scalar(k), u)
                \/ t = TypeType(u)
                \/ \E n \in OpaqueNames : t = AbstractType(<<n>>, <<u>>)
       PROVE  c.kind \in {t.kind, "any"}
  <2> HIDE DEF c
  <2> QED BY <1>3, <1>6, <1>7, <1>8, <1>10
<1> HIDE DEF c
<1>11. c.kind \in {t.kind, "any"}
  BY <1>9, <1>10, TypeForms, Zenon
<1> QED BY <1>11 DEF c

\* Descriptors of two functions of one name match if they have as many
\* parameters and each of them matches.
LEMMA Matching ==
  ASSUME NEW name, NEW is_member, NEW n \in Nat, NEW k, NEW l,
         k = [i \in 1..n |-> k[i]], l = [i \in 1..n |-> l[i]], \A i \in 1..n : k[i] \in {l[i], "any"}
  PROVE  ShapeMatches(Descriptor(name, is_member, k), Descriptor(name, is_member, l))
<1> DEFINE d == Descriptor(name, is_member, k)
           e == Descriptor(name, is_member, l)
<1>1. Len(k) = n /\ Len(l) = n /\ DOMAIN k = 1..n
  OBVIOUS
<1>2. d.name = e.name /\ d.is_member = e.is_member /\ d.kinds = k /\ e.kinds = l
  BY DEF Descriptor
<1> HIDE DEF d, e
<1>3. ShapeMatches(d, e)
  BY <1>1, <1>2 DEF ShapeMatches
<1> QED BY <1>3 DEF d, e

\* A function that an activation provides for a late-bound overload is found,
\* in an environment any number of configurations after the declaration and in
\* that of an extension: the descriptors that BuildRuntime, ConfigureRuntime and
\* the activation make, each on its own way, match, and so do the kinds of the
\* arguments.
THEOREM LateBound == Spec => []LateBoundFunctionsMeet
<1>1. ASSUME ChainInv PROVE LateBoundFunctionsMeet
  <2> SUFFICES ASSUME NEW d \in Unimplemented
                        \cup {e \in declared.overloads : e.overload.id \notin DOMAIN env.impls},
                      \A i \in DOMAIN d.overload.parameters : Dispatchable(d.overload.parameters[i])
               PROVE  LET g == ActivationDescriptor(d.name, d.overload)
                      IN /\ \E lazy \in LazyFunctions : ShapeMatches(lazy, g)
                         /\ ArgumentsMatch(g, d.overload.parameters)
    BY DEF LateBoundFunctionsMeet
  <2> DEFINE o == d.overload
             ps == o.parameters
             n == Len(ps)
             given == [i \in DOMAIN ps |-> ps[i].kind]
  <2>1. ASSUME IsOverload(o)
        PROVE  /\ n \in Nat /\ DOMAIN ps = 1..n /\ \A i \in 1..n : ps[i] \in PyCelTypes
               /\ DOMAIN given = 1..n /\ \A i \in 1..n : given[i] = ps[i].kind
    BY <2>1 DEF IsOverload
  <2>2. ActivationDescriptor(d.name, o) = Descriptor(d.name, o.is_member, given)
    BY DEF ActivationDescriptor
  <2>3. CASE d \in Unimplemented
    <3> DEFINE kinds == [i \in DOMAIN ps |-> IF ps[i].kind = "dyn" THEN "any" ELSE ps[i].kind]
    <3>1. IsOverload(o)
      <4>1. PICK lib \in env.libraries : \E f \in lib.functions : o \in Range(f.overloads)
        BY <2>3 DEF Unimplemented, ExtensionOverloads
      <4>2. lib \in Libraries
        BY <1>1 DEF ChainInv, EnvInv
      <4> QED BY <4>1, <4>2, LibrariesAreTyped
    <3>2. ExtensionDescriptor(d.name, o) = Descriptor(d.name, o.is_member, kinds)
      BY DEF ExtensionDescriptor
    <3>3. /\ kinds = [i \in 1..n |-> kinds[i]] /\ given = [i \in 1..n |-> given[i]]
          /\ \A i \in 1..n : kinds[i] \in {given[i], "any"}
      BY <2>1, <3>1
    <3>4. ExtensionDescriptor(d.name, o) \in LazyFunctions
      BY <2>3 DEF LazyFunctions
    <3> HIDE DEF kinds, given, n
    <3>5. n \in Nat
      BY <2>1, <3>1
    <3>6. ShapeMatches(Descriptor(d.name, o.is_member, kinds), Descriptor(d.name, o.is_member, given))
      BY <3>3, <3>5, Matching
    <3> QED BY <2>2, <3>1, <3>2, <3>4, <3>6, ArgumentsTaken
  <2>4. CASE d \in declared.overloads /\ o.id \notin DOMAIN env.impls
    <3> DEFINE f == ConfigOf(d.name, o)
               qs == [i \in DOMAIN ps |-> ToTypeInfo[ps[i]]]
               kinds == [i \in DOMAIN qs |-> TypeInfoToType[qs[i]].kind]
    <3>1. IsOverload(o) /\ f \in config.functions
      BY <1>1, <2>4 DEF ChainInv, DeclaredInv
    <3>2. f.name = d.name /\ f.is_member = o.is_member /\ f.id = o.id /\ f.parameters = qs
      BY DEF ConfigOf, TypeInfosOf
    <3>3. DOMAIN qs = 1..n /\ \A i \in 1..n : qs[i] = ToTypeInfo[ps[i]]
      BY <2>1, <3>1
    <3>4. ASSUME NEW i \in 1..n PROVE kinds[i] \in {given[i], "any"}
      <4>1. ps[i] \in PyCelTypes /\ Dispatchable(ps[i]) /\ given[i] = ps[i].kind
        BY <2>1, <3>1
      <4>2. kinds[i] = TypeInfoToType[ToTypeInfo[ps[i]]].kind
        BY <3>3
      <4> QED BY <4>1, <4>2, DispatchedKind
    <3>5. kinds = [i \in 1..n |-> kinds[i]] /\ given = [i \in 1..n |-> given[i]]
      BY <2>1, <3>1, <3>3
    <3>6. FunctionDescriptor(f) = Descriptor(d.name, o.is_member, kinds)
      <4> HIDE DEF f
      <4> QED BY <3>2 DEF FunctionDescriptor
    <3> HIDE DEF f, kinds, given, n
    <3>7. FunctionDescriptor(f) \in LazyFunctions
      BY <2>4, <3>1, <3>2 DEF LazyFunctions
    <3>8. n \in Nat
      BY <2>1, <3>1
    <3>9. ShapeMatches(Descriptor(d.name, o.is_member, kinds), Descriptor(d.name, o.is_member, given))
      BY <3>4, <3>5, <3>8, Matching
    <3> QED BY <2>2, <3>1, <3>6, <3>7, <3>9, ArgumentsTaken
  <2> QED BY <2>3, <2>4
<1> QED BY <1>1, ChainInductive, PTL
=============================================================================
