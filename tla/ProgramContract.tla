--------------------------- MODULE ProgramContract ---------------------------
(***************************************************************************)
(* What PyCelExpression promises about cel_program_, whatever threads do:  *)
(* the expression is parsed or checked for good, its program is made at    *)
(* most once, and from the runtime that fits: one that tolerates warnings  *)
(* for an unchecked expression, the standard one for a checked expression. *)
(***************************************************************************)
EXTENDS Naturals

CONSTANT Exprs

VARIABLES kind, program

NoProgram == [gen |-> 0, mode |-> "none"]

Init ==
  /\ kind = [e \in Exprs |-> "none"]
  /\ program = [e \in Exprs |-> NoProgram]

\* Compile or Deserialize.
Create(e, k) ==
  /\ kind[e] = "none"
  /\ kind' = [kind EXCEPT ![e] = k]
  /\ UNCHANGED program

\* The first Eval that succeeds in making a program.
Build(e) ==
  /\ kind[e] # "none"
  /\ program[e] = NoProgram
  /\ program' = [program EXCEPT ![e] =
       [gen  |-> 1,
        mode |-> IF kind[e] = "checked" THEN "standard" ELSE "ignoreWarnings"]]
  /\ UNCHANGED kind

Next == \E e \in Exprs : Build(e) \/ \E k \in {"parsed", "checked"} : Create(e, k)

Spec == Init /\ [][Next]_<<kind, program>>

=============================================================================
