------------------------- MODULE ArenaRegistryProofs -------------------------
(***************************************************************************)
(* Proofs about ArenaRegistry for any number of threads, addresses and     *)
(* arenas.  RegistryInv is inductive; what FromProtoArena answers follows  *)
(* from it at the moment of the answer.                                    *)
(***************************************************************************)
EXTENDS ArenaRegistry, FiniteSetTheorems, TLAPS

-----------------------------------------------------------------------------
(* Types.                                                                  *)

\* The innermost evaluation's arena is an arena.
LEMMA InnerType ==
  ASSUME TypeOK, NEW t \in Threads, evals[t] # <<>>
  PROVE  /\ Inner(t) \in Arenas
         /\ Evaluating(t, Inner(t))
<1>1. evals[t] \in Seq(Arenas) /\ Len(evals[t]) \in 1..Len(evals[t])
  BY DEF TypeOK
<1>. QED  BY <1>1 DEF Inner, Evaluating

\* A thread's answer is well typed.
LEMMA AnswerType ==
  ASSUME TypeOK, NEW t \in Threads, NEW i \in Arenas, NEW own \in BOOLEAN
  PROVE  LET f == FromProtoArena(t, address[i]) IN
         [asked |-> i, entry |-> f.entry, result |-> f.result, own |-> own] \in Answers
<1>1. registry[t][address[i]] \in Entries
  BY DEF TypeOK
<1>. QED  BY <1>1 DEF FromProtoArena, Answers, Results, Arenas, Entries

\* Whatever FromProtoArena answers, a step of Invoke records the answer.
LEMMA InvokeAnswers ==
  ASSUME NEW t, Invoke(t)
  PROVE  evals[t] # <<>> /\ Answered(t)
BY DEF Invoke, InvokeWithArena, ArenaReleased, ArenaUnknown

\* The steps that drop a reference keep the types.
LEMMA DroppedType ==
  ASSUME TypeOK, NEW t \in Threads, NEW i \in Arenas, Dropped(t, i)
  PROVE  /\ registry' \in [Threads -> [Addresses -> Entries]]
         /\ instances' \in Int
         /\ remover' \in [Arenas -> Threads \cup {NoThread}]
<1>. USE BoundsAssumption DEF TypeOK
<1>1. CASE Live(i)'
  BY <1>1 DEF Dropped
<1>2. CASE ~Live(i)'
  <2>1. Destroy(t, i)
    BY <1>2 DEF Dropped
  <2>2. registry' = [registry EXCEPT ![t][address[i]] = 0] /\ 0 \in Entries
    BY <2>1 DEF Destroy, Entries
  <2>. QED  BY <2>1, <2>2 DEF Destroy
<1>. QED  BY <1>1, <1>2

\* Every step keeps the types.
LEMMA TypeStep == TypeOK /\ [Next]_vars => TypeOK'
<1>. SUFFICES ASSUME TypeOK, [Next]_vars PROVE TypeOK'
  OBVIOUS
<1>. USE BoundsAssumption
<1>1. ASSUME NEW t \in Threads, NewArena(t) PROVE TypeOK'
  <2>1. made' \in Arenas /\ made' \in Entries
    BY <1>1 DEF NewArena, TypeOK, Arenas, Entries
  <2>2. registry' \in [Threads -> [Addresses -> Entries]]
    BY <1>1, <2>1 DEF NewArena, TypeOK
  <2>. QED  BY <1>1, <2>1, <2>2 DEF NewArena, TypeOK
<1>2. ASSUME NEW t \in Threads, Invoke(t) PROVE TypeOK'
  <2>1. Inner(t) \in Arenas
    BY <1>2, InnerType, InvokeAnswers
  <2>2. (maker[Inner(t)] = t) \in BOOLEAN
    OBVIOUS
  <2>3. answer' \in [Threads -> Answers]
    <3>1. answer \in [Threads -> Answers]
      BY DEF TypeOK
    <3>2. [asked |-> Inner(t), entry |-> Reply(t).entry, result |-> Reply(t).result,
           own |-> maker[Inner(t)] = t] \in Answers
      BY <2>1, <2>2, AnswerType DEF Reply
    <3>. QED  BY <1>2, <3>1, <3>2, InvokeAnswers DEF Answered
  <2>. QED  BY <1>2, <2>3, InvokeAnswers DEF Answered, TypeOK
<1>3. ASSUME NEW t \in Threads, FinishEval(t) PROVE TypeOK'
  <2>1. Inner(t) \in Arenas
    BY <1>3, InnerType DEF FinishEval
  <2>2. SubSeq(evals[t], 1, Len(evals[t]) - 1) \in Seq(Arenas)
    BY <1>3 DEF FinishEval, TypeOK
  <2>3. evals' \in [Threads -> Seq(Arenas)]
    BY <1>3, <2>2 DEF FinishEval, TypeOK
  <2>4. refs' \in [Arenas -> 0..MaxRefs]
    <3>1. \/ UNCHANGED refs
          \/ /\ refs[Inner(t)] < MaxRefs
             /\ refs' = [refs EXCEPT ![Inner(t)] = @ + 1]
      BY <1>3 DEF FinishEval
    <3>2. refs[Inner(t)] \in 0..MaxRefs
      BY <2>1 DEF TypeOK
    <3>3. CASE UNCHANGED refs
      BY <3>3 DEF TypeOK
    <3>4. CASE ~UNCHANGED refs
      <4>1. refs[Inner(t)] + 1 \in 0..MaxRefs
        BY <3>1, <3>2, <3>4
      <4>2. refs' = [refs EXCEPT ![Inner(t)] = refs[Inner(t)] + 1]
        BY <3>1, <3>4
      <4>. QED  BY <4>1, <4>2 DEF TypeOK
    <3>. QED  BY <3>3, <3>4
  <2>5. PICK i \in Arenas : Dropped(t, i)
    BY <1>3, <2>1 DEF FinishEval
  <2>6. /\ registry' \in [Threads -> [Addresses -> Entries]]
        /\ instances' \in Int
        /\ remover' \in [Arenas -> Threads \cup {NoThread}]
    BY <2>5, DroppedType
  <2>. QED  BY <1>3, <2>3, <2>4, <2>6 DEF FinishEval, TypeOK
<1>4. ASSUME NEW t \in Threads, ReplaceThread(t) PROVE TypeOK'
  <2>1. NoAnswer \in Answers /\ 0 \in Entries
    BY DEF NoAnswer, Answers, Results, Entries
  <2>2. [a \in Addresses |-> 0] \in [Addresses -> Entries]
    BY <2>1
  <2>3. registry' \in [Threads -> [Addresses -> Entries]]
    BY <1>4, <2>2 DEF ReplaceThread, TypeOK
  <2>4. maker' \in [Arenas -> Threads \cup {NoThread}]
    BY <1>4 DEF ReplaceThread, TypeOK
  <2>. QED  BY <1>4, <2>1, <2>3, <2>4 DEF ReplaceThread, TypeOK
<1>5. ASSUME NEW i \in Arenas, Share(i) PROVE TypeOK'
  BY <1>5 DEF Share, TypeOK
<1>6. ASSUME NEW t \in Threads, NEW i \in Arenas, Drop(t, i) PROVE TypeOK'
  <2>1. refs' \in [Arenas -> 0..MaxRefs]
    BY <1>6 DEF Drop, TypeOK
  <2>. QED  BY <1>6, <2>1, DroppedType DEF Drop, TypeOK
<1>7. ASSUME NEW t \in Threads, NEW i \in Arenas, Eval(t, i) PROVE TypeOK'
  <2>1. evals' \in [Threads -> Seq(Arenas)]
    BY <1>7 DEF Eval, TypeOK
  <2>. QED  BY <1>7, <2>1 DEF Eval, TypeOK
<1>8. CASE UNCHANGED vars
  BY <1>8 DEF vars, TypeOK
<1>. QED
  BY <1>1, <1>2, <1>3, <1>4, <1>5, <1>6, <1>7, <1>8 DEF Next

\* The variables of the model keep their types (ArenaRegistry's state).
THEOREM TypeCorrect == Spec => []TypeOK
<1>1. Init => TypeOK
  BY BoundsAssumption
     DEF Init, TypeOK, NoAnswer, Answers, Results, Entries
<1>. QED  BY <1>1, TypeStep, PTL DEF Spec

-----------------------------------------------------------------------------
(* Which arenas a step keeps alive.                                        *)

\* A new evaluation refers to its arena and to none that was not referred to.
LEMMA EvalLive ==
  ASSUME TypeOK, NEW t \in Threads, NEW i \in Arenas, Eval(t, i)
  PROVE  \A j \in Arenas : Live(j)' <=> Live(j)
<1>1. \A u \in Threads : evals[u] \in Seq(Arenas)
  BY DEF TypeOK
<1>2. /\ Len(evals'[t]) = Len(evals[t]) + 1
      /\ evals'[t][Len(evals[t]) + 1] = i
      /\ \A n \in 1..Len(evals[t]) : evals'[t][n] = evals[t][n]
      /\ Len(evals[t]) \in Nat
  BY <1>1 DEF Eval, TypeOK
<1>3. ASSUME NEW j \in Arenas, j # i
      PROVE  Evaluating(t, j)' <=> Evaluating(t, j)
  BY <1>2, <1>3 DEF Evaluating
<1>4. ASSUME NEW j \in Arenas, NEW u \in Threads, u # t
      PROVE  Evaluating(u, j)' <=> Evaluating(u, j)
  BY <1>4 DEF Evaluating, Eval, TypeOK
<1>5. UNCHANGED refs /\ refs[i] > 0
  BY DEF Eval
<1>. QED  BY <1>3, <1>4, <1>5 DEF Live

\* The end of an evaluation drops the reference of one arena, which was live.
LEMMA FinishLive ==
  ASSUME TypeOK, NEW t \in Threads, FinishEval(t)
  PROVE  /\ Live(Inner(t)) /\ Inner(t) \in Arenas
         /\ \A j \in Arenas \ {Inner(t)} : Live(j)' <=> Live(j)
<1>1. evals[t] # <<>>
  BY DEF FinishEval
<1>2. Inner(t) \in Arenas /\ Evaluating(t, Inner(t))
  BY <1>1, InnerType
<1>3. evals[t] \in Seq(Arenas) /\ Len(evals[t]) \in Nat \ {0}
  BY <1>1 DEF TypeOK
<1>4. evals'[t] = SubSeq(evals[t], 1, Len(evals[t]) - 1)
  BY DEF FinishEval, TypeOK
<1>5. /\ Len(evals'[t]) = Len(evals[t]) - 1
      /\ \A n \in 1..(Len(evals[t]) - 1) : evals'[t][n] = evals[t][n]
  BY <1>3, <1>4
<1>6. ASSUME NEW j \in Arenas, j # Inner(t)
      PROVE  Evaluating(t, j)' <=> Evaluating(t, j)
  BY <1>3, <1>5, <1>6 DEF Evaluating, Inner
<1>7. ASSUME NEW j \in Arenas, NEW u \in Threads, u # t
      PROVE  Evaluating(u, j)' <=> Evaluating(u, j)
  BY <1>7 DEF Evaluating, FinishEval, TypeOK
<1>8. \A j \in Arenas \ {Inner(t)} : refs'[j] = refs[j]
  BY DEF FinishEval, TypeOK
<1>. QED  BY <1>2, <1>6, <1>7, <1>8 DEF Live

\* Deleting a Python object that refers to an arena affects no other arena.
LEMMA DropLive ==
  ASSUME TypeOK, NEW t \in Threads, NEW i \in Arenas, Drop(t, i)
  PROVE  /\ Live(i)
         /\ \A j \in Arenas \ {i} : Live(j)' <=> Live(j)
<1>1. \A j \in Arenas, u \in Threads : Evaluating(u, j)' <=> Evaluating(u, j)
  BY DEF Evaluating, Drop
<1>2. refs[i] > 0 /\ \A j \in Arenas \ {i} : refs'[j] = refs[j]
  BY DEF Drop, TypeOK
<1>. QED  BY <1>1, <1>2 DEF Live

\* A new arena has a number of its own, and no other arena's life changes.
LEMMA NewLive ==
  ASSUME TypeOK, NEW t \in Threads, NewArena(t)
  PROVE  /\ made' \in Arenas /\ made' = made + 1
         /\ \A j \in Arenas \ {made'} : Live(j)' <=> Live(j)
<1>1. made' \in Arenas /\ made' = made + 1
  BY BoundsAssumption DEF NewArena, TypeOK, Arenas, Entries
<1>2. \A j \in Arenas, u \in Threads : Evaluating(u, j)' <=> Evaluating(u, j)
  BY DEF Evaluating, NewArena
<1>3. \A j \in Arenas \ {made'} : refs'[j] = refs[j]
  BY <1>1 DEF NewArena, TypeOK
<1>. QED  BY <1>1, <1>2, <1>3 DEF Live

-----------------------------------------------------------------------------
(* The registry.                                                           *)

\* A step that drops a reference, and may destroy its arena, keeps RegistryInv.
LEMMA RegistryDropped ==
  ASSUME TypeOK, RegistryInv, NEW t \in Threads, NEW i \in Arenas, Live(i),
         \A j \in Arenas \ {i} : Live(j)' <=> Live(j),
         UNCHANGED <<made, address, maker>>, Dropped(t, i)
  PROVE  RegistryInv'
<1>1. \A j \in Arenas : Live(j)' => Live(j)
  OBVIOUS
<1>2. CASE Live(i)'
  BY <1>1, <1>2 DEF Dropped, RegistryInv
<1>3. CASE ~Live(i)'
  <2>1. registry' = [registry EXCEPT ![t][address[i]] = 0]
    BY <1>3 DEF Dropped, Destroy
  <2>2. ASSUME NEW u \in Threads, NEW a \in Addresses
        PROVE  registry'[u][a] = registry[u][a] \/ registry'[u][a] = 0
    BY <2>1 DEF TypeOK
  <2>3. \A u \in Threads, a \in Addresses :
          /\ registry'[u][a] <= made'
          /\ registry'[u][a] # 0 => address'[registry'[u][a]] = a
    BY <2>2 DEF RegistryInv, TypeOK, Entries
  <2>4. ASSUME NEW j \in Arenas, Live(j)', maker[j] # NoThread
        PROVE  registry'[maker[j]][address[j]] = j
    <3>1. j # i /\ Live(j)
      BY <1>1, <1>3, <2>4
    <3>2. address[j] # address[i] /\ maker[j] \in Threads /\ address[j] \in Addresses
      BY <2>4, <3>1 DEF RegistryInv, TypeOK
    <3>3. registry'[maker[j]][address[j]] = registry[maker[j]][address[j]]
      BY <2>1, <3>2 DEF TypeOK
    <3>. QED  BY <2>4, <3>1, <3>3 DEF RegistryInv
  <2>5. \A j, k \in Arenas :
          Live(j)' /\ Live(k)' /\ address'[j] = address'[k] => j = k
    BY <1>1 DEF RegistryInv
  <2>6. \A j \in Arenas : Live(j)' => j <= made'
    BY <1>1 DEF RegistryInv
  <2>. QED  BY <2>3, <2>4, <2>5, <2>6 DEF RegistryInv
<1>. QED  BY <1>2, <1>3

\* A new arena at a free address keeps RegistryInv.
LEMMA RegistryNewArena ==
  ASSUME TypeOK, RegistryInv, NEW t \in Threads, NewArena(t)
  PROVE  RegistryInv'
<1>1. /\ made' \in Arenas /\ made' = made + 1
      /\ \A j \in Arenas \ {made'} : Live(j)' <=> Live(j)
  BY NewLive
<1>2. made \in Nat /\ \A j \in Arenas : j \in Nat \ {0}
  BY BoundsAssumption DEF TypeOK, Entries, Arenas
<1>3. PICK a \in Addresses :
        /\ Free(a)
        /\ address' = [address EXCEPT ![made'] = a]
        /\ registry' = [registry EXCEPT ![t][a] = made']
  BY DEF NewArena
<1>4. maker' = [maker EXCEPT ![made'] = t]
  BY DEF NewArena
<1>5. /\ address'[made'] = a /\ maker'[made'] = t
      /\ \A j \in Arenas \ {made'} : address'[j] = address[j] /\ maker'[j] = maker[j]
  BY <1>1, <1>3, <1>4 DEF TypeOK
<1>6. registry'[t][a] = made'
  BY <1>3 DEF TypeOK
<1>7. ASSUME NEW u \in Threads, NEW b \in Addresses, u # t \/ b # a
      PROVE  registry'[u][b] = registry[u][b]
  BY <1>3, <1>7 DEF TypeOK
<1>8. ASSUME NEW j \in Arenas, Live(j)'
      PROVE  j <= made'
  BY <1>1, <1>2, <1>8 DEF RegistryInv
<1>9. ASSUME NEW j \in Arenas, NEW k \in Arenas, Live(j)', Live(k)',
             address'[j] = address'[k]
      PROVE  j = k
  BY <1>1, <1>3, <1>5, <1>9 DEF RegistryInv, Free
<1>10. ASSUME NEW u \in Threads, NEW b \in Addresses
       PROVE  /\ registry'[u][b] <= made'
              /\ registry'[u][b] # 0 => address'[registry'[u][b]] = b
  <2>1. CASE u = t /\ b = a
    BY <1>1, <1>2, <1>5, <1>6, <2>1
  <2>2. CASE ~(u = t /\ b = a)
    <3>1. registry'[u][b] = registry[u][b] /\ registry[u][b] <= made
      BY <1>7, <2>2 DEF RegistryInv
    <3>2. registry[u][b] \in Entries /\ registry[u][b] # made'
      BY <1>1, <1>2, <3>1 DEF TypeOK, Entries
    <3>3. registry[u][b] # 0 => registry[u][b] \in Arenas \ {made'}
      BY <3>2, BoundsAssumption DEF Entries, Arenas
    <3>4. registry[u][b] # 0 => address[registry[u][b]] = b
      BY DEF RegistryInv
    <3>5. registry[u][b] <= made'
      BY <1>1, <1>2, <3>1, <3>2, BoundsAssumption DEF Entries
    <3>. QED  BY <1>5, <3>1, <3>3, <3>4, <3>5
  <2>. QED  BY <2>1, <2>2
<1>11. ASSUME NEW j \in Arenas, Live(j)', maker'[j] # NoThread
       PROVE  registry'[maker'[j]][address'[j]] = j
  <2>1. CASE j = made'
    BY <1>5, <1>6, <2>1
  <2>2. CASE j # made'
    <3>1. Live(j) /\ maker'[j] = maker[j] /\ address'[j] = address[j]
      BY <1>1, <1>5, <1>11, <2>2
    <3>2. address[j] # a /\ address[j] \in Addresses /\ maker[j] \in Threads
      BY <1>3, <1>11, <3>1 DEF Free, TypeOK
    <3>. QED  BY <1>7, <1>11, <3>1, <3>2 DEF RegistryInv
  <2>. QED  BY <2>1, <2>2
<1>. QED  BY <1>8, <1>9, <1>10, <1>11 DEF RegistryInv

\* Every step keeps RegistryInv.
LEMMA RegistryStep == TypeOK /\ RegistryInv /\ [Next]_vars => RegistryInv'
<1>. SUFFICES ASSUME TypeOK, RegistryInv, [Next]_vars PROVE RegistryInv'
  OBVIOUS
<1>1. ASSUME NEW t \in Threads, NewArena(t) PROVE RegistryInv'
  BY <1>1, RegistryNewArena
<1>2. ASSUME NEW t \in Threads, Invoke(t) PROVE RegistryInv'
  BY <1>2, InvokeAnswers DEF Answered, RegistryInv, Live, Evaluating
<1>3. ASSUME NEW t \in Threads, FinishEval(t) PROVE RegistryInv'
  <2>1. PICK i \in Arenas :
          /\ Live(i) /\ Dropped(t, i)
          /\ \A j \in Arenas \ {i} : Live(j)' <=> Live(j)
    BY <1>3, FinishLive DEF FinishEval
  <2>. QED  BY <1>3, <2>1, RegistryDropped DEF FinishEval
<1>4. ASSUME NEW t \in Threads, ReplaceThread(t) PROVE RegistryInv'
  <2>1. \A j \in Arenas : Live(j)' <=> Live(j)
    BY <1>4 DEF ReplaceThread, Live, Evaluating
  <2>2. \A u \in Threads, a \in Addresses :
          registry'[u][a] = IF u = t THEN 0 ELSE registry[u][a]
    BY <1>4 DEF ReplaceThread, TypeOK
  <2>3. \A j \in Arenas : maker'[j] = IF maker[j] = t THEN NoThread ELSE maker[j]
    BY <1>4 DEF ReplaceThread
  <2>4. \A u \in Threads, a \in Addresses :
          /\ registry'[u][a] <= made'
          /\ registry'[u][a] # 0 => address'[registry'[u][a]] = a
    BY <1>4, <2>2, BoundsAssumption DEF RegistryInv, ReplaceThread, TypeOK, Entries
  <2>5. \A j \in Arenas : Live(j)' /\ maker'[j] # NoThread =>
          registry'[maker'[j]][address'[j]] = j
    BY <1>4, <2>1, <2>2, <2>3 DEF RegistryInv, ReplaceThread, TypeOK
  <2>. QED  BY <1>4, <2>1, <2>4, <2>5 DEF RegistryInv, ReplaceThread
<1>5. ASSUME NEW i \in Arenas, Share(i) PROVE RegistryInv'
  <2>1. \A j \in Arenas : Live(j)' <=> Live(j)
    BY <1>5 DEF Share, TypeOK, Live, Evaluating
  <2>. QED  BY <1>5, <2>1 DEF RegistryInv, Share
<1>6. ASSUME NEW t \in Threads, NEW i \in Arenas, Drop(t, i) PROVE RegistryInv'
  BY <1>6, DropLive, RegistryDropped DEF Drop
<1>7. ASSUME NEW t \in Threads, NEW i \in Arenas, Eval(t, i) PROVE RegistryInv'
  <2>1. \A j \in Arenas : Live(j)' <=> Live(j)
    BY <1>7, EvalLive
  <2>. QED  BY <1>7, <2>1 DEF RegistryInv, Eval
<1>8. CASE UNCHANGED vars
  BY <1>8 DEF vars, RegistryInv, Live, Evaluating
<1>. QED
  BY <1>1, <1>2, <1>3, <1>4, <1>5, <1>6, <1>7, <1>8 DEF Next

\* A live arena is in the map of the thread that made it (RegistryInv).
THEOREM RegistryKept == Spec => []RegistryInv
<1>1. Init => RegistryInv
  BY BoundsAssumption DEF Init, RegistryInv, Live, Evaluating
<1>2. TypeOK /\ RegistryInv /\ [Next]_vars => RegistryInv'
  BY RegistryStep
<1>. QED  BY <1>1, <1>2, TypeCorrect, PTL DEF Spec

-----------------------------------------------------------------------------
(* What FromProtoArena answers.                                            *)

\* An answer is given in Invoke and forgotten with its thread.
LEMMA AnswerStep ==
  ASSUME TypeOK, [Next]_vars, NEW t \in Threads
  PROVE  \/ answer'[t] = answer[t]
         \/ answer'[t] = NoAnswer
         \/ Invoke(t)
<1>1. ASSUME NEW u \in Threads, Invoke(u), u # t PROVE answer'[t] = answer[t]
  BY <1>1, InvokeAnswers DEF Answered, TypeOK
<1>2. ASSUME NEW u \in Threads, ReplaceThread(u)
      PROVE  answer'[t] = answer[t] \/ answer'[t] = NoAnswer
  BY <1>2 DEF ReplaceThread, TypeOK
<1>3. ASSUME NEW u \in Threads, NewArena(u) \/ FinishEval(u)
      PROVE  answer'[t] = answer[t]
  BY <1>3 DEF NewArena, FinishEval
<1>4. ASSUME NEW u \in Threads, NEW i \in Arenas, Drop(u, i) \/ Eval(u, i) \/ Share(i)
      PROVE  answer'[t] = answer[t]
  BY <1>4 DEF Drop, Eval, Share
<1>5. ASSUME NEW i \in Arenas, Share(i) PROVE answer'[t] = answer[t]
  BY <1>5 DEF Share
<1>6. CASE UNCHANGED vars
  BY <1>6 DEF vars
<1>. QED  BY <1>1, <1>2, <1>3, <1>4, <1>5, <1>6 DEF Next

\* At the moment of the answer, the evaluation's arena is live, so a live entry
\* is that arena, and the thread that made it has it in its map.
LEMMA AnswerRight ==
  ASSUME TypeOK, RegistryInv, NEW t \in Threads, Invoke(t)
  PROVE  /\ answer'[t].result = "found" => answer'[t].entry = answer'[t].asked
         /\ answer'[t].own => answer'[t].result = "found"
<1>. DEFINE i == Inner(t)
            e == registry[t][address[i]]
            f == FromProtoArena(t, address[i])
<1>1. i \in Arenas /\ Live(i)
  BY InnerType, InvokeAnswers DEF Live
<1>2. address[i] \in Addresses /\ e \in Entries
  BY <1>1 DEF TypeOK
<1>3. answer'[t] =
        [asked |-> i, entry |-> f.entry, result |-> f.result, own |-> maker[i] = t]
  BY InvokeAnswers DEF Answered, Reply, TypeOK
<1>4. f.entry = e /\ (f.result = "found" <=> e # 0 /\ Live(e))
  BY DEF FromProtoArena
<1>5. ASSUME e # 0, Live(e) PROVE e = i
  <2>1. e \in Arenas
    BY <1>2, <1>5, BoundsAssumption DEF Entries, Arenas
  <2>2. address[e] = address[i]
    BY <1>2, <1>5 DEF RegistryInv
  <2>. QED  BY <1>1, <1>5, <2>1, <2>2 DEF RegistryInv
<1>6. ASSUME maker[i] = t PROVE f.result = "found"
  <2>1. e = i
    BY <1>1, <1>6, ThreadsAssumption DEF RegistryInv
  <2>2. i # 0
    BY <1>1, BoundsAssumption DEF Arenas
  <2>. QED  BY <1>1, <1>4, <2>1, <2>2
<1>. HIDE DEF i, e, f
<1>7. /\ answer'[t].asked = i /\ answer'[t].entry = f.entry
      /\ answer'[t].result = f.result
      /\ answer'[t].own = (maker[i] = t)
  BY <1>3
<1>8. answer'[t].result = "found" => answer'[t].entry = answer'[t].asked
  BY <1>4, <1>5, <1>7
<1>9. answer'[t].own => answer'[t].result = "found"
  BY <1>6, <1>7
<1>. QED  BY <1>8, <1>9

\* FromProtoArena never finds an arena that is not the evaluation's
\* (py_cel_arena.cc:72-84).
THEOREM RightArena == Spec => []FindsTheRightArena
<1>1. Init => FindsTheRightArena
  BY DEF Init, FindsTheRightArena, NoAnswer
<1>2. TypeOK /\ RegistryInv /\ FindsTheRightArena /\ [Next]_vars => FindsTheRightArena'
  <2>. SUFFICES ASSUME TypeOK, RegistryInv, FindsTheRightArena, [Next]_vars,
                       NEW t \in Threads
                PROVE  answer'[t].result = "found" => answer'[t].entry = answer'[t].asked
    BY DEF FindsTheRightArena
  <2>1. CASE Invoke(t)
    BY <2>1, AnswerRight
  <2>2. CASE answer'[t] = NoAnswer \/ answer'[t] = answer[t]
    BY <2>2 DEF NoAnswer, FindsTheRightArena
  <2>. QED  BY <2>1, <2>2, AnswerStep
<1>. QED  BY <1>1, <1>2, TypeCorrect, RegistryKept, PTL DEF Spec

\* A thread finds every arena that it made itself (py_cel_arena.cc:55-59 and
\* 72-84), whatever the other threads do.
THEOREM OwnArenas == Spec => []FindsOwnArenas
<1>1. Init => FindsOwnArenas
  BY DEF Init, FindsOwnArenas, NoAnswer
<1>2. TypeOK /\ RegistryInv /\ FindsOwnArenas /\ [Next]_vars => FindsOwnArenas'
  <2>. SUFFICES ASSUME TypeOK, RegistryInv, FindsOwnArenas, [Next]_vars,
                       NEW t \in Threads
                PROVE  answer'[t].own => answer'[t].result = "found"
    BY DEF FindsOwnArenas
  <2>1. CASE Invoke(t)
    BY <2>1, AnswerRight
  <2>2. CASE answer'[t] = NoAnswer \/ answer'[t] = answer[t]
    BY <2>2 DEF NoAnswer, FindsOwnArenas
  <2>. QED  BY <2>1, <2>2, AnswerStep
<1>. QED  BY <1>1, <1>2, TypeCorrect, RegistryKept, PTL DEF Spec

-----------------------------------------------------------------------------
(* Entries for arenas that are gone.                                       *)

\* An entry outlives its arena only if another thread destroyed the arena: a
\* thread that cleans up after itself does not let its map grow.
StaleEntriesAreForeign ==
  \A t \in Threads, a \in Addresses, i \in Arenas :
    registry[t][a] = i => Live(i) \/ remover[i] # t

\* A thread's map has the arenas that it made itself.
EntriesAreOwn ==
  \A t \in Threads, a \in Addresses :
    registry[t][a] # 0 => maker[registry[t][a]] = t

\* A thread has destroyed every arena that is gone.
GoneIsRemoved ==
  \A i \in Arenas : i <= made /\ ~Live(i) => remover[i] \in Threads

\* Thread t made arena i, and another thread destroyed it.
RemovedByOther(t, i) ==
  /\ i \in Arenas /\ i <= made
  /\ ~Live(i)
  /\ maker[i] = t
  /\ remover[i] \in Threads \ {t}

\* The arena of a "released" answer stays gone.
ReleasedInv ==
  \A t \in Threads :
    answer[t].result = "released" => RemovedByOther(t, answer[t].entry)

\* A step that drops a reference leaves no stale entry to its own thread.
LEMMA StaleDropped ==
  ASSUME TypeOK, RegistryInv, StaleEntriesAreForeign,
         NEW t \in Threads, NEW i \in Arenas,
         \A j \in Arenas \ {i} : Live(j)' <=> Live(j), Dropped(t, i)
  PROVE  StaleEntriesAreForeign'
<1>1. CASE Live(i)'
  BY <1>1 DEF Dropped, StaleEntriesAreForeign
<1>2. CASE ~Live(i)'
  <2>1. /\ registry' = [registry EXCEPT ![t][address[i]] = 0]
        /\ remover' = [remover EXCEPT ![i] = t]
    BY <1>2 DEF Dropped, Destroy
  <2>2. ASSUME NEW u \in Threads, NEW a \in Addresses, NEW j \in Arenas,
               registry'[u][a] = j
        PROVE  Live(j)' \/ remover'[j] # u
    <3>1. j # 0
      BY BoundsAssumption DEF Arenas
    <3>2. registry[u][a] = j /\ ~(u = t /\ a = address[i])
      BY <2>1, <2>2, <3>1 DEF TypeOK
    <3>3. CASE j = i
      <4>1. address[j] = a
        BY <3>1, <3>2 DEF RegistryInv
      <4>. QED  BY <2>1, <3>2, <3>3, <4>1 DEF TypeOK
    <3>4. CASE j # i
      <4>1. remover'[j] = remover[j]
        BY <2>1, <3>4 DEF TypeOK
      <4>. QED  BY <3>2, <3>4, <4>1 DEF StaleEntriesAreForeign
    <3>. QED  BY <3>3, <3>4
  <2>. QED  BY <2>2 DEF StaleEntriesAreForeign
<1>. QED  BY <1>1, <1>2

\* A step that neither ends an arena's life nor makes an entry keeps
\* StaleEntriesAreForeign.
LEMMA StaleUndropped ==
  ASSUME TypeOK, StaleEntriesAreForeign, UNCHANGED remover,
         \A j \in Arenas : Live(j)' <=> Live(j),
         \A u \in Threads, a \in Addresses :
           registry'[u][a] = registry[u][a] \/ registry'[u][a] = 0
  PROVE  StaleEntriesAreForeign'
<1>1. \A j \in Arenas : j # 0
  BY BoundsAssumption DEF Arenas
<1>. QED  BY <1>1 DEF StaleEntriesAreForeign

\* The entry of a new arena is live, and every other entry is as it was.
LEMMA NewStale ==
  ASSUME TypeOK, RegistryInv, StaleEntriesAreForeign, NEW t \in Threads, NewArena(t)
  PROVE  StaleEntriesAreForeign'
<1>1. /\ made' \in Arenas /\ made' = made + 1
      /\ \A j \in Arenas \ {made'} : Live(j)' <=> Live(j)
  BY NewLive
<1>2. PICK b \in Addresses : registry' = [registry EXCEPT ![t][b] = made']
  BY DEF NewArena
<1>3. UNCHANGED remover /\ refs'[made'] > 0
  BY <1>1 DEF NewArena, TypeOK
<1>4. ASSUME NEW u \in Threads, NEW a \in Addresses, NEW j \in Arenas,
             registry'[u][a] = j
      PROVE  Live(j)' \/ remover'[j] # u
  <2>1. CASE u = t /\ a = b
    <3>1. j = made'
      BY <1>2, <1>4, <2>1 DEF TypeOK
    <3>. QED  BY <1>3, <3>1 DEF Live
  <2>2. CASE ~(u = t /\ a = b)
    <3>1. registry[u][a] = j
      BY <1>2, <1>4, <2>2 DEF TypeOK
    <3>2. j # 0 /\ j <= made /\ j # made'
      BY <1>1, <3>1, BoundsAssumption DEF RegistryInv, TypeOK, Arenas, Entries
    <3>3. Live(j) \/ remover[j] # u
      BY <3>1, <3>2 DEF StaleEntriesAreForeign
    <3>. QED  BY <1>1, <1>3, <3>2, <3>3
  <2>. QED  BY <2>1, <2>2
<1>. QED  BY <1>4 DEF StaleEntriesAreForeign

\* Which steps change the life of an arena, and which the registry.
LEMMA StepCases ==
  ASSUME TypeOK, [Next]_vars
  PROVE  \/ \E t \in Threads : NewArena(t)
         \/ \E t \in Threads, i \in Arenas :
              /\ Live(i) /\ Dropped(t, i)
              /\ \A j \in Arenas \ {i} : Live(j)' <=> Live(j)
         \/ /\ UNCHANGED <<remover, instances>>
            /\ \A j \in Arenas : Live(j)' <=> Live(j)
            /\ \A u \in Threads, a \in Addresses :
                 registry'[u][a] = registry[u][a] \/ registry'[u][a] = 0
<1>. DEFINE Same == /\ UNCHANGED <<remover, instances>>
                    /\ \A j \in Arenas : Live(j)' <=> Live(j)
                    /\ \A u \in Threads, a \in Addresses :
                         registry'[u][a] = registry[u][a] \/ registry'[u][a] = 0
<1>1. ASSUME NEW t \in Threads, Invoke(t) PROVE Same
  BY <1>1, InvokeAnswers DEF Answered, Live, Evaluating
<1>2. ASSUME NEW t \in Threads, FinishEval(t)
      PROVE  \E i \in Arenas :
               /\ Live(i) /\ Dropped(t, i)
               /\ \A j \in Arenas \ {i} : Live(j)' <=> Live(j)
  BY <1>2, FinishLive DEF FinishEval
<1>3. ASSUME NEW t \in Threads, ReplaceThread(t) PROVE Same
  <2>1. UNCHANGED <<remover, instances>> /\ \A j \in Arenas : Live(j)' <=> Live(j)
    BY <1>3 DEF ReplaceThread, Live, Evaluating
  <2>2. \A u \in Threads, a \in Addresses :
          registry'[u][a] = registry[u][a] \/ registry'[u][a] = 0
    BY <1>3 DEF ReplaceThread, TypeOK
  <2>. QED  BY <2>1, <2>2
<1>4. ASSUME NEW i \in Arenas, Share(i) PROVE Same
  BY <1>4 DEF Share, TypeOK, Live, Evaluating
<1>5. ASSUME NEW t \in Threads, NEW i \in Arenas, Drop(t, i)
      PROVE  /\ Live(i) /\ Dropped(t, i)
             /\ \A j \in Arenas \ {i} : Live(j)' <=> Live(j)
  BY <1>5, DropLive DEF Drop
<1>6. ASSUME NEW t \in Threads, NEW i \in Arenas, Eval(t, i) PROVE Same
  <2>1. \A j \in Arenas : Live(j)' <=> Live(j)
    BY <1>6, EvalLive
  <2>. QED  BY <1>6, <2>1 DEF Eval
<1>7. CASE UNCHANGED vars
  BY <1>7 DEF vars, Live, Evaluating
<1>. QED  BY <1>1, <1>2, <1>3, <1>4, <1>5, <1>6, <1>7 DEF Next

\* Only another thread can leave a thread's map an entry for an arena that is
\* gone (py_cel_arena.cc:55-68).
THEOREM StaleForeign == Spec => []StaleEntriesAreForeign
<1>1. Init => StaleEntriesAreForeign
  BY BoundsAssumption DEF Init, StaleEntriesAreForeign, Arenas
<1>2. TypeOK /\ RegistryInv /\ StaleEntriesAreForeign /\ [Next]_vars
        => StaleEntriesAreForeign'
  <2>. SUFFICES ASSUME TypeOK, RegistryInv, StaleEntriesAreForeign, [Next]_vars
                PROVE  StaleEntriesAreForeign'
    OBVIOUS
  <2>1. ASSUME NEW t \in Threads, NewArena(t) PROVE StaleEntriesAreForeign'
    BY <2>1, NewStale
  <2>. QED  BY <2>1, StepCases, StaleDropped, StaleUndropped
<1>. QED  BY <1>1, <1>2, TypeCorrect, RegistryKept, PTL DEF Spec

\* Arenas are numbered in the order they are made, and the thread that made one
\* is kept until it ends.
LEMMA MakerKept ==
  ASSUME TypeOK, [Next]_vars
  PROVE  /\ made' = made \/ \E t \in Threads : NewArena(t)
         /\ \A j \in Arenas : j <= made =>
              \/ maker'[j] = maker[j]
              \/ \E t \in Threads : ReplaceThread(t) /\ maker[j] = t
<1>. DEFINE Kept == made' = made /\ maker' = maker
<1>1. ASSUME NEW t \in Threads, NewArena(t), NEW j \in Arenas, j <= made
      PROVE  maker'[j] = maker[j]
  <2>1. j # made'
    BY <1>1, NewLive, BoundsAssumption DEF TypeOK, Arenas, Entries
  <2>. QED  BY <1>1, <2>1 DEF NewArena, TypeOK
<1>2. ASSUME NEW t \in Threads, ReplaceThread(t)
      PROVE  /\ made' = made
             /\ \A j \in Arenas : maker'[j] = maker[j] \/ maker[j] = t
  BY <1>2 DEF ReplaceThread
<1>3. ASSUME NEW t \in Threads, Invoke(t) PROVE Kept
  BY <1>3, InvokeAnswers DEF Answered
<1>4. ASSUME NEW t \in Threads, FinishEval(t) PROVE Kept
  BY <1>4 DEF FinishEval
<1>5. ASSUME NEW i \in Arenas, Share(i) PROVE Kept
  BY <1>5 DEF Share
<1>6. ASSUME NEW t \in Threads, NEW i \in Arenas, Drop(t, i) \/ Eval(t, i) PROVE Kept
  BY <1>6 DEF Drop, Eval
<1>7. ASSUME UNCHANGED vars PROVE Kept
  BY <1>7 DEF vars
<1>8. ASSUME \/ \E t \in Threads : Invoke(t) \/ FinishEval(t)
             \/ \E i \in Arenas : Share(i)
             \/ \E t \in Threads, i \in Arenas : Drop(t, i) \/ Eval(t, i)
             \/ UNCHANGED vars
      PROVE  Kept
  BY <1>3, <1>4, <1>5, <1>6, <1>7, <1>8
<1>9. CASE \E t \in Threads : NewArena(t)
  BY <1>1, <1>9
<1>10. CASE \E t \in Threads : ReplaceThread(t)
  BY <1>2, <1>10
<1>11. CASE Kept
  BY <1>11
<1>. QED  BY <1>8, <1>9, <1>10, <1>11 DEF Next

\* An arena that is gone stays gone, and the thread that destroyed it is kept.
LEMMA GoneKept ==
  ASSUME TypeOK, RegistryInv, [Next]_vars,
         NEW j \in Arenas, j <= made, ~Live(j)
  PROVE  ~Live(j)' /\ remover'[j] = remover[j]
<1>1. ASSUME NEW t \in Threads, NewArena(t)
      PROVE  ~Live(j)' /\ remover'[j] = remover[j]
  <2>1. j # made'
    BY <1>1, NewLive, BoundsAssumption DEF TypeOK, Arenas, Entries
  <2>. QED  BY <1>1, <2>1, NewLive DEF NewArena
<1>2. ASSUME NEW t \in Threads, NEW i \in Arenas, Live(i), Dropped(t, i),
             \A k \in Arenas \ {i} : Live(k)' <=> Live(k)
      PROVE  ~Live(j)' /\ remover'[j] = remover[j]
  <2>1. j # i
    BY <1>2
  <2>2. remover'[j] = remover[j]
    BY <1>2, <2>1 DEF Dropped, Destroy, TypeOK
  <2>. QED  BY <1>2, <2>1, <2>2
<1>. QED  BY <1>1, <1>2, StepCases

\* A map entry is made with the arena, and otherwise stays or is erased.
LEMMA EntryKept ==
  ASSUME TypeOK, RegistryInv, [Next]_vars, NEW t \in Threads, NEW a \in Addresses
  PROVE  \/ registry'[t][a] = registry[t][a]
         \/ registry'[t][a] = 0
         \/ NewArena(t) /\ registry'[t][a] = made'
<1>1. ASSUME NEW u \in Threads, NewArena(u)
      PROVE  \/ registry'[t][a] = registry[t][a]
             \/ NewArena(t) /\ registry'[t][a] = made'
  <2>1. PICK b \in Addresses : registry' = [registry EXCEPT ![u][b] = made']
    BY <1>1 DEF NewArena
  <2>2. CASE u = t /\ a = b
    BY <1>1, <2>1, <2>2 DEF TypeOK
  <2>3. CASE ~(u = t /\ a = b)
    BY <2>1, <2>3 DEF TypeOK
  <2>. QED  BY <2>2, <2>3
<1>2. ASSUME NEW u \in Threads, NEW i \in Arenas, Dropped(u, i)
      PROVE  registry'[t][a] = registry[t][a] \/ registry'[t][a] = 0
  <2>1. CASE Live(i)'
    BY <1>2, <2>1 DEF Dropped
  <2>2. CASE ~Live(i)'
    <3>1. registry' = [registry EXCEPT ![u][address[i]] = 0]
      BY <1>2, <2>2 DEF Dropped, Destroy
    <3>. QED  BY <3>1 DEF TypeOK
  <2>. QED  BY <2>1, <2>2
<1>. QED  BY <1>1, <1>2, StepCases

\* A thread's map has the arenas that it made itself (py_cel_arena.cc:55-59).
THEOREM EntriesOwn == Spec => []EntriesAreOwn
<1>1. Init => EntriesAreOwn
  BY DEF Init, EntriesAreOwn
<1>2. TypeOK /\ RegistryInv /\ EntriesAreOwn /\ [Next]_vars => EntriesAreOwn'
  <2>. SUFFICES ASSUME TypeOK, RegistryInv, EntriesAreOwn, [Next]_vars,
                       NEW t \in Threads, NEW a \in Addresses, registry'[t][a] # 0
                PROVE  maker'[registry'[t][a]] = t
    BY DEF EntriesAreOwn
  <2>1. CASE NewArena(t) /\ registry'[t][a] = made'
    <3>1. made' \in Arenas
      BY <2>1, NewLive
    <3>. QED  BY <2>1, <3>1 DEF NewArena, TypeOK
  <2>2. CASE registry'[t][a] = registry[t][a]
    <3>. DEFINE e == registry[t][a]
    <3>1. e \in Arenas /\ e <= made
      BY <2>2, BoundsAssumption DEF RegistryInv, TypeOK, Entries, Arenas
    <3>2. maker[e] = t
      BY <2>2 DEF EntriesAreOwn
    <3>3. ~ReplaceThread(t)
      BY DEF ReplaceThread, TypeOK
    <3>. QED  BY <2>2, <3>1, <3>2, <3>3, MakerKept
  <2>. QED  BY <2>1, <2>2, EntryKept
<1>. QED  BY <1>1, <1>2, TypeCorrect, RegistryKept, PTL DEF Spec

\* Every arena that is gone was destroyed by a thread (py_cel_arena.cc:65-68).
THEOREM GoneRemoved == Spec => []GoneIsRemoved
<1>1. Init => GoneIsRemoved
  BY BoundsAssumption DEF Init, GoneIsRemoved, Arenas
<1>2. TypeOK /\ RegistryInv /\ GoneIsRemoved /\ [Next]_vars => GoneIsRemoved'
  <2>. SUFFICES ASSUME TypeOK, RegistryInv, GoneIsRemoved, [Next]_vars,
                       NEW i \in Arenas, i <= made', ~Live(i)'
                PROVE  remover'[i] \in Threads
    BY DEF GoneIsRemoved
  <2>1. ASSUME NEW t \in Threads, NewArena(t)
        PROVE  i <= made /\ (Live(i)' <=> Live(i))
    <3>1. i # made'
      <4>1. made' \in Arenas => refs'[made'] = 1
        BY <2>1 DEF NewArena, TypeOK
      <4>. QED  BY <4>1 DEF Live
    <3>2. made' = made + 1 /\ made \in Nat /\ i \in Nat
      BY <2>1, NewLive, BoundsAssumption DEF TypeOK, Entries, Arenas
    <3>. QED  BY <2>1, <3>1, <3>2, NewLive
  <2>2. i <= made
    BY <2>1, MakerKept
  <2>3. CASE ~Live(i)
    BY <2>2, <2>3, GoneKept DEF GoneIsRemoved
  <2>4. CASE Live(i)
    <3>1. PICK t \in Threads, k \in Arenas :
            Dropped(t, k) /\ \A j \in Arenas \ {k} : Live(j)' <=> Live(j)
      BY <2>1, <2>4, StepCases
    <3>2. k = i
      BY <2>4, <3>1
    <3>. QED  BY <3>1, <3>2 DEF Dropped, Destroy, TypeOK
  <2>. QED  BY <2>3, <2>4
<1>. QED  BY <1>1, <1>2, TypeCorrect, RegistryKept, PTL DEF Spec

\* At the moment of a "released" answer, the thread made the arena of its entry
\* and another thread destroyed it.
LEMMA AnswerReleased ==
  ASSUME TypeOK, RegistryInv, StaleEntriesAreForeign, EntriesAreOwn, GoneIsRemoved,
         NEW t \in Threads, Invoke(t), answer'[t].result = "released",
         NEW e, e = answer'[t].entry
  PROVE  RemovedByOther(t, e)'
<1>1. Inner(t) \in Arenas /\ address[Inner(t)] \in Addresses
  BY InnerType, InvokeAnswers DEF TypeOK
<1>2. e = registry[t][address[Inner(t)]] /\ e # 0 /\ ~Live(e)
  <2>1. answer'[t].entry = Reply(t).entry /\ answer'[t].result = Reply(t).result
    BY InvokeAnswers DEF Answered, TypeOK
  <2>. QED  BY <2>1 DEF Reply, FromProtoArena
<1>3. e \in Arenas /\ e <= made
  BY <1>1, <1>2, BoundsAssumption DEF RegistryInv, TypeOK, Entries, Arenas
<1>4. maker[e] = t /\ remover[e] \in Threads /\ remover[e] # t
  BY <1>1, <1>2, <1>3 DEF EntriesAreOwn, GoneIsRemoved, StaleEntriesAreForeign
<1>5. UNCHANGED <<made, maker, remover, refs, evals>>
  BY InvokeAnswers DEF Answered
<1>6. ~Live(e)'
  BY <1>2, <1>5 DEF Live, Evaluating
<1>. QED  BY <1>3, <1>4, <1>5, <1>6 DEF RemovedByOther

\* An arena that another thread destroyed is not made again.
LEMMA RemovedKept ==
  ASSUME TypeOK, RegistryInv, [Next]_vars, NEW t \in Threads, ~ReplaceThread(t),
         NEW e, RemovedByOther(t, e)
  PROVE  RemovedByOther(t, e)'
<1>1. /\ e \in Arenas /\ e <= made /\ ~Live(e)
      /\ maker[e] = t /\ remover[e] \in Threads \ {t}
  BY DEF RemovedByOther
<1>2. maker'[e] = t
  BY <1>1, MakerKept
<1>3. e <= made'
  <2>1. made \in Nat /\ e \in Nat
    BY <1>1, BoundsAssumption DEF TypeOK, Entries, Arenas
  <2>2. made' = made \/ made' = made + 1
    BY MakerKept, NewLive
  <2>. QED  BY <1>1, <2>1, <2>2
<1>. QED  BY <1>1, <1>2, <1>3, GoneKept DEF RemovedByOther

\* FromProtoArena answers that an arena was released (py_cel_arena.cc:76-80) only
\* when another thread destroyed an arena that the asking thread made.
THEOREM ReleasedForeign == Spec => []ReleasedIsForeign
<1>1. Init => ReleasedInv
  BY DEF Init, ReleasedInv, NoAnswer
<1>2. /\ TypeOK /\ RegistryInv /\ StaleEntriesAreForeign /\ EntriesAreOwn
      /\ GoneIsRemoved /\ ReleasedInv /\ [Next]_vars
      => ReleasedInv'
  <2>. SUFFICES ASSUME TypeOK, RegistryInv, StaleEntriesAreForeign, EntriesAreOwn,
                       GoneIsRemoved, ReleasedInv, [Next]_vars
                PROVE  ReleasedInv'
    OBVIOUS
  <2>1. ASSUME NEW t \in Threads, answer'[t].result = "released",
               NEW e, e = answer'[t].entry
        PROVE  RemovedByOther(t, e)'
    <3>1. CASE Invoke(t)
      BY <2>1, <3>1, AnswerReleased
    <3>2. CASE answer'[t] = answer[t]
      <4>1. RemovedByOther(t, e)
        BY <2>1, <3>2 DEF ReleasedInv
      <4>2. ~ReplaceThread(t)
        BY <2>1 DEF ReplaceThread, NoAnswer, TypeOK
      <4>. QED  BY <4>1, <4>2, RemovedKept
    <3>3. CASE answer'[t] = NoAnswer
      BY <2>1, <3>3 DEF NoAnswer
    <3>. QED  BY <3>1, <3>2, <3>3, AnswerStep
  <2>. QED  BY <2>1 DEF ReleasedInv, RemovedByOther, Live, Evaluating
<1>3. ReleasedInv => ReleasedIsForeign
  BY DEF ReleasedInv, RemovedByOther, ReleasedIsForeign
<1>. QED
  BY <1>1, <1>2, <1>3, TypeCorrect, RegistryKept, StaleForeign, EntriesOwn,
     GoneRemoved, PTL DEF Spec

-----------------------------------------------------------------------------
(* The count of the arenas.                                                *)

\* The live arenas.
LiveArenas == {i \in Arenas : Live(i)}

\* The number of live arenas, as instance_count_ keeps it.
CountInv == instances = Cardinality(LiveArenas)

\* There are finitely many arenas.
LEMMA LiveFinite == IsFiniteSet(LiveArenas)
<1>1. IsFiniteSet(Arenas)
  BY FS_Interval, BoundsAssumption DEF Arenas
<1>. QED  BY <1>1, FS_Subset DEF LiveArenas

\* Making an arena adds one to the count.
LEMMA CountNew ==
  ASSUME TypeOK, RegistryInv, CountInv, NEW t \in Threads, NewArena(t)
  PROVE  CountInv'
<1>1. PICK k \in Arenas :
        /\ k = made' /\ k = made + 1
        /\ \A j \in Arenas \ {k} : Live(j)' <=> Live(j)
  BY NewLive
<1>2. refs'[k] = 1 /\ instances' = instances + 1
  BY <1>1 DEF NewArena, TypeOK
<1>3. Live(k)'
  BY <1>2 DEF Live
<1>4. ~Live(k)
  BY <1>1, BoundsAssumption DEF RegistryInv, TypeOK, Arenas, Entries
<1>5. LiveArenas' = LiveArenas \cup {k} /\ k \notin LiveArenas
  BY <1>1, <1>3, <1>4 DEF LiveArenas
<1>. QED  BY <1>2, <1>5, LiveFinite, FS_AddElement DEF CountInv

\* Dropping the last reference to an arena takes one from the count.
LEMMA CountDropped ==
  ASSUME TypeOK, CountInv, NEW t \in Threads, NEW i \in Arenas, Live(i),
         \A j \in Arenas \ {i} : Live(j)' <=> Live(j), Dropped(t, i)
  PROVE  CountInv'
<1>1. CASE Live(i)'
  <2>1. LiveArenas' = LiveArenas /\ instances' = instances
    BY <1>1 DEF LiveArenas, Dropped
  <2>. QED  BY <2>1 DEF CountInv
<1>2. CASE ~Live(i)'
  <2>1. LiveArenas' = LiveArenas \ {i} /\ i \in LiveArenas
    BY <1>2 DEF LiveArenas
  <2>2. instances' = instances - 1
    BY <1>2 DEF Dropped, Destroy
  <2>. QED  BY <2>1, <2>2, LiveFinite, FS_RemoveElement DEF CountInv
<1>. QED  BY <1>1, <1>2

\* instance_count_ is the number of live arenas, and no two live arenas share
\* an address (py_cel_arena.cc:61-70).
THEOREM InstancesCounted == Spec => []InstancesAreLive
<1>1. Init => CountInv
  <2>. SUFFICES ASSUME Init PROVE CountInv
    OBVIOUS
  <2>1. LiveArenas = {}
    BY DEF Init, LiveArenas, Live, Evaluating
  <2>. QED  BY <2>1, FS_EmptySet DEF Init, CountInv
<1>2. TypeOK /\ RegistryInv /\ CountInv /\ [Next]_vars => CountInv'
  <2>. SUFFICES ASSUME TypeOK, RegistryInv, CountInv, [Next]_vars PROVE CountInv'
    OBVIOUS
  <2>1. CASE /\ UNCHANGED <<remover, instances>>
             /\ \A j \in Arenas : Live(j)' <=> Live(j)
    <3>1. LiveArenas' = LiveArenas
      BY <2>1 DEF LiveArenas
    <3>. QED  BY <2>1, <3>1 DEF CountInv
  <2>. QED  BY <2>1, StepCases, CountNew, CountDropped
<1>3. RegistryInv /\ CountInv => InstancesAreLive
  BY DEF RegistryInv, CountInv, LiveArenas, InstancesAreLive
<1>. QED  BY <1>1, <1>2, <1>3, TypeCorrect, RegistryKept, PTL DEF Spec

=============================================================================
