------------------------------ MODULE OnceCache ------------------------------
(***************************************************************************)
(* What the caches of Python objects promise: whatever is filled in for a  *)
(* key is what everybody gets until the owner of the cache is destroyed.   *)
(* ValueCache and MessageClasses implement it.                             *)
(***************************************************************************)
EXTENDS Naturals

CONSTANTS Keys, Objects, Nothing

VARIABLES
  cache,  \* cache[k]: the object kept for k, or Nothing
  owner   \* the number of owners of a cache destroyed so far

Init ==
  /\ cache = [k \in Keys |-> Nothing]
  /\ owner = 0

Fill(k, o) ==
  /\ cache[k] = Nothing
  /\ cache' = [cache EXCEPT ![k] = o]
  /\ UNCHANGED owner

Destroy ==
  /\ owner' = owner + 1
  /\ cache' = [k \in Keys |-> Nothing]

Next == Destroy \/ \E k \in Keys, o \in Objects : Fill(k, o)

Spec == Init /\ [][Next]_<<cache, owner>>

=============================================================================
