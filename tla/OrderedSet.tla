----------------------------- MODULE OrderedSet -----------------------------
(***************************************************************************)
(* What src/B-Tree/btree.go promises of its trees, without nodes: each     *)
(* tree is a set of items with at most one per key, and every call gives   *)
(* the answer the set has for it.  Three promises are weaker than those of *)
(* a set, as the code is: the program ends when the last item is deleted   *)
(* one by one, and a tree that was part of a Clone with Tall items or more *)
(* may lose items at a replacement or end the program at a write.          *)
(***************************************************************************)
EXTENDS Naturals, FiniteSets

CONSTANTS
  Trees,    \* the trees that may exist
  First,    \* the one that New returns
  Items,    \* <<key, tag>>: two items with one key are equal for Less
  None,     \* nil, the answer of a call that finds nothing
  Tall      \* the least number of items a tree with inner nodes can have

VARIABLES
  dict,     \* [Trees -> SUBSET Items]
  made,     \* the trees that exist
  answer,   \* what the last call returned
  cloned,   \* trees whose nodes another tree has shared
  ended     \* a panic has ended the program

vars == <<dict, made, answer, cloned, ended>>

Init ==
  /\ dict = [t \in Trees |-> {}]
  /\ made = {First}
  /\ answer = None
  /\ cloned = {}
  /\ ended = FALSE

\* The items of t that are neither less nor greater than x, at most one.
Equal(t, x) == {y \in dict[t] : y[1] = x[1]}

AnswerIs(S) == answer' = IF S = {} THEN None ELSE CHOOSE y \in S : TRUE

Insert(t, x) ==
  /\ dict' = [dict EXCEPT ![t] = (@ \ Equal(t, x)) \cup {x}]
  /\ AnswerIs(Equal(t, x))
  /\ UNCHANGED <<made, cloned, ended>>

\* A replacement in a tree that shares its nodes keeps only a part of it.
Tear(t, x) ==
  /\ t \in cloned
  /\ Equal(t, x) # {}
  /\ \E kept \in SUBSET (dict[t] \ Equal(t, x)) :
       dict' = [dict EXCEPT ![t] = kept \cup {x}]
  /\ AnswerIs(Equal(t, x))
  /\ UNCHANGED <<made, cloned, ended>>

\* Delete, DeleteMin and DeleteMax: S is the item they are to remove, if any.
Remove(t, S) ==
  /\ dict[t] \ S = {} => S = {}
  /\ dict' = [dict EXCEPT ![t] = @ \ S]
  /\ AnswerIs(S)
  /\ UNCHANGED <<made, cloned, ended>>

Least(t) == {y \in dict[t] : \A z \in dict[t] : y[1] <= z[1]}
Greatest(t) == {y \in dict[t] : \A z \in dict[t] : y[1] >= z[1]}

Clone(t, u) ==
  /\ u \notin made
  /\ made' = made \cup {u}
  /\ dict' = [dict EXCEPT ![u] = dict[t]]
  /\ \/ cloned' = cloned
     \/ Cardinality(dict[t]) >= Tall /\ cloned' = cloned \cup {t, u}
     \/ t \in cloned /\ cloned' = cloned \cup {u}
  /\ UNCHANGED <<answer, ended>>

Clear(t) ==
  /\ dict' = [dict EXCEPT ![t] = {}]
  /\ cloned' = cloned \ {t}
  /\ UNCHANGED <<made, answer, ended>>

Crash(t) ==
  /\ t \in cloned \/ Cardinality(dict[t]) = 1
  /\ ended' = TRUE
  /\ UNCHANGED <<dict, made, answer, cloned>>

Next ==
  /\ ~ended
  /\ \E t \in made :
       \/ \E x \in Items :
            \/ Insert(t, x)
            \/ Tear(t, x)
            \/ Remove(t, Equal(t, x))
       \/ Remove(t, Least(t))
       \/ Remove(t, Greatest(t))
       \/ \E u \in Trees : Clone(t, u)
       \/ Clear(t)
       \/ Crash(t)

Spec == Init /\ [][Next]_vars
=============================================================================
