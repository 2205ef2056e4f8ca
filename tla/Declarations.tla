------------------------------- MODULE Declarations -------------------------------
(***************************************************************************)
(* What the symbol table promises, without tables: each name is undeclared *)
(* (level 0) or belongs to one level of nesting, the global level being 1. *)
(* Entering a level declares nothing, leaving one forgets exactly the names*)
(* of that level, and a mention declares a name that has no level.         *)
(***************************************************************************)
EXTENDS Integers

CONSTANT Names

VARIABLES depth, level

vars == <<depth, level>>

Init == depth = 1 /\ level = [n \in Names |-> 0]

Enter == depth' = depth + 1 /\ UNCHANGED level

Leave == /\ depth > 1
         /\ depth' = depth - 1
         /\ level' = [n \in Names |-> IF level[n] = depth THEN 0 ELSE level[n]]

Mention(n) == /\ level' = [level EXCEPT ![n] = IF @ = 0 THEN depth ELSE @]
              /\ UNCHANGED depth

Next == Enter \/ Leave \/ \E n \in Names : Mention(n)

Spec == Init /\ [][Next]_vars
==================================================================================
