---------------------------- MODULE MCDeclarations ----------------------------
(* Finite instances of Declarations. *)
EXTENDS Declarations

CONSTANTS s1, s2
MCSites == {s1, s2}
MCOps == {op \in Decls \X (1..(MaxGeneration + 1)) \X BOOLEAN :
             IF op[3] THEN op[2] > 1 ELSE op[2] <= MaxGeneration}
RetainUser == {[database |-> "Delete", user |-> "Retain"]}
==============================================================================
