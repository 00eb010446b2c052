---------------------------- MODULE MCEntityBriefs ----------------------------
(* EntityBriefs for TLC: r1 and r2 post facts about acme, r3 about bond. *)
EXTENDS EntityBriefs, TLC
CONSTANTS acme, bond, r1, r2, r3
MCEntityOf == [r \in Recorders |-> IF r = r3 /\ bond \in Entities THEN bond ELSE acme]
===============================================================================
