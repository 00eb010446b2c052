--------------------------- MODULE MCComputerDesktop ---------------------------
(* Two turns of one bot against every operation on its desktop.  The turns  *)
(* are interchangeable, but the run checks liveness, where symmetry is not  *)
(* sound: none is declared.                                                 *)
EXTENDS ComputerDesktop
================================================================================
