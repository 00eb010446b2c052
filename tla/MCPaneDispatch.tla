--------------------------- MODULE MCPaneDispatch ---------------------------
(***************************************************************************)
(* PaneDispatch for TLC: its constants are sets of model values and        *)
(* numbers, so the .cfg files give them directly.                          *)
(***************************************************************************)
EXTENDS PaneDispatch

=============================================================================
