---------------------------- MODULE MCInputPath ----------------------------
(***************************************************************************)
(* The input path for TLC: two modifiers of the table, in its order.       *)
(***************************************************************************)
EXTENDS InputPath

ShiftControl == <<42, 29>>
ShiftOnly == <<42>>
=============================================================================
