------------------------------ MODULE MCCategories -----------------------------
(* A small instance of Categories for TLC.                                     *)
EXTENDS Categories

CONSTANTS c1, c2, c3

ThreeAtFirst == <<c1, c2, c3>>
===============================================================================
