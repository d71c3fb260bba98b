----------------------------- MODULE MCPathRules -----------------------------
(***************************************************************************)
(* Every path of up to four parts, with one ordinary part.                 *)
(***************************************************************************)
EXTENDS PathRules

MCPlain == {"n"}
===============================================================================
