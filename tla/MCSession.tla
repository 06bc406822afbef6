----------------------------- MODULE MCSession -----------------------------
(* Session on a handful of texts, versions and outside changes. *)
EXTENDS Session, TLC

TextSymmetry == Permutations(Text)
=============================================================================
