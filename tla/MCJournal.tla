----------------------------- MODULE MCJournal -----------------------------
(***************************************************************************)
(* Small instances of Journal for TLC.                                     *)
(***************************************************************************)
EXTENDS Journal, TLC

\* Record ids are interchangeable.
IdSymmetry == Permutations(Id)
=============================================================================
