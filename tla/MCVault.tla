------------------------------ MODULE MCVault ------------------------------
(***************************************************************************)
(* Small instances of Vault for TLC.                                       *)
(***************************************************************************)
EXTENDS Vault

CONSTANTS r1, r2, s1, s2

\* Two payloads about one person, and one of them about another as well.
OneShared == [s \in Subject |-> IF s = s1 THEN {r1, r2} ELSE {r2}]
=============================================================================
