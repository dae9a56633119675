----------------------------- MODULE Questions -----------------------------
(***************************************************************************)
(* How pure algorithms are asked about every small input: a state is one   *)
(* question, the form asked about and its input.                           *)
(***************************************************************************)
VARIABLE probe

NoQuestion == [form |-> "none", input |-> <<>>]
Ask(form, inputs) == \E i \in inputs : probe' = [form |-> form, input |-> i]
=============================================================================
