-------------------------- MODULE JournalContract --------------------------
(***************************************************************************)
(* What the journal promises to those who build on it                      *)
(* (docs/durability.md): a log that only grows at its end, of which a      *)
(* crash may take a suffix and never anything that was acknowledged.       *)
(***************************************************************************)
EXTENDS Integers, Sequences

CONSTANT Id

VARIABLES
    log,    \* the ids of the records a reader would find
    acked   \* how many of them are promised durable

Init == log = <<>> /\ acked = 0

Write(id) ==
    /\ log' = Append(log, id)
    /\ UNCHANGED acked

Acknowledge ==
    /\ acked' \in acked..Len(log)
    /\ UNCHANGED log

\* A crash: the unacknowledged tail is lost in part, as a whole or not at all.
Lose ==
    /\ \E n \in acked..Len(log) : log' = SubSeq(log, 1, n)
    /\ UNCHANGED acked

Next == (\E id \in Id : Write(id)) \/ Acknowledge \/ Lose

Spec == Init /\ [][Next]_<<log, acked>>
=============================================================================
