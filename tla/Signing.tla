------------------------------ MODULE Signing ------------------------------
(***************************************************************************)
(* The queue between a sealed store root and the Keyryx signature over it: *)
(* the two folders beside the data, the node that fills and drains them    *)
(* (`run`, which signs as it seals and retries, or `events`, which signs   *)
(* once at its end), and the service that may be away, rotate its key or   *)
(* answer wrongly.                                                         *)
(*                                                                         *)
(* Root n is the store root after the n-th seal.  A statement is the root, *)
(* the time and the key it names (the tenant and the shard count are the   *)
(* same in all of them); a signature is the key that made it and the       *)
(* statement it was made over.  A file appears by a rename, so a process   *)
(* that dies before it leaves a name that is no root, which read_pending   *)
(* passes over: that is no change here.                                    *)
(***************************************************************************)
EXTENDS Integers, Sequences, FiniteSets, SequencesExt, Functions

CONSTANTS
    Keys,        \* keys Keyryx ever publishes
    Pin,         \* the key TRAILRYX_KEYRYX_KID names, one of Keys
    MaxSeals,    \* bound on seals
    Times,       \* what the clock may read when a root is queued
    MaxIoFaults  \* bound on writes that fail

VARIABLES
    sealed,     \* how many segments are sealed; the current root is this number
    pending,    \* signing/pending: root -> the time it was queued under
    signed,     \* signing/signed: root -> the time, the key and the signature
    keyryx,     \* how the service answers now
    proc,       \* the process: where it is, what it drains, the key it read
    ioFaults,   \* writes that failed so far
    first       \* every root ever queued -> the time it was first queued under

signingVars == <<sealed, pending, signed, keyryx, proc, ioFaults, first>>

Roots == 1..MaxSeals
NoKey == "no key"

\* A file written into a folder, over the one of the same name.
Filed(folder, root, file) ==
    [r \in {root} \cup DOMAIN folder |-> IF r = root THEN file ELSE folder[r]]

Statement(root, time, key) == [root |-> root, time |-> time, key |-> key]

-----------------------------------------------------------------------------
(* Keyryx, from what the client does with its answers.                     *)

Moods == {"answers", "away", "overlap", "rotated", "wrong"}
Successor == CHOOSE k \in Keys : k # Pin

\* The key set published, none when the service does not answer 200.
KeySet(mood) ==
    CASE mood = "away"    -> {}
      [] mood = "overlap" -> {Pin, Successor}
      [] mood = "rotated" -> {Successor}
      [] OTHER            -> {Pin}

\* The answer to a request for a signature: the key it names, and what was made.
\* A wrong one is under the right name and over something else.
SignAnswer(mood, statement) ==
    LET maker == IF mood \in {"overlap", "rotated"} THEN Successor ELSE Pin
        over  == IF mood = "wrong" THEN [statement EXCEPT !.time = @ + 1] ELSE statement
    IN  [key |-> maker, signature |-> [by |-> maker, over |-> over]]

\* p384::verify: the signature was made by the key over the statement.
Verifies(key, statement, signature) ==
    signature.by = key /\ signature.over = statement

\* The service changes its mood by itself.
KeyryxChanges ==
    /\ keyryx' \in Moods \ {keyryx}
    /\ UNCHANGED <<sealed, pending, signed, proc, ioFaults, first>>

-----------------------------------------------------------------------------
(* The process.                                                            *)

Process(kind) ==
    [kind |-> kind, at |-> "loop", key |-> NoKey, todo |-> <<>>]

SigningInit ==
    /\ sealed = 0
    /\ pending = << >> /\ signed = << >> /\ first = << >>
    /\ keyryx = "answers"
    /\ proc \in {Process("run"), Process("events")}
    /\ ioFaults = 0

\* The loop seals; `run` then signs at once, `events` goes on to its end.
SealsRoot ==
    /\ proc.at = "loop" /\ sealed < MaxSeals
    /\ sealed' = sealed + 1
    /\ proc' = [proc EXCEPT !.at = IF proc.kind = "run" THEN "reconcile" ELSE "loop"]
    /\ UNCHANGED <<pending, signed, keyryx, ioFaults, first>>

\* sign_and_report is reached: in `run` at the first turn and when the retry
\* interval has passed, in `events` when the file is read.
Attempts_OnlyAfterSeal ==
    /\ proc.at = "loop" /\ proc.kind = "events"
    /\ proc' = [proc EXCEPT !.at = "reconcile"]
    /\ UNCHANGED <<sealed, pending, signed, keyryx, ioFaults, first>>
Attempts ==
    /\ proc.at = "loop"
    /\ proc' = [proc EXCEPT !.at = "reconcile"]
    /\ UNCHANGED <<sealed, pending, signed, keyryx, ioFaults, first>>

\* What sign_and_report ends in: `run` loops on, `events` is done.
Reported(p) ==
    [p EXCEPT !.at = IF p.kind = "run" THEN "loop" ELSE "done", !.todo = <<>>]

\* current_root: the root over every sealed manifest; 0 when nothing is sealed.
CurrentRoot == sealed

\* reconcile: the current root is queued unless it is signed or queued already.
Reconcile ==
    /\ proc.at = "reconcile"
    /\ proc' = [proc EXCEPT !.at = "drain"]
    /\ IF CurrentRoot = 0 \/ CurrentRoot \in DOMAIN signed \cup DOMAIN pending
       THEN UNCHANGED <<pending, first>>
       ELSE \E t \in Times :
               /\ pending' = Filed(pending, CurrentRoot, t)
               /\ first' = Filed(first, CurrentRoot, t)
    /\ UNCHANGED <<sealed, signed, keyryx, ioFaults>>

\* The write fails: the attempt ends with a line on the error stream.
ReconcileFails ==
    /\ proc.at = "reconcile" /\ sealed > 0 /\ ioFaults < MaxIoFaults
    /\ sealed \notin DOMAIN signed \cup DOMAIN pending
    /\ ioFaults' = ioFaults + 1
    /\ proc' = Reported(proc)
    /\ UNCHANGED <<sealed, pending, signed, keyryx, first>>

\* read_pending: the roots queued, by the time they were queued under.
ReadPending == {q \in SetToSeqs(DOMAIN pending) :
                  \A i, j \in DOMAIN q : i < j => pending[q[i]] <= pending[q[j]]}

\* pinned_es384_key: the pinned key if the set holds it, and nothing else.
PinnedKey_AnyKey(set) == IF set = {} THEN NoKey
                         ELSE IF Successor \in set THEN Successor ELSE Pin
PinnedKey(set) == IF Pin \in set THEN Pin ELSE NoKey

\* drain up to its first signature: nothing queued and Keyryx is not asked; a
\* key set without the pinned key leaves the signer with no key and the queue
\* as it was.
Refresh ==
    /\ proc.at = "drain"
    /\ LET key == PinnedKey(KeySet(keyryx)) IN
       IF DOMAIN pending = {} \/ key = NoKey
       THEN proc' = [Reported(proc) EXCEPT !.key = IF DOMAIN pending = {} THEN @ ELSE NoKey]
       ELSE \E q \in ReadPending :
               proc' = [proc EXCEPT !.at = "sign", !.key = key, !.todo = q]
    /\ UNCHANGED <<sealed, pending, signed, keyryx, ioFaults, first>>

\* parse_signature: the answer must name the key that was read.
Answered(answer, key) == keyryx # "away" /\ answer.key = key

\* sign_root_unvalidated: the statement is over the queued time and the key read.
Signs(root) == Statement(root, pending[root], proc.key)

\* What one turn of drain may keep: an answer that also verifies.
Made(root) ==
    LET answer == SignAnswer(keyryx, Signs(root)) IN
    {s \in {[time |-> pending[root], key |-> proc.key, signature |-> answer.signature]} :
       Answered(answer, proc.key) /\ Verifies(proc.key, Signs(root), s.signature)}

\* store_signature: the signature first, the root out of the queue after it.
SignStores ==
    /\ proc.at = "sign" /\ proc.todo # <<>>
    /\ \E s \in Made(Head(proc.todo)) : signed' = Filed(signed, Head(proc.todo), s)
    /\ proc' = [proc EXCEPT !.at = "remove"]
    /\ UNCHANGED <<sealed, pending, keyryx, ioFaults, first>>

SignRemoves ==
    /\ proc.at = "remove"
    /\ pending' = Restrict(pending, DOMAIN pending \ {Head(proc.todo)})
    /\ proc' = [proc EXCEPT !.at = "sign", !.todo = Tail(@)]
    /\ UNCHANGED <<sealed, signed, keyryx, ioFaults, first>>

\* Keyryx would not sign the next root, or the files could not be changed.
SignStops ==
    /\ proc.at = "sign" /\ proc.todo # <<>> /\ Made(Head(proc.todo)) = {}
    /\ proc' = Reported(proc)
    /\ UNCHANGED <<sealed, pending, signed, keyryx, ioFaults, first>>
SignFails ==
    /\ \/ proc.at = "sign" /\ proc.todo # <<>>
       \/ proc.at = "remove"
    /\ ioFaults < MaxIoFaults
    /\ ioFaults' = ioFaults + 1
    /\ proc' = Reported(proc)
    /\ UNCHANGED <<sealed, pending, signed, keyryx, first>>
SignEnds ==
    /\ proc.at = "sign" /\ proc.todo = <<>>
    /\ proc' = Reported(proc)
    /\ UNCHANGED <<sealed, pending, signed, keyryx, ioFaults, first>>

\* The process dies at any step, and somebody starts `run` or `events` again;
\* a finished `events` is started again by its timer.
SignerDies ==
    /\ proc.at \notin {"down", "done"}
    /\ proc' = [proc EXCEPT !.at = "down", !.key = NoKey, !.todo = <<>>]
    /\ UNCHANGED <<sealed, pending, signed, keyryx, ioFaults, first>>
SignerStarts ==
    /\ proc.at \in {"down", "done"}
    /\ proc' \in {Process("run"), Process("events")}
    /\ UNCHANGED <<sealed, pending, signed, keyryx, ioFaults, first>>

DrainQueue == Reconcile \/ Refresh \/ SignStores \/ SignRemoves \/ SignStops \/ SignEnds

SigningNext ==
    \/ KeyryxChanges
    \/ SealsRoot
    \/ Attempts
    \/ DrainQueue
    \/ ReconcileFails
    \/ SignFails
    \/ SignerDies
    \/ SignerStarts

SigningSpec == SigningInit /\ [][SigningNext]_signingVars

\* The process runs when it can, the retry interval passes, and a finished
\* `events` is started again by its timer.
SigningFairness ==
    /\ WF_signingVars(DrainQueue)
    /\ WF_signingVars(Attempts)
    /\ WF_signingVars(proc.at = "done" /\ SignerStarts)

-----------------------------------------------------------------------------
(* What a pack carries (read --pack).                                      *)

\* signed_root: the signature kept for a root, if one was made.
SignedRoot(root) == {signed[r] : r \in {root} \cap DOMAIN signed}

\* pack_attested: with a signature the pack's own time is the signature's.
PackOf(root, clock) ==
    [root |-> root, signatures |-> SignedRoot(root),
     time |-> IF SignedRoot(root) = {} THEN clock ELSE signed[root].time]

\* A root that was ever queued is in the queue or signed, under the time it was
\* first queued under, whatever died between the two folders; and every pack
\* that carries a signature verifies under the pinned key over its own root and
\* its own time, whatever Keyryx answered meanwhile.
QueueIsKept ==
    /\ \A r \in DOMAIN first :
          /\ r \in DOMAIN pending \cup DOMAIN signed
          /\ r \in DOMAIN pending => pending[r] = first[r]
          /\ r \in DOMAIN signed => signed[r].time = first[r]
    /\ \A r \in Roots, t \in Times :
          LET pack == PackOf(r, t) IN
          \A s \in pack.signatures :
             Verifies(Pin, Statement(r, pack.time, Pin), s.signature)

\* Every queued root is signed in the end, if Keyryx answers under the pinned
\* key from some time on and the process stays up.
QueuedRootsAreSigned ==
    <>[](keyryx = "answers" /\ proc.at # "down")
       => <>[](DOMAIN pending \subseteq DOMAIN signed)
=============================================================================
