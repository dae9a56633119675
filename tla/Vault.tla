------------------------------- MODULE Vault -------------------------------
(***************************************************************************)
(* Erasure by destroying keys: the payload vault of                        *)
(* crates/trailryx-erasure over the custodian of                           *)
(* crates/trailryx-crypto-aws/src/persisted.rs, which keeps one file per   *)
(* key, or over one that only schedules destruction, as every key service  *)
(* does (SchedulingKeyProvider of crates/trailryx-contracts).              *)
(*                                                                         *)
(* One action per call that leaves the process.  The process may end and   *)
(* power may fail between any two of them, writes fail and their answers   *)
(* are lost, key files are damaged, and an operator of the key service     *)
(* cancels what was scheduled.                                             *)
(*                                                                         *)
(* Data abstraction.  Every payload has a key of its own whose id is a     *)
(* hash of the record id, so a record stands for its key.  gen[r] numbers  *)
(* the key pairs made under one id, and an envelope opens under the pair   *)
(* it was wrapped for.  A date is how far away it is.                      *)
(***************************************************************************)
EXTENDS Integers

CONSTANTS
    Record,     \* records with a payload, and the keys of their payloads
    Subject,    \* people the payloads may be about
    About,      \* subject -> records whose payload is about them
    None,       \* no subject given, no object stored, no date named
    Custodian,  \* the custodians a vault may have: "persisted", "scheduling"
    Window,     \* how far ahead the key service schedules
    MaxEnds,    \* bound: ends of the process
    MaxFaults,  \* bound: failed writes, damaged files and cancellations
    MayMiss     \* bound: keys whose file a commit may leave unflushed

ASSUME VaultAssumption ==
    /\ None \notin Record \cup Subject \cup Nat
    /\ About \in [Subject -> SUBSET Record]
    /\ Custodian \subseteq {"persisted", "scheduling"}
    /\ Window \in Nat
    /\ {MaxEnds, MaxFaults} \subseteq Nat
    /\ MayMiss \subseteq Record

VARIABLES
    custodian,  \* which one this vault has
    key,        \* record -> what the custodian answers about its key
    durable,    \* record -> what it would answer after a power cut
    gen,        \* record -> key pairs made so far
    due,        \* record -> how far away its scheduled destruction is
    object,     \* object store: record -> the pair its envelope opens under
    evidence,   \* object store: keys that stored erasure manifests name
    ledger,     \* KeyLedger.rows
    at,         \* the call out of the process that comes next
    rec,        \* the record or key that call is about
    sub,        \* the subject being forgotten
    todo,       \* forget: keys left to destroy
    counted,    \* forget: keys destroyed, gone or scheduled so far
    scheduled,  \* forget: those of them that are only scheduled
    latest,     \* forget: completes_at
    about,      \* history: subject -> keys attributed since the process began
    asked,      \* history: keys forget was asked to destroy, not reported gone
    erased,     \* history: keys of erasures reported as complete
    told,       \* history: record -> the date a controller was told
    cancelled,  \* history: keys whose schedule an operator cancelled
    missed,     \* history: keys a rename of which was not flushed
    ends, faults \* what the bounds count

custody == <<key, durable, gen, due>>
store == <<object, evidence>>
forgetting == <<sub, todo, counted, scheduled, latest>>
call == <<at, rec, forgetting>>
dates == <<told, cancelled>>
history == <<about, asked, erased, dates>>
counters == <<missed, ends, faults>>
vars == <<custodian, custody, store, ledger, call, history, counters>>

KeyState == {"absent", "live", "pending", "dead", "torn"}
Step == {"idle", "wrap", "wrap_flush", "put_payload",
         "destroy", "destroy_flush", "put_manifest"}
Date == 0..Window

(***************************************************************************)
(* Reading a payload back.                                                 *)
(***************************************************************************)

\* KeyProvider::exists and unwrap: a usable pair, and the one asked for.
Unwraps(r, g) == key[r] = "live" /\ gen[r] = g

\* Vault::open.
Open(r) ==
    CASE object[r] = None          -> "missing"
      [] Unwraps(r, object[r])     -> "content"
      [] OTHER                     -> "erased"

(***************************************************************************)
(* Steps shared by the calls.                                              *)
(***************************************************************************)

\* The call has ended and nothing of it is left in the process.
Idle ==
    /\ at' = "idle"
    /\ rec' = None
    /\ sub' = None
    /\ todo' = {}
    /\ counted' = {}
    /\ scheduled' = {}
    /\ latest' = None

\* Something goes wrong that the environment decides.
Fault ==
    /\ faults < MaxFaults
    /\ faults' = faults + 1
    /\ UNCHANGED <<missed, ends>>

\* The directory flush of commit: the rename is now on the disk.
Flushed(r) == durable' = [durable EXCEPT ![r] = key[r]]

Init ==
    /\ custodian \in Custodian
    /\ key = [r \in Record |-> "absent"]
    /\ durable = key
    /\ gen = [r \in Record |-> 0]
    /\ due = [r \in Record |-> 0]
    /\ object = [r \in Record |-> None]
    /\ evidence = {}
    /\ ledger = [s \in Subject |-> {}]
    /\ at = "idle"
    /\ rec = None
    /\ sub = None
    /\ todo = {}
    /\ counted = {}
    /\ scheduled = {}
    /\ latest = None
    /\ about = ledger
    /\ asked = {}
    /\ erased = {}
    /\ told = [r \in Record |-> None]
    /\ ends = 0
    /\ cancelled = {}
    /\ missed = {}
    /\ faults = 0

(***************************************************************************)
(* seal and attribute.                                                     *)
(***************************************************************************)

\* KeyLedger::attribute.
Attribute(s, r) ==
    /\ ledger' = [ledger EXCEPT ![s] = @ \cup {r}]
    /\ about' = [about EXCEPT ![s] = @ \cup {r}]

\* Vault::seal up to the wrap: the key is registered before it exists.
StartSeal(r, s) ==
    /\ at = "idle"
    /\ IF s = None THEN UNCHANGED <<ledger, about>> ELSE Attribute(s, r)
    /\ at' = "wrap"
    /\ rec' = r
    /\ UNCHANGED <<custodian, custody, store, forgetting, asked,
                   erased, dates, counters>>

\* wrap under a pair the custodian has.
WrapLive ==
    /\ at = "wrap"
    /\ key[rec] = "live"
    /\ at' = "put_payload"
    /\ UNCHANGED <<custodian, custody, store, ledger, rec, forgetting,
                   history, counters>>

\* wrap under an id that was destroyed, is scheduled, or does not read back.
WrapRefused ==
    /\ at = "wrap"
    /\ key[rec] \in {"dead", "pending", "torn"}
    /\ Idle
    /\ UNCHANGED <<custodian, custody, store, ledger, history, counters>>

\* Only an id without a file is given a new pair: one that does not read back
\* counts as destroyed.
Mintable(r) == key[r] = "absent"

\* wrap under a fresh id: the pair is committed before anything is wrapped.
Mint ==
    /\ at = "wrap"
    /\ Mintable(rec)
    /\ gen' = [gen EXCEPT ![rec] = @ + 1]
    /\ key' = [key EXCEPT ![rec] = "live"]
    /\ IF custodian = "persisted"
       THEN at' = "wrap_flush" /\ UNCHANGED durable
       ELSE at' = "put_payload" /\ durable' = [durable EXCEPT ![rec] = "live"]
    /\ UNCHANGED <<custodian, due, store, ledger, rec, forgetting, history,
                   counters>>

\* Mutant: the failed commit is passed over.
MintFailsIgnored ==
    /\ at = "wrap"
    /\ custodian = "persisted"
    /\ Mintable(rec)
    /\ Fault
    /\ at' = "put_payload"
    /\ UNCHANGED <<custodian, custody, store, ledger, rec, forgetting, history>>

\* The temporary could not be written, flushed or renamed.
MintFails ==
    /\ at = "wrap"
    /\ custodian = "persisted"
    /\ Mintable(rec)
    /\ Fault
    /\ Idle
    /\ UNCHANGED <<custodian, custody, store, ledger, history>>

\* Mutant: the wrapped key is handed over before the directory is flushed.
WrapFlushDropped ==
    /\ at = "wrap_flush"
    /\ at' = "put_payload"
    /\ UNCHANGED <<custodian, custody, store, ledger, rec, forgetting,
                   history, counters>>

WrapFlush ==
    /\ at = "wrap_flush"
    /\ Flushed(rec)
    /\ at' = "put_payload"
    /\ UNCHANGED <<custodian, key, gen, due, store, ledger, rec, forgetting,
                   history, counters>>

\* put_if_absent of the envelope: an older one under the name stays.
Stored == [object EXCEPT ![rec] = IF @ = None THEN gen[rec] ELSE @]

PutPayload ==
    /\ at = "put_payload"
    /\ object' = Stored
    /\ Idle
    /\ UNCHANGED <<custodian, custody, evidence, ledger, about,
                   asked, erased, dates, counters>>

\* The write failed, or happened and its answer was lost.
PutPayloadFails ==
    /\ at = "put_payload"
    /\ Fault
    /\ object' \in {object, Stored}
    /\ Idle
    /\ UNCHANGED <<custodian, custody, evidence, ledger, history>>

\* Vault::attribute of a reference somebody holds.
AttributeLater(r, s) ==
    /\ at = "idle"
    /\ object[r] # None
    /\ Attribute(s, r)
    /\ UNCHANGED <<custodian, custody, store, call, asked,
                   erased, dates, counters>>

(***************************************************************************)
(* forget.                                                                 *)
(***************************************************************************)

\* Mutant: the row goes before the keys do.
ForgetRowFirst(s) ==
    /\ at = "idle"
    /\ sub' = s
    /\ todo' = ledger[s]
    /\ ledger' = [ledger EXCEPT ![s] = {}]
    /\ at' = "destroy"
    /\ asked' = asked \cup ledger[s]
    /\ UNCHANGED <<custodian, custody, store, rec, counted, scheduled, latest,
                   about, erased, dates, counters>>

\* Mutant: a subject whose erasure was asked for before is passed over.
ForgetOnce(s) ==
    /\ at = "idle"
    /\ ledger[s] \cap asked = {}
    /\ sub' = s
    /\ todo' = ledger[s]
    /\ at' = "destroy"
    /\ asked' = asked \cup ledger[s]
    /\ UNCHANGED <<custodian, custody, store, ledger, rec, counted, scheduled,
                   latest, about, erased, dates, counters>>

\* Vault::forget reads the row and keeps it.
StartForget(s) ==
    /\ at = "idle"
    /\ sub' = s
    /\ todo' = ledger[s]
    /\ at' = "destroy"
    /\ asked' = asked \cup ledger[s]
    /\ UNCHANGED <<custodian, custody, store, ledger, rec, counted, scheduled,
                   latest, about, erased, dates, counters>>

\* One key is done with; the others come next.
Count(r) ==
    /\ at' = "destroy"
    /\ rec' = None
    /\ todo' = todo \ {r}
    /\ counted' = counted \cup {r}
    /\ UNCHANGED sub

\* Destroyed::Already, which costs no write.  The key service also answers
\* it for an id it has never seen.
DestroyAlready(r) ==
    /\ at = "destroy"
    /\ r \in todo
    /\ \/ key[r] = "dead"
       \/ custodian = "scheduling" /\ key[r] = "absent"
    /\ Count(r)
    /\ UNCHANGED <<custodian, custody, store, ledger, scheduled, latest,
                   history, counters>>

\* Mutant: destruction is reported before the directory is flushed.
DestroyUnflushed(r) ==
    /\ at = "destroy"
    /\ r \in todo
    /\ custodian = "persisted"
    /\ key[r] # "dead"
    /\ key' = [key EXCEPT ![r] = "dead"]
    /\ Count(r)
    /\ UNCHANGED <<custodian, durable, gen, due, store, ledger, scheduled,
                   latest, history, counters>>

\* The tombstone is renamed over the key file, whatever is there.
Destroy(r) ==
    /\ at = "destroy"
    /\ r \in todo
    /\ custodian = "persisted"
    /\ key[r] # "dead"
    /\ key' = [key EXCEPT ![r] = "dead"]
    /\ at' = "destroy_flush"
    /\ rec' = r
    /\ UNCHANGED <<custodian, durable, gen, due, store, ledger, forgetting,
                   history, counters>>

\* Destroyed::Now, once the rename is on the disk.
DestroyFlush ==
    /\ at = "destroy_flush"
    /\ Flushed(rec)
    /\ Count(rec)
    /\ UNCHANGED <<custodian, key, gen, due, store, ledger, scheduled, latest,
                   history, counters>>

\* The earlier of a date, if there is one, and another.  As completes_at
\* it would be a mutant.
Earlier(d, e) == IF d = None \/ e < d THEN e ELSE d

\* completes_at: the last key decides.
Later(d, e) == IF d = None \/ e > d THEN e ELSE d

\* How far away a destruction asked for now is: a second call keeps the date.
DueOf(r) == IF key[r] = "pending" THEN due[r] ELSE Window

\* Destroyed::Scheduled.
Schedule(r) ==
    /\ at = "destroy"
    /\ r \in todo
    /\ custodian = "scheduling"
    /\ key[r] \in {"live", "pending"}
    /\ key' = [key EXCEPT ![r] = "pending"]
    /\ durable' = key'
    /\ due' = [due EXCEPT ![r] = DueOf(r)]
    /\ scheduled' = scheduled \cup {r}
    /\ latest' = Later(latest, DueOf(r))
    /\ Count(r)
    /\ UNCHANGED <<custodian, gen, store, ledger, history, counters>>

\* The custodian fails before anything has changed: the call ends, and
\* the row is still there.
DestroyFails ==
    /\ at = "destroy"
    /\ \E r \in todo : key[r] # "dead"
    /\ Fault
    /\ Idle
    /\ UNCHANGED <<custodian, custody, store, ledger, history>>

\* The rename happened and the directory flush failed.
FlushFails ==
    /\ at \in {"wrap_flush", "destroy_flush"}
    /\ rec \in MayMiss
    /\ missed' = missed \cup {rec}
    /\ Idle
    /\ UNCHANGED <<custodian, custody, store, ledger, history, ends, faults>>

\* The row goes only when every key is gone.
DropRow ==
    /\ at = "destroy"
    /\ todo = {}
    /\ ledger' = IF scheduled = {} THEN [ledger EXCEPT ![sub] = {}] ELSE ledger
    /\ at' = "put_manifest"
    /\ UNCHANGED <<custodian, custody, store, rec, forgetting, history,
                   counters>>

\* What forget answers: complete, or held until a date.
Report ==
    IF scheduled = {}
    THEN /\ erased' = erased \cup counted
         /\ asked' = asked \ counted
         /\ UNCHANGED told
    ELSE /\ told' = [r \in Record |-> IF r \in scheduled
                                      THEN Earlier(told[r], latest)
                                      ELSE told[r]]
         /\ UNCHANGED <<erased, asked>>

\* The manifest is named by its own content, so a retry finds its own.
PutManifest ==
    /\ at = "put_manifest"
    /\ evidence' = evidence \cup counted
    /\ Report
    /\ Idle
    /\ UNCHANGED <<custodian, custody, object, ledger, about,
                   cancelled, counters>>

\* The write fails, or its answer or the read that follows it is lost.
PutManifestFails ==
    /\ at = "put_manifest"
    /\ Fault
    /\ evidence' \in {evidence, evidence \cup counted}
    /\ Idle
    /\ UNCHANGED <<custodian, custody, object, ledger, history>>

(***************************************************************************)
(* The key service, the disk, and the process as a whole.                  *)
(***************************************************************************)

Pending == {r \in Record : key[r] = "pending"}

\* A date after some time has passed.
Sooner(d) == IF d \in {None, 0} THEN d ELSE d - 1

\* Time passes: every date comes nearer, the one forget has in hand as well.
Tick ==
    /\ \E r \in Pending : due[r] > 0
    /\ due' = [r \in Record |-> Sooner(due[r])]
    /\ told' = [r \in Record |-> Sooner(told[r])]
    /\ latest' = Sooner(latest)
    /\ UNCHANGED <<custodian, key, durable, gen, store, ledger, at, rec, sub,
                   todo, counted, scheduled, about, asked, erased, cancelled,
                   counters>>

\* Every key whose window has closed is shredded.
Elapse ==
    LET shredded == {r \in Pending : due[r] = 0}
    IN  /\ shredded # {}
        /\ key' = [r \in Record |-> IF r \in shredded THEN "dead" ELSE key[r]]
        /\ durable' = key'
        /\ told' = [r \in Record |-> IF r \in shredded THEN None ELSE told[r]]
        /\ UNCHANGED <<custodian, gen, due, store, ledger, call, about, asked,
                       erased, cancelled, counters>>

\* An operator takes a scheduled destruction back.
Cancel(r) ==
    /\ r \in Pending
    /\ Fault
    /\ cancelled' = cancelled \cup {r}
    /\ key' = [key EXCEPT ![r] = "live"]
    /\ durable' = key'
    /\ due' = [due EXCEPT ![r] = 0]
    /\ UNCHANGED <<custodian, gen, store, ledger, call, about, asked,
                   erased, told>>

\* A key file stops reading back.
Damage(r) ==
    /\ custodian = "persisted"
    /\ Fault
    /\ key[r] \in {"live", "dead"}
    /\ key' = [key EXCEPT ![r] = "torn"]
    /\ durable' = [durable EXCEPT ![r] = "torn"]
    /\ UNCHANGED <<custodian, gen, due, store, ledger, call, history>>

\* The process is gone, and with it the call and the ledger.  The next one
\* opens the same custodian (PersistedKeyProvider::open) with a new ledger.
Ended ==
    /\ ends < MaxEnds
    /\ ends' = ends + 1
    /\ Idle
    /\ ledger' = [s \in Subject |-> {}]
    /\ about' = [s \in Subject |-> {}]
    /\ asked' = {}
    /\ UNCHANGED <<custodian, gen, due, store, erased, dates, faults>>

\* It ends alone: a rename it had not flushed is seen and not durable.
Exit ==
    /\ Ended
    /\ IF at \in {"wrap_flush", "destroy_flush"}
       THEN rec \in MayMiss /\ missed' = missed \cup {rec}
       ELSE UNCHANGED missed
    /\ UNCHANGED <<key, durable>>

\* Power fails: each rename that was not flushed is kept or undone.
PowerCut ==
    /\ Ended
    /\ \E undone \in SUBSET Record :
          key' = [r \in Record |-> IF r \in undone THEN durable[r] ELSE key[r]]
    /\ durable' = key'
    /\ UNCHANGED missed

(***************************************************************************)
(* The specification.                                                      *)
(***************************************************************************)

\* What a process does once it is in a call.
Working ==
    \/ WrapLive \/ WrapRefused \/ Mint \/ MintFails \/ WrapFlush
    \/ PutPayload \/ PutPayloadFails
    \/ \E r \in Record : DestroyAlready(r) \/ Destroy(r) \/ Schedule(r)
    \/ DestroyFlush \/ DestroyFails \/ FlushFails
    \/ DropRow \/ PutManifest \/ PutManifestFails

Next ==
    \/ \E r \in Record : StartSeal(r, None)
    \/ \E s \in Subject : \E r \in About[s] : StartSeal(r, s) \/ AttributeLater(r, s)
    \/ \E s \in Subject : StartForget(s)
    \/ Working
    \/ Tick \/ Elapse
    \/ \E r \in Record : Cancel(r) \/ Damage(r)
    \/ Exit \/ PowerCut

Spec == Init /\ [][Next]_vars

\* A call runs to its end, the key service keeps its dates, and whoever asked
\* for an erasure asks again while the vault has keys to destroy for it.
Fairness ==
    /\ WF_vars(Working)
    /\ WF_vars(Tick)
    /\ WF_vars(Elapse)
    /\ \A s \in Subject :
          SF_vars(ledger[s] \cap asked # {} /\ StartForget(s))

FairSpec == Spec /\ Fairness

(***************************************************************************)
(* Properties.                                                             *)
(***************************************************************************)

VaultTypeOK ==
    /\ custodian \in Custodian
    /\ key \in [Record -> KeyState]
    /\ durable \in [Record -> KeyState]
    /\ gen \in [Record -> 0..MaxEnds + 1]
    /\ due \in [Record -> Date]
    /\ object \in [Record -> (1..MaxEnds + 1) \cup {None}]
    /\ evidence \in SUBSET Record
    /\ ledger \in [Subject -> SUBSET Record]
    /\ at \in Step
    /\ rec \in Record \cup {None}
    /\ sub \in Subject \cup {None}
    /\ todo \in SUBSET Record
    /\ counted \in SUBSET Record
    /\ scheduled \in SUBSET counted
    /\ latest \in Date \cup {None}
    /\ about \in [Subject -> SUBSET Record]
    /\ asked \in SUBSET Record
    /\ erased \in SUBSET Record
    /\ told \in [Record -> Date \cup {None}]
    /\ ends \in 0..MaxEnds
    /\ cancelled \in SUBSET Record
    /\ missed \in SUBSET MayMiss
    /\ faults \in 0..MaxFaults

\* A key that can be used, or opens a payload, in spite of its erasure.
Returns(r) == Open(r) = "content" \/ key[r] = "live"

\* KeyProvider's "a key id is never reissued" and forget's is_complete: once
\* an erasure is reported as complete, no restart, power cut, damaged file,
\* cancellation or later seal makes one of its payloads readable or gives
\* one of its ids a new key, if the directory flushes of its commits happened.
ErasedStaysErased ==
    \A r \in erased \ missed : ~Returns(r)

\* The same of every commit, as persisted.rs has it: "a destruction is durable
\* before it is reported".
DestructionIsDurable ==
    \A r \in erased : ~Returns(r)

\* seal and PersistedKeyProvider::wrap: a payload that was stored opens, over
\* restarts and power cuts, until its key is destroyed or scheduled to be,
\* or its key file is damaged, if the flushes of its commits happened.
SealedOpens ==
    \A r \in Record \ missed :
        Open(r) = "erased" => key[r] \in {"pending", "dead", "torn"}

\* KeyLedger::drop_subject: while a key attributed in this process can still
\* open something, or could again if an operator cancelled, the row that
\* makes a retry of forget look at it is there.
RowOutlivesKeys ==
    \A s \in Subject : \A r \in about[s] :
        key[r] \in {"live", "pending"} => r \in ledger[s]

\* Forgotten.completes_at: nobody is told a date on which a scheduled key
\* is still there, however often the erasure is asked for again, unless an
\* operator cancelled it.
NoEarlyDate ==
    \A r \in Pending \ cancelled : told[r] # None => due[r] <= told[r]

\* The retry every erasure job performs: a key it was asked to destroy can
\* in the end neither be used nor brought back, after failures, schedules
\* and cancellations, unless the process ends and its ledger with it.
AskedIsForgotten ==
    \A r \in Record :
        r \in asked ~> (r \notin asked \/ key[r] \notin {"live", "pending"})

\* The README says of forget that dropping the row once every destroy has
\* succeeded makes "the retry correct rather than merely possible": once the
\* row is gone and no call is under way, a stored manifest names the key,
\* because no later forget will.
GoneIsEvidenced ==
    at = "idle" =>
        \A s \in Subject : about[s] \ ledger[s] \subseteq evidence
=============================================================================
