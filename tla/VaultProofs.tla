---------------------------- MODULE VaultProofs ----------------------------
(***************************************************************************)
(* Proofs about Vault, for every set of records and subjects, every window *)
(* and every bound: its type invariant, that what was reported as erased   *)
(* stays so, that what was stored opens, and that the ledger row outlives  *)
(* the keys.                                                               *)
(***************************************************************************)
EXTENDS Vault, TLAPS

Gone == {"dead", "torn"}

Flushing(r) == at \in {"wrap_flush", "destroy_flush"} /\ rec = r

\* Only a power cut makes an id absent that had a pair, so pairs are counted
\* by the ends of the process.
GenInv ==
    \A r \in Record :
        /\ gen[r] <= ends + 1
        /\ key[r] = "absent" => durable[r] = "absent" /\ gen[r] <= ends
        /\ gen[r] = 0 => /\ key[r] \notin {"live", "pending"}
                         /\ durable[r] \notin {"live", "pending"}

\* A key service forgets nothing, and a key file is durable as it is seen
\* but for the commit under way and those that missed a flush.
DiskInv ==
    /\ custodian = "scheduling" =>
          /\ durable = key
          /\ at \notin {"wrap_flush", "destroy_flush"}
          /\ missed = {}
    /\ \A r \in Record \ missed : durable[r] = key[r] \/ Flushing(r)

\* What a call under way relies on.
CallInv ==
    /\ at \in {"wrap", "wrap_flush", "put_payload"} => rec \in Record
    /\ at \in {"wrap_flush", "put_payload"} =>
          key[rec] # "absent" /\ gen[rec] > 0
    /\ at = "destroy_flush" => rec \in todo /\ key[rec] \in Gone
    /\ at \in {"idle", "wrap", "wrap_flush", "put_payload"} =>
          todo = {} /\ counted = {} /\ scheduled = {} /\ latest = None
    /\ at \in {"destroy", "destroy_flush", "put_manifest"} => sub \in Subject
    /\ at \in {"destroy", "destroy_flush"} =>
          ledger[sub] \subseteq todo \cup counted
    /\ scheduled # {} => latest \in Date

\* Keys that were dealt with cannot be used, and a key service has seen every
\* key the ledger names.
GoneInv ==
    /\ \A r \in counted \ scheduled : key[r] \in Gone
    /\ \A s \in Subject : \A r \in about[s] \ ledger[s] : key[r] \in Gone
    /\ \A r \in erased \ missed : key[r] \in Gone /\ durable[r] \in Gone
    /\ custodian = "scheduling" =>
          /\ \A r \in todo : key[r] # "absent"
          /\ \A s \in Subject : \A r \in ledger[s] :
                key[r] # "absent" \/ (at = "wrap" /\ rec = r)

\* An envelope is stored once the pair it opens under is durable.
PayloadInv ==
    \A r \in Record \ missed : object[r] # None =>
        object[r] = gen[r] /\ key[r] # "absent" /\ durable[r] # "absent"

\* A date that was told, or is about to be, belongs to a key that is no longer
\* usable unless an operator said otherwise, and is not before its end.
DateInv ==
    /\ custodian = "persisted" =>
          scheduled = {} /\ \A r \in Record : told[r] = None
    /\ \A r \in Record \ cancelled :
          told[r] # None \/ r \in scheduled => key[r] \in {"pending"} \cup Gone
    /\ \A r \in scheduled \ cancelled :
          key[r] = "pending" => due[r] <= latest
    /\ NoEarlyDate

Inv == VaultTypeOK /\ GenInv /\ DiskInv /\ CallInv /\ GoneInv /\ PayloadInv
       /\ DateInv

USE VaultAssumption
USE DEF KeyState, Step, Date, Gone, custody, store, forgetting, call, dates,
        history, counters

\* Registering a key and starting a seal touches no key.
LEMMA StartSealStep ==
    ASSUME Inv, NEW r \in Record, NEW s \in Subject \cup {None}, StartSeal(r, s)
    PROVE  Inv'
<1>1. VaultTypeOK'
    BY DEF Inv, VaultTypeOK, StartSeal, Attribute
<1>2. GenInv'
    BY DEF Inv, VaultTypeOK, GenInv, StartSeal, Attribute
<1>3. DiskInv'
    BY DEF Inv, VaultTypeOK, DiskInv, Flushing, StartSeal, Attribute
<1>4. CallInv'
    BY DEF Inv, VaultTypeOK, CallInv, StartSeal, Attribute
<1>5. GoneInv'
    BY DEF Inv, VaultTypeOK, GoneInv, StartSeal, Attribute
<1>6. PayloadInv'
    BY DEF Inv, VaultTypeOK, PayloadInv, StartSeal, Attribute
<1>7. DateInv'
    BY DEF Inv, VaultTypeOK, DateInv, NoEarlyDate, Pending, StartSeal,
           Attribute
<1>. QED BY <1>1, <1>2, <1>3, <1>4, <1>5, <1>6, <1>7 DEF Inv

\* A pair the custodian has is used as it is.
LEMMA WrapLiveStep ==
    ASSUME Inv, WrapLive
    PROVE  Inv'
<1>1. VaultTypeOK'
    BY DEF Inv, VaultTypeOK, WrapLive
<1>2. GenInv'
    BY DEF Inv, VaultTypeOK, GenInv, WrapLive
<1>3. DiskInv'
    BY DEF Inv, VaultTypeOK, DiskInv, Flushing, WrapLive
<1>4. CallInv'
    BY DEF Inv, VaultTypeOK, CallInv, GenInv, WrapLive
<1>5. GoneInv'
    BY DEF Inv, VaultTypeOK, GoneInv, WrapLive
<1>6. PayloadInv'
    BY DEF Inv, VaultTypeOK, PayloadInv, WrapLive
<1>7. DateInv'
    BY DEF Inv, VaultTypeOK, DateInv, NoEarlyDate, Pending, WrapLive
<1>. QED BY <1>1, <1>2, <1>3, <1>4, <1>5, <1>6, <1>7 DEF Inv

\* A refused wrap leaves everything as it was.
LEMMA WrapRefusedStep ==
    ASSUME Inv, WrapRefused
    PROVE  Inv'
<1>1. VaultTypeOK'
    BY DEF Inv, VaultTypeOK, WrapRefused, Idle
<1>2. GenInv'
    BY DEF Inv, VaultTypeOK, GenInv, WrapRefused, Idle
<1>3. DiskInv'
    BY DEF Inv, VaultTypeOK, DiskInv, Flushing, WrapRefused, Idle
<1>4. CallInv'
    BY DEF Inv, VaultTypeOK, CallInv, WrapRefused, Idle
<1>5. GoneInv'
    BY DEF Inv, VaultTypeOK, GoneInv, WrapRefused, Idle
<1>6. PayloadInv'
    BY DEF Inv, VaultTypeOK, PayloadInv, WrapRefused, Idle
<1>7. DateInv'
    BY DEF Inv, VaultTypeOK, DateInv, NoEarlyDate, Pending, WrapRefused, Idle
<1>. QED BY <1>1, <1>2, <1>3, <1>4, <1>5, <1>6, <1>7 DEF Inv

\* A new pair is only made where no envelope can exist.
LEMMA MintStep ==
    ASSUME Inv, Mint
    PROVE  Inv'
<1>1. VaultTypeOK'
  <2>1. rec \in Record /\ gen[rec] <= ends
    BY DEF Inv, CallInv, GenInv, Mint, Mintable
  <2>2. gen[rec] + 1 \in 0..MaxEnds + 1
    BY <2>1 DEF Inv, VaultTypeOK
  <2>3. gen' \in [Record -> 0..MaxEnds + 1]
    BY <2>1, <2>2 DEF Inv, VaultTypeOK, Mint
  <2>. QED BY <2>1, <2>3 DEF Inv, VaultTypeOK, Mint
<1>2. GenInv'
    BY DEF Inv, VaultTypeOK, GenInv, Mint, Mintable
<1>3. DiskInv'
    BY DEF Inv, VaultTypeOK, DiskInv, Flushing, Mint, Mintable
<1>4. CallInv'
    BY DEF Inv, VaultTypeOK, CallInv, Mint, Mintable
<1>5. GoneInv'
    BY DEF Inv, VaultTypeOK, GoneInv, Mint, Mintable
<1>6. PayloadInv'
    BY DEF Inv, VaultTypeOK, PayloadInv, Mint, Mintable
<1>7. DateInv'
    BY DEF Inv, VaultTypeOK, DateInv, CallInv, NoEarlyDate, Pending, Mint,
           Mintable
<1>. QED BY <1>1, <1>2, <1>3, <1>4, <1>5, <1>6, <1>7 DEF Inv

\* A commit that failed leaves everything as it was.
LEMMA MintFailsStep ==
    ASSUME Inv, MintFails
    PROVE  Inv'
<1>1. VaultTypeOK'
    BY DEF Inv, VaultTypeOK, MintFails, Fault, Idle
<1>2. GenInv'
    BY DEF Inv, VaultTypeOK, GenInv, MintFails, Fault, Idle
<1>3. DiskInv'
    BY DEF Inv, VaultTypeOK, DiskInv, Flushing, MintFails, Fault, Idle
<1>4. CallInv'
    BY DEF Inv, VaultTypeOK, CallInv, MintFails, Fault, Idle
<1>5. GoneInv'
    BY DEF Inv, VaultTypeOK, GoneInv, MintFails, Fault, Idle
<1>6. PayloadInv'
    BY DEF Inv, VaultTypeOK, PayloadInv, MintFails, Fault, Idle
<1>7. DateInv'
    BY DEF Inv, VaultTypeOK, DateInv, NoEarlyDate, Pending, MintFails, Fault,
           Idle
<1>. QED BY <1>1, <1>2, <1>3, <1>4, <1>5, <1>6, <1>7 DEF Inv

\* The flush makes the new pair durable.
LEMMA WrapFlushStep ==
    ASSUME Inv, WrapFlush
    PROVE  Inv'
<1>1. VaultTypeOK'
    BY DEF Inv, VaultTypeOK, WrapFlush, Flushed
<1>2. GenInv'
    BY DEF Inv, VaultTypeOK, GenInv, WrapFlush, Flushed
<1>3. DiskInv'
    BY DEF Inv, VaultTypeOK, DiskInv, Flushing, WrapFlush, Flushed
<1>4. CallInv'
    BY DEF Inv, VaultTypeOK, CallInv, WrapFlush, Flushed
<1>5. GoneInv'
    BY DEF Inv, VaultTypeOK, GoneInv, WrapFlush, Flushed
<1>6. PayloadInv'
    BY DEF Inv, VaultTypeOK, PayloadInv, WrapFlush, Flushed
<1>7. DateInv'
    BY DEF Inv, VaultTypeOK, DateInv, NoEarlyDate, Pending, WrapFlush,
           Flushed
<1>. QED BY <1>1, <1>2, <1>3, <1>4, <1>5, <1>6, <1>7 DEF Inv

\* An envelope is stored under a durable pair.
LEMMA PutPayloadStep ==
    ASSUME Inv, PutPayload
    PROVE  Inv'
<1>1. VaultTypeOK'
    BY DEF Inv, VaultTypeOK, GenInv, CallInv, PutPayload, Stored, Idle
<1>2. GenInv'
    BY DEF Inv, VaultTypeOK, GenInv, PutPayload, Stored, Idle
<1>3. DiskInv'
    BY DEF Inv, VaultTypeOK, DiskInv, Flushing, PutPayload, Stored, Idle
<1>4. CallInv'
    BY DEF Inv, VaultTypeOK, CallInv, PutPayload, Stored, Idle
<1>5. GoneInv'
    BY DEF Inv, VaultTypeOK, GoneInv, PutPayload, Stored, Idle
<1>6. PayloadInv'
    BY DEF Inv, VaultTypeOK, PayloadInv, DiskInv, CallInv, Flushing,
           PutPayload, Stored, Idle
<1>7. DateInv'
    BY DEF Inv, VaultTypeOK, DateInv, NoEarlyDate, Pending, PutPayload,
           Stored, Idle
<1>. QED BY <1>1, <1>2, <1>3, <1>4, <1>5, <1>6, <1>7 DEF Inv

\* So it is when the answer is lost.
LEMMA PutPayloadFailsStep ==
    ASSUME Inv, PutPayloadFails
    PROVE  Inv'
<1>1. VaultTypeOK'
    BY DEF Inv, VaultTypeOK, GenInv, CallInv, PutPayloadFails, Stored, Fault,
           Idle
<1>2. GenInv'
    BY DEF Inv, VaultTypeOK, GenInv, PutPayloadFails, Stored, Fault, Idle
<1>3. DiskInv'
    BY DEF Inv, VaultTypeOK, DiskInv, Flushing, PutPayloadFails, Stored,
           Fault, Idle
<1>4. CallInv'
    BY DEF Inv, VaultTypeOK, CallInv, PutPayloadFails, Stored, Fault, Idle
<1>5. GoneInv'
    BY DEF Inv, VaultTypeOK, GoneInv, PutPayloadFails, Stored, Fault, Idle
<1>6. PayloadInv'
    BY DEF Inv, VaultTypeOK, PayloadInv, DiskInv, CallInv, Flushing,
           PutPayloadFails, Stored, Fault, Idle
<1>7. DateInv'
    BY DEF Inv, VaultTypeOK, DateInv, NoEarlyDate, Pending, PutPayloadFails,
           Stored, Fault, Idle
<1>. QED BY <1>1, <1>2, <1>3, <1>4, <1>5, <1>6, <1>7 DEF Inv

\* A key is attributed that the custodian has seen.
LEMMA AttributeLaterStep ==
    ASSUME Inv, NEW r \in Record, NEW s \in Subject, AttributeLater(r, s)
    PROVE  Inv'
<1>1. VaultTypeOK'
    BY DEF Inv, VaultTypeOK, AttributeLater, Attribute
<1>2. GenInv'
    BY DEF Inv, VaultTypeOK, GenInv, AttributeLater, Attribute
<1>3. DiskInv'
    BY DEF Inv, VaultTypeOK, DiskInv, Flushing, AttributeLater, Attribute
<1>4. CallInv'
    BY DEF Inv, VaultTypeOK, CallInv, AttributeLater, Attribute
<1>5. GoneInv'
    BY DEF Inv, VaultTypeOK, GoneInv, DiskInv, PayloadInv, Flushing,
           AttributeLater, Attribute
<1>6. PayloadInv'
    BY DEF Inv, VaultTypeOK, PayloadInv, AttributeLater, Attribute
<1>7. DateInv'
    BY DEF Inv, VaultTypeOK, DateInv, NoEarlyDate, Pending, AttributeLater,
           Attribute
<1>. QED BY <1>1, <1>2, <1>3, <1>4, <1>5, <1>6, <1>7 DEF Inv

\* The keys to destroy are those of the row.
LEMMA StartForgetStep ==
    ASSUME Inv, NEW s \in Subject, StartForget(s)
    PROVE  Inv'
<1>1. VaultTypeOK'
    BY DEF Inv, VaultTypeOK, StartForget
<1>2. GenInv'
    BY DEF Inv, VaultTypeOK, GenInv, StartForget
<1>3. DiskInv'
    BY DEF Inv, VaultTypeOK, DiskInv, Flushing, StartForget
<1>4. CallInv'
    BY DEF Inv, VaultTypeOK, CallInv, StartForget
<1>5. GoneInv'
    BY DEF Inv, VaultTypeOK, GoneInv, StartForget
<1>6. PayloadInv'
    BY DEF Inv, VaultTypeOK, PayloadInv, StartForget
<1>7. DateInv'
    BY DEF Inv, VaultTypeOK, DateInv, NoEarlyDate, Pending, StartForget
<1>. QED BY <1>1, <1>2, <1>3, <1>4, <1>5, <1>6, <1>7 DEF Inv

\* A key counted as already gone is gone.
LEMMA DestroyAlreadyStep ==
    ASSUME Inv, NEW r \in Record, DestroyAlready(r)
    PROVE  Inv'
<1>1. VaultTypeOK'
    BY DEF Inv, VaultTypeOK, DestroyAlready, Count
<1>2. GenInv'
    BY DEF Inv, VaultTypeOK, GenInv, DestroyAlready, Count
<1>3. DiskInv'
    BY DEF Inv, VaultTypeOK, DiskInv, Flushing, DestroyAlready, Count
<1>4. CallInv'
    BY DEF Inv, VaultTypeOK, CallInv, DestroyAlready, Count
<1>5. GoneInv'
    BY DEF Inv, VaultTypeOK, GoneInv, DestroyAlready, Count
<1>6. PayloadInv'
    BY DEF Inv, VaultTypeOK, PayloadInv, DestroyAlready, Count
<1>7. DateInv'
    BY DEF Inv, VaultTypeOK, DateInv, NoEarlyDate, Pending, DestroyAlready,
           Count
<1>. QED BY <1>1, <1>2, <1>3, <1>4, <1>5, <1>6, <1>7 DEF Inv

\* A tombstone is renamed into place.
LEMMA DestroyStep ==
    ASSUME Inv, NEW r \in Record, Destroy(r)
    PROVE  Inv'
<1>1. VaultTypeOK'
    BY DEF Inv, VaultTypeOK, Destroy
<1>2. GenInv'
    BY DEF Inv, VaultTypeOK, GenInv, Destroy
<1>3. DiskInv'
    BY DEF Inv, VaultTypeOK, DiskInv, Flushing, Destroy
<1>4. CallInv'
    BY DEF Inv, VaultTypeOK, CallInv, Destroy
<1>5. GoneInv'
    BY DEF Inv, VaultTypeOK, GoneInv, Destroy
<1>6. PayloadInv'
    BY DEF Inv, VaultTypeOK, PayloadInv, Destroy
<1>7. DateInv'
    BY DEF Inv, VaultTypeOK, DateInv, DiskInv, Flushing, NoEarlyDate,
           Pending, Destroy
<1>. QED BY <1>1, <1>2, <1>3, <1>4, <1>5, <1>6, <1>7 DEF Inv

\* A key counted as destroyed is durably so.
LEMMA DestroyFlushStep ==
    ASSUME Inv, DestroyFlush
    PROVE  Inv'
<1>1. VaultTypeOK'
    BY DEF Inv, VaultTypeOK, CallInv, DestroyFlush, Flushed, Count
<1>2. GenInv'
    BY DEF Inv, VaultTypeOK, GenInv, DestroyFlush, Flushed, Count
<1>3. DiskInv'
    BY DEF Inv, VaultTypeOK, DiskInv, Flushing, DestroyFlush, Flushed, Count
<1>4. CallInv'
    BY DEF Inv, VaultTypeOK, CallInv, DestroyFlush, Flushed, Count
<1>5. GoneInv'
    BY DEF Inv, VaultTypeOK, GoneInv, CallInv, DestroyFlush, Flushed, Count
<1>6. PayloadInv'
    BY DEF Inv, VaultTypeOK, PayloadInv, DestroyFlush, Flushed, Count
<1>7. DateInv'
    BY DEF Inv, VaultTypeOK, DateInv, NoEarlyDate, Pending, DestroyFlush,
           Flushed, Count
<1>. QED BY <1>1, <1>2, <1>3, <1>4, <1>5, <1>6, <1>7 DEF Inv

\* A scheduled key is counted as such and has a date.
LEMMA ScheduleStep ==
    ASSUME Inv, NEW r \in Record, Schedule(r)
    PROVE  Inv'
<1>1. VaultTypeOK'
    BY DEF Inv, VaultTypeOK, Schedule, Count, Later, DueOf
<1>2. GenInv'
    BY DEF Inv, VaultTypeOK, GenInv, Schedule, Count, Later, DueOf
<1>3. DiskInv'
    BY DEF Inv, VaultTypeOK, DiskInv, Flushing, Schedule, Count, Later, DueOf
<1>4. CallInv'
    BY DEF Inv, VaultTypeOK, CallInv, Schedule, Count, Later, DueOf
<1>5. GoneInv'
    BY DEF Inv, VaultTypeOK, GoneInv, Schedule, Count, Later, DueOf
<1>6. PayloadInv'
    BY DEF Inv, VaultTypeOK, PayloadInv, Schedule, Count, Later, DueOf
<1>7. DateInv'
    BY DEF Inv, VaultTypeOK, DateInv, CallInv, NoEarlyDate, Pending,
           Schedule, Count, Later, DueOf
<1>. QED BY <1>1, <1>2, <1>3, <1>4, <1>5, <1>6, <1>7 DEF Inv

\* A failure in the loop leaves the row.
LEMMA DestroyFailsStep ==
    ASSUME Inv, DestroyFails
    PROVE  Inv'
<1>1. VaultTypeOK'
    BY DEF Inv, VaultTypeOK, DestroyFails, Fault, Idle
<1>2. GenInv'
    BY DEF Inv, VaultTypeOK, GenInv, DestroyFails, Fault, Idle
<1>3. DiskInv'
    BY DEF Inv, VaultTypeOK, DiskInv, Flushing, DestroyFails, Fault, Idle
<1>4. CallInv'
    BY DEF Inv, VaultTypeOK, CallInv, DestroyFails, Fault, Idle
<1>5. GoneInv'
    BY DEF Inv, VaultTypeOK, GoneInv, DestroyFails, Fault, Idle
<1>6. PayloadInv'
    BY DEF Inv, VaultTypeOK, PayloadInv, DestroyFails, Fault, Idle
<1>7. DateInv'
    BY DEF Inv, VaultTypeOK, DateInv, NoEarlyDate, Pending, DestroyFails,
           Fault, Idle
<1>. QED BY <1>1, <1>2, <1>3, <1>4, <1>5, <1>6, <1>7 DEF Inv

\* A missed flush is remembered.
LEMMA FlushFailsStep ==
    ASSUME Inv, FlushFails
    PROVE  Inv'
<1>1. VaultTypeOK'
    BY DEF Inv, VaultTypeOK, FlushFails, Idle
<1>2. GenInv'
    BY DEF Inv, VaultTypeOK, GenInv, FlushFails, Idle
<1>3. DiskInv'
    BY DEF Inv, VaultTypeOK, DiskInv, Flushing, FlushFails, Idle
<1>4. CallInv'
    BY DEF Inv, VaultTypeOK, CallInv, FlushFails, Idle
<1>5. GoneInv'
    BY DEF Inv, VaultTypeOK, GoneInv, FlushFails, Idle
<1>6. PayloadInv'
    BY DEF Inv, VaultTypeOK, PayloadInv, FlushFails, Idle
<1>7. DateInv'
    BY DEF Inv, VaultTypeOK, DateInv, NoEarlyDate, Pending, FlushFails, Idle
<1>. QED BY <1>1, <1>2, <1>3, <1>4, <1>5, <1>6, <1>7 DEF Inv

\* The row goes when all of its keys are gone.
LEMMA DropRowStep ==
    ASSUME Inv, DropRow
    PROVE  Inv'
<1>1. VaultTypeOK'
    BY DEF Inv, VaultTypeOK, DropRow
<1>2. GenInv'
    BY DEF Inv, VaultTypeOK, GenInv, DropRow
<1>3. DiskInv'
    BY DEF Inv, VaultTypeOK, DiskInv, Flushing, DropRow
<1>4. CallInv'
    BY DEF Inv, VaultTypeOK, CallInv, DropRow
<1>5. GoneInv'
    BY DEF Inv, VaultTypeOK, GoneInv, CallInv, DropRow
<1>6. PayloadInv'
    BY DEF Inv, VaultTypeOK, PayloadInv, DropRow
<1>7. DateInv'
    BY DEF Inv, VaultTypeOK, DateInv, CallInv, NoEarlyDate, Pending, DropRow
<1>. QED BY <1>1, <1>2, <1>3, <1>4, <1>5, <1>6, <1>7 DEF Inv

\* What is reported as erased was counted and not scheduled.
LEMMA PutManifestStep ==
    ASSUME Inv, PutManifest
    PROVE  Inv'
<1>1. VaultTypeOK'
    BY DEF Inv, VaultTypeOK, PutManifest, Report, Earlier, Idle
<1>2. GenInv'
    BY DEF Inv, VaultTypeOK, GenInv, PutManifest, Report, Earlier, Idle
<1>3. DiskInv'
    BY DEF Inv, VaultTypeOK, DiskInv, Flushing, PutManifest, Report, Earlier,
           Idle
<1>4. CallInv'
    BY DEF Inv, VaultTypeOK, CallInv, PutManifest, Report, Earlier, Idle
<1>5. GoneInv'
    BY DEF Inv, VaultTypeOK, GoneInv, DiskInv, CallInv, Flushing,
           PutManifest, Report, Earlier, Idle
<1>6. PayloadInv'
    BY DEF Inv, VaultTypeOK, PayloadInv, PutManifest, Report, Earlier, Idle
<1>7. DateInv'
    BY DEF Inv, VaultTypeOK, DateInv, CallInv, NoEarlyDate, Pending,
           PutManifest, Report, Earlier, Idle
<1>. QED BY <1>1, <1>2, <1>3, <1>4, <1>5, <1>6, <1>7 DEF Inv

\* A failed manifest reports nothing.
LEMMA PutManifestFailsStep ==
    ASSUME Inv, PutManifestFails
    PROVE  Inv'
<1>1. VaultTypeOK'
    BY DEF Inv, VaultTypeOK, PutManifestFails, Fault, Idle
<1>2. GenInv'
    BY DEF Inv, VaultTypeOK, GenInv, PutManifestFails, Fault, Idle
<1>3. DiskInv'
    BY DEF Inv, VaultTypeOK, DiskInv, Flushing, PutManifestFails, Fault, Idle
<1>4. CallInv'
    BY DEF Inv, VaultTypeOK, CallInv, PutManifestFails, Fault, Idle
<1>5. GoneInv'
    BY DEF Inv, VaultTypeOK, GoneInv, PutManifestFails, Fault, Idle
<1>6. PayloadInv'
    BY DEF Inv, VaultTypeOK, PayloadInv, PutManifestFails, Fault, Idle
<1>7. DateInv'
    BY DEF Inv, VaultTypeOK, DateInv, CallInv, NoEarlyDate, Pending,
           PutManifestFails, Fault, Idle
<1>. QED BY <1>1, <1>2, <1>3, <1>4, <1>5, <1>6, <1>7 DEF Inv

\* Time changes dates only.
LEMMA TickStep ==
    ASSUME Inv, Tick
    PROVE  Inv'
<1>1. VaultTypeOK'
  <2>1. \A d \in Date \cup {None} : Sooner(d) \in Date \cup {None}
    BY DEF Sooner
  <2>2. \A d \in Date : Sooner(d) \in Date
    BY DEF Sooner
  <2>3. due' \in [Record -> Date] /\ told' \in [Record -> Date \cup {None}]
        /\ latest' \in Date \cup {None}
    BY <2>1, <2>2 DEF Inv, VaultTypeOK, Tick
  <2>. QED BY <2>3 DEF Inv, VaultTypeOK, Tick
<1>2. GenInv'
    BY DEF Inv, VaultTypeOK, GenInv, Tick, Sooner, Pending
<1>3. DiskInv'
    BY DEF Inv, VaultTypeOK, DiskInv, Flushing, Tick, Sooner, Pending
<1>4. CallInv'
    BY DEF Inv, VaultTypeOK, CallInv, Tick, Sooner, Pending
<1>5. GoneInv'
    BY DEF Inv, VaultTypeOK, GoneInv, Tick, Sooner, Pending
<1>6. PayloadInv'
    BY DEF Inv, VaultTypeOK, PayloadInv, Tick, Sooner, Pending
<1>7. DateInv'
    BY DEF Inv, VaultTypeOK, DateInv, NoEarlyDate, Tick, Sooner, Pending
<1>. QED BY <1>1, <1>2, <1>3, <1>4, <1>5, <1>6, <1>7 DEF Inv

\* What is shredded was only scheduled.
LEMMA ElapseStep ==
    ASSUME Inv, Elapse
    PROVE  Inv'
<1>1. VaultTypeOK'
    BY DEF Inv, VaultTypeOK, Elapse, Pending
<1>2. GenInv'
    BY DEF Inv, VaultTypeOK, GenInv, Elapse, Pending
<1>3. DiskInv'
    BY DEF Inv, VaultTypeOK, DiskInv, Flushing, Elapse, Pending
<1>4. CallInv'
    BY DEF Inv, VaultTypeOK, CallInv, Elapse, Pending
<1>5. GoneInv'
    BY DEF Inv, VaultTypeOK, GoneInv, Elapse, Pending
<1>6. PayloadInv'
    BY DEF Inv, VaultTypeOK, PayloadInv, Elapse, Pending
<1>7. DateInv'
    BY DEF Inv, VaultTypeOK, DateInv, NoEarlyDate, Elapse, Pending
<1>. QED BY <1>1, <1>2, <1>3, <1>4, <1>5, <1>6, <1>7 DEF Inv

\* A cancelled key was scheduled, so its row is there.
LEMMA CancelStep ==
    ASSUME Inv, NEW r \in Record, Cancel(r)
    PROVE  Inv'
<1>1. VaultTypeOK'
    BY DEF Inv, VaultTypeOK, Cancel, Pending, Fault
<1>2. GenInv'
    BY DEF Inv, VaultTypeOK, GenInv, Cancel, Pending, Fault
<1>3. DiskInv'
    BY DEF Inv, VaultTypeOK, DiskInv, Flushing, Cancel, Pending, Fault
<1>4. CallInv'
    BY DEF Inv, VaultTypeOK, CallInv, Cancel, Pending, Fault
<1>5. GoneInv'
    BY DEF Inv, VaultTypeOK, GoneInv, Cancel, Pending, Fault
<1>6. PayloadInv'
    BY DEF Inv, VaultTypeOK, PayloadInv, Cancel, Pending, Fault
<1>7. DateInv'
    BY DEF Inv, VaultTypeOK, DateInv, NoEarlyDate, Cancel, Pending, Fault
<1>. QED BY <1>1, <1>2, <1>3, <1>4, <1>5, <1>6, <1>7 DEF Inv

\* A damaged key cannot be used either.
LEMMA DamageStep ==
    ASSUME Inv, NEW r \in Record, Damage(r)
    PROVE  Inv'
<1>1. VaultTypeOK'
    BY DEF Inv, VaultTypeOK, Damage, Fault
<1>2. GenInv'
    BY DEF Inv, VaultTypeOK, GenInv, Damage, Fault
<1>3. DiskInv'
    BY DEF Inv, VaultTypeOK, DiskInv, Flushing, Damage, Fault
<1>4. CallInv'
    BY DEF Inv, VaultTypeOK, CallInv, Damage, Fault
<1>5. GoneInv'
    BY DEF Inv, VaultTypeOK, GoneInv, Damage, Fault
<1>6. PayloadInv'
    BY DEF Inv, VaultTypeOK, PayloadInv, Damage, Fault
<1>7. DateInv'
    BY DEF Inv, VaultTypeOK, DateInv, NoEarlyDate, Pending, Damage, Fault
<1>. QED BY <1>1, <1>2, <1>3, <1>4, <1>5, <1>6, <1>7 DEF Inv

\* The next process sees what was seen.
LEMMA ExitStep ==
    ASSUME Inv, Exit
    PROVE  Inv'
<1>1. VaultTypeOK'
    BY DEF Inv, VaultTypeOK, Exit, Ended, Idle
<1>2. GenInv'
    BY DEF Inv, VaultTypeOK, GenInv, Exit, Ended, Idle
<1>3. DiskInv'
    BY DEF Inv, VaultTypeOK, DiskInv, Flushing, Exit, Ended, Idle
<1>4. CallInv'
    BY DEF Inv, VaultTypeOK, CallInv, Exit, Ended, Idle
<1>5. GoneInv'
    BY DEF Inv, VaultTypeOK, GoneInv, Exit, Ended, Idle
<1>6. PayloadInv'
    BY DEF Inv, VaultTypeOK, PayloadInv, Exit, Ended, Idle
<1>7. DateInv'
    BY DEF Inv, VaultTypeOK, DateInv, NoEarlyDate, Pending, Exit, Ended, Idle
<1>. QED BY <1>1, <1>2, <1>3, <1>4, <1>5, <1>6, <1>7 DEF Inv

\* A power cut keeps what is durable.
LEMMA PowerCutStep ==
    ASSUME Inv, PowerCut
    PROVE  Inv'
<1>1. VaultTypeOK'
    BY DEF Inv, VaultTypeOK, PowerCut, Ended, Idle
<1>2. GenInv'
    BY DEF Inv, VaultTypeOK, GenInv, PowerCut, Ended, Idle
<1>3. DiskInv'
    BY DEF Inv, VaultTypeOK, DiskInv, Flushing, PowerCut, Ended, Idle
<1>4. CallInv'
    BY DEF Inv, VaultTypeOK, CallInv, PowerCut, Ended, Idle
<1>5. GoneInv'
    BY DEF Inv, VaultTypeOK, GoneInv, PowerCut, Ended, Idle
<1>6. PayloadInv'
    BY DEF Inv, VaultTypeOK, PayloadInv, PowerCut, Ended, Idle
<1>7. DateInv'
    BY DEF Inv, VaultTypeOK, DateInv, DiskInv, Flushing, NoEarlyDate,
           Pending, PowerCut, Ended, Idle
<1>. QED BY <1>1, <1>2, <1>3, <1>4, <1>5, <1>6, <1>7 DEF Inv

\* Before anything happens there is nothing to keep.
LEMMA InitInv == Init => Inv
BY DEF Init, Inv, VaultTypeOK, GenInv, DiskInv, Flushing, CallInv, GoneInv,
       PayloadInv, DateInv, NoEarlyDate, Pending

\* A step that changes nothing.
LEMMA StutterStep ==
    ASSUME Inv, UNCHANGED vars
    PROVE  Inv'
BY DEF Inv, VaultTypeOK, GenInv, DiskInv, Flushing, CallInv, GoneInv,
       PayloadInv, DateInv, NoEarlyDate, Pending, vars

\* Every step of seal, attribute, forget and of their environment keeps Inv.
LEMMA InvStep == Inv /\ [Next]_vars => Inv'
<1>. SUFFICES ASSUME Inv, [Next]_vars PROVE Inv'
    OBVIOUS
<1>1. ASSUME NEW r \in Record, StartSeal(r, None) PROVE Inv'
    BY <1>1, StartSealStep
<1>2. ASSUME NEW s \in Subject, NEW r \in About[s],
             StartSeal(r, s) \/ AttributeLater(r, s)
      PROVE  Inv'
    BY <1>2, StartSealStep, AttributeLaterStep
<1>3. ASSUME NEW s \in Subject, StartForget(s) PROVE Inv'
    BY <1>3, StartForgetStep
<1>4. CASE Working
  <2>1. ASSUME NEW r \in Record, DestroyAlready(r) \/ Destroy(r) \/ Schedule(r)
        PROVE  Inv'
    BY <2>1, DestroyAlreadyStep, DestroyStep, ScheduleStep
  <2>2. CASE WrapLive \/ WrapRefused \/ Mint \/ MintFails \/ WrapFlush
    BY <2>2, WrapLiveStep, WrapRefusedStep, MintStep, MintFailsStep,
       WrapFlushStep
  <2>3. CASE PutPayload \/ PutPayloadFails
    BY <2>3, PutPayloadStep, PutPayloadFailsStep
  <2>4. CASE DestroyFlush \/ DestroyFails \/ FlushFails
    BY <2>4, DestroyFlushStep, DestroyFailsStep, FlushFailsStep
  <2>5. CASE DropRow \/ PutManifest \/ PutManifestFails
    BY <2>5, DropRowStep, PutManifestStep, PutManifestFailsStep
  <2>. QED BY <1>4, <2>1, <2>2, <2>3, <2>4, <2>5 DEF Working
<1>5. CASE Tick \/ Elapse
    BY <1>5, TickStep, ElapseStep
<1>6. ASSUME NEW r \in Record, Cancel(r) \/ Damage(r) PROVE Inv'
    BY <1>6, CancelStep, DamageStep
<1>7. CASE Exit \/ PowerCut
    BY <1>7, ExitStep, PowerCutStep
<1>8. CASE UNCHANGED vars
    BY <1>8, StutterStep
<1>. QED BY <1>1, <1>2, <1>3, <1>4, <1>5, <1>6, <1>7, <1>8 DEF Next

\* The strengthened invariant holds in every state the vault reaches.
LEMMA VaultInv == Spec => []Inv
<1>. QED BY InitInv, InvStep, PTL DEF Spec

\* Every variable of the vault keeps its type; in particular no id is given
\* more key pairs than the process had ends.
THEOREM VaultTypeCorrect == Spec => []VaultTypeOK
<1>1. Inv => VaultTypeOK
    BY DEF Inv
<1>. QED BY <1>1, VaultInv, PTL

\* Once forget has reported an erasure as complete, none of its keys is ever
\* usable again and none of its payloads readable, for every number of
\* restarts, power cuts, damaged files and cancellations, as long as the
\* directory flushes of commit happened (persisted.rs, vault.rs).
THEOREM ErasureIsFinal == Spec => []ErasedStaysErased
<1>1. Inv => ErasedStaysErased
    BY DEF Inv, VaultTypeOK, GoneInv, ErasedStaysErased, Returns, Open, Unwraps
<1>. QED BY <1>1, VaultInv, PTL

\* A payload that seal stored opens until its key is destroyed, scheduled or
\* damaged, through every restart and power cut.
THEOREM PayloadsOpen == Spec => []SealedOpens
<1>1. Inv => SealedOpens
    BY DEF Inv, VaultTypeOK, PayloadInv, SealedOpens, Open, Unwraps
<1>. QED BY <1>1, VaultInv, PTL

\* The ledger row of a subject names every key attributed to them that could
\* still be used or brought back, through failures in the middle of forget,
\* schedules and cancellations.
THEOREM RowsOutliveKeys == Spec => []RowOutlivesKeys
<1>1. Inv => RowOutlivesKeys
    BY DEF Inv, VaultTypeOK, GoneInv, RowOutlivesKeys
<1>. QED BY <1>1, VaultInv, PTL

\* Nobody is told a date on which a scheduled key is still there: completes_at
\* is the last key's date, a second forget keeps the date of the first, and
\* only an operator who cancels one breaks it (vault.rs, keys.rs).
THEOREM DatesAreKept == Spec => []NoEarlyDate
<1>1. Inv => NoEarlyDate
    BY DEF Inv, DateInv
<1>. QED BY <1>1, VaultInv, PTL
=============================================================================
