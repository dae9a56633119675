--------------------------- MODULE JournalProofs ---------------------------
(***************************************************************************)
(* Journal's type invariant and its durability contract, for every set of  *)
(* ids, every window and every bound.  The argument is in three layers:    *)
(*   RunInv    what the process believes is what the file holds;           *)
(*   HonestInv on an honest disk the file is a prefix of a well-formed     *)
(*             journal and every promise lies inside its durable part;     *)
(*   and the properties, which follow from these two in every state.       *)
(***************************************************************************)
EXTENDS Journal, SequenceTheorems, TLAPS

\* Frame k is begun at its place: it continues the chain of the ones before.
BeginsFrame(cells, k) ==
    /\ cells[2 * k + 1].what \in Frame
    /\ cells[2 * k + 1].part = 1
    /\ cells[2 * k + 1].what.seq = k
    /\ cells[2 * k + 1].what.prev = Ids(cells, k - 1)

EndsFrame(cells, k) ==
    cells[2 * k + 2] = [what |-> cells[2 * k + 1].what, part |-> 2]

StartsWithHeader(cells) ==
    \A i \in 1..Len(cells) : i <= 2 => cells[i] = HeaderCells[i]

\* A prefix of a header followed by chained frames, cut anywhere.
Well(cells) ==
    /\ StartsWithHeader(cells)
    /\ \A k \in Nat \ {0} : 2 * k + 1 <= Len(cells) => BeginsFrame(cells, k)
    /\ \A k \in Nat \ {0} : 2 * k + 2 <= Len(cells) => EndsFrame(cells, k)

RunningInv ==
    /\ Well(file)
    /\ Len(file) = EndOf(written) + (IF pending = <<>> THEN 0 ELSE pending[1].done)
    /\ head = Ids(file, written)
    /\ Len(head) = written
    /\ acked <= written
    /\ pending # <<>> => /\ pending[1].frame.seq = written + 1
                         /\ pending[1].frame.prev = head
    /\ pending # <<>> /\ pending[1].done = 1 =>
          file[Len(file)] = [what |-> pending[1].frame, part |-> 1]
    /\ pc = "push" => pending # <<>>

RunInv ==
    /\ pc = "header" => Len(file) < 2 /\ StartsWithHeader(file)
    /\ pc = "adopt" => Len(file) >= 2 /\ StartsWithHeader(file)
    /\ Running => RunningInv

\* ids of the first k frames are a sequence of k ids.
LEMMA IdsType ==
    ASSUME NEW cells, NEW k \in Nat,
           \A i \in 1..k : cells[2 * i + 1].what.id \in Id
    PROVE  /\ Ids(cells, k) \in Seq(Id)
           /\ Len(Ids(cells, k)) = k
           /\ \A i \in 1..k : Ids(cells, k)[i] = cells[2 * i + 1].what.id
<1>1. Ids(cells, k) \in [1..k -> Id]
  BY DEF Ids
<1>2. Ids(cells, k) \in Seq(Id)
  BY <1>1, SeqDef
<1>3. DOMAIN Ids(cells, k) = 1..k
  BY DEF Ids
<1>4. Len(Ids(cells, k)) = k
  BY <1>2, <1>3, LenProperties
<1>5. QED
  BY <1>2, <1>4 DEF Ids

\* They depend on the first cells of those frames only.
LEMMA IdsAgree ==
    ASSUME NEW c, NEW d, NEW k \in Nat,
           \A i \in 1..k : c[2 * i + 1] = d[2 * i + 1]
    PROVE  Ids(c, k) = Ids(d, k)
BY DEF Ids

\* A frame more is an id more.
LEMMA IdsAppend ==
    ASSUME NEW cells, NEW k \in Nat,
           \A i \in 1..(k + 1) : cells[2 * i + 1].what.id \in Id
    PROVE  Append(Ids(cells, k), cells[2 * (k + 1) + 1].what.id)
              = Ids(cells, k + 1)
<1> DEFINE x == cells[2 * (k + 1) + 1].what.id
           s == Append(Ids(cells, k), x)
           t == Ids(cells, k + 1)
<1>1. x \in Id
  OBVIOUS
<1>2. /\ Ids(cells, k) \in Seq(Id)
      /\ Len(Ids(cells, k)) = k
      /\ \A i \in 1..k : Ids(cells, k)[i] = cells[2 * i + 1].what.id
  <2>1. \A i \in 1..k : cells[2 * i + 1].what.id \in Id
    OBVIOUS
  <2>2. QED
    BY <2>1, IdsType
<1>3. /\ t \in Seq(Id)
      /\ Len(t) = k + 1
      /\ \A i \in 1..(k + 1) : t[i] = cells[2 * i + 1].what.id
  BY IdsType
<1>4. /\ s \in Seq(Id)
      /\ Len(s) = k + 1
      /\ \A i \in 1..k : s[i] = Ids(cells, k)[i]
      /\ s[k + 1] = x
  BY <1>1, <1>2, AppendProperties
<1>5. ASSUME NEW i \in 1..Len(s)
      PROVE  s[i] = t[i]
  <2>1. i \in 1..k \/ i = k + 1
    BY <1>4
  <2>2. CASE i \in 1..k
    BY <1>2, <1>3, <1>4, <2>2
  <2>3. CASE i = k + 1
    BY <1>3, <1>4, <2>3
  <2>4. QED
    BY <2>1, <2>2, <2>3
<1>6. QED
  BY <1>3, <1>4, <1>5, SeqEqual

\* A prefix of a well-formed file is one, with the same frames.
LEMMA WellPrefix ==
    ASSUME NEW c \in Seq(Cell), NEW d \in Seq(Cell), Well(c),
           Len(d) <= Len(c), \A i \in 1..Len(d) : d[i] = c[i]
    PROVE  /\ Well(d)
           /\ \A k \in Nat : 2 * k + 1 <= Len(d) => Ids(d, k) = Ids(c, k)
<1>0. Len(c) \in Nat /\ Len(d) \in Nat
  OBVIOUS
<1>1. ASSUME NEW k \in Nat, 2 * k + 1 <= Len(d)
      PROVE  Ids(d, k) = Ids(c, k)
  <2>1. \A i \in 1..k : d[2 * i + 1] = c[2 * i + 1]
    BY <1>0, <1>1
  <2>2. QED
    BY <2>1, IdsAgree
<1>2. StartsWithHeader(d)
  BY <1>0 DEF Well, StartsWithHeader
<1>3. ASSUME NEW k \in Nat \ {0}, 2 * k + 1 <= Len(d)
      PROVE  BeginsFrame(d, k)
  <2>1. d[2 * k + 1] = c[2 * k + 1]
    BY <1>0, <1>3
  <2>2. Ids(d, k - 1) = Ids(c, k - 1)
    BY <1>0, <1>1, <1>3
  <2>3. BeginsFrame(c, k)
    BY <1>0, <1>3 DEF Well
  <2>4. QED
    BY <2>1, <2>2, <2>3 DEF BeginsFrame
<1>4. ASSUME NEW k \in Nat \ {0}, 2 * k + 2 <= Len(d)
      PROVE  EndsFrame(d, k)
  <2>1. d[2 * k + 1] = c[2 * k + 1] /\ d[2 * k + 2] = c[2 * k + 2]
    BY <1>0, <1>4
  <2>2. EndsFrame(c, k)
    BY <1>0, <1>4 DEF Well
  <2>3. QED
    BY <2>1, <2>2 DEF EndsFrame
<1>5. QED
  BY <1>1, <1>2, <1>3, <1>4 DEF Well

\* d is c with frame f put after its k frames, or as much of it as fits.
Extends(c, d, k, f) ==
    /\ Len(c) \in {2 * k + 2, 2 * k + 3}
    /\ Len(d) \in {2 * k + 3, 2 * k + 4}
    /\ Len(c) <= Len(d)
    /\ \A i \in 1..Len(c) : d[i] = c[i]
    /\ f.seq = k + 1
    /\ f.prev = Ids(c, k)
    /\ d[2 * k + 3] = [what |-> f, part |-> 1]
    /\ Len(d) = 2 * k + 4 => d[2 * k + 4] = [what |-> f, part |-> 2]

\* Putting frame k + 1, or the rest of it, after k frames keeps a file well.
LEMMA WellExtend ==
    ASSUME NEW c \in Seq(Cell), NEW d \in Seq(Cell), NEW k \in Nat,
           NEW f \in Frame, Well(c), Extends(c, d, k, f)
    PROVE  /\ Well(d)
           /\ Ids(d, k) = Ids(c, k)
<1> USE DEF Extends
<1>1. ASSUME NEW j \in Nat, 2 * j + 1 <= Len(c)
      PROVE  Ids(d, j) = Ids(c, j)
  <2>1. \A i \in 1..j : d[2 * i + 1] = c[2 * i + 1]
    BY <1>1
  <2>2. QED
    BY <2>1, IdsAgree
<1>2. Ids(d, k) = Ids(c, k)
  BY <1>1
<1>3. StartsWithHeader(d)
  BY DEF Well, StartsWithHeader
<1>4. ASSUME NEW j \in Nat \ {0}, 2 * j + 1 <= Len(d)
      PROVE  BeginsFrame(d, j)
  <2>1. CASE j <= k
    <3>1. d[2 * j + 1] = c[2 * j + 1]
      BY <1>4, <2>1
    <3>2. Ids(d, j - 1) = Ids(c, j - 1)
      BY <1>1, <1>4, <2>1
    <3>3. BeginsFrame(c, j)
      BY <1>4, <2>1 DEF Well
    <3>4. QED
      BY <3>1, <3>2, <3>3 DEF BeginsFrame
  <2>2. CASE j = k + 1
    <3>1. 2 * j + 1 = 2 * k + 3 /\ j - 1 = k
      BY <2>2
    <3>2. d[2 * j + 1] = [what |-> f, part |-> 1]
      BY <3>1
    <3>3. Ids(d, j - 1) = f.prev
      BY <3>1, <1>2
    <3>4. QED
      BY <2>2, <3>2, <3>3 DEF BeginsFrame
  <2>3. QED
    BY <1>4, <2>1, <2>2
<1>5. ASSUME NEW j \in Nat \ {0}, 2 * j + 2 <= Len(d)
      PROVE  EndsFrame(d, j)
  <2>1. CASE j <= k
    <3>0. 2 * j + 1 \in 1..Len(c) /\ 2 * j + 2 \in 1..Len(c)
      BY <2>1
    <3>1. d[2 * j + 1] = c[2 * j + 1] /\ d[2 * j + 2] = c[2 * j + 2]
      BY <3>0
    <3>2. EndsFrame(c, j)
      BY <3>0 DEF Well
    <3>3. QED
      BY <3>1, <3>2 DEF EndsFrame
  <2>2. CASE j = k + 1
    <3>1. 2 * j + 1 = 2 * k + 3 /\ 2 * j + 2 = 2 * k + 4 /\ Len(d) = 2 * k + 4
      BY <1>5, <2>2
    <3>2. d[2 * j + 1].what = f
      <4>1. d[2 * k + 3] = [what |-> f, part |-> 1]
        OBVIOUS
      <4>2. d[2 * j + 1] = [what |-> f, part |-> 1]
        BY <3>1, <4>1
      <4>3. QED
        BY <4>2
    <3>3. d[2 * j + 2] = [what |-> f, part |-> 2]
      BY <3>1
    <3>4. QED
      BY <3>2, <3>3 DEF EndsFrame
  <2>3. QED
    BY <1>5, <2>1, <2>2
<1>6. QED
  BY <1>2, <1>3, <1>4, <1>5 DEF Well

\* On a well-formed file exactly the whole frames follow.
LEMMA WellFollows ==
    ASSUME NEW c \in Seq(Cell), Well(c), NEW k \in Nat \ {0}
    PROVE  Follows(c, k) <=> 2 * k + 2 <= Len(c)
<1>1. CASE 2 * k + 2 <= Len(c)
  <2>0. 2 * k + 1 <= Len(c)
    BY <1>1
  <2>1. BeginsFrame(c, k) /\ EndsFrame(c, k)
    BY <1>1, <2>0 DEF Well
  <2>2. QED
    BY <1>1, <2>1 DEF Follows, ParsesAt, BeginsFrame, EndsFrame
<1>2. CASE ~ (2 * k + 2 <= Len(c))
  BY <1>2 DEF Follows, ParsesAt
<1>3. QED
  BY <1>1, <1>2

\* The frames a walk accepts, behind a header, are a well-formed file.
LEMMA WalkedIsWell ==
    ASSUME NEW c \in Seq(Cell), NEW d \in Seq(Cell), NEW n \in Nat,
           StartsWithHeader(c), 2 <= Len(c),
           \A k \in 1..n : Follows(c, k),
           Len(d) = 2 * n + 2, Len(d) <= Len(c),
           \A i \in 1..Len(d) : d[i] = c[i]
    PROVE  /\ Well(d)
           /\ Ids(d, n) = Ids(c, n)
           /\ Ids(d, n) \in Seq(Id)
           /\ Len(Ids(d, n)) = n
<1>1. ASSUME NEW k \in Nat, k <= n
      PROVE  Ids(d, k) = Ids(c, k)
  <2>1. \A i \in 1..k : d[2 * i + 1] = c[2 * i + 1]
    BY <1>1
  <2>2. QED
    BY <2>1, IdsAgree
<1>2. StartsWithHeader(d)
  BY DEF StartsWithHeader
<1>3. ASSUME NEW k \in Nat \ {0}, 2 * k + 1 <= Len(d)
      PROVE  BeginsFrame(d, k) /\ EndsFrame(d, k)
  <2>1. k \in 1..n
    BY <1>3
  <2>2. Follows(c, k)
    BY <2>1
  <2>3. d[2 * k + 1] = c[2 * k + 1] /\ d[2 * k + 2] = c[2 * k + 2]
    BY <2>1
  <2>4. Ids(d, k - 1) = Ids(c, k - 1)
    BY <1>1, <2>1
  <2>5. QED
    BY <2>1, <2>2, <2>3, <2>4 DEF Follows, ParsesAt, BeginsFrame, EndsFrame
<1>4. \A i \in 1..n : d[2 * i + 1].what.id \in Id
  <2> SUFFICES ASSUME NEW i \in 1..n
               PROVE  d[2 * i + 1].what.id \in Id
    OBVIOUS
  <2>1. BeginsFrame(d, i)
    BY <1>3
  <2>2. QED
    BY <2>1 DEF BeginsFrame, Frame
<1>5. Ids(d, n) \in Seq(Id) /\ Len(Ids(d, n)) = n
  BY <1>4, IdsType
<1>6. QED
  BY <1>1, <1>2, <1>3, <1>5 DEF Well

\* SubSeq(s, 1, n) is the prefix of s of length n.
LEMMA PrefixOf ==
    ASSUME NEW S, NEW s \in Seq(S), NEW n \in Nat, n <= Len(s)
    PROVE  /\ SubSeq(s, 1, n) \in Seq(S)
           /\ Len(SubSeq(s, 1, n)) = n
           /\ \A i \in 1..n : SubSeq(s, 1, n)[i] = s[i]
<1>1. \A i \in 1..n : s[i] \in S
  BY ElementOfSeq
<1>2. QED
  BY <1>1, SubSeqProperties

\* Facts about the cells the actions write.
LEMMA TwoCellsType ==
    /\ HeaderCells \in Seq(Cell) /\ Len(HeaderCells) = 2
    /\ \A x \in Special : /\ Foreign(x) \in Seq(Cell)
                          /\ Len(Foreign(x)) = 2
    /\ \A f \in Frame : /\ TwoCells(f) \in Seq(Cell)
                        /\ Len(TwoCells(f)) = 2
                        /\ TwoCells(f)[1] = [what |-> f, part |-> 1]
                        /\ TwoCells(f)[2] = [what |-> f, part |-> 2]
<1>1. \A x \in Special : NoFrame(x) \in [seq : Nat, prev : Seq(Id), id : Id \cup Special]
  BY DEF NoFrame
<1>2. \A f \in Frame : f \in [seq : Nat, prev : Seq(Id), id : Id \cup Special]
  BY DEF Frame
<1>3. Header \in Special
  BY DEF Special
<1>4. ASSUME NEW w \in [seq : Nat, prev : Seq(Id), id : Id \cup Special]
      PROVE  /\ TwoCells(w) \in Seq(Cell)
             /\ Len(TwoCells(w)) = 2
             /\ TwoCells(w)[1] = [what |-> w, part |-> 1]
             /\ TwoCells(w)[2] = [what |-> w, part |-> 2]
  BY DEF TwoCells, Cell
<1>5. QED
  BY <1>1, <1>2, <1>3, <1>4 DEF HeaderCells, Foreign

IndRun == TypeOK /\ RunInv

\* No process has the file open at first, so nothing is believed about it.
LEMMA InitRun == Init => IndRun
<1> SUFFICES ASSUME Init PROVE IndRun
  OBVIOUS
<1>1. file \in Seq(Cell) /\ Len(file) \in Nat
  <2>1. OtherOwner \in Special /\ NotJournal \in Special
    BY DEF Special
  <2>2. CASE file = <<>>
    BY <2>2
  <2>3. CASE file = Foreign(OtherOwner) \/ file = Foreign(NotJournal)
    BY <2>1, <2>3, TwoCellsType
  <2>4. QED
    BY <2>2, <2>3 DEF Init
<1>2. DiskType
  BY <1>1 DEF Init, DiskType
<1>3. ProcessType /\ HistoryType
  <2>1. degraded \in BOOLEAN
    BY DEF Init
  <2>2. pending \in Seq([frame : Frame, done : 0..1]) /\ Len(pending) <= 1
    BY DEF Init
  <2>3. QED
    BY <2>1, <2>2, BoundAssumption DEF Init, ProcessType, HistoryType
<1>4. RunInv
  BY DEF Init, RunInv, Running
<1>5. QED
  BY <1>2, <1>3, <1>4 DEF IndRun, TypeOK

\* Nothing the running process's invariant speaks of changes.
LEMMA RunningFrame ==
    ASSUME RunningInv, UNCHANGED <<file, written, pending, head, acked>>,
           pc' # "push"
    PROVE  RunningInv'
BY DEF RunningInv

\* A process that is gone has no memory left.
LEMMA FreshRun ==
    ASSUME IndRun, FreshMemory, pc' = "down", DiskType', HistoryType'
    PROVE  IndRun'
<1>1. ProcessType'
  <2>1. (degraded \in BOOLEAN)'
    BY DEF FreshMemory
  <2>2. (pending \in Seq([frame : Frame, done : 0..1]) /\ Len(pending) <= 1)'
    BY DEF FreshMemory
  <2>3. QED
    BY <2>1, <2>2 DEF FreshMemory, ProcessType
<1>2. RunInv'
  BY DEF RunInv, Running
<1>3. QED
  BY <1>1, <1>2 DEF IndRun, TypeOK

\* A refused open leaves no running process, and the file as it was.
LEMMA RefuseRun ==
    ASSUME IndRun, NEW why, Refuse(why)
    PROVE  IndRun'
<1>1. DiskType' /\ HistoryType'
  BY DEF Refuse, IndRun, TypeOK, DiskType, HistoryType, disk, history
<1>2. QED
  BY <1>1, FreshRun DEF Refuse

\* The steps of open and recover.
LEMMA OpenRun ==
    ASSUME IndRun, Open \/ Recover
    PROVE  IndRun'
BY DEF Open, Recover, IndRun, TypeOK, DiskType, ProcessType, HistoryType,
       RunInv, Running, disk, memory, counters, history

\* ensure_header only cuts the file to nothing or goes on.
LEMMA EnsureHeaderRun ==
    ASSUME IndRun, EnsureHeader
    PROVE  IndRun'
<1>1. PICK h \in DecodeHeader(file), short \in HeaderIsAllItCouldHold(file) :
          \/ /\ h = "Ours"
             /\ pc' = "adopt"
             /\ UNCHANGED <<disk, memory, ret, history>>
          \/ /\ h \in {"WrongOwner", "NotAJournal"}
             /\ Refuse(h)
          \/ /\ h = "Torn" /\ ~ short
             /\ Refuse("CorruptHeader")
          \/ /\ h = "Torn" /\ short
             /\ TruncateFile(0)
             /\ pc' = "header"
             /\ UNCHANGED <<wm, memory, ret, history>>
  BY DEF EnsureHeader
<1>2. CASE /\ h = "Ours"
           /\ pc' = "adopt"
           /\ UNCHANGED <<disk, memory, ret, history>>
  <2>1. Len(file) >= 2 /\ SubSeq(file, 1, 2) = HeaderCells
    BY <1>2, <1>1 DEF DecodeHeader, IndRun, TypeOK, DiskType
  <2>2. file[1] = HeaderCells[1] /\ file[2] = HeaderCells[2]
    BY <2>1, PrefixOf DEF IndRun, TypeOK, DiskType
  <2>3. StartsWithHeader(file)
    <3> SUFFICES ASSUME NEW i \in 1..Len(file), i <= 2
                 PROVE  file[i] = HeaderCells[i]
      BY DEF StartsWithHeader
    <3>1. i = 1 \/ i = 2
      BY <2>1 DEF IndRun, TypeOK, DiskType
    <3>2. QED
      BY <2>2, <3>1
  <2>4. TypeOK'
    BY <1>2 DEF IndRun, TypeOK, DiskType, ProcessType, HistoryType, disk,
                memory, counters, history
  <2>5. RunInv'
    BY <1>2, <2>1, <2>3 DEF RunInv, Running, disk, StartsWithHeader
  <2>6. QED
    BY <2>4, <2>5 DEF IndRun
<1>3. CASE \/ h \in {"WrongOwner", "NotAJournal"} /\ Refuse(h)
           \/ h = "Torn" /\ ~ short /\ Refuse("CorruptHeader")
  BY <1>3, RefuseRun
<1>4. CASE /\ h = "Torn" /\ short
           /\ TruncateFile(0)
           /\ pc' = "header"
           /\ UNCHANGED <<wm, memory, ret, history>>
  <2>1. file' = <<>> /\ durable' = 0
    BY <1>4, SubSeqEmpty DEF TruncateFile, IndRun, TypeOK, DiskType
  <2>2. TypeOK'
    BY <1>4, <2>1 DEF IndRun, TypeOK, DiskType, ProcessType, HistoryType,
                      memory, counters, history
  <2>3. RunInv'
    BY <1>4, <2>1 DEF RunInv, Running, StartsWithHeader
  <2>4. QED
    BY <2>2, <2>3 DEF IndRun
<1>5. QED
  BY <1>1, <1>2, <1>3, <1>4

\* How many cells of a header can already be there.
LEMMA SmallNat ==
    ASSUME NEW n \in Nat
    PROVE  /\ n < 2 => n = 0 \/ n = 1
           /\ n <= 2 /\ n # 2 => n < 2
OBVIOUS

\* What one turn of the header loop leaves on the file.
LEMMA WriteHeaderFile ==
    ASSUME IndRun, WriteHeader
    PROVE  /\ file' \in Seq(Cell)
           /\ Len(file') > Len(file) /\ Len(file') <= 2
           /\ StartsWithHeader(file')
           /\ pc' = IF Len(file') = 2 THEN "adopt" ELSE "header"
<1>1. file \in Seq(Cell) /\ Len(file) \in {0, 1} /\ StartsWithHeader(file)
  <2>1. pc = "header"
    BY DEF WriteHeader
  <2>2. file \in Seq(Cell) /\ Len(file) \in Nat
    BY DEF IndRun, TypeOK, DiskType
  <2>3. Len(file) < 2
    BY <2>1 DEF IndRun, RunInv
  <2>4. StartsWithHeader(file)
    BY <2>1 DEF IndRun, RunInv
  <2>5. Len(file) = 0 \/ Len(file) = 1
    BY <2>2, <2>3, SmallNat
  <2>6. QED
    BY <2>2, <2>4, <2>5
<1>2. PICK n \in (Len(file) + 1)..2 :
          /\ file' = file \o SubSeq(HeaderCells, Len(file) + 1, n)
          /\ pc' = IF n = 2 THEN "adopt" ELSE "header"
  BY DEF WriteHeader
<1> DEFINE m == Len(file) + 1
           t == SubSeq(HeaderCells, m, n)
<1>3. \A i \in 1..2 : HeaderCells[i] \in Cell
  BY TwoCellsType, ElementOfSeq
<1>4. /\ t \in Seq(Cell)
      /\ Len(t) = n - m + 1
      /\ \A i \in 1..(n - m + 1) : t[i] = HeaderCells[m + i - 1]
  BY <1>1, <1>3, SubSeqProperties
<1> HIDE DEF t
<1>5. /\ file' \in Seq(Cell)
      /\ Len(file') = n
      /\ \A i \in 1..n : file'[i] = IF i <= Len(file) THEN file[i]
                                    ELSE t[i - Len(file)]
  BY <1>1, <1>2, <1>4, ConcatProperties DEF t
<1>6. ASSUME NEW i \in 1..n
      PROVE  file'[i] = HeaderCells[i]
  <2>1. CASE i <= Len(file)
    BY <1>1, <1>5, <2>1 DEF StartsWithHeader
  <2>2. CASE i > Len(file)
    <3>1. file'[i] = t[i - Len(file)]
      BY <1>1, <1>5, <2>2
    <3>2. t[i - Len(file)] = HeaderCells[m + (i - Len(file)) - 1]
      <4>1. i - Len(file) \in 1..(n - m + 1)
        BY <1>1, <2>2
      <4> HIDE DEF m
      <4>2. QED
        BY <1>4, <4>1
    <3>3. m + (i - Len(file)) - 1 = i
      BY <1>1
    <3>4. QED
      BY <3>1, <3>2, <3>3
  <2>3. QED
    BY <1>1, <2>1, <2>2
<1>7. StartsWithHeader(file')
  BY <1>5, <1>6 DEF StartsWithHeader
<1>8. pc' = IF Len(file') = 2 THEN "adopt" ELSE "header"
  BY <1>2, <1>5
<1>9. Len(file') > Len(file) /\ Len(file') <= 2
  BY <1>1, <1>5
<1>10. QED
  BY <1>5, <1>7, <1>8, <1>9

\* After the header is written the file is a well-formed prefix.
LEMMA WriteHeaderRun ==
    ASSUME IndRun, WriteHeader
    PROVE  IndRun'
<1>1. /\ file' \in Seq(Cell)
      /\ Len(file') > Len(file) /\ Len(file') <= 2
      /\ StartsWithHeader(file')
      /\ pc' = IF Len(file') = 2 THEN "adopt" ELSE "header"
  BY WriteHeaderFile
<1>2. UNCHANGED <<durable, wm, memory, ret, history>>
  BY DEF WriteHeader
<1>3. Len(file') \in Nat /\ Len(file) \in Nat
  BY <1>1 DEF IndRun, TypeOK, DiskType
<1>4. TypeOK'
  BY <1>1, <1>2, <1>3 DEF IndRun, TypeOK, DiskType, ProcessType, HistoryType,
                          memory, counters, history
<1>5. RunInv'
  <2>1. CASE Len(file') = 2
    <3>1. pc' = "adopt"
      BY <1>1, <2>1
    <3>2. QED
      BY <1>1, <2>1, <3>1 DEF RunInv, Running
  <2>2. CASE Len(file') # 2
    <3>1. pc' = "header"
      BY <1>1, <2>2
    <3>3. Len(file') < 2
      BY <1>1, <1>3, <2>2, SmallNat
    <3>2. QED
      BY <1>1, <3>1, <3>3 DEF RunInv, Running
  <2>3. QED
    BY <2>1, <2>2
<1>6. QED
  BY <1>4, <1>5 DEF IndRun

\* Whatever the walk accepts fits the file.
LEMMA WalkFits ==
    ASSUME IndRun, pc = "adopt", NEW n \in 0..Len(file),
           WalkStopsAfter(file, n)
    PROVE  EndOf(n) <= Len(file)
<1>1. CASE n = 0
  BY <1>1 DEF IndRun, RunInv, EndOf
<1>2. CASE n # 0
  <2>1. Follows(file, n)
    BY <1>2 DEF WalkStopsAfter, IndRun, TypeOK, DiskType
  <2>2. QED
    BY <2>1 DEF Follows, ParsesAt, EndOf, IndRun, TypeOK, DiskType
<1>3. QED
  BY <1>1, <1>2

\* What recover adopts is what the walk accepted: head and count agree with it.
LEMMA AdoptPrefixRun ==
    ASSUME IndRun, pc = "adopt", NEW n \in 0..Len(file),
           WalkStopsAfter(file, n), AdoptPrefix(n)
    PROVE  IndRun'
<1>0. file \in Seq(Cell) /\ Len(file) \in Nat /\ n \in Nat /\ durable \in 0..Len(file)
  BY DEF IndRun, TypeOK, DiskType
<1>1. 2 * n + 2 <= Len(file)
  BY WalkFits DEF EndOf
<1>2. file' = SubSeq(file, 1, 2 * n + 2)
  BY DEF AdoptPrefix, TruncateFile, EndOf
<1>3. /\ file' \in Seq(Cell)
      /\ Len(file') = 2 * n + 2
      /\ \A i \in 1..(2 * n + 2) : file'[i] = file[i]
  BY <1>0, <1>1, <1>2, PrefixOf
<1>4. /\ Well(file')
      /\ Ids(file', n) = Ids(file, n)
      /\ Ids(file', n) \in Seq(Id)
      /\ Len(Ids(file', n)) = n
  <2>1. \A k \in 1..n : Follows(file, k)
    BY DEF WalkStopsAfter
  <2>2. StartsWithHeader(file) /\ 2 <= Len(file)
    BY DEF IndRun, RunInv
  <2>3. QED
    BY <1>0, <1>1, <1>3, <2>1, <2>2, WalkedIsWell
<1>5. /\ head' = Ids(file, n)
      /\ written' = n
      /\ acked' = IF acked < n THEN acked ELSE n
      /\ pending' = <<>>
      /\ pc' = "up"
      /\ wm' = wm /\ lies' = lies /\ rots' = rots
      /\ durable' = IF durable < 2 * n + 2 THEN durable ELSE 2 * n + 2
      /\ recorded' = IF recorded < n THEN recorded ELSE n
      /\ promise' = SubSeq(promise, 1, IF Len(promise) < n
                                      THEN Len(promise) ELSE n)
  BY DEF AdoptPrefix, AckedAfter, TruncateFile, EndOf
<1>6. degraded' \in BOOLEAN
  BY DEF AdoptPrefix
<1>7. acked \in Nat /\ recorded \in Nat /\ promise \in Seq(Id)
  BY DEF IndRun, TypeOK, ProcessType, HistoryType
<1>8. promise' \in Seq(Id)
  <2> DEFINE m == IF Len(promise) < n THEN Len(promise) ELSE n
  <2>1. m \in Nat /\ m <= Len(promise)
    BY <1>0, <1>7
  <2>2. promise' = SubSeq(promise, 1, m)
    BY <1>5
  <2>3. QED
    BY <1>7, <2>1, <2>2, PrefixOf
<1>9. DiskType'
  BY <1>0, <1>3, <1>5 DEF IndRun, TypeOK, DiskType
<1>10. ProcessType'
  <2>1. (pending \in Seq([frame : Frame, done : 0..1]) /\ Len(pending) <= 1)'
    BY <1>5
  <2>2. QED
    BY <1>0, <1>4, <1>5, <1>6, <1>7, <2>1 DEF ProcessType
<1>11. HistoryType'
  BY <1>0, <1>5, <1>7, <1>8 DEF IndRun, TypeOK, HistoryType
<1>12. RunInv'
  <2>1. RunningInv'
    BY <1>0, <1>3, <1>4, <1>5, <1>7 DEF RunningInv, EndOf
  <2>2. QED
    BY <1>5, <2>1 DEF RunInv
<1>13. QED
  BY <1>9, <1>10, <1>11, <1>12 DEF IndRun, TypeOK

\* Every outcome of recover, refusal included, keeps the beliefs right.
LEMMA AdoptRun ==
    ASSUME IndRun, Adopt
    PROVE  IndRun'
<1>1. PICK n \in 0..Len(file) :
          /\ WalkStopsAfter(file, n)
          /\ IF NextParsable(file, EndOf(n) + 1)
             THEN Refuse("CorruptMidFile")
             ELSE AdoptPrefix(n)
  BY DEF Adopt
<1>2. CASE Refuse("CorruptMidFile")
  BY <1>2, RefuseRun
<1>3. CASE AdoptPrefix(n)
  BY <1>1, <1>3, AdoptPrefixRun DEF Adopt
<1>4. QED
  BY <1>1, <1>2, <1>3

\* The steps of append.
LEMMA AppendRun ==
    ASSUME IndRun, NEW id \in Id, AppendRecord(id)
    PROVE  IndRun'
<1>1. /\ pc = "up" /\ RunningInv
      /\ UNCHANGED <<file, durable, wm, head, written, acked, degraded, promise,
                     recorded, lies, rots>>
  BY DEF AppendRecord, IndRun, RunInv, Running, disk, counters, history
<1>2. DiskType' /\ HistoryType'
  BY <1>1 DEF IndRun, TypeOK, DiskType, HistoryType
<1>3. CASE UNCHANGED <<pc, pending>>
  <2>1. ProcessType'
    BY <1>1, <1>3 DEF IndRun, TypeOK, ProcessType
  <2>2. RunningInv'
    BY <1>1, <1>3 DEF RunningInv
  <2>3. RunInv'
    BY <1>1, <1>3, <2>2 DEF RunInv
  <2>4. QED
    BY <1>2, <2>1, <2>3 DEF IndRun, TypeOK
<1>4. CASE pending # <<>> /\ pc' = "push" /\ UNCHANGED pending
  <2>1. ProcessType'
    BY <1>1, <1>4 DEF IndRun, TypeOK, ProcessType
  <2>2. RunningInv'
    BY <1>1, <1>4 DEF RunningInv
  <2>3. RunInv'
    BY <1>4, <2>2 DEF RunInv
  <2>4. QED
    BY <1>2, <2>1, <2>3 DEF IndRun, TypeOK
<1>5. CASE /\ pending = <<>>
           /\ pending' = <<[frame |-> [seq |-> written + 1, prev |-> head,
                                       id |-> id],
                            done |-> 0]>>
           /\ pc' = "push"
  <2> DEFINE f == [seq |-> written + 1, prev |-> head, id |-> id]
             q == [frame |-> f, done |-> 0]
  <2>1. f \in Frame /\ f.seq = written + 1 /\ f.prev = head
    BY DEF IndRun, TypeOK, ProcessType, Frame
  <2>2. q \in [frame : Frame, done : 0..1] /\ q.done = 0 /\ q.frame = f
    BY <2>1
  <2>3. pending' = <<q>>
    BY <1>5
  <2> HIDE DEF q, f
  <2>4. /\ pending' \in Seq([frame : Frame, done : 0..1])
        /\ Len(pending') = 1 /\ pending'[1] = q /\ pending' # <<>>
    BY <2>2, <2>3
  <2>5. ProcessType'
    BY <1>1, <1>5, <2>4 DEF IndRun, TypeOK, ProcessType
  <2>6. Len(file) = EndOf(written) + 0
    BY <1>1, <1>5 DEF RunningInv
  <2>7. RunningInv'
    <3>1. /\ Well(file') /\ head' = Ids(file', written') /\ Len(head') = written'
          /\ acked' <= written'
      BY <1>1 DEF RunningInv
    <3>2. Len(file') = EndOf(written') + (IF pending' = <<>> THEN 0 ELSE pending'[1].done)
      BY <1>1, <2>2, <2>4, <2>6
    <3>3. pending'[1].frame.seq = written' + 1 /\ pending'[1].frame.prev = head'
      BY <1>1, <2>1, <2>2, <2>4
    <3>4. pending'[1].done # 1
      BY <2>2, <2>4
    <3>5. QED
      BY <2>4, <3>1, <3>2, <3>3, <3>4 DEF RunningInv
  <2>8. RunInv'
    BY <1>5, <2>7 DEF RunInv
  <2>9. QED
    BY <1>2, <2>5, <2>8 DEF IndRun, TypeOK
<1>6. QED
  BY <1>3, <1>4, <1>5 DEF AppendRecord

\* A bounded queue of pending frames that is not empty holds exactly one.
LEMMA Singleton ==
    ASSUME NEW S, NEW s \in Seq(S), Len(s) <= 1, s # <<>>
    PROVE  Len(s) = 1 /\ s[1] \in S
<1>1. Len(s) # 0
  BY EmptySeq
<1>2. Len(s) \in Nat
  OBVIOUS
<1>3. Len(s) = 1
  BY <1>1, <1>2
<1>4. QED
  BY <1>3, ElementOfSeq

\* What a running process knows of its outstanding record.
LEMMA PendingFacts ==
    ASSUME IndRun, pc = "push"
    PROVE  /\ pending # <<>> /\ Len(pending) = 1
           /\ pending[1].frame \in Frame
           /\ pending[1].done \in 0..1
           /\ RunningInv
           /\ pending[1].frame.seq = written + 1
           /\ pending[1].frame.prev = Ids(file, written)
           /\ Len(file) = 2 * written + 2 + pending[1].done
           /\ pending[1].done = 1 =>
                 file[2 * written + 3] = [what |-> pending[1].frame, part |-> 1]
           /\ written \in Nat
<1>1. RunningInv /\ pending # <<>>
  BY DEF IndRun, RunInv, Running, RunningInv
<1>2. Len(pending) = 1 /\ pending[1] \in [frame : Frame, done : 0..1]
  BY <1>1, Singleton DEF IndRun, TypeOK, ProcessType
<1>3. written \in Nat
  BY DEF IndRun, TypeOK, ProcessType
<1>4. Len(file) = 2 * written + 2 + pending[1].done
  BY <1>1 DEF RunningInv, EndOf
<1>5. pending[1].done = 1 =>
         file[2 * written + 3] = [what |-> pending[1].frame, part |-> 1]
  <2> SUFFICES ASSUME pending[1].done = 1
               PROVE  file[2 * written + 3] = [what |-> pending[1].frame, part |-> 1]
    OBVIOUS
  <2>1. Len(file) = 2 * written + 3
    BY <1>3, <1>4
  <2>2. file[Len(file)] = [what |-> pending[1].frame, part |-> 1]
    BY <1>1 DEF RunningInv
  <2>3. QED
    BY <2>1, <2>2
<1>6. QED
  BY <1>1, <1>2, <1>3, <1>4, <1>5 DEF RunningInv

\* A short write leaves the file with the first part of the frame.
LEMMA PushSomeRun ==
    ASSUME IndRun, PushSome
    PROVE  IndRun'
<1> DEFINE f == pending[1].frame
           q == [pending[1] EXCEPT !.done = 1]
<1>0. pc = "push" /\ pending[1].done = 0
  BY DEF PushSome
<1>1. /\ pending # <<>> /\ Len(pending) = 1
      /\ f \in Frame /\ RunningInv
      /\ f.seq = written + 1 /\ f.prev = Ids(file, written)
      /\ Len(file) = 2 * written + 2
      /\ written \in Nat
  BY <1>0, PendingFacts
<1>2. file \in Seq(Cell) /\ durable \in 0..Len(file)
  BY DEF IndRun, TypeOK, DiskType
<1>3. file' = Append(file, [what |-> f, part |-> 1]) /\ pending' = <<q>>
  BY <1>1, TwoCellsType DEF PushSome
<1>4. [what |-> f, part |-> 1] \in Cell
  BY <1>1 DEF Cell, Frame
<1>5. /\ file' \in Seq(Cell) /\ Len(file') = 2 * written + 3
      /\ \A i \in 1..Len(file) : file'[i] = file[i]
      /\ file'[2 * written + 3] = [what |-> f, part |-> 1]
  <2>1. /\ file' \in Seq(Cell) /\ Len(file') = Len(file) + 1
        /\ \A i \in 1..Len(file) : file'[i] = file[i]
        /\ file'[Len(file) + 1] = [what |-> f, part |-> 1]
    BY <1>2, <1>3, <1>4, AppendProperties
  <2>2. Len(file) + 1 = 2 * written + 3
    BY <1>1
  <2>3. QED
    BY <2>1, <2>2
<1>6. Well(file') /\ Ids(file', written) = Ids(file, written)
  <2>1. Well(file)
    BY <1>1 DEF RunningInv
  <2>2. Len(file') # 2 * written + 4
    BY <1>1, <1>5
  <2> HIDE DEF f
  <2>3. Extends(file, file', written, f)
    BY <1>1, <1>5, <2>2 DEF Extends
  <2>4. QED
    BY <1>1, <1>2, <1>5, <2>1, <2>3, WellExtend
<1>7. q \in [frame : Frame, done : 0..1] /\ q.frame = f /\ q.done = 1
  <2>1. pending[1] \in [frame : Frame, done : 0..1]
    BY <1>1, Singleton DEF IndRun, TypeOK, ProcessType
  <2>2. QED
    BY <2>1
<1> HIDE DEF q, f
<1>8. /\ pending' \in Seq([frame : Frame, done : 0..1])
      /\ Len(pending') = 1 /\ pending'[1] = q /\ pending' # <<>>
  BY <1>3, <1>7
<1>9. UNCHANGED <<durable, wm, pc, head, written, acked, degraded, promise,
                  recorded, lies, rots>>
  BY DEF PushSome, counters, history
<1>10. DiskType'
  BY <1>1, <1>2, <1>5, <1>9 DEF IndRun, TypeOK, DiskType
<1>11. ProcessType' /\ HistoryType'
  BY <1>8, <1>9 DEF IndRun, TypeOK, ProcessType, HistoryType
<1>12. RunningInv'
  <2>1. Len(file') = EndOf(written') + (IF pending' = <<>> THEN 0 ELSE pending'[1].done)
    BY <1>1, <1>5, <1>7, <1>8, <1>9 DEF EndOf
  <2>2. /\ head' = Ids(file', written') /\ Len(head') = written'
        /\ acked' <= written'
    BY <1>1, <1>6, <1>9 DEF RunningInv
  <2>3. pending'[1].frame.seq = written' + 1 /\ pending'[1].frame.prev = head'
    BY <1>1, <1>7, <1>8, <1>9 DEF RunningInv
  <2>4. file'[Len(file')] = [what |-> pending'[1].frame, part |-> 1]
    BY <1>5, <1>7, <1>8
  <2>5. QED
    BY <1>6, <1>8, <2>1, <2>2, <2>3, <2>4 DEF RunningInv
<1>13. RunInv'
  BY <1>0, <1>9, <1>12 DEF RunInv
<1>14. QED
  BY <1>10, <1>11, <1>13 DEF IndRun, TypeOK

\* Positions past the end of the first of two joined sequences.
LEMMA PastTheEnd ==
    ASSUME NEW a \in Nat, NEW b \in Nat, NEW i \in 1..b
    PROVE  a + i \in 1..(a + b) /\ ~ (a + i <= a) /\ (a + i) - a = i
OBVIOUS

\* Writing the rest of the frame extends the well-formed file by one record.
LEMMA PushRestFile ==
    ASSUME IndRun, PushRest
    PROVE  /\ file' \in Seq(Cell) /\ Len(file') = 2 * written + 4
           /\ Well(file')
           /\ \A i \in 1..Len(file) : file'[i] = file[i]
           /\ Ids(file', written + 1) = head'
           /\ head' \in Seq(Id) /\ Len(head') = written + 1
           /\ head' = Append(Ids(file, written), pending[1].frame.id)
<1> DEFINE f == pending[1].frame
           m == pending[1].done
           t == SubSeq(TwoCells(f), m + 1, 2)
<1>0. pc = "push"
  BY DEF PushRest
<1>1. /\ f \in Frame /\ m \in 0..1
      /\ RunningInv
      /\ f.seq = written + 1 /\ f.prev = Ids(file, written)
      /\ Len(file) = 2 * written + 2 + m
      /\ m = 1 => file[2 * written + 3] = [what |-> f, part |-> 1]
      /\ written \in Nat
  BY <1>0, PendingFacts
<1>2. file \in Seq(Cell)
  BY DEF IndRun, TypeOK, DiskType
<1>3. file' = file \o t /\ head' = Append(f.prev, f.id)
  BY DEF PushRest
<1> HIDE DEF f, m
<1>4. /\ \A i \in 1..2 : TwoCells(f)[i] \in Cell
      /\ TwoCells(f)[1] = [what |-> f, part |-> 1]
      /\ TwoCells(f)[2] = [what |-> f, part |-> 2]
  BY <1>1, TwoCellsType, ElementOfSeq
<1>5. /\ t \in Seq(Cell)
      /\ Len(t) = 2 - m
      /\ \A i \in 1..(2 - m) : t[i] = TwoCells(f)[m + i]
  <2>1. /\ t \in Seq(Cell)
        /\ Len(t) = IF m + 1 <= 2 THEN 2 - (m + 1) + 1 ELSE 0
        /\ \A i \in 1..(2 - (m + 1) + 1) : t[i] = TwoCells(f)[(m + 1) + i - 1]
    <3>1. \A i \in (m + 1)..2 : TwoCells(f)[i] \in Cell
      BY <1>1, <1>4
    <3>2. m + 1 \in Int
      BY <1>1
    <3>3. QED
      BY <3>1, <3>2, SubSeqProperties
  <2> HIDE DEF t
  <2>2. Len(t) = 2 - m
    BY <1>1, <2>1
  <2>3. ASSUME NEW i \in 1..(2 - m)
        PROVE  t[i] = TwoCells(f)[m + i]
    <3>1. i \in 1..(2 - (m + 1) + 1) /\ (m + 1) + i - 1 = m + i
      BY <1>1
    <3>2. QED
      BY <2>1, <3>1
  <2>4. QED
    BY <2>1, <2>2, <2>3
<1> HIDE DEF t
<1>6. /\ file' \in Seq(Cell) /\ Len(file') = 2 * written + 4
      /\ \A i \in 1..Len(file) : file'[i] = file[i]
      /\ \A i \in 1..(2 - m) : file'[Len(file) + i] = TwoCells(f)[m + i]
  <2>1. /\ file' \in Seq(Cell)
        /\ Len(file') = Len(file) + Len(t)
        /\ \A i \in 1..(Len(file) + Len(t)) :
              file'[i] = IF i <= Len(file) THEN file[i] ELSE t[i - Len(file)]
    BY <1>2, <1>3, <1>5, ConcatProperties
  <2>2. Len(file') = 2 * written + 4
    BY <1>1, <1>5, <2>1
  <2>3. ASSUME NEW i \in 1..Len(file)
        PROVE  file'[i] = file[i]
    <3>1. i \in 1..(Len(file) + Len(t)) /\ i <= Len(file)
      BY <1>1, <1>5
    <3>2. QED
      BY <2>1, <3>1
  <2>4. ASSUME NEW i \in 1..(2 - m)
        PROVE  file'[Len(file) + i] = TwoCells(f)[m + i]
    <3>1. /\ Len(file) + i \in 1..(Len(file) + Len(t))
          /\ ~ (Len(file) + i <= Len(file))
          /\ (Len(file) + i) - Len(file) = i
      <4>1. Len(file) \in Nat /\ Len(t) \in Nat
        BY <1>2, <1>5
      <4>2. i \in 1..Len(t)
        BY <1>5
      <4>3. QED
        BY <4>1, <4>2, PastTheEnd
    <3> DEFINE x == Len(file) + i
    <3> HIDE DEF x
    <3>2. x \in 1..(Len(file) + Len(t)) /\ ~ (x <= Len(file)) /\ x - Len(file) = i
      BY <3>1 DEF x
    <3>3. file'[x] = t[x - Len(file)]
      BY <2>1, <3>2
    <3>4. file'[Len(file) + i] = t[i]
      BY <3>2, <3>3 DEF x
    <3>5. QED
      BY <1>5, <3>4
  <2>5. QED
    BY <2>1, <2>2, <2>3, <2>4
<1>7. file'[2 * written + 3] = [what |-> f, part |-> 1]
  <2>1. CASE m = 0
    <3>1. Len(file) + 1 = 2 * written + 3 /\ m + 1 = 1 /\ 1 \in 1..(2 - m)
      BY <1>1, <2>1
    <3>2. QED
      BY <1>4, <1>6, <3>1
  <2>2. CASE m = 1
    <3>1. 2 * written + 3 \in 1..Len(file)
      BY <1>1, <2>2
    <3>2. QED
      BY <1>1, <1>6, <2>2, <3>1
  <2>3. QED
    BY <1>1, <2>1, <2>2
<1>8. file'[2 * written + 4] = [what |-> f, part |-> 2]
  <2>1. /\ 2 - m \in 1..(2 - m) /\ Len(file) + (2 - m) = 2 * written + 4
        /\ m + (2 - m) = 2
    BY <1>1
  <2>2. QED
    BY <1>4, <1>6, <2>1
<1>9. Extends(file, file', written, f)
  BY <1>1, <1>6, <1>7, <1>8 DEF Extends
<1>10. Well(file')
  <2>1. Well(file)
    BY <1>1 DEF RunningInv
  <2>2. QED
    BY <1>1, <1>2, <1>6, <1>9, <2>1, WellExtend
<1>11. Ids(file', written) = Ids(file, written)
  <2>1. Well(file)
    BY <1>1 DEF RunningInv
  <2>2. QED
    BY <1>1, <1>2, <1>6, <1>9, <2>1, WellExtend
<1>12. \A i \in 1..(written + 1) : file'[2 * i + 1].what.id \in Id
  <2> SUFFICES ASSUME NEW i \in 1..(written + 1)
               PROVE  file'[2 * i + 1].what.id \in Id
    OBVIOUS
  <2>1. i \in Nat \ {0} /\ 2 * i + 1 <= Len(file')
    BY <1>1, <1>6
  <2>2. BeginsFrame(file', i)
    BY <1>10, <2>1 DEF Well
  <2>3. QED
    BY <2>2 DEF BeginsFrame, Frame
<1>13. Ids(file', written + 1) \in Seq(Id) /\ Len(Ids(file', written + 1)) = written + 1
  <2>1. written + 1 \in Nat
    BY <1>1
  <2>2. QED
    BY <1>12, <2>1, IdsType
<1>14. Append(Ids(file', written), file'[2 * (written + 1) + 1].what.id)
          = Ids(file', written + 1)
  BY <1>1, <1>12, IdsAppend
<1>15. file'[2 * (written + 1) + 1].what.id = f.id
  <2>1. 2 * (written + 1) + 1 = 2 * written + 3
    BY <1>1
  <2>2. QED
    BY <1>7, <2>1
<1>16. head' = Ids(file', written + 1)
  BY <1>1, <1>3, <1>11, <1>14, <1>15
<1>17. QED
  BY <1>1, <1>3, <1>6, <1>10, <1>13, <1>16 DEF f

\* push_pending to its end moves head and written together with the file.
LEMMA PushRestRun ==
    ASSUME IndRun, PushRest
    PROVE  IndRun'
<1>0. pc = "push" /\ written \in Nat /\ acked \in Nat /\ acked <= written
      /\ pending[1].frame.seq = written + 1
  BY PendingFacts DEF PushRest, IndRun, TypeOK, ProcessType, RunningInv
<1>1. /\ file' \in Seq(Cell) /\ Len(file') = 2 * written + 4
      /\ Well(file')
      /\ Ids(file', written + 1) = head'
      /\ head' \in Seq(Id) /\ Len(head') = written + 1
  BY PushRestFile
<1>2. /\ pc' = "up" /\ pending' = <<>> /\ written' = written + 1
      /\ UNCHANGED <<durable, wm, acked, promise, recorded, lies, rots>>
  BY <1>0 DEF PushRest, history
<1>3. degraded' \in BOOLEAN
  BY DEF PushRest
<1>4. DiskType'
  <2>1. Len(file) <= 2 * written + 3 /\ Len(file) \in Nat /\ durable \in 0..Len(file)
    BY <1>0, PendingFacts DEF IndRun, TypeOK, DiskType
  <2>2. durable' \in 0..Len(file')
    BY <1>0, <1>1, <1>2, <2>1
  <2>3. QED
    BY <1>1, <1>2, <2>2 DEF IndRun, TypeOK, DiskType
<1>5. ProcessType' /\ HistoryType'
  <2>1. (pending \in Seq([frame : Frame, done : 0..1]) /\ Len(pending) <= 1)'
    BY <1>2
  <2>2. QED
    BY <1>0, <1>1, <1>2, <1>3, <2>1
       DEF IndRun, TypeOK, ProcessType, HistoryType
<1>6. RunningInv'
  <2>1. Len(file') = EndOf(written') + (IF pending' = <<>> THEN 0 ELSE pending'[1].done)
    BY <1>0, <1>1, <1>2 DEF EndOf
  <2>2. acked' <= written'
    BY <1>0, <1>2
  <2>3. QED
    BY <1>1, <1>2, <2>1, <2>2 DEF RunningInv
<1>7. RunInv'
  BY <1>2, <1>6 DEF RunInv
<1>8. QED
  BY <1>4, <1>5, <1>7 DEF IndRun, TypeOK

\* A write that is refused changes nothing the process believes.
LEMMA PushStopsRun ==
    ASSUME IndRun, PushStops
    PROVE  IndRun'
<1>1. /\ pc = "push" /\ pc' = "up"
      /\ UNCHANGED <<file, durable, wm, head, written, acked, pending, promise,
                     recorded, lies, rots>>
  BY DEF PushStops, disk, counters, history
<1>2. degraded' \in BOOLEAN
  BY DEF PushStops, IndRun, TypeOK, ProcessType
<1>3. TypeOK'
  BY <1>1, <1>2 DEF IndRun, TypeOK, DiskType, ProcessType, HistoryType
<1>4. RunningInv
  BY <1>1 DEF IndRun, RunInv, Running
<1>5. RunningInv'
  BY <1>1, <1>4, RunningFrame
<1>6. QED
  BY <1>1, <1>3, <1>5 DEF IndRun, RunInv

\* The steps of sync.
LEMMA SyncOkRun ==
    ASSUME IndRun, NEW lie \in BOOLEAN, SyncOk(lie)
    PROVE  IndRun'
<1>1. /\ pc = "up" /\ pc' = "ack_truncate" /\ acked' = written
      /\ UNCHANGED <<file, wm, head, written, pending, promise, recorded, rots>>
  BY DEF SyncOk
<1>2. degraded' \in BOOLEAN
  BY DEF SyncOk
<1>3. durable' \in 0..Len(file)
  <2>1. durable' = durable \/ durable' = Len(file)
    BY DEF SyncOk
  <2>2. QED
    BY <2>1 DEF IndRun, TypeOK, DiskType
<1>4. lies' \in 0..MaxLies
  <2>1. lies \in 0..MaxLies
    BY DEF IndRun, TypeOK, HistoryType
  <2>2. CASE lie
    <3>1. lies' = lies + 1 /\ lies < MaxLies
      BY <2>2 DEF SyncOk
    <3>2. QED
      BY <2>1, <3>1, BoundAssumption
  <2>3. CASE ~ lie
    <3>1. lies' = lies + 0
      BY <2>3 DEF SyncOk
    <3>2. QED
      BY <2>1, <3>1, BoundAssumption
  <2>4. QED
    BY <2>2, <2>3
<1>5. TypeOK'
  BY <1>1, <1>2, <1>3, <1>4 DEF IndRun, TypeOK, DiskType, ProcessType, HistoryType
<1>6. RunningInv
  BY <1>1 DEF IndRun, RunInv, Running
<1>7. acked' <= written'
  BY <1>1 DEF IndRun, TypeOK, ProcessType
<1>8. RunningInv'
  BY <1>1, <1>6, <1>7 DEF RunningInv
<1>9. QED
  BY <1>1, <1>5, <1>8 DEF IndRun, RunInv

\* A failed sync leaves what is believed of the file alone.
LEMMA SyncFailsRun ==
    ASSUME IndRun, SyncFails
    PROVE  IndRun'
<1>1. /\ pc = "up" /\ pc' = pc
      /\ UNCHANGED <<file, durable, wm, head, written, acked, pending, promise,
                     recorded, lies, rots>>
  BY DEF SyncFails, disk, counters, history
<1>2. degraded' \in BOOLEAN
  BY DEF SyncFails
<1>3. TypeOK'
  BY <1>1, <1>2 DEF IndRun, TypeOK, DiskType, ProcessType, HistoryType
<1>4. RunningInv
  BY <1>1 DEF IndRun, RunInv, Running
<1>5. RunningInv'
  BY <1>1, <1>4, RunningFrame
<1>6. QED
  BY <1>1, <1>3, <1>5 DEF IndRun, RunInv

InAck == pc \in {"ack_truncate", "ack_append", "ack_fsync"}

\* The steps of write_watermark leave the journal and its memory alone.
LEMMA AckRun ==
    ASSUME IndRun, InAck, pc' # "push", Running',
           UNCHANGED <<file, durable, head, written, acked, pending, degraded>>,
           wm' \in [val : Nat, len : 0..2, dur : 0..2], wm'.dur <= wm'.len,
           pc' \in {"up", "ack_append", "ack_fsync"}, HistoryType'
    PROVE  IndRun'
<1>1. RunningInv
  BY DEF IndRun, RunInv, Running, InAck
<1>2. RunningInv'
  BY <1>1, RunningFrame
<1>3. TypeOK'
  BY DEF IndRun, TypeOK, DiskType, ProcessType
<1>4. QED
  BY <1>2, <1>3 DEF IndRun, RunInv

\* What sync returns is a prefix of the chain it has.
LEMMA PromiseType ==
    ASSUME IndRun, InAck, SyncReturns
    PROVE  promise' \in Seq(Id)
<1>1. RunningInv
  BY DEF IndRun, RunInv, Running, InAck
<1>2. head \in Seq(Id) /\ acked \in Nat /\ acked <= Len(head)
  BY <1>1 DEF RunningInv, IndRun, TypeOK, ProcessType
<1>3. QED
  BY <1>2, PrefixOf DEF SyncReturns

\* The steps of write_watermark touch only the watermark file.
LEMMA AckStepsRun ==
    ASSUME IndRun,
           AckTruncate \/ AckAppend \/ (\E lie \in BOOLEAN : AckFsync(lie)) \/ AckFails
    PROVE  IndRun'
<1>0. /\ wm \in [val : Nat, len : 0..2, dur : 0..2] /\ wm.dur <= wm.len
      /\ acked \in Nat /\ HistoryType
  BY DEF IndRun, TypeOK, DiskType, ProcessType
<1>1. CASE AckTruncate
  <2>1. /\ InAck /\ pc' = "ack_append"
        /\ UNCHANGED <<file, durable, head, written, acked, pending, degraded>>
        /\ wm' = [val |-> 0, len |-> 0, dur |-> 0]
    BY <1>1 DEF AckTruncate, InAck, memory, counters
  <2>2. wm' \in [val : Nat, len : 0..2, dur : 0..2] /\ wm'.dur <= wm'.len
    BY <2>1
  <2>3. HistoryType'
    BY <1>0, <1>1 DEF AckTruncate, HistoryType, history
  <2>4. Running'
    BY <2>1 DEF Running
  <2>5. QED
    BY <2>1, <2>2, <2>3, <2>4, AckRun
<1>2. CASE AckAppend
  <2>1. /\ InAck /\ pc' \in {"ack_append", "ack_fsync"}
        /\ UNCHANGED <<file, durable, head, written, acked, pending, degraded>>
    BY <1>2 DEF AckAppend, InAck, memory, counters
  <2>2. PICK n \in (wm.len + 1)..2 : wm' = [val |-> acked, len |-> n, dur |-> wm.dur]
    BY <1>2 DEF AckAppend
  <2>3. wm' \in [val : Nat, len : 0..2, dur : 0..2] /\ wm'.dur <= wm'.len
    <3>1. wm.len \in 0..2 /\ wm.dur \in 0..2
      BY <1>0
    <3>2. n \in 0..2 /\ wm.dur <= n
      BY <1>0, <3>1
    <3>3. QED
      BY <1>0, <2>2, <3>1, <3>2
  <2>4. HistoryType'
    BY <1>0, <1>2 DEF AckAppend, HistoryType, history
  <2>5. Running'
    BY <2>1 DEF Running
  <2>6. QED
    BY <2>1, <2>3, <2>4, <2>5, AckRun
<1>3. CASE \E lie \in BOOLEAN : AckFsync(lie)
  <2>1. PICK lie \in BOOLEAN : AckFsync(lie)
    BY <1>3
  <2>2. /\ InAck /\ pc' = "up" /\ SyncReturns /\ rots' = rots
        /\ UNCHANGED <<file, durable, head, written, acked, pending, degraded>>
    BY <2>1 DEF AckFsync, InAck, SyncReturns, memory, counters
  <2>3. wm' \in [val : Nat, len : 0..2, dur : 0..2] /\ wm'.dur <= wm'.len
    <3>1. wm' = wm \/ wm' = [wm EXCEPT !.dur = wm.len]
      BY <2>1 DEF AckFsync
    <3>2. QED
      BY <1>0, <3>1
  <2>4. lies' \in 0..MaxLies
    <3>1. lies \in 0..MaxLies
      BY <1>0 DEF HistoryType
    <3>2. CASE lie
      <4>1. lies' = lies + 1 /\ lies < MaxLies
        BY <2>1, <3>2 DEF AckFsync
      <4>2. QED
        BY <3>1, <4>1, BoundAssumption
    <3>3. CASE ~ lie
      <4>1. lies' = lies + 0
        BY <2>1, <3>3 DEF AckFsync
      <4>2. QED
        BY <3>1, <4>1, BoundAssumption
    <3>4. QED
      BY <3>2, <3>3
  <2>5. recorded' \in Nat
    <3>1. recorded' = recorded \/ recorded' = acked
      BY <2>1 DEF AckFsync
    <3>2. QED
      BY <1>0, <3>1 DEF HistoryType
  <2>6. HistoryType'
    BY <1>0, <2>2, <2>4, <2>5, PromiseType DEF HistoryType
  <2>7. Running'
    BY <2>2 DEF Running
  <2>8. QED
    BY <2>2, <2>3, <2>6, <2>7, AckRun
<1>4. CASE AckFails
  <2>1. /\ InAck /\ pc' = "up" /\ SyncReturns
        /\ UNCHANGED <<recorded, lies, rots, wm>>
        /\ UNCHANGED <<file, durable, head, written, acked, pending, degraded>>
    BY <1>4 DEF AckFails, InAck, SyncReturns, memory, counters, disk
  <2>2. HistoryType'
    BY <1>0, <2>1, PromiseType DEF HistoryType
  <2>3. Running'
    BY <2>1 DEF Running
  <2>4. wm' \in [val : Nat, len : 0..2, dur : 0..2] /\ wm'.dur <= wm'.len
    BY <1>0, <2>1
  <2>5. QED
    BY <2>1, <2>2, <2>3, <2>4, AckRun
<1>5. QED
  BY <1>1, <1>2, <1>3, <1>4

\* The steps of the environment.
LEMMA LoseTailsDisk ==
    ASSUME IndRun, LoseTails
    PROVE  /\ DiskType'
           /\ Len(file') <= Len(file) /\ durable <= Len(file')
           /\ durable' = Len(file')
           /\ \A i \in 1..Len(file') : file'[i] = file[i]
           /\ wm'.val = wm.val
           /\ wm'.len = 2 => wm.len = 2
<1>0. /\ file \in Seq(Cell) /\ durable \in 0..Len(file) /\ Len(file) \in Nat
      /\ wm \in [val : Nat, len : 0..2, dur : 0..2] /\ wm.dur <= wm.len
  BY DEF IndRun, TypeOK, DiskType
<1>1. PICK n \in durable..Len(file), m \in wm.dur..wm.len :
          /\ file' = SubSeq(file, 1, n)
          /\ durable' = n
          /\ wm' = [val |-> wm.val, len |-> m, dur |-> m]
  BY DEF LoseTails
<1>2. n \in Nat /\ n <= Len(file) /\ durable <= n
  BY <1>0
<1>3. wm.dur \in 0..2 /\ wm.len \in 0..2 /\ wm.val \in Nat
  BY <1>0
<1>4. m \in 0..2 /\ (m = 2 => wm.len = 2)
  BY <1>3
<1>5. /\ file' \in Seq(Cell) /\ Len(file') = n
      /\ \A i \in 1..n : file'[i] = file[i]
  BY <1>0, <1>1, <1>2, PrefixOf
<1>6. wm' \in [val : Nat, len : 0..2, dur : 0..2] /\ wm'.dur <= wm'.len
  BY <1>1, <1>3, <1>4
<1>7. DiskType'
  BY <1>1, <1>2, <1>5, <1>6 DEF DiskType
<1>8. QED
  BY <1>1, <1>2, <1>4, <1>5, <1>7

\* An exit, a power cut and rot happen to a process that is gone, or end it.
LEMMA EnvironmentRun ==
    ASSUME IndRun, Exit \/ PowerCut \/ PowerCutThenRecover \/ Rot
    PROVE  IndRun'
<1>1. CASE Exit
  <2>1. DiskType' /\ HistoryType'
    BY <1>1 DEF Exit, IndRun, TypeOK, DiskType, HistoryType, disk, history
  <2>2. QED
    BY <1>1, <2>1, FreshRun DEF Exit
<1>2. CASE PowerCut
  <2>1. DiskType'
    BY <1>2, LoseTailsDisk DEF PowerCut
  <2>2. HistoryType'
    BY <1>2 DEF PowerCut, IndRun, TypeOK, HistoryType, history
  <2>3. QED
    BY <1>2, <2>1, <2>2, FreshRun DEF PowerCut
<1>3. CASE PowerCutThenRecover
  <2>1. DiskType'
    BY <1>3, LoseTailsDisk DEF PowerCutThenRecover
  <2>2. HistoryType' /\ ProcessType' /\ pc' = "boot"
    BY <1>3 DEF PowerCutThenRecover, IndRun, TypeOK, HistoryType, ProcessType,
                history, memory, counters
  <2>3. RunInv'
    BY <2>2 DEF RunInv, Running
  <2>4. QED
    BY <2>1, <2>2, <2>3 DEF IndRun, TypeOK
<1>4. CASE Rot
  <2>1. PICK i \in 1..Len(file) : file' = [file EXCEPT ![i].what = NoFrame(Junk)]
    BY <1>4 DEF Rot
  <2>2. file \in Seq(Cell)
    BY DEF IndRun, TypeOK, DiskType
  <2>3. [file[i] EXCEPT !.what = NoFrame(Junk)] \in Cell
    <3>1. file[i] \in Cell
      BY <2>2, ElementOfSeq
    <3>2. NoFrame(Junk) \in [seq : Nat, prev : Seq(Id), id : Id \cup Special]
      BY DEF NoFrame, Special
    <3>3. QED
      BY <3>1, <3>2 DEF Cell
  <2>4. file' \in Seq(Cell) /\ Len(file') = Len(file)
    <3>1. file' = [file EXCEPT ![i] = [file[i] EXCEPT !.what = NoFrame(Junk)]]
      BY <2>1
    <3>2. QED
      BY <2>2, <2>3, <3>1, ExceptSeq
  <2>5. DiskType'
    BY <1>4, <2>4 DEF Rot, IndRun, TypeOK, DiskType
  <2>6. rots' \in 0..MaxRot
    BY <1>4, BoundAssumption DEF Rot, IndRun, TypeOK, HistoryType
  <2>7. HistoryType' /\ ProcessType' /\ pc' = "down"
    BY <1>4, <2>6 DEF Rot, IndRun, TypeOK, HistoryType, ProcessType, memory, counters
  <2>8. RunInv'
    BY <2>7 DEF RunInv, Running
  <2>9. QED
    BY <2>5, <2>7, <2>8 DEF IndRun, TypeOK
<1>5. QED
  BY <1>1, <1>2, <1>3, <1>4

\* A stuttering step keeps the invariant.
LEMMA StutterRun ==
    ASSUME IndRun, UNCHANGED vars
    PROVE  IndRun'
<1>1. UNCHANGED <<file, durable, wm, pc, head, written, acked, pending, degraded,
                  promise, recorded, lies, rots>>
  BY DEF vars, disk, memory, counters, history
<1>2. TypeOK'
  BY <1>1 DEF IndRun, TypeOK, DiskType, ProcessType, HistoryType
<1>3. RunningInv => RunningInv'
  BY <1>1 DEF RunningInv
<1>4. RunInv'
  BY <1>1, <1>3 DEF IndRun, RunInv, Running
<1>5. QED
  BY <1>2, <1>4 DEF IndRun

\* Every step keeps the type invariant and the beliefs of the process.
LEMMA NextRun ==
    ASSUME IndRun, [Next]_vars
    PROVE  IndRun'
<1>1. CASE Open \/ Recover
  BY <1>1, OpenRun
<1>2. CASE EnsureHeader
  BY <1>2, EnsureHeaderRun
<1>3. CASE WriteHeader
  BY <1>3, WriteHeaderRun
<1>4. CASE OpenFails
  BY <1>4, RefuseRun DEF OpenFails
<1>5. CASE Adopt
  BY <1>5, AdoptRun
<1>6. CASE \E id \in Id : AppendRecord(id)
  BY <1>6, AppendRun
<1>7. CASE PushSome
  BY <1>7, PushSomeRun
<1>8. CASE PushRest
  BY <1>8, PushRestRun
<1>9. CASE PushStops
  BY <1>9, PushStopsRun
<1>10. CASE \E lie \in BOOLEAN : SyncOk(lie)
  BY <1>10, SyncOkRun
<1>11. CASE SyncFails
  BY <1>11, SyncFailsRun
<1>12. CASE AckTruncate \/ AckAppend \/ (\E lie \in BOOLEAN : AckFsync(lie)) \/ AckFails
  BY <1>12, AckStepsRun
<1>13. CASE Exit \/ PowerCut \/ PowerCutThenRecover \/ Rot
  BY <1>13, EnvironmentRun
<1>14. CASE UNCHANGED vars
  BY <1>14, StutterRun
<1>15. QED
  BY <1>1, <1>2, <1>3, <1>4, <1>5, <1>6, <1>7, <1>8, <1>9, <1>10, <1>11, <1>12,
     <1>13, <1>14 DEF Next

\* Every variable outside the DedupWindow keeps its type, whatever the disk
\* does to the file.
THEOREM TypeCorrect == Spec => []TypeOK
<1>1. Init => IndRun
  BY InitRun
<1>2. IndRun /\ [Next]_vars => IndRun'
  BY NextRun
<1>3. IndRun => TypeOK
  BY DEF IndRun
<1>4. QED
  BY <1>1, <1>2, <1>3, PTL DEF Spec

\* Whenever the process may append, its chain head, its count and its
\* outstanding record are what is on the file: after any crash, torn write,
\* rotten cell or lying flush, and for every length of the journal.
THEOREM MemoryCorrect == Spec => []MemoryMatchesFile
<1>1. Init => IndRun
  BY InitRun
<1>2. IndRun /\ [Next]_vars => IndRun'
  BY NextRun
<1>3. IndRun => MemoryMatchesFile
  <2> SUFFICES ASSUME IndRun, Running PROVE
          /\ WalkStopsAfter(file, written)
          /\ head = Ids(file, written)
          /\ Len(file) = EndOf(written)
                          + IF pending = <<>> THEN 0 ELSE pending[1].done
    BY DEF MemoryMatchesFile
  <2>1. RunningInv /\ file \in Seq(Cell) /\ written \in Nat
    BY DEF IndRun, RunInv, TypeOK, DiskType, ProcessType
  <2>2. Len(file) \in 2 * written + 2 .. 2 * written + 3
    <3>1. CASE pending = <<>>
      BY <2>1, <3>1 DEF RunningInv, EndOf
    <3>2. CASE pending # <<>>
      <4>1. pending[1] \in [frame : Frame, done : 0..1]
        BY <3>2, Singleton DEF IndRun, TypeOK, ProcessType
      <4>2. pending[1].done \in 0..1
        BY <4>1
      <4>3. Len(file) = 2 * written + 2 + pending[1].done
        BY <2>1, <3>2 DEF RunningInv, EndOf
      <4>4. QED
        BY <2>1, <4>2, <4>3
    <3>3. QED
      BY <3>1, <3>2
  <2>3. \A k \in 1..written : Follows(file, k)
    <3> SUFFICES ASSUME NEW k \in 1..written PROVE Follows(file, k)
      OBVIOUS
    <3>1. k \in Nat \ {0} /\ 2 * k + 2 <= Len(file)
      BY <2>1, <2>2
    <3>2. Well(file)
      BY <2>1 DEF RunningInv
    <3>3. QED
      BY <2>1, <3>1, <3>2, WellFollows
  <2>4. ~ Follows(file, written + 1)
    <3>1. written + 1 \in Nat \ {0} /\ ~ (2 * (written + 1) + 2 <= Len(file))
      BY <2>1, <2>2
    <3>2. Well(file)
      BY <2>1 DEF RunningInv
    <3>3. QED
      BY <2>1, <3>1, <3>2, WellFollows
  <2>5. QED
    BY <2>1, <2>3, <2>4 DEF RunningInv, WalkStopsAfter
<1>4. QED
  BY <1>1, <1>2, <1>3, PTL DEF Spec

(***************************************************************************)
(* The honest disk.                                                        *)
(***************************************************************************)

Inside(n, d) == n # 0 => EndOf(n) <= d

PromiseInside ==
    promise # <<>> => /\ EndOf(Len(promise)) <= durable
                      /\ Ids(file, Len(promise)) = promise

\* This journal's own file, cut anywhere: whatever was promised, written down
\* or counted as acked lies in its durable part.
OursInv ==
    /\ Well(file)
    /\ PromiseInside
    /\ Inside(ReadWatermark, durable)
    /\ Inside(acked, durable)

\* A file of somebody else, which no process gets past the header of.
ForeignInv ==
    /\ file \in {Foreign(OtherOwner), Foreign(NotJournal)}
    /\ durable = 2
    /\ pc \in {"down", "boot"}
    /\ promise = <<>>
    /\ wm.len # 2

Quiet == ~ ret.alarm /\ ret.kind \notin {"CorruptHeader", "CorruptMidFile"}

HonestInv == HonestDisk => (ForeignInv \/ OursInv) /\ Quiet

\* What keeps the promises inside: the durable part loses no whole frame and
\* the cells of it stay.
LEMMA OursKept ==
    ASSUME IndRun, IndRun', OursInv, Well(file'),
           \A k \in Nat : EndOf(k) <= durable => EndOf(k) <= durable',
           \A i \in 1..durable : i <= durable' => file'[i] = file[i],
           promise' = promise,
           ReadWatermark' = ReadWatermark \/ ReadWatermark' = 0,
           acked' = acked \/ acked' = 0
    PROVE  OursInv'
<1>0. /\ durable \in Nat /\ durable' \in Nat /\ acked \in Nat
      /\ promise \in Seq(Id) /\ ReadWatermark \in Nat
  BY DEF IndRun, TypeOK, DiskType, ProcessType, HistoryType, ReadWatermark
<1>1. PromiseInside'
  <2> SUFFICES ASSUME promise # <<>>
               PROVE  /\ EndOf(Len(promise)) <= durable'
                      /\ Ids(file', Len(promise)) = promise
    BY DEF PromiseInside
  <2>1. EndOf(Len(promise)) <= durable /\ Ids(file, Len(promise)) = promise
    BY DEF OursInv, PromiseInside
  <2>2. Len(promise) \in Nat
    BY <1>0
  <2>3. EndOf(Len(promise)) <= durable'
    BY <2>1, <2>2
  <2>4. \A i \in 1..Len(promise) : file'[2 * i + 1] = file[2 * i + 1]
    <3> SUFFICES ASSUME NEW i \in 1..Len(promise)
                 PROVE  file'[2 * i + 1] = file[2 * i + 1]
      OBVIOUS
    <3>1. 2 * i + 1 \in 1..durable /\ 2 * i + 1 <= durable'
      BY <1>0, <2>1, <2>2, <2>3 DEF EndOf
    <3>2. QED
      BY <3>1
  <2>5. QED
    BY <2>1, <2>2, <2>3, <2>4, IdsAgree
<1>2. Inside(ReadWatermark, durable)'
  <2>1. Inside(ReadWatermark, durable)
    BY DEF OursInv
  <2>2. CASE ReadWatermark' = 0
    BY <2>2 DEF Inside
  <2>3. CASE ReadWatermark' = ReadWatermark
    BY <1>0, <2>1, <2>3 DEF Inside
  <2>4. QED
    BY <2>2, <2>3
<1>3. Inside(acked, durable)'
  <2>1. Inside(acked, durable)
    BY DEF OursInv
  <2>2. QED
    BY <1>0, <2>1 DEF Inside
<1>4. QED
  BY <1>1, <1>2, <1>3 DEF OursInv

\* Steps that leave the file and its promises alone.
LEMMA OursUnchanged ==
    ASSUME IndRun, IndRun', OursInv,
           UNCHANGED <<file, durable, wm, promise>>,
           acked' = acked \/ acked' = 0
    PROVE  OursInv'
<1>1. Well(file')
  BY DEF OursInv
<1>2. ReadWatermark' = ReadWatermark
  BY DEF ReadWatermark
<1>3. durable \in Nat
  BY DEF IndRun, TypeOK, DiskType
<1>4. QED
  BY <1>1, <1>2, <1>3, OursKept

\* Steps that put something after what is there.
LEMMA OursAppended ==
    ASSUME IndRun, IndRun', OursInv, Well(file'),
           \A i \in 1..Len(file) : file'[i] = file[i],
           UNCHANGED <<durable, wm, promise, acked>>
    PROVE  OursInv'
<1>1. ReadWatermark' = ReadWatermark
  BY DEF ReadWatermark
<1>2. durable \in 0..Len(file) /\ Len(file) \in Nat
  BY DEF IndRun, TypeOK, DiskType
<1>3. \A i \in 1..durable : file'[i] = file[i]
  BY <1>2
<1>4. QED
  BY <1>1, <1>3, OursKept

\* Less than a whole header behind which nothing can be promised.
LEMMA OursEmpty ==
    ASSUME IndRun, OursInv, durable < 4
    PROVE  promise = <<>> /\ ReadWatermark = 0 /\ acked = 0
<1>0. /\ durable \in Nat /\ acked \in Nat
      /\ promise \in Seq(Id) /\ ReadWatermark \in Nat
  BY DEF IndRun, TypeOK, DiskType, ProcessType, HistoryType, ReadWatermark
<1>1. \A n \in Nat : Inside(n, durable) => n = 0
  BY <1>0 DEF Inside, EndOf
<1>2. ReadWatermark = 0 /\ acked = 0
  BY <1>0, <1>1 DEF OursInv
<1>3. promise = <<>>
  <2> SUFFICES ASSUME promise # <<>> PROVE FALSE
    OBVIOUS
  <2>1. EndOf(Len(promise)) <= durable
    BY DEF OursInv, PromiseInside
  <2>2. Len(promise) \in Nat /\ Len(promise) # 0
    BY <1>0, EmptySeq
  <2>3. QED
    BY <1>0, <2>1, <2>2 DEF EndOf
<1>4. QED
  BY <1>2, <1>3

\* A disk that is honest after a step was honest before it.
LEMMA HonestBefore ==
    ASSUME IndRun, [Next]_vars, HonestDisk'
    PROVE  HonestDisk /\ ~ Rot /\ ~ SyncOk(TRUE) /\ ~ AckFsync(TRUE)
<1>0. lies \in Nat /\ rots \in Nat /\ lies' = 0 /\ rots' = 0
  BY BoundAssumption DEF IndRun, TypeOK, HistoryType, HonestDisk
<1>1. ~ Rot
  BY <1>0 DEF Rot
<1>2. ~ SyncOk(TRUE) /\ ~ AckFsync(TRUE)
  BY <1>0 DEF SyncOk, AckFsync
<1>3. CASE UNCHANGED <<lies, rots>>
  BY <1>0, <1>1, <1>2, <1>3 DEF HonestDisk
<1>4. CASE SyncOk(FALSE) \/ AckFsync(FALSE)
  <2>1. lies' = lies + 0 /\ rots' = rots
    BY <1>4 DEF SyncOk, AckFsync
  <2>2. lies = 0 /\ rots = 0
    BY <1>0, <2>1
  <2>3. QED
    BY <1>1, <1>2, <2>2 DEF HonestDisk
<1>5. UNCHANGED <<lies, rots>> \/ SyncOk(FALSE) \/ AckFsync(FALSE)
  <2>1. CASE UNCHANGED vars
    BY <2>1 DEF vars, history
  <2>2. CASE \/ Open \/ Recover \/ WriteHeader \/ OpenFails
             \/ PushSome \/ PushRest \/ PushStops \/ SyncFails
             \/ AckTruncate \/ AckAppend \/ AckFails
             \/ Exit \/ PowerCut \/ PowerCutThenRecover
    BY <2>2 DEF Open, Recover, WriteHeader, OpenFails, Refuse, PushSome, PushRest,
                PushStops, SyncFails, AckTruncate, AckAppend, AckFails, Exit,
                PowerCut, PowerCutThenRecover, history
  <2>3. CASE EnsureHeader
    BY <2>3 DEF EnsureHeader, Refuse, history
  <2>4. CASE Adopt
    BY <2>4 DEF Adopt, AdoptPrefix, Refuse, history
  <2>5. CASE \E id \in Id : AppendRecord(id)
    BY <2>5 DEF AppendRecord, history
  <2>6. CASE \E lie \in BOOLEAN : SyncOk(lie) \/ AckFsync(lie)
    BY <1>2, <2>6
  <2>7. QED
    BY <1>1, <2>1, <2>2, <2>3, <2>4, <2>5, <2>6 DEF Next
<1>6. QED
  BY <1>3, <1>4, <1>5

\* The ways a step ends a process or leaves it as it is.
LEMMA RefuseHonest ==
    ASSUME IndRun, IndRun', ForeignInv \/ OursInv, NEW why, Refuse(why),
           why \notin {"CorruptHeader", "CorruptMidFile"}
    PROVE  (ForeignInv' \/ OursInv') /\ Quiet'
<1>1. /\ UNCHANGED <<file, durable, wm, promise>>
      /\ acked' = 0 /\ pc' = "down" /\ ret' = Answer(why, NoId, 0)
  BY DEF Refuse, FreshMemory, disk, history
<1>2. Quiet'
  BY <1>1 DEF Quiet, Answer
<1>3. CASE ForeignInv
  BY <1>1, <1>2, <1>3 DEF ForeignInv
<1>4. CASE OursInv
  BY <1>1, <1>2, <1>4, OursUnchanged
<1>5. QED
  BY <1>3, <1>4

\* An answer that accuses nobody keeps the journal quiet.
LEMMA QuietAnswers ==
    ASSUME NEW kind, NEW id, NEW seq, ret' = Answer(kind, id, seq),
           kind \notin {"CorruptHeader", "CorruptMidFile"}
    PROVE  Quiet'
BY DEF Quiet, Answer

\* Opening starts from what the disk holds.
LEMMA OpenHonest ==
    ASSUME IndRun, IndRun', ForeignInv \/ OursInv, Open \/ Recover
    PROVE  (ForeignInv' \/ OursInv') /\ Quiet'
<1>1. /\ UNCHANGED <<file, durable, wm, promise, acked>>
      /\ pc' = "boot" /\ ret' = NoAnswer
  BY DEF Open, Recover, disk, history, memory, counters
<1>2. Quiet'
  BY <1>1, QuietAnswers DEF NoAnswer
<1>3. CASE ForeignInv
  BY <1>1, <1>2, <1>3 DEF ForeignInv
<1>4. CASE OursInv
  BY <1>1, <1>2, <1>4, OursUnchanged
<1>5. QED
  BY <1>3, <1>4

\* What the header of a file that is not ours, or of ours, decodes to.
LEMMA ForeignDecodes ==
    ASSUME NEW x \in {OtherOwner, NotJournal}
    PROVE  DecodeHeader(Foreign(x)) \subseteq {"WrongOwner", "NotAJournal"}
<1> DEFINE c == Foreign(x)
<1>1. Len(c) = 2 /\ c[1].what.id = x /\ c[2].what.id = x
  BY DEF Foreign, TwoCells, NoFrame
<1>2. x # Junk /\ x # Header
  BY SentinelAssumption
<1>3. SubSeq(c, 1, 2) # HeaderCells
  <2>1. HeaderCells[1].what.id = Header
    BY DEF HeaderCells, TwoCells, NoFrame
  <2>2. c \in Seq(Cell)
    BY TwoCellsType DEF Special
  <2>3. SubSeq(c, 1, 2)[1] = c[1]
    BY <1>1, <2>2, PrefixOf
  <2>4. QED
    BY <1>1, <1>2, <2>1, <2>3
<1> HIDE DEF c
<1>4. ~ (Len(c) < 2) /\ ~ \E i \in 1..2 : c[i].what.id = Junk
  BY <1>1, <1>2
<1>5. DecodeHeader(c) \subseteq {"WrongOwner", "NotAJournal"}
  BY <1>3, <1>4 DEF DecodeHeader
<1>6. QED
  BY <1>5 DEF c

\* A file of ours has its own header, or not even a whole one.
LEMMA OursDecodes ==
    ASSUME NEW c \in Seq(Cell), Well(c)
    PROVE  /\ Len(c) < 2 => DecodeHeader(c) = {"Torn"}
           /\ Len(c) >= 2 => DecodeHeader(c) = {"Ours"}
<1>1. CASE Len(c) < 2
  BY <1>1 DEF DecodeHeader
<1>2. CASE Len(c) >= 2
  <2>1. c[1] = HeaderCells[1] /\ c[2] = HeaderCells[2]
    BY <1>2 DEF Well, StartsWithHeader
  <2>2. /\ SubSeq(c, 1, 2) \in Seq(Cell) /\ Len(SubSeq(c, 1, 2)) = 2
        /\ \A i \in 1..2 : SubSeq(c, 1, 2)[i] = c[i]
    BY <1>2, PrefixOf
  <2>3. SubSeq(c, 1, 2) = HeaderCells
    <3>1. \A i \in 1..2 : SubSeq(c, 1, 2)[i] = HeaderCells[i]
      <4> SUFFICES ASSUME NEW i \in 1..2
                   PROVE  SubSeq(c, 1, 2)[i] = HeaderCells[i]
        OBVIOUS
      <4>1. i = 1 \/ i = 2
        OBVIOUS
      <4>2. QED
        BY <2>1, <2>2, <4>1
    <3>2. QED
      BY <2>2, <3>1, TwoCellsType, SeqEqual
  <2>4. \A i \in 1..2 : c[i].what.id = Header
    <3>1. HeaderCells[1].what.id = Header /\ HeaderCells[2].what.id = Header
      BY DEF HeaderCells, TwoCells, NoFrame
    <3> SUFFICES ASSUME NEW i \in 1..2
                 PROVE  c[i].what.id = Header
      OBVIOUS
    <3>2. i = 1 \/ i = 2
      OBVIOUS
    <3>3. QED
      BY <2>1, <3>1, <3>2
  <2>5. ~ (Len(c) < 2) /\ ~ \E i \in 1..2 : c[i].what.id = Junk
    BY <1>2, <2>4, SentinelAssumption
  <2>6. c[1].what.id # OtherOwner
    BY <2>4, SentinelAssumption
  <2>7. DecodeHeader(c) = {"Ours"}
    BY <1>2, <2>3, <2>5, <2>6 DEF DecodeHeader
  <2>8. QED
    BY <2>5, <2>7
<1>3. QED
  BY <1>1, <1>2

\* On an honest disk ensure_header cuts only a header that was never flushed.
LEMMA EnsureHeaderHonest ==
    ASSUME IndRun, IndRun', ForeignInv \/ OursInv, Quiet, EnsureHeader
    PROVE  (ForeignInv' \/ OursInv') /\ Quiet'
<1>0. file \in Seq(Cell) /\ Len(file) \in Nat /\ durable \in 0..Len(file)
  BY DEF IndRun, TypeOK, DiskType
<1>1. PICK h \in DecodeHeader(file), short \in HeaderIsAllItCouldHold(file) :
          \/ /\ h = "Ours"
             /\ pc' = "adopt"
             /\ UNCHANGED <<disk, memory, ret, history>>
          \/ /\ h \in {"WrongOwner", "NotAJournal"}
             /\ Refuse(h)
          \/ /\ h = "Torn" /\ ~ short
             /\ Refuse("CorruptHeader")
          \/ /\ h = "Torn" /\ short
             /\ TruncateFile(0)
             /\ pc' = "header"
             /\ UNCHANGED <<wm, memory, ret, history>>
  BY DEF EnsureHeader
<1>2. CASE ForeignInv
  <2>1. h \in {"WrongOwner", "NotAJournal"}
    BY <1>2, ForeignDecodes DEF ForeignInv
  <2>2. Refuse(h) /\ h \notin {"CorruptHeader", "CorruptMidFile"}
    BY <1>1, <2>1
  <2>3. QED
    BY <2>2, RefuseHonest
<1>3. CASE OursInv
  <2>0. Well(file)
    BY <1>3 DEF OursInv
  <2>1. CASE Len(file) >= 2
    <3>1. h = "Ours"
      BY <1>0, <2>0, <2>1, OursDecodes
    <3>2. UNCHANGED <<file, durable, wm, promise, acked, ret>>
      BY <1>1, <3>1 DEF disk, memory, counters, history
    <3>3. QED
      BY <1>3, <3>2, OursUnchanged DEF Quiet
  <2>2. CASE Len(file) < 2
    <3>1. h = "Torn"
      BY <1>0, <2>0, <2>2, OursDecodes
    <3>2. short = TRUE
      <4>1. Len(file) <= 2
        BY <1>0, <2>2
      <4>2. HeaderIsAllItCouldHold(file) = {TRUE}
        BY <4>1 DEF HeaderIsAllItCouldHold
      <4>3. QED
        BY <1>1, <4>2
    <3>3. TruncateFile(0) /\ UNCHANGED <<wm, acked, ret, promise>>
      BY <1>1, <3>1, <3>2 DEF memory, counters, history
    <3>4. file' = <<>> /\ durable' = 0
      BY <1>0, <3>3, SubSeqEmpty DEF TruncateFile
    <3>5. promise = <<>> /\ ReadWatermark = 0 /\ acked = 0
      <4>1. durable < 4
        BY <1>0, <2>2
      <4>2. QED
        BY <1>3, <4>1, OursEmpty
    <3>6. Well(file')
      <4>1. Len(file') = 0
        BY <3>4
      <4>2. QED
        BY <4>1 DEF Well, StartsWithHeader
    <3>7. ReadWatermark' = 0
      BY <3>3, <3>5 DEF ReadWatermark
    <3>8. OursInv'
      BY <3>3, <3>5, <3>6, <3>7 DEF OursInv, PromiseInside, Inside
    <3>9. QED
      BY <3>3, <3>8 DEF Quiet
  <2>3. QED
    BY <1>0, <2>1, <2>2
<1>4. QED
  BY <1>2, <1>3

\* Writing the header keeps the file ours.
LEMMA WriteHeaderHonest ==
    ASSUME IndRun, IndRun', OursInv, Quiet, WriteHeader
    PROVE  OursInv' /\ Quiet'
<1>1. /\ file' \in Seq(Cell)
      /\ Len(file') > Len(file) /\ Len(file') <= 2
      /\ StartsWithHeader(file')
  BY WriteHeaderFile
<1>2. UNCHANGED <<durable, wm, promise, acked, ret>>
  BY DEF WriteHeader, memory, counters, history
<1>3. StartsWithHeader(file) /\ file \in Seq(Cell)
  BY DEF OursInv, Well, IndRun, TypeOK, DiskType
<1>4. \A i \in 1..Len(file) : file'[i] = file[i]
  <2> SUFFICES ASSUME NEW i \in 1..Len(file)
               PROVE  file'[i] = file[i]
    OBVIOUS
  <2>1. i \in 1..Len(file') /\ i <= 2
    BY <1>1, <1>3
  <2>2. QED
    BY <1>1, <1>3, <2>1 DEF StartsWithHeader
<1>5. Well(file')
  <2>1. \A k \in Nat \ {0} : ~ (2 * k + 1 <= Len(file')) /\ ~ (2 * k + 2 <= Len(file'))
    BY <1>1
  <2>2. QED
    BY <1>1, <2>1 DEF Well
<1>6. QED
  BY <1>2, <1>4, <1>5, OursAppended DEF Quiet

\* On an honest disk recover keeps every promised record and accuses nobody.
LEMMA AdoptHonest ==
    ASSUME IndRun, IndRun', OursInv, Adopt
    PROVE  OursInv' /\ Quiet'
<1>0. /\ file \in Seq(Cell) /\ Len(file) \in Nat /\ durable \in 0..Len(file)
      /\ pc = "adopt" /\ Well(file) /\ acked \in Nat /\ ReadWatermark \in Nat
      /\ promise \in Seq(Id)
  BY DEF IndRun, TypeOK, DiskType, ProcessType, HistoryType, Adopt, OursInv,
         ReadWatermark
<1>1. PICK n \in 0..Len(file) :
          /\ WalkStopsAfter(file, n)
          /\ IF NextParsable(file, EndOf(n) + 1)
             THEN Refuse("CorruptMidFile")
             ELSE AdoptPrefix(n)
  BY DEF Adopt
<1>2. n \in Nat /\ 2 * n + 2 <= Len(file)
  BY <1>0, <1>1, WalkFits DEF EndOf
<1>3. Len(file) <= 2 * n + 3
  <2>1. ~ Follows(file, n + 1) /\ n + 1 \in Nat \ {0}
    BY <1>1, <1>2 DEF WalkStopsAfter
  <2>2. ~ (2 * (n + 1) + 2 <= Len(file))
    BY <1>0, <2>1, WellFollows
  <2>3. QED
    BY <1>0, <1>2, <2>2
<1>4. ~ NextParsable(file, EndOf(n) + 1)
  <2> SUFFICES ASSUME NEW i \in (EndOf(n) + 1)..Len(file)
               PROVE  ~ ParsesAt(file, i)
    BY DEF NextParsable
  <2>1. ~ (i + 1 <= Len(file))
    BY <1>0, <1>2, <1>3 DEF EndOf
  <2>2. QED
    BY <2>1 DEF ParsesAt
<1>5. AdoptPrefix(n)
  BY <1>1, <1>4
<1>6. \A k \in Nat : Inside(k, durable) => k <= n
  BY <1>0, <1>2, <1>3 DEF Inside, EndOf
<1>7. acked <= n /\ ReadWatermark <= n
  BY <1>0, <1>6 DEF OursInv
<1>8. Len(promise) <= n
  <2>1. CASE promise = <<>>
    BY <1>2, <2>1
  <2>2. CASE promise # <<>>
    <3>1. EndOf(Len(promise)) <= durable
      BY <2>2 DEF OursInv, PromiseInside
    <3>2. QED
      BY <1>0, <1>6, <3>1 DEF Inside
  <2>3. QED
    BY <2>1, <2>2
<1>9. /\ file' = SubSeq(file, 1, 2 * n + 2)
      /\ durable' = IF durable < 2 * n + 2 THEN durable ELSE 2 * n + 2
      /\ wm' = wm
      /\ acked' = IF acked < n THEN acked ELSE n
      /\ promise' = SubSeq(promise, 1, IF Len(promise) < n THEN Len(promise) ELSE n)
  BY <1>5 DEF AdoptPrefix, AckedAfter, TruncateFile, EndOf
<1>10. acked' = acked
  BY <1>0, <1>2, <1>7, <1>9
<1>11. promise' = promise
  <2>1. (IF Len(promise) < n THEN Len(promise) ELSE n) = Len(promise)
    BY <1>0, <1>2, <1>8
  <2>2. QED
    BY <1>0, <1>9, <2>1, SubSeqFull
<1>12. /\ file' \in Seq(Cell) /\ Len(file') = 2 * n + 2
       /\ \A i \in 1..(2 * n + 2) : file'[i] = file[i]
  BY <1>0, <1>2, <1>9, PrefixOf
<1>13. Well(file')
  <2>1. Len(file') <= Len(file) /\ \A i \in 1..Len(file') : file'[i] = file[i]
    BY <1>2, <1>12
  <2>2. QED
    BY <1>0, <1>12, <2>1, WellPrefix
<1>14. \A k \in Nat : EndOf(k) <= durable => EndOf(k) <= durable'
  <2> SUFFICES ASSUME NEW k \in Nat, EndOf(k) <= durable
               PROVE  EndOf(k) <= durable'
    OBVIOUS
  <2>1. k <= n
    BY <1>6 DEF Inside
  <2>2. 2 * k + 2 <= 2 * n + 2
    BY <1>2, <2>1
  <2>3. 2 * k + 2 <= durable
    BY DEF EndOf
  <2>4. durable' = durable \/ durable' = 2 * n + 2
    BY <1>9
  <2>5. QED
    BY <2>2, <2>3, <2>4 DEF EndOf
<1>15. \A i \in 1..durable : i <= durable' => file'[i] = file[i]
  <2> SUFFICES ASSUME NEW i \in 1..durable, i <= durable'
               PROVE  file'[i] = file[i]
    OBVIOUS
  <2>1. i \in 1..(2 * n + 2)
    BY <1>0, <1>2, <1>9
  <2>2. QED
    BY <1>12, <2>1
<1>16. ReadWatermark' = ReadWatermark
  BY <1>9 DEF ReadWatermark
<1>17. OursInv'
  BY <1>10, <1>11, <1>13, <1>14, <1>15, <1>16, OursKept
<1>18. Quiet'
  <2> DEFINE promised == IF acked > ReadWatermark THEN acked ELSE ReadWatermark
  <2>1. ~ (n < promised)
    BY <1>0, <1>2, <1>7
  <2>2. ret' = [Answer("Recovered", NoId, n) EXCEPT !.alarm = n < promised]
    BY <1>5 DEF AdoptPrefix, Promised
  <2> HIDE DEF promised
  <2>3. ret'.alarm = (n < promised) /\ ret'.kind = "Recovered"
    BY <2>2 DEF Answer
  <2>4. QED
    BY <2>1, <2>3 DEF Quiet
<1>19. QED
  BY <1>17, <1>18

\* append queues a frame and touches no file.
LEMMA AppendHonest ==
    ASSUME IndRun, IndRun', OursInv, NEW id \in Id, AppendRecord(id)
    PROVE  OursInv' /\ Quiet'
<1>1. UNCHANGED <<file, durable, wm, promise, acked>>
  BY DEF AppendRecord, disk, counters, history
<1>2. \E kind \in {"Busy", "Duplicate", "none"} : \E i, q : ret' = Answer(kind, i, q)
  BY DEF AppendRecord, NoAnswer
<1>3. Quiet'
  BY <1>2, QuietAnswers
<1>4. QED
  BY <1>1, <1>3, OursUnchanged

\* Pushing a frame only extends the part of the file not yet flushed.
LEMMA PushHonest ==
    ASSUME IndRun, IndRun', OursInv, Quiet, PushSome \/ PushRest \/ PushStops
    PROVE  OursInv' /\ Quiet'
<1>1. CASE PushSome
  <2>1. UNCHANGED <<durable, wm, promise, acked, ret, pc>> /\ pc = "push"
    BY <1>1 DEF PushSome, counters, history
  <2>2. Well(file')
    BY <2>1 DEF IndRun, RunInv, Running, RunningInv
  <2>3. \A i \in 1..Len(file) : file'[i] = file[i]
    <3>1. file \in Seq(Cell) /\ pending[1].frame \in Frame
      BY <2>1, PendingFacts DEF IndRun, TypeOK, DiskType
    <3>2. TwoCells(pending[1].frame)[1] \in Cell
      <4>1. TwoCells(pending[1].frame)[1] = [what |-> pending[1].frame, part |-> 1]
        BY <3>1, TwoCellsType
      <4>2. QED
        BY <3>1, <4>1 DEF Cell, Frame
    <3>3. file' = Append(file, TwoCells(pending[1].frame)[1])
      BY <1>1 DEF PushSome
    <3>4. QED
      BY <3>1, <3>2, <3>3, AppendProperties
  <2>4. QED
    BY <2>1, <2>2, <2>3, OursAppended DEF Quiet
<1>2. CASE PushRest
  <2>1. UNCHANGED <<durable, wm, promise, acked>>
    BY <1>2 DEF PushRest, history
  <2>2. ret' = Answer("Written", pending[1].frame.id, pending[1].frame.seq)
    BY <1>2 DEF PushRest
  <2>3. Quiet'
    BY <2>2, QuietAnswers
  <2>4. Well(file') /\ \A i \in 1..Len(file) : file'[i] = file[i]
    BY <1>2, PushRestFile
  <2>5. QED
    BY <2>1, <2>3, <2>4, OursAppended
<1>3. CASE PushStops
  <2>1. UNCHANGED <<file, durable, wm, promise, acked>>
    BY <1>3 DEF PushStops, disk, counters, history
  <2>2. \E kind \in {"Io", "Stalled"} : \E i, q : ret' = Answer(kind, i, q)
    BY <1>3 DEF PushStops
  <2>3. Quiet'
    BY <2>2, QuietAnswers
  <2>4. QED
    BY <2>1, <2>3, OursUnchanged
<1>4. QED
  BY <1>1, <1>2, <1>3

\* A sync that succeeds makes all that was written durable.
LEMMA SyncHonest ==
    ASSUME IndRun, IndRun', OursInv, SyncOk(FALSE) \/ SyncFails
    PROVE  OursInv' /\ Quiet'
<1>1. CASE SyncOk(FALSE)
  <2>1. /\ UNCHANGED <<file, wm, promise>> /\ ret' = NoAnswer
        /\ durable' = Len(file) /\ acked' = written /\ pc = "up"
    BY <1>1 DEF SyncOk
  <2>2. Quiet'
    BY <2>1, QuietAnswers DEF NoAnswer
  <2>3. /\ durable \in 0..Len(file) /\ Len(file) \in Nat
        /\ RunningInv /\ written \in Nat
        /\ promise \in Seq(Id) /\ wm \in [val : Nat, len : 0..2, dur : 0..2]
    BY <2>1 DEF IndRun, TypeOK, DiskType, ProcessType, HistoryType, RunInv, Running
  <2>4. EndOf(written) <= Len(file)
    <3>1. CASE pending = <<>>
      BY <2>3, <3>1 DEF RunningInv, EndOf
    <3>2. CASE pending # <<>>
      <4>1. pending[1] \in [frame : Frame, done : 0..1]
        BY <3>2, Singleton DEF IndRun, TypeOK, ProcessType
      <4>2. pending[1].done \in 0..1
        BY <4>1
      <4>3. Len(file) = 2 * written + 2 + pending[1].done
        BY <2>3, <3>2 DEF RunningInv, EndOf
      <4>4. QED
        BY <2>3, <4>2, <4>3 DEF EndOf
    <3>3. QED
      BY <3>1, <3>2
  <2>5. Well(file')
    BY <2>1 DEF OursInv
  <2>6. PromiseInside'
    <3> SUFFICES ASSUME promise # <<>>
                 PROVE  /\ EndOf(Len(promise)) <= durable'
                        /\ Ids(file', Len(promise)) = promise
      BY <2>1 DEF PromiseInside
    <3>1. EndOf(Len(promise)) <= durable /\ Ids(file, Len(promise)) = promise
      BY DEF OursInv, PromiseInside
    <3>2. Len(promise) \in Nat
      BY <2>3
    <3>3. QED
      BY <2>1, <2>3, <3>1, <3>2 DEF EndOf
  <2>7. Inside(ReadWatermark, durable)'
    <3>1. ReadWatermark' = ReadWatermark /\ ReadWatermark \in Nat
      BY <2>1, <2>3 DEF ReadWatermark
    <3>2. Inside(ReadWatermark, durable)
      BY DEF OursInv
    <3>3. QED
      BY <2>1, <2>3, <3>1, <3>2 DEF Inside, EndOf
  <2>8. Inside(acked, durable)'
    BY <2>1, <2>4 DEF Inside
  <2>9. QED
    BY <2>2, <2>5, <2>6, <2>7, <2>8 DEF OursInv
<1>2. CASE SyncFails
  <2>1. UNCHANGED <<file, durable, wm, promise, acked>>
    BY <1>2 DEF SyncFails, disk, counters, history
  <2>2. Quiet'
    BY <1>2, QuietAnswers DEF SyncFails
  <2>3. QED
    BY <2>1, <2>2, OursUnchanged
<1>3. QED
  BY <1>1, <1>2

\* The records sync promises are the first ones of the file.
LEMMA SyncReturnsHonest ==
    ASSUME IndRun, IndRun', OursInv, InAck, SyncReturns,
           UNCHANGED <<file, durable, acked>>,
           ReadWatermark' = ReadWatermark
    PROVE  OursInv' /\ Quiet'
<1>1. /\ RunningInv /\ acked \in Nat /\ written \in Nat /\ head \in Seq(Id)
      /\ acked <= written /\ Len(head) = written /\ head = Ids(file, written)
  BY DEF IndRun, RunInv, Running, InAck, TypeOK, ProcessType, RunningInv
<1>2. promise' = SubSeq(head, 1, acked)
  BY DEF SyncReturns
<1>3. /\ promise' \in Seq(Id) /\ Len(promise') = acked
      /\ \A i \in 1..acked : promise'[i] = head[i]
  BY <1>1, <1>2, PrefixOf
<1>4. \A i \in 1..written : head[i] = file[2 * i + 1].what.id /\ head[i] \in Id
  <2>1. \A i \in 1..written : head[i] \in Id
    BY <1>1, ElementOfSeq
  <2>2. QED
    BY <1>1, <2>1 DEF Ids
<1>5. /\ Ids(file, acked) \in Seq(Id) /\ Len(Ids(file, acked)) = acked
      /\ \A i \in 1..acked : Ids(file, acked)[i] = file[2 * i + 1].what.id
  <2>1. ASSUME NEW i \in 1..acked
        PROVE  file[2 * i + 1].what.id \in Id
    <3>1. i \in 1..written
      BY <1>1
    <3>2. QED
      BY <1>4, <3>1
  <2>2. QED
    BY <1>1, <2>1, IdsType
<1>6. Ids(file, acked) = promise'
  <2>1. ASSUME NEW i \in 1..acked
        PROVE  Ids(file, acked)[i] = promise'[i]
    <3>1. i \in 1..written
      BY <1>1
    <3>2. QED
      BY <1>3, <1>4, <1>5, <3>1
  <2>2. QED
    BY <1>3, <1>5, <2>1, SeqEqual
<1>7. PromiseInside'
  <2> SUFFICES ASSUME promise' # <<>>
               PROVE  /\ EndOf(Len(promise')) <= durable
                      /\ Ids(file, Len(promise')) = promise'
    BY DEF PromiseInside
  <2>1. acked # 0
    BY <1>3, EmptySeq
  <2>2. EndOf(acked) <= durable
    BY <2>1 DEF OursInv, Inside
  <2>3. QED
    BY <1>3, <1>6, <2>2
<1>8. Quiet'
  BY QuietAnswers DEF SyncReturns
<1>9. QED
  BY <1>7, <1>8 DEF OursInv

\* The watermark never promises more than was flushed.
LEMMA AckHonest ==
    ASSUME IndRun, IndRun', OursInv, Quiet,
           AckTruncate \/ AckAppend \/ AckFsync(FALSE) \/ AckFails
    PROVE  OursInv' /\ Quiet'
<1>0. Well(file) /\ PromiseInside /\ Inside(acked, durable)
  BY DEF OursInv
<1>1. CASE AckTruncate
  <2>1. UNCHANGED <<file, durable, promise, acked, ret>>
    BY <1>1 DEF AckTruncate, memory, counters, history
  <2>2. ReadWatermark' = 0
    BY <1>1 DEF AckTruncate, ReadWatermark
  <2>3. OursInv'
    BY <1>0, <2>1, <2>2 DEF OursInv, PromiseInside, Inside
  <2>4. QED
    BY <2>1, <2>3 DEF Quiet
<1>2. CASE AckAppend
  <2>1. UNCHANGED <<file, durable, promise, acked, ret>>
    BY <1>2 DEF AckAppend, memory, counters, history
  <2>2. ReadWatermark' = acked \/ ReadWatermark' = 0
    BY <1>2 DEF AckAppend, ReadWatermark
  <2>3. OursInv'
    BY <1>0, <2>1, <2>2 DEF OursInv, PromiseInside, Inside
  <2>4. QED
    BY <2>1, <2>3 DEF Quiet
<1>3. CASE AckFsync(FALSE)
  <2>1. /\ InAck /\ SyncReturns /\ UNCHANGED <<file, durable, acked>>
        /\ wm' = [wm EXCEPT !.dur = wm.len]
    BY <1>3 DEF AckFsync, InAck, memory, counters
  <2>2. wm \in [val : Nat, len : 0..2, dur : 0..2]
    BY DEF IndRun, TypeOK, DiskType
  <2>3. wm'.len = wm.len /\ wm'.val = wm.val
    BY <2>1, <2>2
  <2>4. ReadWatermark' = ReadWatermark
    BY <2>3 DEF ReadWatermark
  <2>5. QED
    BY <2>1, <2>4, SyncReturnsHonest
<1>4. CASE AckFails
  <2>1. /\ InAck /\ SyncReturns /\ UNCHANGED <<file, durable, acked, wm>>
    BY <1>4 DEF AckFails, InAck, memory, counters, disk
  <2>2. ReadWatermark' = ReadWatermark
    BY <2>1 DEF ReadWatermark
  <2>3. QED
    BY <2>1, <2>2, SyncReturnsHonest
<1>5. QED
  BY <1>1, <1>2, <1>3, <1>4

\* A power cut takes only what was not flushed: no promise is in it.
LEMMA EnvironmentHonest ==
    ASSUME IndRun, IndRun', ForeignInv \/ OursInv,
           Exit \/ PowerCut \/ PowerCutThenRecover
    PROVE  (ForeignInv' \/ OursInv') /\ Quiet'
<1>0. Quiet' /\ promise' = promise /\ (acked' = acked \/ acked' = 0)
  <2>1. ret' = NoAnswer
    BY DEF Exit, PowerCut, PowerCutThenRecover
  <2>2. Quiet'
    BY <2>1, QuietAnswers DEF NoAnswer
  <2>3. QED
    BY <2>2 DEF Exit, PowerCut, PowerCutThenRecover, history, memory, counters,
                FreshMemory
<1>1. CASE Exit
  <2>1. UNCHANGED <<file, durable, wm>> /\ pc' = "down"
    BY <1>1 DEF Exit, disk
  <2>2. CASE ForeignInv
    BY <1>0, <2>1, <2>2 DEF ForeignInv
  <2>3. CASE OursInv
    BY <1>0, <2>1, <2>3, OursUnchanged
  <2>4. QED
    BY <1>0, <2>2, <2>3
<1>2. CASE PowerCut \/ PowerCutThenRecover
  <2>1. LoseTails
    BY <1>2 DEF PowerCut, PowerCutThenRecover
  <2>2. /\ Len(file') <= Len(file) /\ durable <= Len(file')
        /\ durable' = Len(file')
        /\ \A i \in 1..Len(file') : file'[i] = file[i]
        /\ wm'.val = wm.val
        /\ wm'.len = 2 => wm.len = 2
    BY <2>1, LoseTailsDisk
  <2>3. file \in Seq(Cell) /\ file' \in Seq(Cell) /\ durable \in 0..Len(file)
    BY DEF IndRun, TypeOK, DiskType
  <2>4. CASE ForeignInv
    <3>1. Len(file) = 2 /\ Len(file') = 2
      <4>1. OtherOwner \in Special /\ NotJournal \in Special
        BY DEF Special
      <4>2. Len(file) = 2
        BY <2>4, <4>1, TwoCellsType DEF ForeignInv
      <4>3. durable = 2
        BY <2>4 DEF ForeignInv
      <4>4. QED
        BY <2>2, <2>3, <4>2, <4>3
    <3>2. file' = file
      BY <2>2, <2>3, <3>1, SeqEqual
    <3>3. pc' = "down" \/ pc' = "boot"
      BY <1>2 DEF PowerCut, PowerCutThenRecover
    <3>4. QED
      BY <1>0, <2>2, <2>4, <3>1, <3>2, <3>3 DEF ForeignInv
  <2>5. CASE OursInv
    <3>1. Well(file')
      BY <2>2, <2>3, <2>5, WellPrefix DEF OursInv
    <3>2. \A k \in Nat : EndOf(k) <= durable => EndOf(k) <= durable'
      BY <2>2, <2>3 DEF EndOf
    <3>3. \A i \in 1..durable : i <= durable' => file'[i] = file[i]
      BY <2>2, <2>3
    <3>4. ReadWatermark' = ReadWatermark \/ ReadWatermark' = 0
      BY <2>2 DEF ReadWatermark
    <3>5. QED
      BY <1>0, <2>5, <3>1, <3>2, <3>3, <3>4, OursKept
  <2>6. QED
    BY <1>0, <2>4, <2>5
<1>3. QED
  BY <1>1, <1>2

\* A stuttering step keeps the invariant.
LEMMA StutterHonest ==
    ASSUME IndRun, IndRun', ForeignInv \/ OursInv, Quiet, UNCHANGED vars
    PROVE  (ForeignInv' \/ OursInv') /\ Quiet'
<1>1. UNCHANGED <<file, durable, wm, pc, acked, promise, ret>>
  BY DEF vars, disk, memory, counters, history
<1>2. CASE ForeignInv
  BY <1>1, <1>2 DEF ForeignInv, Quiet
<1>3. CASE OursInv
  BY <1>1, <1>3, OursUnchanged DEF Quiet
<1>4. QED
  BY <1>2, <1>3

\* Every step keeps the invariant of an honest disk.
LEMMA NextHonest ==
    ASSUME IndRun, HonestInv, [Next]_vars
    PROVE  HonestInv'
<1> SUFFICES ASSUME HonestDisk'
             PROVE  (ForeignInv' \/ OursInv') /\ Quiet'
  BY DEF HonestInv
<1>0. IndRun'
  BY NextRun
<1>1. HonestDisk /\ ~ Rot /\ ~ SyncOk(TRUE) /\ ~ AckFsync(TRUE)
  BY HonestBefore
<1>2. (ForeignInv \/ OursInv) /\ Quiet
  BY <1>1 DEF HonestInv
<1>3. ASSUME pc \notin {"down", "boot"}
      PROVE  OursInv
  BY <1>2, <1>3 DEF ForeignInv
<1>4. CASE Open \/ Recover
  BY <1>0, <1>2, <1>4, OpenHonest
<1>5. CASE EnsureHeader
  BY <1>0, <1>2, <1>5, EnsureHeaderHonest
<1>6. CASE OpenFails
  BY <1>0, <1>2, <1>6, RefuseHonest DEF OpenFails
<1>7. CASE WriteHeader
  BY <1>0, <1>2, <1>3, <1>7, WriteHeaderHonest DEF WriteHeader
<1>8. CASE Adopt
  BY <1>0, <1>3, <1>8, AdoptHonest DEF Adopt
<1>9. CASE \E id \in Id : AppendRecord(id)
  BY <1>0, <1>3, <1>9, AppendHonest DEF AppendRecord
<1>10. CASE PushSome \/ PushRest \/ PushStops
  <2>1. pc = "push"
    BY <1>10 DEF PushSome, PushRest, PushStops
  <2>2. QED
    BY <1>0, <1>2, <1>3, <1>10, <2>1, PushHonest
<1>11. CASE SyncOk(FALSE) \/ SyncFails
  <2>1. pc = "up"
    BY <1>11 DEF SyncOk, SyncFails
  <2>2. QED
    BY <1>0, <1>3, <1>11, <2>1, SyncHonest
<1>12. CASE AckTruncate \/ AckAppend \/ AckFsync(FALSE) \/ AckFails
  <2>1. pc \in {"ack_truncate", "ack_append", "ack_fsync"}
    BY <1>12 DEF AckTruncate, AckAppend, AckFsync, AckFails
  <2>2. QED
    BY <1>0, <1>2, <1>3, <1>12, <2>1, AckHonest
<1>13. CASE Exit \/ PowerCut \/ PowerCutThenRecover
  BY <1>0, <1>2, <1>13, EnvironmentHonest
<1>14. CASE UNCHANGED vars
  BY <1>0, <1>2, <1>14, StutterHonest
<1>15. CASE \E lie \in BOOLEAN : SyncOk(lie) \/ AckFsync(lie)
  BY <1>1, <1>11, <1>12, <1>15
<1>16. QED
  BY <1>1, <1>4, <1>5, <1>6, <1>7, <1>8, <1>9, <1>10, <1>11, <1>12, <1>13, <1>14,
     <1>15 DEF Next

\* An empty file, or one that is not ours, promises nothing.
LEMMA InitHonest == Init => HonestInv
<1> SUFFICES ASSUME Init PROVE (ForeignInv \/ OursInv) /\ Quiet
  BY DEF HonestInv
<1>1. Quiet
  BY DEF Init, Quiet, NoAnswer, Answer
<1>2. CASE file = <<>>
  <2>1. Len(file) = 0
    BY <1>2
  <2>2. Well(file)
    BY <2>1 DEF Well, StartsWithHeader
  <2>3. promise = <<>> /\ ReadWatermark = 0 /\ acked = 0
    BY DEF Init, ReadWatermark
  <2>4. QED
    BY <1>1, <2>2, <2>3 DEF OursInv, PromiseInside, Inside
<1>3. CASE file \in {Foreign(OtherOwner), Foreign(NotJournal)}
  <2>1. OtherOwner \in Special /\ NotJournal \in Special
    BY DEF Special
  <2>2. Len(file) = 2
    BY <1>3, <2>1, TwoCellsType
  <2>3. QED
    BY <1>1, <1>3, <2>2 DEF Init, ForeignInv
<1>4. QED
  BY <1>2, <1>3 DEF Init

\* The durability contract, for every journal: on a disk that performs the
\* flushes it reports, every record that a returned sync promised is whole, in
\* its place in the chain and out of the reach of any later power cut.
THEOREM Durability == Spec => []AckedSurvives
<1>1. Init => IndRun /\ HonestInv
  BY InitRun, InitHonest
<1>2. IndRun /\ HonestInv /\ [Next]_vars => IndRun' /\ HonestInv'
  BY NextRun, NextHonest
<1>3. IndRun /\ HonestInv => AckedSurvives
  <2> SUFFICES ASSUME IndRun, HonestInv, HonestDisk, promise # <<>>
               PROVE  /\ EndOf(Len(promise)) <= durable
                      /\ \A k \in 1..Len(promise) : Follows(file, k)
                      /\ Ids(file, Len(promise)) = promise
    BY DEF AckedSurvives
  <2>1. OursInv
    BY DEF HonestInv, ForeignInv
  <2>2. /\ EndOf(Len(promise)) <= durable
        /\ Ids(file, Len(promise)) = promise
        /\ Well(file)
    BY <2>1 DEF OursInv, PromiseInside
  <2>3. /\ file \in Seq(Cell) /\ durable \in 0..Len(file) /\ Len(file) \in Nat
        /\ Len(promise) \in Nat
    BY DEF IndRun, TypeOK, DiskType, HistoryType
  <2>4. ASSUME NEW k \in 1..Len(promise)
        PROVE  Follows(file, k)
    <3>1. k \in Nat \ {0} /\ 2 * k + 2 <= Len(file)
      BY <2>2, <2>3 DEF EndOf
    <3>2. QED
      BY <2>2, <2>3, <3>1, WellFollows
  <2>5. QED
    BY <2>2, <2>4
<1>4. QED
  BY <1>1, <1>2, <1>3, PTL DEF Spec

\* A crash is never mistaken for an incident: as long as the disk is honest,
\* no recovery reports a durability violation or refuses the file as corrupt.
THEOREM Calm == Spec => []NoFalseAlarm
<1>1. Init => IndRun /\ HonestInv
  BY InitRun, InitHonest
<1>2. IndRun /\ HonestInv /\ [Next]_vars => IndRun' /\ HonestInv'
  BY NextRun, NextHonest
<1>3. HonestInv => NoFalseAlarm
  BY DEF HonestInv, Quiet, NoFalseAlarm
<1>4. QED
  BY <1>1, <1>2, <1>3, PTL DEF Spec
=============================================================================
