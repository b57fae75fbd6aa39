-------------------------- MODULE AcceptanceProofs --------------------------
(***************************************************************************)
(* What the producer and the collection of its lines guarantee for any     *)
(* number of cycles, restarts and faults.  The argument: a process writes  *)
(* its sequence in order and ends with the first write that fails, so      *)
(* where it stands says what it has written; lines of a stream come in the *)
(* order of the processes, so the first event under an ID is the oldest;   *)
(* and a run ID that was not given is the number of its process.  The      *)
(* second part is about the verifier that an acceptance run ends with: a   *)
(* row once numbered stays, so the rows a walk has put together, with a    *)
(* total that has not moved, are one state of the window.                  *)
(***************************************************************************)
EXTENDS LogProducer, EventVerifier,
        FiniteSetTheorems, SequenceTheorems, WellFoundedInduction, TLAPS

-----------------------------------------------------------------------------
(* The inductive invariant.                                                *)

\* Where a process stands in its run.
Place ==
    /\ runID \in {GivenID, boots}
    /\ pc # "down" => boots >= 1 /\ sequence >= 1
    /\ Cycles > 0 => sequence <= Cycles
    /\ pc = "stderr" => sequence % StderrEvery = 0
    /\ pc = "wait" => ~torn /\ (Cycles > 0 => sequence < Cycles)
    /\ Running /\ torn => sequence = 1
    /\ pc \in {"sync", "done"} /\ ~cancelled => Cycles > 0 /\ sequence = Cycles

\* The sequence numbers of a stream in a run with a number of cycles.
ExpectedLine(s) == 1..(IF s = "stderr" THEN Cycles \div StderrEvery ELSE Cycles)

\* An event is in its stream, under the run ID of its process.
SoundLine(s, l) ==
    /\ l.form = "glued" => s = "file" /\ l.id.sequence = 1
    /\ l.form = "event" =>
         /\ l.id.stream = s /\ l.id.run \in {GivenID, l.boot}
         /\ Cycles > 0 => l.id.sequence \in ExpectedLine(s)

LinesAreSound == \A s \in Streams : \A i \in 1..Len(out[s]) : SoundLine(s, out[s][i])

BootsInOrder ==
    \A s \in Streams : \A i, j \in 1..Len(out[s]) : i <= j => out[s][i].boot <= out[s][j].boot

\* The collection has kept the first event under each ID it has read.
IsEvent(l, id)  == l.form = "event" /\ l.id = id
FirstOf(id, i)  ==
    /\ IsEvent(out[id.stream][i], id)
    /\ \A j \in 1..i - 1 : ~IsEvent(out[id.stream][j], id)

FirstIsKept ==
    /\ \A id \in DOMAIN stored :
         \E i \in 1..read[id.stream] : FirstOf(id, i) /\ stored[id] = out[id.stream][i].boot
    /\ \A s \in Streams : \A i \in 1..read[s] :
         out[s][i].form = "event" => out[s][i].id \in DOMAIN stored

\* What the running process, or the one that ended well, has written.
Behind(s) ==
    {"wait"} \cup (IF s = "file" THEN {} ELSE {"file"}) \cup (IF s = "stdout" THEN {"stderr"} ELSE {})

Passed(s, n) ==
    \/ n < sequence
    \/ n = sequence /\ (pc \in Behind(s) \/ (pc \in {"sync", "done"} /\ ~cancelled))

Has(s, n) == \E i \in 1..Len(out[s]) : IsEvent(out[s][i], ID(s, n))

FirstIsGlued == \E i \in 1..Len(out["file"]) : out["file"][i].form = "glued"

RunIsWritten ==
    Running \/ pc = "done" =>
        \A n \in 1..sequence :
            /\ Passed("stdout", n) => Has("stdout", n)
            /\ Passed("stderr", n) /\ n % StderrEvery = 0 => Has("stderr", n \div StderrEvery)
            /\ Passed("file", n) => Has("file", n) \/ (n = 1 /\ FirstIsGlued)

IInv ==
    /\ TypeOK
    /\ Place
    /\ LinesAreSound
    /\ BootsInOrder
    /\ FirstIsKept
    /\ RunIsWritten

-----------------------------------------------------------------------------
(* Arithmetic.                                                             *)

LEMMA DivFacts ==
    ASSUME NEW n \in Nat, NEW e \in Nat \ {0}
    PROVE  /\ n \div e \in Nat /\ n % e \in 0..e - 1
           /\ n = e * (n \div e) + (n % e)
OBVIOUS

\* A product is below another one as its factor is.
LEMMA ProductMonotone ==
    ASSUME NEW e \in Nat \ {0}, NEW a \in Nat, NEW b \in Nat, a < b
    PROVE  e * a + e <= e * b
<1>1. PICK d \in Nat : b = a + 1 + d
  <2>1. b - a - 1 \in Nat /\ b = a + 1 + (b - a - 1)
    OBVIOUS
  <2> QED BY <2>1
<1>2. e * b = e * a + e + e * d /\ e * d >= 0
  BY <1>1
<1> QED BY <1>2

\* Where a quotient and a remainder are known.
LEMMA DivUnique ==
    ASSUME NEW e \in Nat \ {0}, NEW m \in Nat, NEW r \in 0..e - 1, NEW n \in Nat, n = e * m + r
    PROVE  n \div e = m /\ n % e = r
<1> DEFINE d == n \div e
           k == n % e
<1>1. d \in Nat /\ k \in 0..e - 1 /\ n = e * d + k
  BY DivFacts
<1> HIDE DEF d, k
<1>2. ~(d < m) /\ ~(m < d)
  <2>1. CASE d < m
    <3>1. e * d + e <= e * m
      BY <1>1, <2>1, ProductMonotone
    <3> QED BY <1>1, <3>1
  <2>2. CASE m < d
    <3>1. e * m + e <= e * d
      BY <1>1, <2>2, ProductMonotone
    <3> QED BY <1>1, <3>1
  <2> QED BY <1>1, <2>1, <2>2
<1>3. d = m
  BY <1>1, <1>2
<1> QED BY <1>1, <1>3 DEF d, k

\* The events on stderr are numbered through, up to the last whole group.
LEMMA GroupFacts ==
    ASSUME NEW e \in Nat \ {0}, NEW c \in Nat
    PROVE  /\ \A m \in 1..(c \div e) :
                  e * m \in 1..c /\ (e * m) % e = 0 /\ (e * m) \div e = m
           /\ \A n \in 1..c : n % e = 0 => n \div e \in 1..(c \div e)
<1>0. c \div e \in Nat /\ c % e \in 0..e - 1 /\ c = e * (c \div e) + (c % e)
  BY DivFacts
<1>1. ASSUME NEW m \in 1..(c \div e)
      PROVE  e * m \in 1..c /\ (e * m) % e = 0 /\ (e * m) \div e = m
  <2>1. m \in Nat /\ m >= 1 /\ m <= c \div e
    BY <1>0
  <2>2. e * m \in Nat /\ e * m >= 1
    BY <2>1
  <2>3. e * m <= e * (c \div e)
    <3> DEFINE d == c \div e
    <3>1. d \in Nat /\ m <= d
      BY <1>0, <2>1
    <3> HIDE DEF d
    <3>2. CASE m = d
      BY <3>1, <3>2
    <3>3. CASE m < d
      <4>1. e * m + e <= e * d
        BY <2>1, <3>1, <3>3, ProductMonotone
      <4> QED BY <2>1, <3>1, <4>1
    <3> QED BY <2>1, <3>1, <3>2, <3>3 DEF d
  <2>4. e * m <= c
    <3> DEFINE p == e * (c \div e)
               k == c % e
    <3>1. p \in Int /\ k \in Nat /\ c = p + k
      BY <1>0
    <3> HIDE DEF p, k
    <3>2. e * m <= p
      BY <2>3 DEF p
    <3> QED BY <2>2, <3>1, <3>2
  <2>5. (e * m) % e = 0 /\ (e * m) \div e = m
    <3>1. e * m = e * m + 0 /\ 0 \in 0..e - 1
      BY <2>2
    <3> QED BY <2>1, <2>2, <3>1, DivUnique
  <2> QED BY <2>2, <2>4, <2>5
<1>2. ASSUME NEW n \in 1..c, n % e = 0
      PROVE  n \div e \in 1..(c \div e)
  <2> DEFINE m == n \div e
             d == c \div e
             k == c % e
  <2>1. n \in Nat /\ n >= 1 /\ n <= c
    OBVIOUS
  <2>2. m \in Nat /\ n = e * m
    BY <1>2, <2>1, DivFacts
  <2>3. d \in Nat /\ k \in 0..e - 1 /\ c = e * d + k
    BY <1>0
  <2> HIDE DEF m, d, k
  <2>4. ~(d < m)
    <3>1. ASSUME d < m PROVE FALSE
      <4>1. e * d + e <= e * m
        BY <2>2, <2>3, <3>1, ProductMonotone
      <4> QED BY <2>1, <2>2, <2>3, <4>1
    <3> QED BY <3>1
  <2>5. m # 0
    BY <2>1, <2>2
  <2>6. m \in 1..d
    BY <2>2, <2>3, <2>4, <2>5
  <2> QED BY <2>6 DEF m, d
<1> QED BY <1>1, <1>2

-----------------------------------------------------------------------------
(* Lines.                                                                  *)

LEMMA LeastElement ==
    ASSUME NEW S \in SUBSET Nat, S # {}
    PROVE  Min(S) \in S /\ \A k \in S : Min(S) <= k
<1>1. IsWellFoundedOn(OpToRel(<, Nat), Nat)
  BY NatLessThanWellFounded, Zenon DEF OpToRel
<1>2. \E m \in S : \A k \in S : ~(<<k, m>> \in OpToRel(<, Nat))
  BY <1>1, WFMin, Zenon DEF OpToRel
<1>3. PICK m \in S : \A k \in S : ~(k < m)
  BY <1>2 DEF OpToRel
<1>4. \E m0 \in S : \A k \in S : m0 <= k
  BY <1>3
<1> QED BY <1>4 DEF Min

LineType == [form : {"event", "glued", "text"}, id : IDs, boot : 1..boots]

LEMMA OutType ==
    ASSUME TypeOK
    PROVE  /\ \A s \in Streams : out[s] \in Seq(LineType) /\ Len(out[s]) \in Nat
           /\ \A s \in Streams : DOMAIN out[s] = 1..Len(out[s])
           /\ \A s \in Streams : \A i \in 1..Len(out[s]) : out[s][i] \in LineType
<1>1. \A s \in Streams : out[s] \in Seq(LineType)
  BY DEF TypeOK, LineType
<1> QED BY <1>1

\* A process writes events of its own, in their stream and in its run.
LEMMA LineFacts ==
    ASSUME IInv, NEW s \in Streams, Running
    PROVE  /\ Line(s) \in LineType
           /\ Line(s).form = "event" /\ Line(s).boot = boots
           /\ Line(s).id = ID(s, IF s = "stderr" THEN sequence \div StderrEvery ELSE sequence)
           /\ Line(s).id.sequence = IF s = "stderr" THEN sequence \div StderrEvery ELSE sequence
           /\ (s = "stderr" => pc = "stderr") => SoundLine(s, Line(s))
<1> DEFINE n == IF s = "stderr" THEN sequence \div StderrEvery ELSE sequence
<1>1. /\ sequence \in Nat /\ sequence >= 1 /\ runID \in 0..boots /\ boots \in Nat /\ boots >= 1
      /\ runID \in {GivenID, boots}
  BY DEF IInv, TypeOK, Place, Running
<1>2. n \in Nat
  BY <1>1, StderrAssumption
<1>3. Cycles > 0 /\ (s = "stderr" => pc = "stderr") => n \in ExpectedLine(s)
  <2> SUFFICES ASSUME Cycles > 0, s = "stderr" => pc = "stderr" PROVE n \in ExpectedLine(s)
    OBVIOUS
  <2>1. sequence \in 1..Cycles /\ Cycles \in Nat
    BY <1>1, CyclesAssumption DEF IInv, Place
  <2>2. CASE s = "stderr"
    <3>1. sequence % StderrEvery = 0
      BY <2>2 DEF IInv, Place
    <3> QED BY <2>1, <2>2, <3>1, GroupFacts, StderrAssumption DEF ExpectedLine
  <2>3. CASE s # "stderr"
    BY <2>1, <2>3 DEF ExpectedLine
  <2> QED BY <2>2, <2>3
<1> HIDE DEF n
<1>4. Line(s) = [form |-> "event", id |-> [run |-> runID, stream |-> s, sequence |-> n], boot |-> boots]
  BY DEF Line, Event, ID, n
<1>5. [run |-> runID, stream |-> s, sequence |-> n] \in IDs
  BY <1>1, <1>2 DEF IDs
<1>6. Line(s) \in LineType
  BY <1>1, <1>4, <1>5 DEF LineType
<1>7. (s = "stderr" => pc = "stderr") => SoundLine(s, Line(s))
  BY <1>1, <1>3, <1>4 DEF SoundLine
<1> QED BY <1>4, <1>6, <1>7 DEF ID, n

\* What a write leaves as it was, and what it adds.
LEMMA EmitFacts ==
    ASSUME TypeOK, NEW s \in Streams, NEW line, Emit(s, line)
    PROVE  /\ out' = [out EXCEPT ![s] = Append(out[s], line)]
           /\ \A t \in Streams :
                /\ Len(out'[t]) = IF t = s THEN Len(out[t]) + 1 ELSE Len(out[t])
                /\ \A i \in 1..Len(out[t]) : out'[t][i] = out[t][i]
           /\ out'[s][Len(out[s]) + 1] = line
<1>1. out' = [out EXCEPT ![s] = Append(out[s], line)]
  BY DEF Emit
<1>2. out \in [Streams -> Seq(LineType)]
  BY DEF TypeOK, LineType
<1> QED BY <1>1, <1>2

\* The parts of the invariant that are about lines survive every write.
LEMMA EmitKeeps ==
    ASSUME IInv, NEW s \in Streams, NEW line \in LineType, Emit(s, line),
           SoundLine(s, line), line.boot = boots,
           UNCHANGED <<runID, boots, collection>>
    PROVE  /\ out' \in [Streams -> Seq(LineType')]
           /\ \A t \in Streams : read'[t] <= Len(out'[t])
           /\ LinesAreSound' /\ BootsInOrder' /\ FirstIsKept'
           /\ \A t \in Streams, n \in Nat : Has(t, n) => Has(t, n)'
           /\ FirstIsGlued => FirstIsGlued'
           /\ \A n \in Nat : IsEvent(line, ID(s, n)) => Has(s, n)'
           /\ s = "file" /\ line.form = "glued" => FirstIsGlued'
<1> USE DEF IInv
<1>1. /\ out' = [out EXCEPT ![s] = Append(out[s], line)]
      /\ \A t \in Streams :
            /\ Len(out'[t]) = IF t = s THEN Len(out[t]) + 1 ELSE Len(out[t])
            /\ \A i \in 1..Len(out[t]) : out'[t][i] = out[t][i]
      /\ out'[s][Len(out[s]) + 1] = line
  BY EmitFacts
<1>2. \A t \in Streams : Len(out[t]) \in Nat /\ \A i \in 1..Len(out[t]) : out[t][i] \in LineType
  BY OutType
<1>3. out' \in [Streams -> Seq(LineType')]
  <2>1. LineType' = LineType
    BY DEF LineType, IDs
  <2>2. out \in [Streams -> Seq(LineType)]
    BY DEF TypeOK, LineType
  <2> QED BY <1>1, <2>1, <2>2
<1>4. \A t \in Streams : read'[t] \in Nat /\ read'[t] <= Len(out[t]) /\ read'[t] <= Len(out'[t])
  BY <1>1, <1>2 DEF TypeOK, collection
<1>5. LinesAreSound'
  <2> SUFFICES ASSUME NEW t \in Streams, NEW i \in 1..Len(out'[t]) PROVE SoundLine(t, out'[t][i])
    BY DEF LinesAreSound, SoundLine, ExpectedLine
  <2>1. CASE i \in 1..Len(out[t])
    BY <1>1, <2>1 DEF LinesAreSound
  <2>2. CASE i \notin 1..Len(out[t])
    BY <1>1, <1>2, <2>2
  <2> QED BY <2>1, <2>2
<1>6. BootsInOrder'
  <2> SUFFICES ASSUME NEW t \in Streams, NEW i \in 1..Len(out'[t]), NEW j \in 1..Len(out'[t]), i <= j
               PROVE  out'[t][i].boot <= out'[t][j].boot
    BY DEF BootsInOrder
  <2>0. boots \in Nat /\ \A k \in 1..Len(out[t]) : out[t][k].boot \in Nat /\ out[t][k].boot <= boots
    BY <1>2 DEF LineType, TypeOK
  <2>1. CASE j \in 1..Len(out[t])
    <3>1. i \in 1..Len(out[t])
      BY <1>2, <2>1
    <3> QED BY <1>1, <2>1, <3>1 DEF BootsInOrder
  <2>2. CASE j \notin 1..Len(out[t])
    <3>1. out'[t][j].boot = boots
      BY <1>1, <1>2, <2>2
    <3>2. out'[t][i].boot \in Nat /\ out'[t][i].boot <= boots
      <4>1. CASE i \in 1..Len(out[t])
        BY <1>1, <2>0, <4>1
      <4>2. CASE i \notin 1..Len(out[t])
        BY <1>1, <1>2, <2>0, <4>2
      <4> QED BY <4>1, <4>2
    <3> QED BY <3>1, <3>2
  <2> QED BY <2>1, <2>2
<1>7. FirstIsKept'
  <2>1. \A id \in DOMAIN stored : id.stream \in Streams
    BY DEF TypeOK, IDs
  <2>2. ASSUME NEW id \in DOMAIN stored
        PROVE  \E i \in 1..read[id.stream] : FirstOf(id, i)' /\ stored[id] = out'[id.stream][i].boot
    <3>1. PICK i \in 1..read[id.stream] : FirstOf(id, i) /\ stored[id] = out[id.stream][i].boot
      BY DEF FirstIsKept
    <3>2. \A j \in 1..i : j \in 1..Len(out[id.stream]) /\ out'[id.stream][j] = out[id.stream][j]
      BY <1>1, <1>2, <1>4, <2>1 DEF collection
    <3>3. i \in 1..i /\ \A j \in 1..i - 1 : j \in 1..i
      BY <1>4, <2>1 DEF collection
    <3>4. FirstOf(id, i)'
      BY <3>1, <3>2, <3>3 DEF FirstOf, IsEvent
    <3> QED BY <3>1, <3>2, <3>3, <3>4
  <2>3. \A t \in Streams : \A i \in 1..read[t] : i \in 1..Len(out[t]) /\ out'[t][i] = out[t][i]
    BY <1>1, <1>2, <1>4 DEF collection
  <2>4. \A t \in Streams : \A i \in 1..read[t] :
           out'[t][i].form = "event" => out'[t][i].id \in DOMAIN stored
    BY <2>3 DEF FirstIsKept
  <2>5. read' = read /\ stored' = stored
    BY DEF collection
  <2> QED BY <2>2, <2>4, <2>5 DEF FirstIsKept
<1>8. \A t \in Streams, n \in Nat : Has(t, n) => Has(t, n)'
  <2> SUFFICES ASSUME NEW t \in Streams, NEW n \in Nat, Has(t, n) PROVE Has(t, n)'
    OBVIOUS
  <2>1. PICK i \in 1..Len(out[t]) : IsEvent(out[t][i], ID(t, n))
    BY DEF Has
  <2>2. i \in 1..Len(out'[t]) /\ out'[t][i] = out[t][i] /\ ID(t, n)' = ID(t, n)
    BY <1>1, <1>2 DEF ID
  <2> QED BY <2>1, <2>2 DEF Has, IsEvent
<1>9. FirstIsGlued => FirstIsGlued'
  <2> SUFFICES ASSUME FirstIsGlued PROVE FirstIsGlued'
    OBVIOUS
  <2>1. PICK i \in 1..Len(out["file"]) : out["file"][i].form = "glued"
    BY DEF FirstIsGlued
  <2>2. i \in 1..Len(out'["file"]) /\ out'["file"][i] = out["file"][i]
    BY <1>1, <1>2 DEF Streams
  <2> QED BY <2>1, <2>2 DEF FirstIsGlued
<1>10. Len(out[s]) + 1 \in 1..Len(out'[s])
  BY <1>1, <1>2
<1>11. \A n \in Nat : IsEvent(line, ID(s, n)) => Has(s, n)'
  BY <1>1, <1>10 DEF Has, IsEvent, ID
<1>12. s = "file" /\ line.form = "glued" => FirstIsGlued'
  BY <1>1, <1>10 DEF FirstIsGlued
<1> QED BY <1>3, <1>4, <1>5, <1>6, <1>7, <1>8, <1>9, <1>11, <1>12

\* They survive the steps that write nothing and start nothing.
LEMMA QuietKeeps ==
    ASSUME IInv, UNCHANGED <<runID, boots, out, read, stored>>
    PROVE  /\ LinesAreSound' /\ BootsInOrder' /\ FirstIsKept'
           /\ \A t \in Streams, n \in Nat : Has(t, n) => Has(t, n)'
           /\ FirstIsGlued => FirstIsGlued'
<1>1. LinesAreSound'
  BY DEF IInv, LinesAreSound, SoundLine, ExpectedLine
<1>2. BootsInOrder'
  BY DEF IInv, BootsInOrder
<1>3. FirstIsKept'
  BY DEF IInv, FirstIsKept, FirstOf, IsEvent
<1>4. \A t \in Streams, n \in Nat : Has(t, n) => Has(t, n)'
  BY DEF Has, IsEvent, ID
<1>5. FirstIsGlued => FirstIsGlued'
  BY DEF FirstIsGlued
<1> QED BY <1>1, <1>2, <1>3, <1>4, <1>5

\* A process that has just started has passed nothing.
LEMMA LaunchInv ==
    ASSUME IInv, NEW given \in BOOLEAN, Launch(given),
           starts' \in Nat, restarts' \in 0..MaxRestarts
    PROVE  IInv'
<1> USE DEF IInv
<1>1. /\ boots' = boots + 1 /\ boots \in Nat /\ runID' \in {GivenID, boots'}
      /\ pc' = "stdout" /\ sequence' = 1 /\ cancelled' = FALSE
      /\ UNCHANGED <<out, torn, faults, read, stored>>
  BY DEF Launch, TypeOK, collection
<1>2. LineType \subseteq LineType'
  <2>1. IDs \subseteq IDs' /\ 1..boots \subseteq 1..boots'
    BY <1>1 DEF IDs
  <2> QED BY <2>1 DEF LineType
<1>3. out' \in [Streams -> Seq(LineType')]
  <2>1. \A s \in Streams : out[s] \in Seq(LineType')
    BY <1>2, OutType, SeqMonotonic
  <2> QED BY <1>1, <2>1 DEF TypeOK
<1>4. DOMAIN stored' \subseteq IDs' /\ \A id \in DOMAIN stored' : stored'[id] \in 1..boots'
  <2>1. IDs \subseteq IDs' /\ 1..boots \subseteq 1..boots'
    BY <1>1 DEF IDs
  <2> QED BY <1>1, <2>1 DEF TypeOK
<1>5. TypeOK'
  <2>1. runID' \in 0..boots' /\ boots' \in Nat /\ sequence' \in Nat
    BY <1>1 DEF GivenID
  <2> QED BY <1>1, <1>3, <1>4, <2>1 DEF TypeOK, LineType
<1>6. Place'
  BY <1>1, CyclesAssumption DEF Place, Running
<1>7. LinesAreSound' /\ BootsInOrder' /\ FirstIsKept'
  BY <1>1 DEF LinesAreSound, SoundLine, ExpectedLine, BootsInOrder, FirstIsKept, FirstOf, IsEvent
<1>8. RunIsWritten'
  <2>1. \A n \in 1..sequence', s \in Streams : ~Passed(s, n)'
    BY <1>1 DEF Passed, Behind
  <2> QED BY <2>1 DEF RunIsWritten, Streams
<1> QED BY <1>5, <1>6, <1>7, <1>8

LEMMA CollectInv == ASSUME IInv, Collect PROVE IInv'
<1> USE DEF IInv
<1>1. /\ read' = [s \in Streams |-> Len(out[s])]
      /\ stored' = [id \in DOMAIN stored \cup NewIDs |->
                      IF id \in DOMAIN stored THEN stored[id]
                      ELSE BootsOf(id)[Min(DOMAIN BootsOf(id))]]
      /\ UNCHANGED <<loop, docker, out, torn, faults>>
  BY DEF Collect, ReadAll
<1>2. \A s \in Streams : read[s] \in Nat /\ Len(out[s]) \in Nat /\ read[s] <= Len(out[s])
  BY OutType DEF TypeOK
<1>3. \A s \in Streams :
        /\ Len(Unread(s)) = Len(out[s]) - read[s] /\ DOMAIN Unread(s) = 1..Len(out[s]) - read[s]
        /\ \A i \in 1..Len(out[s]) - read[s] :
             Unread(s)[i] = out[s][read[s] + i] /\ read[s] + i \in 1..Len(out[s])
  <2> TAKE s \in Streams
  <2>1. \A i \in read[s] + 1 .. Len(out[s]) : out[s][i] \in LineType
    BY <1>2, OutType
  <2>2. /\ Unread(s) \in Seq(LineType)
        /\ Len(Unread(s)) = IF read[s] + 1 <= Len(out[s]) THEN Len(out[s]) - (read[s] + 1) + 1 ELSE 0
        /\ \A i \in 1..Len(out[s]) - (read[s] + 1) + 1 : Unread(s)[i] = out[s][read[s] + 1 + i - 1]
    BY <1>2, <2>1, SubSeqProperties DEF Unread
  <2>3. Len(Unread(s)) = Len(out[s]) - read[s]
    BY <1>2, <2>2
  <2>4. DOMAIN Unread(s) = 1..Len(Unread(s))
    BY <2>2
  <2> QED BY <1>2, <2>2, <2>3, <2>4
<1>4. ASSUME NEW s \in Streams, NEW i \in 1..Len(out[s]), out[s][i].form = "event"
      PROVE  out[s][i].id \in IDs /\ out[s][i].id.stream = s /\ out[s][i].boot \in 1..boots
  BY <1>4, OutType DEF LinesAreSound, SoundLine, LineType
<1>5. ASSUME NEW s \in Streams, NEW i \in 1..Len(out[s]), out[s][i].form = "event"
      PROVE  out[s][i].id \in DOMAIN stored \cup NewIDs
  <2>1. CASE i <= read[s]
    BY <1>2, <1>5, <2>1 DEF FirstIsKept
  <2>2. CASE i > read[s]
    <3>1. i - read[s] \in 1..Len(out[s]) - read[s] /\ read[s] + (i - read[s]) = i
      BY <1>2, <2>2
    <3>2. Unread(s)[i - read[s]] = out[s][i] /\ i - read[s] \in DOMAIN Unread(s)
      BY <1>3, <3>1
    <3>3. out[s][i] \in ToSet(Unread(s))
      BY <3>2 DEF ToSet
    <3> QED BY <1>5, <3>3 DEF NewIDs
  <2> QED BY <1>2, <2>1, <2>2
<1>6. ASSUME NEW id \in NewIDs, id \notin DOMAIN stored
      PROVE  /\ id \in IDs /\ stored'[id] \in 1..boots
             /\ \E i \in 1..Len(out[id.stream]) : FirstOf(id, i) /\ stored'[id] = out[id.stream][i].boot
  <2>0. PICK s \in Streams : \E j \in 1..Len(out[s]) - read[s] :
           Unread(s)[j].form = "event" /\ Unread(s)[j].id = id
    BY <1>3 DEF NewIDs, ToSet
  <2>1. PICK here \in 1..Len(out[s]) - read[s] :
           Unread(s)[here].form = "event" /\ Unread(s)[here].id = id
    BY <2>0
  <2>2. id \in IDs /\ id.stream = s
    BY <1>3, <1>4, <2>1
  <2> DEFINE D == {i \in DOMAIN Unread(s) : Unread(s)[i].form = "event" /\ Unread(s)[i].id = id}
             m == Min(D)
  <2>3. BootsOf(id) = [i \in D |-> Unread(s)[i].boot]
    BY <2>2 DEF BootsOf
  <2>4. D \in SUBSET Nat /\ D # {}
    BY <1>2, <1>3, <2>1
  <2>5. m \in D /\ \A k \in D : m <= k
    <3> HIDE DEF D
    <3> QED BY <2>4, LeastElement
  <2>6. stored'[id] = Unread(s)[m].boot
    <3>1. stored'[id] = BootsOf(id)[Min(DOMAIN BootsOf(id))]
      BY <1>1, <1>6
    <3> HIDE DEF D
    <3>2. DOMAIN BootsOf(id) = D /\ \A i \in D : BootsOf(id)[i] = Unread(s)[i].boot
      BY <2>3
    <3> QED BY <2>5, <3>1, <3>2
  <2>7. m \in 1..Len(out[s]) - read[s] /\ IsEvent(Unread(s)[m], id)
    BY <1>3, <2>5 DEF IsEvent
  <2> DEFINE i == read[s] + m
  <2>8. i \in 1..Len(out[s]) /\ out[s][i] = Unread(s)[m] /\ IsEvent(out[s][i], id)
    BY <1>3, <2>7
  <2>9. ASSUME NEW j \in 1..i - 1, IsEvent(out[s][j], id) PROVE FALSE
    <3>1. CASE j <= read[s]
      <4>1. j \in 1..read[s]
        BY <1>2, <2>7, <3>1
      <4> QED BY <1>6, <2>9, <4>1 DEF FirstIsKept, IsEvent
    <3>2. CASE j > read[s]
      <4>1. /\ j - read[s] \in 1..Len(out[s]) - read[s] /\ read[s] + (j - read[s]) = j
            /\ j - read[s] < m
        BY <1>2, <2>7, <3>2
      <4>2. j - read[s] \in D
        BY <1>3, <2>9, <4>1 DEF IsEvent
      <4> HIDE DEF D, m
      <4>3. m <= j - read[s]
        BY <2>5, <4>2
      <4>4. m \in Int /\ j - read[s] \in Int
        BY <1>2, <2>7, <4>1
      <4> QED BY <4>1, <4>3, <4>4
    <3> QED BY <1>2, <2>7, <3>1, <3>2
  <2>10. FirstOf(id, i)
    BY <2>2, <2>8, <2>9 DEF FirstOf
  <2>11. stored'[id] = out[id.stream][i].boot /\ stored'[id] \in 1..boots
    BY <1>4, <2>2, <2>6, <2>8 DEF IsEvent
  <2> QED BY <2>2, <2>8, <2>10, <2>11
<1>7. DOMAIN stored' = DOMAIN stored \cup NewIDs
  BY <1>1
<1>8. \A id \in DOMAIN stored : stored'[id] = stored[id]
  BY <1>1
<1>9. TypeOK'
  <2>1. DOMAIN stored' \subseteq IDs' /\ \A id \in DOMAIN stored' : stored'[id] \in 1..boots'
    <3>1. boots' = boots /\ IDs' = IDs
      BY <1>1 DEF docker, IDs
    <3> QED BY <1>6, <1>7, <1>8, <3>1 DEF TypeOK
  <2>2. read' \in [Streams -> Nat] /\ \A s \in Streams : read'[s] <= Len(out'[s])
    BY <1>1, <1>2
  <2> QED BY <1>1, <2>1, <2>2 DEF TypeOK, loop, docker, IDs
<1>10. FirstIsKept'
  <2>1. \A s \in Streams : read'[s] = Len(out[s])
    BY <1>1
  <2>2. ASSUME NEW id \in DOMAIN stored'
        PROVE  \E i \in 1..read'[id.stream] : FirstOf(id, i) /\ stored'[id] = out[id.stream][i].boot
    <3>1. CASE id \in DOMAIN stored
      <4>1. id.stream \in Streams
        BY <3>1 DEF TypeOK, IDs
      <4>2. PICK i \in 1..read[id.stream] : FirstOf(id, i) /\ stored[id] = out[id.stream][i].boot
        BY <3>1 DEF FirstIsKept
      <4>3. i \in 1..read'[id.stream]
        BY <1>2, <2>1, <4>1, <4>2
      <4> QED BY <1>8, <3>1, <4>2, <4>3
    <3>2. CASE id \notin DOMAIN stored
      <4>1. id \in NewIDs
        BY <1>7, <3>2
      <4>2. id.stream \in Streams
        BY <1>6, <3>2, <4>1 DEF IDs
      <4> QED BY <1>6, <2>1, <3>2, <4>1, <4>2
    <3> QED BY <3>1, <3>2
  <2>3. \A s \in Streams : \A i \in 1..read'[s] :
           out[s][i].form = "event" => out[s][i].id \in DOMAIN stored'
    BY <1>5, <1>7, <2>1
  <2>4. out' = out
    BY <1>1
  <2> QED BY <2>2, <2>3, <2>4 DEF FirstIsKept, FirstOf
<1>11. Place' /\ LinesAreSound' /\ BootsInOrder' /\ RunIsWritten'
  BY <1>1 DEF loop, docker, Place, Running, LinesAreSound, SoundLine, ExpectedLine, BootsInOrder,
              RunIsWritten, Passed, Behind, Has, ID, IsEvent, FirstIsGlued
<1> QED BY <1>9, <1>10, <1>11

-----------------------------------------------------------------------------
(* Every step keeps the invariant.                                         *)

LEMMA InitInv == Init => IInv
<1> SUFFICES ASSUME Init PROVE IInv
  OBVIOUS
<1>1. /\ pc = "down" /\ sequence = 0 /\ runID = 0 /\ cancelled = FALSE /\ torn = FALSE
      /\ starts = 0 /\ boots = 0 /\ restarts = 0 /\ faults = 0
      /\ out = [s \in Streams |-> << >>] /\ read = [s \in Streams |-> 0] /\ stored = << >>
  BY DEF Init, GivenID
<1>2. DOMAIN stored = {}
  BY <1>1
<1>3. TypeOK
  <2>1. out \in [Streams -> Seq(LineType)]
    BY <1>1
  <2>2. restarts \in 0..MaxRestarts /\ faults \in 0..MaxFaults
    BY <1>1, BoundsAssumption
  <2>3. runID \in 0..boots /\ starts \in Nat /\ boots \in Nat /\ sequence \in Nat
    BY <1>1
  <2>4. read \in [Streams -> Nat] /\ \A s \in Streams : read[s] <= Len(out[s])
    BY <1>1
  <2>5. DOMAIN stored \subseteq IDs /\ \A id \in DOMAIN stored : stored[id] \in 1..boots
    BY <1>2
  <2>6. pc = "down" /\ torn \in BOOLEAN /\ cancelled \in BOOLEAN
    BY <1>1
  <2> HIDE <1>1
  <2> QED BY <2>1, <2>2, <2>3, <2>4, <2>5, <2>6 DEF TypeOK, LineType
<1>4. \A s \in Streams : Len(out[s]) = 0 /\ read[s] = 0
  BY <1>1
<1> QED BY <1>1, <1>2, <1>3, <1>4, CyclesAssumption
        DEF IInv, Place, Running, GivenID, LinesAreSound, BootsInOrder, FirstIsKept, RunIsWritten

LEMMA WriteStdoutInv == ASSUME IInv, WriteStdout PROVE IInv'
<1> USE DEF IInv
<1>1. /\ pc = "stdout" /\ ~cancelled /\ Emit("stdout", Line("stdout"))
      /\ pc' = IF sequence % StderrEvery = 0 THEN "stderr" ELSE "file"
      /\ UNCHANGED <<sequence, runID, cancelled, starts, boots, restarts, torn, faults, read, stored>>
  BY DEF WriteStdout, docker, collection
<1>2. Running /\ sequence \in Nat /\ sequence >= 1
  BY <1>1 DEF Running, Place, TypeOK
<1>3. /\ Line("stdout") \in LineType /\ IsEvent(Line("stdout"), ID("stdout", sequence))
      /\ SoundLine("stdout", Line("stdout")) /\ Line("stdout").boot = boots
  BY <1>2, LineFacts DEF IsEvent, Streams
<1>4. /\ out' \in [Streams -> Seq(LineType')] /\ \A t \in Streams : read'[t] <= Len(out'[t])
      /\ LinesAreSound' /\ BootsInOrder' /\ FirstIsKept'
      /\ \A t \in Streams, n \in Nat : Has(t, n) => Has(t, n)'
      /\ FirstIsGlued => FirstIsGlued'
      /\ \A n \in Nat : n = sequence => Has("stdout", n)'
  BY <1>1, <1>2, <1>3, EmitKeeps DEF Streams, collection
<1>5. TypeOK'
  BY <1>1, <1>4 DEF TypeOK, LineType, IDs
<1>6. Place'
  BY <1>1 DEF Place, Running
<1>7. RunIsWritten'
  <2> SUFFICES ASSUME NEW n \in 1..sequence
               PROVE  /\ Passed("stdout", n)' => Has("stdout", n)'
                      /\ Passed("stderr", n)' /\ n % StderrEvery = 0 => Has("stderr", n \div StderrEvery)'
                      /\ Passed("file", n)' => Has("file", n)' \/ (n = 1 /\ FirstIsGlued')
    BY <1>1 DEF RunIsWritten
  <2>1. n \in Nat /\ n \div StderrEvery \in Nat
    BY StderrAssumption
  <2>2. CASE n < sequence
    <3>1. Passed("stdout", n) /\ Passed("stderr", n) /\ Passed("file", n)
      BY <2>2 DEF Passed
    <3> QED BY <1>2, <1>4, <2>1, <3>1 DEF RunIsWritten, Streams
  <2>3. CASE n = sequence
    <3>1. ~Passed("file", n)' /\ (n % StderrEvery = 0 => ~Passed("stderr", n)')
      BY <1>1, <1>2, <2>3 DEF Passed, Behind
    <3> QED BY <1>4, <2>1, <2>3, <3>1
  <2> QED BY <1>2, <2>2, <2>3
<1> QED BY <1>4, <1>5, <1>6, <1>7

LEMMA WriteStderrInv == ASSUME IInv, WriteStderr PROVE IInv'
<1> USE DEF IInv
<1> DEFINE group == sequence \div StderrEvery
<1>1. /\ pc = "stderr" /\ Emit("stderr", Line("stderr")) /\ pc' = "file"
      /\ UNCHANGED <<sequence, runID, cancelled, starts, boots, restarts, torn, faults, read, stored>>
  BY DEF WriteStderr, docker, collection
<1>2. Running /\ sequence \in Nat /\ sequence >= 1 /\ group \in Nat
  <2>1. Running /\ sequence \in Nat /\ sequence >= 1
    BY <1>1 DEF Running, Place, TypeOK
  <2> QED BY <2>1, StderrAssumption
<1>3. /\ Line("stderr") \in LineType /\ IsEvent(Line("stderr"), ID("stderr", group))
      /\ SoundLine("stderr", Line("stderr")) /\ Line("stderr").boot = boots
  BY <1>1, <1>2, LineFacts DEF IsEvent, Streams
<1>4. /\ out' \in [Streams -> Seq(LineType')] /\ \A t \in Streams : read'[t] <= Len(out'[t])
      /\ LinesAreSound' /\ BootsInOrder' /\ FirstIsKept'
      /\ \A t \in Streams, n \in Nat : Has(t, n) => Has(t, n)'
      /\ FirstIsGlued => FirstIsGlued'
      /\ \A n \in Nat : n = group => Has("stderr", n)'
  <2> HIDE DEF group
  <2> QED BY <1>1, <1>2, <1>3, EmitKeeps DEF Streams, collection
<1>5. TypeOK'
  BY <1>1, <1>4 DEF TypeOK, LineType, IDs
<1>6. Place'
  BY <1>1 DEF Place, Running
<1>7. RunIsWritten'
  <2> SUFFICES ASSUME NEW n \in 1..sequence
               PROVE  /\ Passed("stdout", n)' => Has("stdout", n)'
                      /\ Passed("stderr", n)' /\ n % StderrEvery = 0 => Has("stderr", n \div StderrEvery)'
                      /\ Passed("file", n)' => Has("file", n)' \/ (n = 1 /\ FirstIsGlued')
    BY <1>1 DEF RunIsWritten
  <2>1. n \in Nat /\ n \div StderrEvery \in Nat
    BY StderrAssumption
  <2>2. CASE n < sequence
    <3>1. Passed("stdout", n) /\ Passed("stderr", n) /\ Passed("file", n)
      BY <2>2 DEF Passed
    <3> QED BY <1>2, <1>4, <2>1, <3>1 DEF RunIsWritten, Streams
  <2>3. CASE n = sequence
    <3>1. ~Passed("file", n)' /\ Passed("stdout", n)
      BY <1>1, <1>2, <2>3 DEF Passed, Behind
    <3>2. Has("stdout", n)'
      BY <1>2, <1>4, <2>1, <3>1 DEF RunIsWritten, Streams
    <3>3. Has("stderr", n \div StderrEvery)'
      BY <1>4, <2>1, <2>3
    <3> QED BY <3>1, <3>2, <3>3
  <2> QED BY <1>2, <2>2, <2>3
<1> QED BY <1>4, <1>5, <1>6, <1>7

LEMMA WriteFileInv == ASSUME IInv, WriteFile PROVE IInv'
<1> USE DEF IInv
<1> DEFINE line == [Line("file") EXCEPT !.form = IF torn THEN "glued" ELSE @]
<1>1. /\ pc = "file" /\ Emit("file", line) /\ torn' = FALSE
      /\ pc' = IF Cycles > 0 /\ sequence >= Cycles THEN "sync" ELSE "wait"
      /\ UNCHANGED <<sequence, runID, cancelled, starts, boots, restarts, faults, read, stored>>
  BY DEF WriteFile, docker, collection
<1>2. Running /\ sequence \in Nat /\ sequence >= 1 /\ (torn => sequence = 1)
  BY <1>1 DEF Running, Place, TypeOK
<1>3. /\ Line("file") \in LineType /\ IsEvent(Line("file"), ID("file", sequence))
      /\ SoundLine("file", Line("file")) /\ Line("file").boot = boots
      /\ Line("file").id.sequence = sequence
  BY <1>2, LineFacts DEF IsEvent, Streams
<1>4. /\ line \in LineType /\ line.boot = boots /\ SoundLine("file", line)
      /\ ~torn => IsEvent(line, ID("file", sequence))
      /\ torn => line.form = "glued"
  <2>1. CASE torn
    <3>1. line = [Line("file") EXCEPT !.form = "glued"]
      BY <2>1
    <3>2. line \in LineType /\ line.form = "glued" /\ line.boot = boots /\ line.id.sequence = sequence
      BY <1>3, <3>1 DEF LineType
    <3> QED BY <1>2, <2>1, <3>2 DEF SoundLine
  <2>2. CASE ~torn
    <3>1. line = Line("file")
      BY <1>3, <2>2 DEF LineType
    <3> QED BY <1>3, <2>2, <3>1
  <2> QED BY <2>1, <2>2
<1> HIDE DEF line
<1>5. /\ out' \in [Streams -> Seq(LineType')] /\ \A t \in Streams : read'[t] <= Len(out'[t])
      /\ LinesAreSound' /\ BootsInOrder' /\ FirstIsKept'
      /\ \A t \in Streams, n \in Nat : Has(t, n) => Has(t, n)'
      /\ FirstIsGlued => FirstIsGlued'
      /\ \A n \in Nat : ~torn /\ n = sequence => Has("file", n)'
      /\ torn => FirstIsGlued'
  BY <1>1, <1>2, <1>4, EmitKeeps DEF Streams, collection
<1>6. TypeOK'
  BY <1>1, <1>5 DEF TypeOK, LineType, IDs
<1>7. Place'
  BY <1>1, CyclesAssumption DEF Place, Running, TypeOK
<1>8. RunIsWritten'
  <2> SUFFICES ASSUME NEW n \in 1..sequence
               PROVE  /\ Passed("stdout", n)' => Has("stdout", n)'
                      /\ Passed("stderr", n)' /\ n % StderrEvery = 0 => Has("stderr", n \div StderrEvery)'
                      /\ Passed("file", n)' => Has("file", n)' \/ (n = 1 /\ FirstIsGlued')
    BY <1>1 DEF RunIsWritten
  <2>1. n \in Nat /\ n \div StderrEvery \in Nat
    BY StderrAssumption
  <2>2. CASE n < sequence
    <3>1. Passed("stdout", n) /\ Passed("stderr", n) /\ Passed("file", n)
      BY <2>2 DEF Passed
    <3> QED BY <1>2, <1>5, <2>1, <3>1 DEF RunIsWritten, Streams
  <2>3. CASE n = sequence
    <3>1. Passed("stdout", n) /\ Passed("stderr", n)
      BY <1>1, <1>2, <2>3 DEF Passed, Behind
    <3>2. Has("stdout", n)' /\ (n % StderrEvery = 0 => Has("stderr", n \div StderrEvery)')
      BY <1>2, <1>5, <2>1, <3>1 DEF RunIsWritten, Streams
    <3>3. Has("file", n)' \/ (n = 1 /\ FirstIsGlued')
      BY <1>2, <1>5, <2>1, <2>3
    <3> QED BY <3>2, <3>3
  <2> QED BY <1>2, <2>2, <2>3
<1> QED BY <1>5, <1>6, <1>7, <1>8

\* A line of text on stderr, after which the process is gone.
LEMMA ReportInv ==
    ASSUME IInv, Running, NEW s \in Streams, Emit("stderr", [Line(s) EXCEPT !.form = "text"]),
           pc' = "failed", torn' \in BOOLEAN, faults' \in 0..MaxFaults,
           UNCHANGED <<sequence, runID, cancelled, docker, collection>>
    PROVE  IInv'
<1> USE DEF IInv
<1> DEFINE line == [Line(s) EXCEPT !.form = "text"]
<1>1. line \in LineType /\ line.form = "text" /\ line.boot = boots
  BY LineFacts DEF LineType
<1> HIDE DEF line
<1>2. SoundLine("stderr", line) /\ Emit("stderr", line)
  BY <1>1 DEF SoundLine, line
<1>3. UNCHANGED <<sequence, runID, cancelled, starts, boots, restarts, read, stored>>
  BY DEF docker, collection
<1>4. /\ out' \in [Streams -> Seq(LineType')] /\ \A t \in Streams : read'[t] <= Len(out'[t])
      /\ LinesAreSound' /\ BootsInOrder' /\ FirstIsKept'
  BY <1>1, <1>2, <1>3, EmitKeeps DEF Streams, collection
<1>5. TypeOK'
  BY <1>3, <1>4 DEF TypeOK, LineType, IDs
<1>6. Place'
  BY <1>3 DEF Place, Running
<1>7. RunIsWritten'
  BY DEF RunIsWritten, Running
<1> QED BY <1>4, <1>5, <1>6, <1>7

\* The steps that write nothing: nothing is passed that was not.
LEMMA QuietInv ==
    ASSUME IInv, UNCHANGED <<runID, boots, starts, restarts, out, torn, read, stored>>,
           pc' \in {"stdout", "stderr", "file", "wait", "sync", "down", "done", "failed"},
           sequence' \in Nat, cancelled' \in BOOLEAN, faults' \in 0..MaxFaults, Place',
           (Running \/ pc = "done")' =>
               /\ Running \/ pc = "done"
               /\ \A s \in Streams : \A n \in 1..sequence' :
                    Passed(s, n)' => n \in 1..sequence /\ Passed(s, n)
    PROVE  IInv'
<1> USE DEF IInv
<1>1. /\ LinesAreSound' /\ BootsInOrder' /\ FirstIsKept'
      /\ \A s \in Streams, n \in Nat : Has(s, n) => Has(s, n)'
      /\ FirstIsGlued => FirstIsGlued'
  BY QuietKeeps
<1>2. TypeOK'
  BY DEF TypeOK, IDs
<1>3. RunIsWritten'
  <2> SUFFICES ASSUME (Running \/ pc = "done")', NEW n \in 1..sequence'
               PROVE  /\ Passed("stdout", n)' => Has("stdout", n)'
                      /\ Passed("stderr", n)' /\ n % StderrEvery = 0 => Has("stderr", n \div StderrEvery)'
                      /\ Passed("file", n)' => Has("file", n)' \/ (n = 1 /\ FirstIsGlued')
    BY DEF RunIsWritten
  <2>1. n \in Nat /\ n \div StderrEvery \in Nat
    BY StderrAssumption
  <2>2. \A s \in Streams : Passed(s, n)' => n \in 1..sequence /\ Passed(s, n)
    OBVIOUS
  <2> QED BY <1>1, <2>1, <2>2 DEF RunIsWritten, Streams
<1> QED BY <1>1, <1>2, <1>3

LEMMA StepInv == ASSUME IInv, [Next]_vars PROVE IInv'
<1> USE DEF IInv
<1>0. /\ sequence \in Nat /\ starts \in Nat /\ restarts \in 0..MaxRestarts
      /\ faults \in 0..MaxFaults /\ MaxFaults \in Nat /\ MaxRestarts \in Nat
      /\ pc \in {"stdout", "stderr", "file", "wait", "sync", "down", "done", "failed"}
      /\ cancelled \in BOOLEAN /\ Cycles \in Nat
  BY BoundsAssumption, CyclesAssumption DEF TypeOK
<1>1. ASSUME NEW given \in BOOLEAN, Up(given) PROVE IInv'
  BY <1>0, <1>1, LaunchInv DEF Up
<1>2. CASE Restart
  <2>1. (runID = GivenID) \in BOOLEAN /\ Launch(runID = GivenID)
        /\ starts' \in Nat /\ restarts' \in 0..MaxRestarts
    BY <1>0, <1>2 DEF Restart
  <2> QED BY <2>1, LaunchInv
<1>3. CASE Cancel
  <2>1. Running /\ cancelled' = TRUE /\ Running'
        /\ UNCHANGED <<pc, sequence, runID, boots, starts, restarts, out, torn, faults, read, stored>>
    BY <1>3 DEF Cancel, docker, collection, Running
  <2>2. Place'
    BY <2>1 DEF Place, Running
  <2>3. \A s \in Streams : \A n \in 1..sequence' :
          Passed(s, n)' => n \in 1..sequence /\ Passed(s, n)
    BY <2>1 DEF Passed, Behind
  <2> QED BY <1>0, <2>1, <2>2, <2>3, QuietInv
<1>4. CASE Kill
  <2>1. Running /\ pc' = "failed" /\ faults' \in 0..MaxFaults
        /\ UNCHANGED <<sequence, cancelled, runID, boots, starts, restarts, out, torn, read, stored>>
    BY <1>0, <1>4 DEF Kill, Fault, docker, collection
  <2>2. Place' /\ ~(Running \/ pc = "done")'
    BY <2>1 DEF Place, Running
  <2> QED BY <1>0, <2>1, <2>2, QuietInv
<1>5. CASE BeginCycle
  <2>1. pc = "stdout" /\ cancelled /\ pc' = "sync" /\ Running
        /\ UNCHANGED <<sequence, cancelled, runID, boots, starts, restarts, out, torn, faults, read, stored>>
    BY <1>5 DEF BeginCycle, docker, collection, Running
  <2>2. Place'
    BY <2>1 DEF Place, Running
  <2>3. \A s \in Streams : \A n \in 1..sequence' :
          Passed(s, n)' => n \in 1..sequence /\ Passed(s, n)
    BY <2>1 DEF Passed, Behind
  <2> QED BY <1>0, <2>1, <2>2, <2>3, QuietInv
<1>6. CASE Wake
  <2>1. pc = "wait" /\ pc' = "stdout" /\ sequence' = sequence + 1 /\ Running
        /\ UNCHANGED <<cancelled, runID, boots, starts, restarts, out, torn, faults, read, stored>>
    BY <1>6 DEF Wake, docker, collection, Running
  <2>2. Place'
    BY <1>0, <2>1 DEF Place, Running
  <2>3. \A s \in Streams : \A n \in 1..sequence' :
          Passed(s, n)' => n \in 1..sequence /\ Passed(s, n)
    BY <1>0, <2>1 DEF Passed, Behind, Streams
  <2> QED BY <1>0, <2>1, <2>2, <2>3, QuietInv
<1>7. CASE WakeCancelled
  <2>1. pc = "wait" /\ cancelled /\ pc' = "sync" /\ Running
        /\ UNCHANGED <<sequence, cancelled, runID, boots, starts, restarts, out, torn, faults, read, stored>>
    BY <1>7 DEF WakeCancelled, docker, collection, Running
  <2>2. Place'
    BY <2>1 DEF Place, Running
  <2>3. \A s \in Streams : \A n \in 1..sequence' :
          Passed(s, n)' => n \in 1..sequence /\ Passed(s, n)
    BY <2>1 DEF Passed, Behind
  <2> QED BY <1>0, <2>1, <2>2, <2>3, QuietInv
<1>8. CASE Sync
  <2>1. pc = "sync" /\ pc' = "done" /\ Running
        /\ UNCHANGED <<sequence, cancelled, runID, boots, starts, restarts, out, torn, faults, read, stored>>
    BY <1>8 DEF Sync, docker, collection, Running
  <2>2. Place'
    BY <2>1 DEF Place, Running
  <2>3. \A s \in Streams : \A n \in 1..sequence' :
          Passed(s, n)' => n \in 1..sequence /\ Passed(s, n)
    BY <2>1 DEF Passed, Behind
  <2> QED BY <1>0, <2>1, <2>2, <2>3, QuietInv
<1>9. ASSUME NEW part \in BOOLEAN, WriteFails(part) PROVE IInv'
  <2>1. /\ pc \in Streams /\ Running /\ pc' = "failed" /\ torn' \in BOOLEAN /\ faults' \in 0..MaxFaults
        /\ Emit("stderr", [Line(pc) EXCEPT !.form = "text"])
        /\ UNCHANGED <<sequence, runID, cancelled, docker, collection>>
    BY <1>0, <1>9 DEF WriteFails, Fault, Streams, Running
  <2> QED BY <2>1, ReportInv
<1>10. CASE SyncFails
  <2>1. /\ Running /\ pc' = "failed" /\ torn' \in BOOLEAN /\ faults' \in 0..MaxFaults
        /\ Emit("stderr", [Line("file") EXCEPT !.form = "text"]) /\ "file" \in Streams
        /\ UNCHANGED <<sequence, runID, cancelled, docker, collection>>
    BY <1>0, <1>10 DEF SyncFails, Fault, Streams, Running, TypeOK
  <2> QED BY <2>1, ReportInv
<1>11. CASE UNCHANGED vars
  <2>1. UNCHANGED <<pc, sequence, cancelled, runID, boots, starts, restarts, out, torn, faults, read, stored>>
    BY <1>11 DEF vars, loop, docker, collection
  <2>2. Place' /\ \A s \in Streams, n \in Nat : Passed(s, n)' => Passed(s, n)
    BY <2>1 DEF Place, Running, Passed, Behind
  <2>3. (Running \/ pc = "done")' => Running \/ pc = "done"
    BY <2>1 DEF Running
  <2> QED BY <1>0, <2>1, <2>2, <2>3, QuietInv
<1> QED BY <1>1, <1>2, <1>3, <1>4, <1>5, <1>6, <1>7, <1>8, <1>9, <1>10, <1>11,
           WriteStdoutInv, WriteStderrInv, WriteFileInv, CollectInv DEF Next, Cycle

LEMMA Invariance == Spec => []IInv
<1>1. Init => IInv
  BY InitInv
<1>2. IInv /\ [Next]_vars => IInv'
  BY StepInv
<1> QED BY <1>1, <1>2, PTL DEF Spec

-----------------------------------------------------------------------------
(* What follows.                                                           *)

(* Type correctness of the producer and the collection (runProducer), for  *)
(* any policy and any number of cycles, starts and faults.                 *)
THEOREM TypeCorrect == Spec => []TypeOK
<1>1. IInv => TypeOK
  BY DEF IInv
<1> QED BY <1>1, Invariance, PTL

(* An event the collection drops as a duplicate comes from a process that  *)
(* was given its run ID, after an earlier process with the same one        *)
(* (loadConfig).  The kept event and the dropped one have one ID, so its   *)
(* run is the given one or the number of both their processes.             *)
THEOREM DroppedIDsAreGiven == Spec => []OnlyGivenIDsAreDropped
<1>1. IInv => OnlyGivenIDsAreDropped
  <2> SUFFICES ASSUME IInv, NEW s \in Streams, NEW l \in Collected(s),
                      l.form = "event", stored[l.id] # l.boot
               PROVE  /\ l.id.run = GivenID
                      /\ \E k \in EventsOf(s) :
                            k.id = l.id /\ k.boot = stored[l.id] /\ k.boot < l.boot
    BY DEF OnlyGivenIDsAreDropped
  <2> USE DEF IInv
  <2>1. PICK i \in 1..read[s] : l = out[s][i]
    BY DEF Collected
  <2>2. read[s] \in Nat /\ Len(out[s]) \in Nat /\ read[s] <= Len(out[s])
    BY OutType DEF TypeOK
  <2>3. i \in 1..Len(out[s]) /\ l.id \in DOMAIN stored /\ l.id.stream = s
    BY <2>1, <2>2 DEF FirstIsKept, LinesAreSound, SoundLine
  <2>4. PICK k \in 1..read[s] : FirstOf(l.id, k) /\ stored[l.id] = out[s][k].boot
    BY <2>3 DEF FirstIsKept
  <2>5. /\ k \in 1..Len(out[s]) /\ out[s][k].form = "event" /\ out[s][k].id = l.id
        /\ \A j \in 1..k - 1 : ~IsEvent(out[s][j], l.id)
    BY <2>2, <2>3, <2>4 DEF FirstOf, IsEvent
  <2>6. k <= i
    <3>1. IsEvent(out[s][i], l.id)
      BY <2>1 DEF IsEvent
    <3>2. i \notin 1..k - 1
      BY <2>5, <3>1
    <3> QED BY <2>3, <2>5, <3>2
  <2>7. out[s][k].boot <= l.boot /\ out[s][k].boot \in Nat /\ l.boot \in Nat
    <3>1. out[s][k].boot \in 1..boots /\ out[s][i].boot \in 1..boots
      BY <2>3, <2>5, OutType DEF LineType
    <3>2. boots \in Nat
      BY DEF TypeOK
    <3> QED BY <2>1, <2>3, <2>5, <2>6, <3>1, <3>2 DEF BootsInOrder
  <2>8. out[s][k].boot < l.boot
    BY <2>4, <2>7
  <2>9. l.id.run \in {GivenID, l.boot} /\ l.id.run \in {GivenID, out[s][k].boot}
    BY <2>1, <2>3, <2>5 DEF LinesAreSound, SoundLine
  <2>10. out[s][k] \in EventsOf(s)
    <3>1. k \in DOMAIN out[s]
      BY <2>5, OutType
    <3> QED BY <2>5, <3>1 DEF EventsOf, LinesOf, ToSet
  <2> QED BY <2>4, <2>5, <2>7, <2>8, <2>9, <2>10
<1> QED BY <1>1, Invariance, PTL

(* A run that ends after all its cycles has written every event of every   *)
(* stream and no other one, but for the first file event of a process      *)
(* after a cut write (the loop of runProducer): a process that ended well  *)
(* has passed every number of every stream.                                *)
THEOREM CompletedRuns == Spec => []CompletedRunIsComplete
<1>1. IInv => CompletedRunIsComplete
  <2> SUFFICES ASSUME IInv, pc = "done", Cycles > 0, ~cancelled, NEW s \in Streams
               PROVE  LET written == {l.id.sequence : l \in {k \in EventsOf(s) : k.id.run = runID}}
                          glued   == {l.id.sequence : l \in {k \in LinesOf(s) : k.form = "glued"}}
                      IN  written \subseteq ExpectedLine(s) /\ ExpectedLine(s) \ written \subseteq glued \cap {1}
    BY DEF CompletedRunIsComplete, ExpectedLine
  <2> USE DEF IInv
  <2> DEFINE written == {l.id.sequence : l \in {k \in EventsOf(s) : k.id.run = runID}}
             glued   == {l.id.sequence : l \in {k \in LinesOf(s) : k.form = "glued"}}
  <2>1. sequence = Cycles /\ Cycles \in Nat
    BY CyclesAssumption DEF Place
  <2>2. \A i \in 1..Len(out[s]) : out[s][i] \in LinesOf(s)
    BY OutType DEF LinesOf, ToSet
  <2>3. \A l \in LinesOf(s) : SoundLine(s, l)
    BY OutType DEF LinesOf, ToSet, LinesAreSound
  <2>4. written \subseteq ExpectedLine(s)
    BY <2>3 DEF EventsOf, SoundLine
  <2>5. \A n \in Nat : Has(s, n) => n \in written
    <3> SUFFICES ASSUME NEW n \in Nat, Has(s, n) PROVE n \in written
      OBVIOUS
    <3>1. PICK i \in 1..Len(out[s]) : IsEvent(out[s][i], ID(s, n))
      BY DEF Has
    <3>2. out[s][i] \in EventsOf(s) /\ out[s][i].id.run = runID /\ out[s][i].id.sequence = n
      BY <2>2, <3>1 DEF EventsOf, IsEvent, ID
    <3> QED BY <3>2
  <2>6. \A t \in Streams, n \in 1..Cycles : Passed(t, n)
    BY <2>1 DEF Passed
  <2>7. ASSUME NEW n \in ExpectedLine(s), n \notin written PROVE n = 1 /\ n \in glued
    <3>1. CASE s = "stdout"
      BY <2>1, <2>5, <2>6, <2>7, <3>1 DEF ExpectedLine, RunIsWritten, Streams
    <3>2. CASE s = "stderr"
      <4>1. /\ StderrEvery * n \in 1..Cycles /\ (StderrEvery * n) % StderrEvery = 0
            /\ (StderrEvery * n) \div StderrEvery = n
        BY <2>1, <3>2, StderrAssumption, GroupFacts DEF ExpectedLine
      <4>2. n \in Nat
        BY <2>1, <3>2, StderrAssumption, DivFacts DEF ExpectedLine
      <4> DEFINE m == StderrEvery * n
      <4>3. m \in 1..sequence /\ m % StderrEvery = 0 /\ m \div StderrEvery = n /\ Passed("stderr", m)
        BY <2>1, <2>6, <4>1 DEF Streams
      <4> HIDE DEF m
      <4>4. Has("stderr", n)
        BY <4>3 DEF RunIsWritten
      <4> QED BY <2>5, <2>7, <3>2, <4>2, <4>4
    <3>3. CASE s = "file"
      <4>1. n \in 1..sequence /\ n \in Nat /\ Passed("file", n)
        BY <2>1, <2>6, <3>3 DEF ExpectedLine, Streams
      <4>2. n = 1 /\ FirstIsGlued
        BY <2>5, <2>7, <3>3, <4>1 DEF RunIsWritten
      <4>3. PICK i \in 1..Len(out["file"]) : out["file"][i].form = "glued"
        BY <4>2 DEF FirstIsGlued
      <4>4. out[s][i] \in LinesOf(s) /\ out[s][i].form = "glued" /\ out[s][i].id.sequence = 1
        BY <2>2, <2>3, <3>3, <4>3 DEF SoundLine
      <4> QED BY <4>2, <4>4
    <3> QED BY <3>1, <3>2, <3>3 DEF Streams
  <2> QED BY <2>4, <2>7
<1> QED BY <1>1, Invariance, PTL

-----------------------------------------------------------------------------
(* The inductive invariant of EventVerifier.                               *)

\* A verdict is spoken about a whole walk, and a walk begins with nothing.
VerdictStands ==
    /\ stage = "fetch" /\ total = -1 => page = 1 /\ items = {}
    /\ stage \in {"verify", "passed"} => total \in 0..Cardinality(table)
    /\ stage = "passed" => ~Wrong(Ours(items)) /\ Cardinality(Ours(items)) = Expected
    /\ why = "events" => stage = "failed" /\ Wrong(Ours(items))

VerifierIInv == VerifierTypeOK /\ ItemsAreOneSnapshot /\ VerdictStands

\* The table has as many rows as its last number says.
LEMMA WholeTable ==
    ASSUME VerifierTypeOK
    PROVE  Cardinality(table) \in Nat /\ Snapshot(Cardinality(table)) = table
<1>1. Cardinality(table) \in Nat
  BY FS_CardinalityType DEF VerifierTypeOK
<1>2. \A r \in table : r.id \in 1..Cardinality(table)
  BY DEF VerifierTypeOK
<1> QED BY <1>1, <1>2 DEF Snapshot

\* No row goes before one that is there: what the table was, stays known.
LEMMA StoreKeepsSnapshots ==
    ASSUME VerifierTypeOK, NEW e \in Events, Store(e)
    PROVE  /\ Cardinality(table') = Cardinality(table) + 1
           /\ \A n \in -1..Cardinality(table) : Snapshot(n)' = Snapshot(n)
           /\ VerifierTypeOK'
<1> DEFINE new == [id |-> Cardinality(table) + 1, event |-> e]
<1>1. Cardinality(table) \in Nat /\ \A r \in table : r.id \in 1..Cardinality(table)
  BY WholeTable DEF VerifierTypeOK
<1>2. new \notin table /\ table' = table \cup {new}
  BY <1>1 DEF Store
<1>3. IsFiniteSet(table') /\ Cardinality(table') = Cardinality(table) + 1
  BY <1>2, FS_AddElement DEF VerifierTypeOK
<1>4. \A n \in -1..Cardinality(table) : Snapshot(n)' = Snapshot(n)
  BY <1>1, <1>2 DEF Snapshot
<1>5. {r.id : r \in table'} = 1..Cardinality(table')
  <2>1. {r.id : r \in table'} = {r.id : r \in table} \cup {Cardinality(table) + 1}
    BY <1>2
  <2>2. {r.id : r \in table} = 1..Cardinality(table)
    BY DEF VerifierTypeOK
  <2>3. 1..Cardinality(table) + 1 = (1..Cardinality(table)) \cup {Cardinality(table) + 1}
    BY <1>1
  <2> HIDE DEF new
  <2> QED BY <2>1, <2>2, <2>3, <1>3
<1>6. \A r, k \in table' : r.id = k.id => r = k
  BY <1>1, <1>2 DEF VerifierTypeOK
<1>7. table' \subseteq Row
  BY <1>1, <1>2 DEF VerifierTypeOK, Row
<1>8. total' \in -1..Cardinality(table') /\ items' \subseteq table'
  BY <1>1, <1>2, <1>3 DEF VerifierTypeOK, Store, walk
<1> QED BY <1>3, <1>4, <1>5, <1>6, <1>7, <1>8 DEF VerifierTypeOK, Store, walk

-----------------------------------------------------------------------------
LEMMA VerifierInitInv ==
    VerifierInit => VerifierIInv
<1> SUFFICES ASSUME VerifierInit PROVE VerifierIInv
  OBVIOUS
<1>1. IsFiniteSet(table) /\ Cardinality(table) = 0
  BY FS_EmptySet DEF VerifierInit
<1>2. VerifierTypeOK
  <2>1. {r.id : r \in table} = 1..Cardinality(table)
    BY <1>1 DEF VerifierInit
  <2>2. 1 \in 1..MaxPages /\ unanswered \in 0..MaxUnanswered /\ total \in -1..Cardinality(table)
    BY <1>1, SizesAssumption DEF VerifierInit
  <2> QED BY <1>1, <2>1, <2>2 DEF VerifierInit, VerifierTypeOK
<1> QED BY <1>2 DEF VerifierIInv, VerifierInit, ItemsAreOneSnapshot, VerdictStands

(* A page that is taken adds the rows that come next in the order.         *)
LEMMA PageIsNext ==
    ASSUME VerifierIInv, stage = "fetch", ~TotalChanged
    PROVE  /\ items \cup Rows = {r \in table : Rank(r, table) < page * PageSize}
           /\ items \cup Rows \subseteq table
<1> DEFINE lo == (page - 1) * PageSize
           hi == page * PageSize
<1>1. /\ Cardinality(table) \in Nat /\ Snapshot(Cardinality(table)) = table
      /\ page \in Nat \ {0} /\ PageSize \in Nat \ {0} /\ IsFiniteSet(table)
  BY WholeTable, SizesAssumption DEF VerifierIInv, VerifierTypeOK
<1>2. lo \in Int /\ hi \in Int /\ lo <= hi /\ 0 <= lo
  BY <1>1
<1>3. \A r \in table : Rank(r, table) \in Nat
  <2> TAKE r \in table
  <2>1. {k \in table : Before(k, r)} \in SUBSET table
    OBVIOUS
  <2>2. IsFiniteSet({k \in table : Before(k, r)})
    BY <1>1, <2>1, FS_Subset
  <2> QED BY <2>2, FS_CardinalityType DEF Rank
<1>4. items = {r \in table : Rank(r, table) < lo}
  <2>1. CASE total = -1
    <3>1. page = 1 /\ items = {}
      BY <2>1 DEF VerifierIInv, VerdictStands
    <3>2. lo = 0
      BY <3>1, <1>1
    <3> HIDE DEF lo
    <3> QED BY <1>3, <3>1, <3>2
  <2>2. CASE total # -1
    <3>1. total = Cardinality(table)
      BY <2>2 DEF TotalChanged
    <3> QED BY <2>2, <3>1, <1>1 DEF VerifierIInv, ItemsAreOneSnapshot
  <2> QED BY <2>1, <2>2
<1>5. Rows = {r \in table : Rank(r, table) \in lo .. hi - 1}
  BY DEF Rows, PageOf
<1> HIDE DEF lo, hi
<1>6. items \cup Rows = {r \in table : Rank(r, table) < hi}
  BY <1>2, <1>3, <1>4, <1>5
<1> QED BY <1>6 DEF hi

(* As many of the table's rows as it has are the table.                    *)
LEMMA AllOfThem ==
    ASSUME VerifierTypeOK, NEW S \in SUBSET table, Cardinality(S) = Cardinality(table)
    PROVE  S = table
BY FS_Subset DEF VerifierTypeOK

LEMMA VerifierStepInv ==
    VerifierIInv /\ [VerifierNext]_verifierVars => VerifierIInv'
<1> SUFFICES ASSUME VerifierIInv, [VerifierNext]_verifierVars PROVE VerifierIInv'
  OBVIOUS
<1> USE DEF VerifierIInv
<1>0. /\ Cardinality(table) \in Nat /\ Snapshot(Cardinality(table)) = table
      /\ MaxPages \in Nat \ {0} /\ page \in Nat \ {0} /\ PageSize \in Nat \ {0}
  BY WholeTable, SizesAssumption DEF VerifierTypeOK
<1>1. ASSUME NEW e \in Events, Store(e) PROVE VerifierIInv'
  <2>1. VerifierTypeOK' /\ UNCHANGED <<stage, why, page, total, items>>
    BY <1>1, StoreKeepsSnapshots DEF Store, walk
  <2>2. Cardinality(table') = Cardinality(table) + 1
    BY <1>1, StoreKeepsSnapshots
  <2>3. Snapshot(total)' = Snapshot(total)
    <3>1. total \in -1..Cardinality(table)
      BY DEF VerifierTypeOK
    <3>2. \A n \in -1..Cardinality(table) : Snapshot(n)' = Snapshot(n)
      BY <1>1, StoreKeepsSnapshots
    <3> QED BY <3>1, <3>2, <2>1 DEF Snapshot
  <2>4. ItemsAreOneSnapshot'
    BY <2>1, <2>3 DEF ItemsAreOneSnapshot
  <2>5. VerdictStands'
    BY <2>1, <2>2, <1>0 DEF VerdictStands, Wrong, Ours, Names, OfSource
  <2> QED BY <2>1, <2>4, <2>5
<1>2. CASE Deadline
  <2>1. UNCHANGED <<table, stage, why, page, total, items>>
    BY <1>2 DEF Deadline, walk
  <2>2. VerifierTypeOK'
    BY <1>2, <2>1 DEF VerifierTypeOK, Deadline, walk
  <2>3. ItemsAreOneSnapshot' /\ VerdictStands'
    BY <2>1 DEF ItemsAreOneSnapshot, VerdictStands, Wrong, Ours, Names, OfSource, Snapshot
  <2> QED BY <2>2, <2>3
<1>3. ASSUME RetryUntilLate, stage # "failed", unanswered' \in 0..MaxUnanswered PROVE VerifierIInv'
  <2>1. /\ UNCHANGED <<table, page, total, items>> /\ stage' \in {"failed", "sleep"}
        /\ why' # "events"
    BY <1>3 DEF RetryUntilLate, walk, VerdictStands
  <2>2. VerifierTypeOK'
    BY <1>3, <2>1 DEF VerifierTypeOK, RetryUntilLate, walk
  <2>3. ItemsAreOneSnapshot' /\ VerdictStands'
    BY <2>1 DEF ItemsAreOneSnapshot, VerdictStands
  <2> QED BY <2>2, <2>3
<1>4. CASE GetFails
  <2>1. RetryUntilLate /\ stage # "failed" /\ unanswered' \in 0..MaxUnanswered
    BY <1>4, SizesAssumption DEF GetFails, VerifierTypeOK
  <2> QED BY <1>3, <2>1
<1>5. CASE GetPage
  <2>1. /\ stage = "fetch" /\ ~TotalChanged /\ page < MaxPages
        /\ total' = Cardinality(table) /\ items' = items \cup Rows /\ page' = page + 1
        /\ UNCHANGED <<coming, table, stage, why, late, unanswered>>
    BY <1>5 DEF GetPage
  <2>2. /\ items' = {r \in table : Rank(r, table) < page * PageSize}
        /\ items' \subseteq table
    BY <2>1, PageIsNext
  <2>3. VerifierTypeOK'
    BY <2>1, <2>2, <1>0 DEF VerifierTypeOK
  <2>4. (page' - 1) * PageSize = page * PageSize
    BY <2>1, <1>0
  <2>5. Snapshot(total)' = table
    BY <2>1, <1>0 DEF Snapshot
  <2>6. ItemsAreOneSnapshot'
    BY <2>1, <2>2, <2>4, <2>5 DEF ItemsAreOneSnapshot
  <2>7. VerdictStands'
    BY <2>1, <1>0 DEF VerdictStands
  <2> QED BY <2>3, <2>6, <2>7
<1>6. CASE GetLastPage
  <2>1. /\ stage = "fetch" /\ ~TotalChanged /\ stage' = "verify"
        /\ Cardinality(items \cup Rows) = Cardinality(table)
        /\ total' = Cardinality(table) /\ items' = items \cup Rows
        /\ UNCHANGED <<coming, table, why, page, late, unanswered>>
    BY <1>6 DEF GetLastPage
  <2>2. items' = table
    <3>1. items \cup Rows \subseteq table
      BY <2>1, PageIsNext
    <3> QED BY <3>1, <2>1, AllOfThem
  <2>3. VerifierTypeOK'
    BY <2>1, <2>2, <1>0 DEF VerifierTypeOK
  <2>4. ItemsAreOneSnapshot'
    BY <2>1, <2>2, <1>0 DEF ItemsAreOneSnapshot, Snapshot
  <2>5. VerdictStands'
    BY <2>1, <1>0 DEF VerdictStands
  <2> QED BY <2>3, <2>4, <2>5
<1>7. CASE GetRefused
  <2>1. RetryUntilLate /\ stage # "failed" /\ unanswered' \in 0..MaxUnanswered
    BY <1>7 DEF GetRefused, VerifierTypeOK
  <2> QED BY <1>3, <2>1
<1>8. CASE VerifyWrong
  <2>1. UNCHANGED <<table, page, total, items>> /\ stage' = "failed"
    BY <1>8 DEF VerifyWrong, walk
  <2>2. VerifierTypeOK'
    BY <1>8, <2>1 DEF VerifierTypeOK, VerifyWrong, walk
  <2>3. Wrong(Ours(items))'
    BY <1>8, <2>1 DEF VerifyWrong, Wrong, Ours, Names, OfSource
  <2>4. ItemsAreOneSnapshot' /\ VerdictStands'
    BY <2>1, <2>3 DEF ItemsAreOneSnapshot, VerdictStands
  <2> QED BY <2>2, <2>4
<1>9. CASE VerifyIncomplete
  <2>1. RetryUntilLate /\ stage # "failed" /\ unanswered' \in 0..MaxUnanswered
    BY <1>9 DEF VerifyIncomplete, VerifierTypeOK
  <2> QED BY <1>3, <2>1
<1>10. CASE VerifyPasses
  <2>1. UNCHANGED <<table, why, page, total, items>> /\ stage = "verify" /\ stage' = "passed"
    BY <1>10 DEF VerifyPasses, walk
  <2>2. VerifierTypeOK'
    BY <1>10, <2>1 DEF VerifierTypeOK, VerifyPasses, walk
  <2>3. ItemsAreOneSnapshot'
    BY <2>1 DEF ItemsAreOneSnapshot, Snapshot
  <2>4. ~Wrong(Ours(items)) /\ Cardinality(Ours(items)) = Expected
    BY <1>10 DEF VerifyPasses
  <2>5. VerdictStands'
    BY <2>1, <2>4 DEF VerdictStands, Wrong, Ours, Names, OfSource
  <2> QED BY <2>2, <2>3, <2>5
<1>11. CASE WalkAgain
  <2>1. /\ stage' = "fetch" /\ page' = 1 /\ total' = -1 /\ items' = {}
        /\ UNCHANGED <<coming, table, why, late, unanswered>> /\ why # "events"
    BY <1>11 DEF WalkAgain, VerdictStands
  <2>2. VerifierTypeOK'
    BY <2>1, <1>0 DEF VerifierTypeOK
  <2>3. ItemsAreOneSnapshot' /\ VerdictStands'
    BY <2>1 DEF ItemsAreOneSnapshot, VerdictStands
  <2> QED BY <2>2, <2>3
<1>12. CASE UNCHANGED verifierVars
  <2>1. UNCHANGED <<coming, table, stage, why, page, total, items, late, unanswered>>
    BY <1>12 DEF verifierVars, walk
  <2> QED BY <2>1 DEF VerifierTypeOK, ItemsAreOneSnapshot, VerdictStands, Wrong, Ours, Names,
                      OfSource, Snapshot
<1> QED BY <1>1, <1>2, <1>4, <1>5, <1>6, <1>7, <1>8, <1>9, <1>10, <1>11, <1>12
        DEF VerifierNext, Verifier

\* The invariant holds throughout (waitForEvents and what it calls).
LEMMA VerifierInvariance ==
    VerifierSpec => []VerifierIInv
BY VerifierInitInv, VerifierStepInv, PTL DEF VerifierSpec

-----------------------------------------------------------------------------
(* Type correctness of the verifier (waitForEvents): the rows of a walk    *)
(* are rows of the table, and the total is one the table has had.          *)
THEOREM WalkIsTypeCorrect ==
    VerifierSpec => []VerifierTypeOK
<1>1. VerifierIInv => VerifierTypeOK
  BY DEF VerifierIInv
<1> QED BY <1>1, VerifierInvariance, PTL

(* Whatever is stored while the pages are read, what fetchWindow returns   *)
(* is the window as it was at one moment, and each page before the last is *)
(* the next part of it.                                                    *)
THEOREM WalksAreSnapshots ==
    VerifierSpec => []ItemsAreOneSnapshot
<1>1. VerifierIInv => ItemsAreOneSnapshot
  BY DEF VerifierIInv
<1> QED BY <1>1, VerifierInvariance, PTL

(* An acceptance step that passes has seen, at one moment, exactly the     *)
(* events it expects: none missing, none twice, none of another source     *)
(* (verifyItems).                                                          *)
THEOREM PassesAreTrue ==
    VerifierSpec => []PassIsTrue
<1>1. VerifierIInv => PassIsTrue
  <2> SUFFICES ASSUME VerifierIInv, stage = "passed" PROVE PassIsTrue
    BY DEF PassIsTrue
  <2>1. total \in 0..Cardinality(table) /\ items = Snapshot(total)
    BY DEF VerifierIInv, VerdictStands, ItemsAreOneSnapshot
  <2>2. ~Wrong(Ours(items)) /\ Cardinality(Ours(items)) = Expected
    BY DEF VerifierIInv, VerdictStands
  <2> QED BY <2>1, <2>2 DEF PassIsTrue, Wrong
<1> QED BY <1>1, VerifierInvariance, PTL

-----------------------------------------------------------------------------
(* What is wrong with some rows of the table, stays wrong.                 *)

\* Rows of the three sources are as many as the three counts together.
LEMMA CountsAddUp ==
    ASSUME NEW S, IsFiniteSet(S), \A r \in S : Stream[r.event] \in Sources
    PROVE  /\ \A s \in Sources : Cardinality(OfSource(S, s)) \in Nat
           /\ Cardinality(S) = Cardinality(OfSource(S, "stdout"))
                                 + Cardinality(OfSource(S, "stderr"))
                                 + Cardinality(OfSource(S, "file"))
<1> DEFINE o == OfSource(S, "stdout")
           e == OfSource(S, "stderr")
           f == OfSource(S, "file")
<1>1. IsFiniteSet(o) /\ IsFiniteSet(e) /\ IsFiniteSet(f)
  BY FS_Subset DEF OfSource
<1>2. /\ Cardinality(o) \in Nat /\ Cardinality(e) \in Nat /\ Cardinality(f) \in Nat
  BY <1>1, FS_CardinalityType
<1>3. o \cap e = {} /\ (o \cup e) \cap f = {} /\ S = (o \cup e) \cup f
  BY DEF OfSource, Sources
<1> HIDE DEF o, e, f
<1>4. IsFiniteSet(o \cup e) /\ Cardinality(o \cup e) = Cardinality(o) + Cardinality(e)
  <2>1. /\ IsFiniteSet(o \cup e)
        /\ Cardinality(o \cup e) = Cardinality(o) + Cardinality(e) - Cardinality(o \cap e)
    BY <1>1, FS_Union
  <2>2. Cardinality(o \cap e) = 0
    BY <1>3, FS_EmptySet
  <2> QED BY <2>1, <2>2, <1>2
<1>5. Cardinality(S) = Cardinality(o) + Cardinality(e) + Cardinality(f)
  <2>1. Cardinality((o \cup e) \cup f)
          = Cardinality(o \cup e) + Cardinality(f) - Cardinality((o \cup e) \cap f)
    BY <1>1, <1>4, FS_Union
  <2>2. Cardinality((o \cup e) \cap f) = 0
    BY <1>3, FS_EmptySet
  <2> QED BY <2>1, <2>2, <1>2, <1>3, <1>4
<1> QED BY <1>2, <1>5 DEF o, e, f, Sources

\* Fewer names than rows: two rows have one name.
LEMMA NamesRepeat ==
    ASSUME NEW S, IsFiniteSet(S), Cardinality(Names(S)) # Cardinality(S)
    PROVE  \E r, k \in S : r # k /\ Name[r.event] = Name[k.event]
<1> DEFINE n == [r \in S |-> Name[r.event]]
<1>1. n \in Surjection(S, Names(S))
  BY DEF Surjection, Names
<1>2. n \notin Injection(S, Names(S))
  BY <1>1, FS_Surjection
<1> QED BY <1>1, <1>2 DEF Injection, IsInjective, Surjection

(* The verifier gives an acceptance step up on its events only if no later *)
(* delivery could have made it pass (verifyItems, verifySourceAndLevel).   *)
THEOREM FailuresAreReal ==
    VerifierSpec => []FailureIsReal
<1>1. VerifierIInv => FailureIsReal
  <2> SUFFICES ASSUME VerifierIInv, why = "events" PROVE FailureIsReal
    BY DEF FailureIsReal
  <2> DEFINE ours == Ours(items)
             rows == Ours(table)
  <2>1. Wrong(ours)
    BY DEF VerifierIInv, VerdictStands
  <2>2. ours \subseteq rows /\ IsFiniteSet(rows)
    <3>1. rows \in SUBSET table /\ items \subseteq table /\ IsFiniteSet(table)
      BY DEF VerifierIInv, VerifierTypeOK, Ours
    <3> QED BY <3>1, FS_Subset DEF Ours
  <2> HIDE DEF ours, rows
  <2>3. /\ IsFiniteSet(ours) /\ Cardinality(ours) \in Nat /\ Cardinality(rows) \in Nat
        /\ Cardinality(ours) <= Cardinality(rows)
    BY <2>2, FS_Subset, FS_CardinalityType
  <2>4. CASE Cardinality(ours) > Expected
    BY <2>3, <2>4, SizesAssumption DEF FailureIsReal, rows
  <2>5. CASE \E r \in ours : r.event \notin Sound
    BY <2>2, <2>5 DEF FailureIsReal, rows
  <2>6. CASE Cardinality(ours) = Expected /\ Cardinality(Names(ours)) # Expected
    <3>1. \E r, k \in ours : r # k /\ Name[r.event] = Name[k.event]
      BY <2>3, <2>6, NamesRepeat
    <3> QED BY <2>2, <3>1 DEF FailureIsReal, rows
  <2>7. CASE /\ Cardinality(ours) = Expected /\ \A r \in ours : r.event \in Sound
             /\ \E s \in Sources : Cardinality(OfSource(ours, s)) # Wanted[s]
    <3>1. \A r \in ours : Stream[r.event] \in Sources
      BY <2>7, EventsAssumption
    <3>2. /\ \A s \in Sources : Cardinality(OfSource(ours, s)) \in Nat
          /\ Cardinality(ours) = Cardinality(OfSource(ours, "stdout"))
                                   + Cardinality(OfSource(ours, "stderr"))
                                   + Cardinality(OfSource(ours, "file"))
      BY <2>3, <3>1, CountsAddUp
    <3>3. PICK s \in Sources : Cardinality(OfSource(ours, s)) > Wanted[s]
      <4> DEFINE C(s) == Cardinality(OfSource(ours, s))
      <4>1. \A s \in Sources : C(s) \in Nat /\ Wanted[s] \in Nat
        BY <3>2, CountsAssumption
      <4>2. C("stdout") + C("stderr") + C("file")
              = Wanted["stdout"] + Wanted["stderr"] + Wanted["file"]
        BY <2>7, <3>2, CountsAssumption
      <4>3. \E s \in Sources : C(s) # Wanted[s]
        BY <2>7
      <4> HIDE DEF C
      <4>4. \E s \in Sources : C(s) > Wanted[s]
        BY <4>1, <4>2, <4>3 DEF Sources
      <4> QED BY <4>4 DEF C
    <3>4. IsFiniteSet(OfSource(rows, s)) /\ OfSource(ours, s) \subseteq OfSource(rows, s)
      <4>1. OfSource(rows, s) \in SUBSET rows
        BY DEF OfSource
      <4> QED BY <4>1, <2>2, FS_Subset DEF OfSource
    <3>5. /\ Cardinality(OfSource(ours, s)) <= Cardinality(OfSource(rows, s))
          /\ Cardinality(OfSource(rows, s)) \in Nat
      BY <3>4, FS_Subset, FS_CardinalityType
    <3>6. Cardinality(OfSource(rows, s)) > Wanted[s]
      BY <3>2, <3>3, <3>5, CountsAssumption
    <3> QED BY <3>6 DEF FailureIsReal, rows
  <2> QED BY <2>1, <2>4, <2>5, <2>6, <2>7 DEF Wrong
<1> QED BY <1>1, VerifierInvariance, PTL

=============================================================================
