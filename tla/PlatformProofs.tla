--------------------------- MODULE PlatformProofs ---------------------------
(***************************************************************************)
(* What the parts around the write path keep, for any number of processes, *)
(* calls and faults.                                                       *)
(***************************************************************************)
EXTENDS AuditLog, Rotation, Console, Supervisor, Identity, LogicPlugins,
        AgentWrite, SpecRelease, Operator, FiniteSetTheorems, SequenceTheorems,
        WellFoundedInduction, TLAPS

-----------------------------------------------------------------------------
(* The audit log. *)

LastHash(s) == IF s = <<>> THEN Genesis ELSE Last(s).hash

\* An entry that follows the last one extends a chain.
LEMMA ChainExtends ==
  ASSUME NEW s \in Seq(Entry), Verifies(s), NEW e \in Entry,
         e.seq = Len(s) + 1, e.prev = LastHash(s)
  PROVE  /\ Append(s, e) \in Seq(Entry) /\ Verifies(Append(s, e))
         /\ Hashes(Append(s, e)) = Hashes(s) \cup {e.hash}
<1> DEFINE t == Append(s, e)
           n == Len(s)
<1>1. /\ n \in Nat /\ t \in Seq(Entry) /\ Len(t) = n + 1 /\ t[n + 1] = e
      /\ \A i \in 1..n : t[i] = s[i]
      /\ DOMAIN s = 1..n /\ DOMAIN t = 1..(n + 1)
  OBVIOUS
<1>2. s = <<>> <=> n = 0
  BY EmptySeq
<1>3. n # 0 => Last(s) = s[n]
  BY DEF Last
<1> HIDE DEF t, n
<1>4. ASSUME NEW i \in 1..n PROVE Link(t, i)
  <2>1. Link(s, i)
    BY <1>1 DEF Verifies
  <2>2. i # 1 => i - 1 \in 1..n
    BY <1>1
  <2> QED BY <1>1, <2>1, <2>2 DEF Link
<1>5. Link(t, n + 1)
  <2>1. e.seq # Torn.seq
    BY <1>1 DEF Torn, n
  <2>2. CASE n = 0
    BY <1>1, <1>2, <2>1, <2>2 DEF Link, LastHash, n
  <2>3. CASE n # 0
    <3>1. n \in 1..n /\ n + 1 # 1 /\ (n + 1) - 1 = n
      BY <1>1, <2>3
    <3> QED BY <1>1, <1>2, <1>3, <2>1, <2>3, <3>1 DEF Link, LastHash, n
  <2> QED BY <2>2, <2>3
<1>6. Verifies(t)
  <2>1. \A i \in 1..(n + 1) : i \in 1..n \/ i = n + 1
    BY <1>1
  <2> QED BY <1>1, <1>4, <1>5, <2>1 DEF Verifies
<1>7. Hashes(t) = Hashes(s) \cup {e.hash}
  <2>1. \A i \in 1..(n + 1) : i \in 1..n \/ i = n + 1
    BY <1>1
  <2>2. 1..n \subseteq 1..(n + 1) /\ n + 1 \in 1..(n + 1)
    BY <1>1
  <2> QED BY <1>1, <2>1, <2>2 DEF Hashes
<1> QED BY <1>1, <1>6, <1>7 DEF t

\* The seqs of a chain are those of its places.
LEMMA ChainSeqs ==
  ASSUME NEW s \in Seq(Entry), Verifies(s)
  PROVE  /\ Len(s) + 1 \notin {s[i].seq : i \in DOMAIN s}
         /\ s # <<>> => /\ Last(s) \in Entry /\ Last(s).seq = Len(s) /\ Last(s) # Torn
         /\ s = <<>> => Len(s) = 0
<1>1. Len(s) \in Nat /\ DOMAIN s = 1..Len(s) /\ \A i \in 1..Len(s) : s[i].seq = i /\ s[i] # Torn
  BY DEF Verifies, Link
<1>2. s # <<>> => Len(s) \in 1..Len(s) /\ Last(s) = s[Len(s)] /\ s[Len(s)] \in Entry
  BY EmptySeq DEF Last
<1> QED BY <1>1, <1>2

\* One transaction at a time has read the last line, and its entry follows it.
LogInv ==
  /\ Verifies(auditRows) /\ auditAcked \subseteq Hashes(auditRows)
  /\ \A a, b \in Auditor : auditTx[a].at # "idle" /\ auditTx[b].at # "idle" => a = b
  /\ \A a \in Auditor : auditTx[a].at # "idle" =>
       /\ auditTx[a].entry.seq = Len(auditRows) + 1
       /\ auditTx[a].entry.prev = LastHash(auditRows)
       /\ auditTx[a].entry.hash \in 1..records
  /\ ~collided

\* Until a line breaks off, an open file's head is that of its chain.
FileInv ==
  fileTorn \/ /\ Verifies(fileLines) /\ fileAcked \subseteq Hashes(fileLines)
              /\ fileHead.open => /\ fileHead.seq = Len(fileLines)
                                  /\ fileHead.last = LastHash(fileLines)

AuditInv == AuditTypeOK /\ LogInv /\ FileInv

\* What AuditTypeOK says of one transaction, and that a new record is a number.
LEMMA AuditTypes ==
  ASSUME AuditTypeOK
  PROVE  /\ auditRows \in Seq(Entry) /\ Len(auditRows) \in Nat
         /\ fileLines \in Seq(Entry) /\ Len(fileLines) \in Nat
         /\ records \in Nat /\ auditFaults \in Nat /\ MaxRecords \in Nat /\ MaxAuditFaults \in Nat
         /\ \A a \in Auditor : /\ auditTx[a].entry \in Entry
                               /\ auditTx[a].entry.hash \in Nat
                               /\ auditTx[a].entry.seq \in Nat
         /\ NoTx \in [at: {"idle", "insert", "commit"}, entry: Entry]
         /\ Closed \in [open: BOOLEAN, seq: Nat, last: Nat]
         /\ Torn \in Entry
         /\ NewRecord => /\ records' \in 0..MaxRecords /\ records' \in 1..records'
                         /\ 1..records \subseteq 1..records' /\ records' \in Nat
         /\ AuditFault => auditFaults' \in 0..MaxAuditFaults
  BY AuditAssumption DEF AuditTypeOK, Entry, NoTx, NoEntry, Closed, Torn, Genesis,
     NewRecord, AuditFault

\* A step of a transaction keeps the shared log's chain.
LEMMA SharedLogStep ==
  ASSUME AuditInv, NEW a \in Auditor,
         ReadLast(a) \/ InsertEntry(a) \/ CommitEntry(a) \/ RecordFails(a)
  PROVE  AuditInv'
<1> USE AuditTypes DEF AuditInv
<1> DEFINE Tx == [at: {"idle", "insert", "commit"}, entry: Entry]
<1>0. auditTx \in [Auditor -> Tx] /\ Verifies(auditRows)
  BY DEF AuditTypeOK, LogInv
<1>1. CASE ReadLast(a)
  <2> DEFINE last == IF auditRows = <<>> THEN NoEntry ELSE Last(auditRows)
             e == NextEntry(last.seq, last.hash)
  <2>1. /\ auditTx' = [auditTx EXCEPT ![a] = [at |-> "insert", entry |-> e]]
        /\ \A b \in Auditor : auditTx[b].at = "idle"
        /\ NewRecord
        /\ UNCHANGED <<auditRows, auditAcked, collided, fileLogVars, auditFaults>>
    BY <1>1 DEF ReadLast, LogFree
  <2>2. /\ last.seq = Len(auditRows) /\ last.hash = LastHash(auditRows)
        /\ last.seq \in Nat /\ last.hash \in Nat
    BY <1>0, ChainSeqs DEF LastHash, NoEntry, Genesis, Entry
  <2> HIDE DEF last
  <2>3. /\ e \in Entry /\ e.seq = Len(auditRows) + 1 /\ e.prev = LastHash(auditRows)
        /\ e.hash = records'
    BY <2>1, <2>2 DEF NextEntry, Entry
  <2> HIDE DEF e
  <2>4. AuditTypeOK'
    BY <1>0, <2>1, <2>3 DEF AuditTypeOK, fileLogVars
  <2>5. LogInv'
    BY <1>0, <2>1, <2>3 DEF LogInv
  <2>6. FileInv'
    BY <2>1 DEF FileInv, fileLogVars
  <2> QED BY <2>4, <2>5, <2>6
<1>2. CASE InsertEntry(a)
  <2>1. /\ auditTx[a].at = "insert"
        /\ UNCHANGED <<auditRows, auditAcked, fileLogVars, records, auditFaults>>
    BY <1>2 DEF InsertEntry
  <2>2. ~SeqTaken(a)
    BY <1>0, <2>1, ChainSeqs DEF SeqTaken, LogInv
  <2>3. /\ auditTx' = [auditTx EXCEPT ![a] = [auditTx[a] EXCEPT !.at = "commit"]]
        /\ collided' = collided
    BY <1>2, <2>2 DEF InsertEntry, AuditTypeOK
  <2>4. [auditTx[a] EXCEPT !.at = "commit"] \in Tx
    BY <1>0
  <2>5. AuditTypeOK'
    BY <1>0, <2>1, <2>3, <2>4 DEF AuditTypeOK, fileLogVars
  <2>6. LogInv'
    BY <1>0, <2>1, <2>3 DEF LogInv
  <2>7. FileInv'
    BY <2>1 DEF FileInv, fileLogVars
  <2> QED BY <2>5, <2>6, <2>7
<1>3. CASE CommitEntry(a) \/ RecordFails(a)
  <2>1. /\ auditTx[a].at # "idle" /\ auditTx' = [auditTx EXCEPT ![a] = NoTx]
        /\ \/ auditRows' = auditRows
           \/ auditRows' = Append(auditRows, auditTx[a].entry)
        /\ \/ auditAcked' = auditAcked
           \/ /\ auditAcked' = auditAcked \cup {auditTx[a].entry.hash}
              /\ auditRows' = Append(auditRows, auditTx[a].entry)
        /\ auditFaults' = auditFaults \/ AuditFault
        /\ UNCHANGED <<collided, fileLogVars, records>>
    BY <1>3 DEF CommitEntry, RecordFails
  <2>2. /\ auditTx[a].entry \in Entry /\ auditTx[a].entry.hash \in 1..records
        /\ auditTx[a].entry.seq = Len(auditRows) + 1
        /\ auditTx[a].entry.prev = LastHash(auditRows)
    BY <2>1 DEF LogInv
  <2>3. /\ auditRows' \in Seq(Entry) /\ Verifies(auditRows')
        /\ auditAcked' \subseteq Hashes(auditRows')
    <3>1. /\ Append(auditRows, auditTx[a].entry) \in Seq(Entry)
          /\ Verifies(Append(auditRows, auditTx[a].entry))
          /\ Hashes(Append(auditRows, auditTx[a].entry)) =
               Hashes(auditRows) \cup {auditTx[a].entry.hash}
      BY <1>0, <2>2, ChainExtends
    <3> QED BY <1>0, <2>1, <3>1 DEF LogInv
  <2>4. \A b \in Auditor : auditTx'[b].at = "idle"
    BY <1>0, <2>1 DEF LogInv, NoTx
  <2>5. AuditTypeOK'
    BY <1>0, <2>1, <2>2, <2>3 DEF AuditTypeOK, fileLogVars
  <2>6. LogInv'
    BY <2>1, <2>3, <2>4 DEF LogInv
  <2>7. FileInv'
    BY <2>1 DEF FileInv, fileLogVars
  <2> QED BY <2>5, <2>6, <2>7
<1> QED BY <1>1, <1>2, <1>3

\* A step on the file keeps its chain, or breaks a line off.
LEMMA FileStep ==
  ASSUME AuditInv, OpenFile \/ FileRecord \/ FileWriteFails \/ FileProcessDies
  PROVE  AuditInv'
<1> USE AuditTypes DEF AuditInv
<1>1. UNCHANGED sharedLogVars /\ (records' = records \/ NewRecord)
  BY DEF OpenFile, FileRecord, FileWriteFails, FileProcessDies
<1>2. LogInv'
  BY <1>1 DEF LogInv, sharedLogVars
<1>3. ASSUME fileLines' \in Seq(Entry), fileAcked' \subseteq 1..records', fileTorn' \in BOOLEAN,
             fileHead' \in [open: BOOLEAN, seq: Nat, last: Nat],
             auditFaults' = auditFaults \/ AuditFault
      PROVE  AuditTypeOK'
  BY <1>1, <1>3 DEF AuditTypeOK, sharedLogVars
<1>4. \A e \in Entry : Written(e) \in Seq(Entry)
  BY DEF Written
<1>5. LastHash(fileLines) \in Nat
  <2>1. fileLines # <<>> => Last(fileLines) \in Entry
    BY EmptySeq DEF Last
  <2> QED BY <2>1 DEF LastHash, Genesis, Entry
<1>6. fileAcked \subseteq 1..records /\ fileTorn \in BOOLEAN
      /\ fileHead \in [open: BOOLEAN, seq: Nat, last: Nat]
  BY DEF AuditTypeOK
<1>7. CASE OpenFile
  <2>1. /\ fileHead' = [open |-> TRUE, seq |-> Len(fileLines), last |-> LastHash(fileLines)]
        /\ UNCHANGED <<fileLines, fileAcked, fileTorn, records, auditFaults>>
        /\ Verifies(fileLines)
    BY <1>7 DEF OpenFile, LastHash
  <2>2. AuditTypeOK'
    <3>1. Len(fileLines) \in Nat
      OBVIOUS
    <3>2. fileHead' \in [open: BOOLEAN, seq: Nat, last: Nat]
      BY <1>5, <2>1, <3>1
    <3> QED BY <1>3, <1>6, <2>1, <3>2
  <2>3. FileInv'
    BY <2>1 DEF FileInv
  <2> QED BY <1>2, <2>2, <2>3
<1>8. CASE FileRecord
  <2> DEFINE e == NextEntry(fileHead.seq, fileHead.last)
  <2>1. /\ fileHead.open /\ NewRecord
        /\ fileLines' = Written(e) /\ fileAcked' = fileAcked \cup {e.hash}
        /\ fileHead' = [open |-> TRUE, seq |-> e.seq, last |-> e.hash]
        /\ UNCHANGED <<fileTorn, auditFaults>>
    BY <1>8 DEF FileRecord
  <2>2. /\ e \in Entry /\ e.hash = records' /\ e.seq = fileHead.seq + 1 /\ e.prev = fileHead.last
        /\ e.seq \in Nat /\ e.hash \in Nat
    <3>1. fileHead.seq + 1 \in Nat /\ fileHead.last \in Nat
      BY <1>6
    <3>2. records' \in Nat
      BY <2>1 DEF NewRecord, AuditTypeOK
    <3> QED BY <3>1, <3>2 DEF NextEntry, Entry
  <2> HIDE DEF e
  <2>3. AuditTypeOK'
    <3>1. fileLines' \in Seq(Entry) /\ fileAcked' \subseteq 1..records'
      BY <1>4, <1>6, <2>1, <2>2
    <3> QED BY <1>3, <1>6, <2>1, <2>2, <3>1
  <2>4. CASE ~fileTorn
    <3>1. /\ Verifies(fileLines) /\ fileAcked \subseteq Hashes(fileLines)
          /\ e.seq = Len(fileLines) + 1 /\ e.prev = LastHash(fileLines)
      BY <2>1, <2>2, <2>4 DEF FileInv
    <3>2. fileLines' = Append(fileLines, e)
      BY <2>1, <3>1, ChainSeqs DEF Written
    <3>3. /\ fileLines' \in Seq(Entry) /\ Verifies(fileLines')
          /\ Hashes(fileLines') = Hashes(fileLines) \cup {e.hash}
      BY <2>2, <3>1, <3>2, ChainExtends
    <3>4. /\ Len(fileLines') = Len(fileLines) + 1 /\ fileLines' # <<>>
          /\ Last(fileLines') = e
      <4>1. /\ Len(Append(fileLines, e)) = Len(fileLines) + 1
            /\ Append(fileLines, e)[Len(fileLines) + 1] = e
        BY <2>2, AppendProperties
      <4>2. fileLines' # <<>>
        BY <3>2, <4>1, EmptySeq
      <4> QED BY <3>2, <4>1, <4>2 DEF Last
    <3>5. LastHash(fileLines') = e.hash
      BY <3>4 DEF LastHash
    <3> QED BY <1>2, <2>1, <2>3, <3>1, <3>3, <3>4, <3>5 DEF FileInv
  <2>5. CASE fileTorn
    BY <1>2, <2>1, <2>3, <2>5 DEF FileInv
  <2> QED BY <2>4, <2>5
<1>9. CASE FileWriteFails \/ FileProcessDies
  <2>1. /\ AuditFault /\ UNCHANGED fileAcked /\ fileHead' \in {fileHead, Closed}
        /\ \/ UNCHANGED <<fileLines, fileTorn>>
           \/ fileLines' = Written(Torn) /\ fileTorn' = TRUE
    BY <1>9 DEF FileWriteFails, FileProcessDies, HeadAfterFailure
  <2>2. fileLines' \in Seq(Entry) /\ fileTorn' \in BOOLEAN
    BY <1>4, <1>6, <2>1
  <2>3. fileAcked' \subseteq 1..records'
    BY <1>1, <1>6, <2>1
  <2>4. fileHead' \in [open: BOOLEAN, seq: Nat, last: Nat]
    BY <1>6, <2>1
  <2>5. AuditTypeOK'
    BY <1>3, <2>1, <2>2, <2>3, <2>4
  <2>6. FileInv'
    BY <2>1 DEF FileInv, Closed
  <2> QED BY <1>2, <2>5, <2>6
<1> QED BY <1>7, <1>8, <1>9

\* However many processes append at once, and whatever connections, writes
\* and processes fail, the audit log is one chain that verifies and holds
\* every Record that was reported done; so does the file, until a write to
\* it breaks off in the middle of a line.
THEOREM AuditStaysProvable == AuditSpec => []AuditSafe
<1>1. AuditInit => AuditInv
  <2>1. AuditInit => AuditTypeOK
    <3>1. /\ NoTx \in [at: {"idle", "insert", "commit"}, entry: Entry]
          /\ Closed \in [open: BOOLEAN, seq: Nat, last: Nat]
      BY DEF NoTx, NoEntry, Entry, Genesis, Closed
    <3>2. <<>> \in Seq(Entry) /\ 0 \in 0..MaxRecords /\ 0 \in 0..MaxAuditFaults
      BY AuditAssumption
    <3> QED BY <3>1, <3>2 DEF AuditInit, AuditTypeOK
  <2>2. AuditInit => LogInv /\ FileInv
    BY DEF AuditInit, LogInv, FileInv, Verifies, NoTx, Closed
  <2> QED BY <2>1, <2>2 DEF AuditInv
<1>2. ASSUME AuditInv, [AuditNext]_auditVars PROVE AuditInv'
  <2>1. CASE UNCHANGED auditVars
    BY <1>2, <2>1 DEF AuditInv, AuditTypeOK, LogInv, FileInv, auditVars, sharedLogVars, fileLogVars
  <2> QED BY <1>2, <2>1, SharedLogStep, FileStep DEF AuditNext
<1>3. AuditInv => AuditSafe
  BY DEF AuditInv, LogInv, FileInv, AuditSafe, RecordedVerifies, AppendsNeverCollide
<1> QED BY <1>1, <1>2, <1>3, PTL DEF AuditSpec

-----------------------------------------------------------------------------
(* Rotated secrets. *)

\* The next generation is the one after that in use.
NextInv ==
  /\ rot.pc # "idle" => inUse < MaxOpens
  /\ rot.pc \in {"open", "check", "start"} => rot.next = inUse + 1

\* Requests are those of an agent server, on connections that are open.
RequestsInv ==
  /\ ServedOpen /\ \A c \in serving : on[c] # 0
  /\ process = "run" => serving = {} /\ \A c \in Client : on[c] = 0

\* Generation g does without a secret that it does not need.
Without(r, g) == r \in UnneededRef /\ opened[g][r] = 0

\* A reference whose value only fingerprints and connections read: the values
\* were read in the order fingerprints, cache, connections, manager.
Ordered(r) ==
  /\ late[r] = 0
  /\ cache[r] <= vault[r] /\ prints[r] <= vault[r] /\ rot.read[r] <= vault[r]
  /\ cache[r] # 0 => prints[r] <= cache[r] /\ rot.read[r] <= cache[r]
  /\ inUse # 0 =>
       /\ Without(r, inUse) \/ prints[r] <= opened[inUse][r]
       /\ opened[inUse][r] <= vault[r]
  /\ rot.pc \in {"open", "check", "start"} /\ (rot.pc = "open" => r \notin rot.todo) =>
       /\ Without(r, rot.next) \/ (/\ prints[r] <= opened[rot.next][r]
                                   /\ rot.read[r] <= opened[rot.next][r])
       /\ opened[rot.next][r] <= vault[r]

OrderedInv == \A r \in SecretRef \ LazyRef : Ordered(r)

RotationInv == RotationTypeOK /\ NextInv /\ RequestsInv /\ OrderedInv

Rot == [pc : {"idle", "prints", "open", "check", "start"}, hup : BOOLEAN,
        todo : SUBSET SecretRef, read : Values, ok : BOOLEAN, next : 0..MaxOpens]

\* What the constants make of the values.
LEMMA RotationTypes ==
  /\ MaxVersion \in Nat /\ MaxVersion >= 1 /\ MaxOpens \in Nat /\ MaxOpens >= 1
  /\ MaxRotationFaults \in Nat /\ LazyRef \subseteq SecretRef
  /\ NoValues \in Values /\ RotIdle \in Rot /\ Restart \in Rot
  /\ RotIdle.pc = "idle" /\ RotIdle.read = NoValues
  /\ Restart.pc = "prints" /\ Restart.read = NoValues
<1>1. /\ MaxVersion \in Nat /\ MaxVersion >= 1 /\ MaxOpens \in Nat /\ MaxOpens >= 1
      /\ MaxRotationFaults \in Nat /\ LazyRef \subseteq SecretRef
  <2>1. MaxVersion \in Nat \ {0} /\ MaxOpens \in Nat \ {0}
    BY RotationAssumption
  <2> QED BY <2>1, RotationAssumption
<1>2. NoValues \in Values
  BY <1>1 DEF NoValues, Values
<1>3. 0 \in 0..MaxOpens
  BY <1>1
<1>4. RotIdle \in Rot /\ Restart \in Rot
  BY <1>2, <1>3 DEF RotIdle, Restart, Rot
<1> QED BY <1>1, <1>2, <1>4 DEF RotIdle, Restart

\* The values of a reference are numbers.
LEMMA ValueTypes ==
  ASSUME RotationTypeOK, NEW r \in SecretRef
  PROVE  /\ vault[r] \in Nat /\ cache[r] \in Nat /\ prints[r] \in Nat
         /\ rot.read[r] \in Nat /\ \A g \in 1..MaxOpens : opened[g][r] \in Nat
<1>1. \A v \in Values : v[r] \in Nat
  BY RotationTypes DEF Values
<1>2. /\ cache \in Values /\ prints \in Values /\ rot.read \in Values
      /\ \A g \in 1..MaxOpens : opened[g] \in Values
  BY DEF RotationTypeOK
<1>3. vault \in Values
  BY DEF RotationTypeOK
<1> QED BY <1>1, <1>2, <1>3, RotationTypes

\* The generations a rotation names exist.
LEMMA Generations ==
  ASSUME RotationTypeOK, NextInv
  PROVE  /\ inUse \in Nat
         /\ inUse # 0 => inUse \in 1..MaxOpens
         /\ rot.pc # "idle" => inUse < MaxOpens /\ inUse + 1 \in 1..MaxOpens
         /\ rot.pc \in {"open", "check", "start"} =>
              rot.next = inUse + 1 /\ rot.next \in 1..MaxOpens /\ rot.next # inUse
<1>1. /\ inUse \in 0..MaxOpens
      /\ rot.pc # "idle" => inUse < MaxOpens
      /\ rot.pc \in {"open", "check", "start"} => rot.pc # "idle" /\ rot.next = inUse + 1
  BY DEF RotationTypeOK, NextInv
<1> QED BY <1>1, RotationTypes

\* Requests change neither the rotation nor the values.
LEMMA RequestSteps ==
  ASSUME RotationInv,
         \/ \E c \in Client : Load(c) \/ Serve(c) \/ Finish(c)
         \/ \E g \in 1..MaxOpens : Retire(g)
  PROVE  RotationInv'
<1>1. UNCHANGED RotationStays
  BY DEF Load, Serve, Finish, Retire
<1>2. NextInv' /\ OrderedInv'
  BY <1>1 DEF RotationInv, NextInv, OrderedInv, Ordered, Without, RotationStays
<1>3. RotationTypeOK'
  <2>1. /\ on \in [Client -> 0..MaxOpens] /\ serving \subseteq Client
        /\ closed \subseteq 1..MaxOpens /\ inUse \in 0..MaxOpens /\ 0 \in 0..MaxOpens
    BY RotationTypes DEF RotationInv, RotationTypeOK
  <2>2. /\ on' \in [Client -> 0..MaxOpens] /\ serving' \subseteq Client
        /\ closed' \subseteq 1..MaxOpens
    BY <2>1 DEF Load, Serve, Finish, Retire
  <2> QED BY <1>1, <2>2 DEF RotationInv, RotationTypeOK, RotationStays
<1>4. RequestsInv'
  <2>0. /\ on \in [Client -> 0..MaxOpens] /\ RequestsInv /\ process' = process
    BY <1>1 DEF RotationInv, RotationTypeOK, RotationStays
  <2>1. ASSUME NEW c \in Client, Load(c) PROVE RequestsInv'
    <3>1. /\ process = "mcp" /\ on[c] = 0 /\ on' = [on EXCEPT ![c] = inUse]
          /\ UNCHANGED <<closed, serving>>
      BY <2>1 DEF Load
    <3>2. c \notin serving
      BY <2>0, <3>1 DEF RequestsInv
    <3> QED BY <2>0, <3>1, <3>2 DEF RequestsInv, ServedOpen
  <2>2. ASSUME NEW c \in Client, Serve(c) PROVE RequestsInv'
    <3>1. CASE on[c] \in closed
      <4>1. /\ c \notin serving /\ UNCHANGED <<serving, closed>> /\ on' = [on EXCEPT ![c] = 0]
        BY <2>2, <3>1 DEF Serve
      <4>2. serving \subseteq Client
        BY DEF RotationInv, RotationTypeOK
      <4> QED BY <2>0, <4>1, <4>2 DEF RequestsInv, ServedOpen
    <3>2. CASE on[c] \notin closed
      <4>1. /\ on[c] # 0 /\ UNCHANGED <<on, closed>> /\ serving' = serving \cup {c}
        BY <2>2, <3>2 DEF Serve
      <4>2. process # "run"
        BY <2>0, <4>1 DEF RequestsInv
      <4> QED BY <2>0, <3>2, <4>1, <4>2 DEF RequestsInv, ServedOpen
    <3> QED BY <3>1, <3>2
  <2>3. ASSUME NEW c \in Client, Finish(c) PROVE RequestsInv'
    BY <2>0, <2>3 DEF RequestsInv, ServedOpen, Finish
  <2>4. ASSUME NEW g \in 1..MaxOpens, Retire(g) PROVE RequestsInv'
    BY <2>0, <2>4 DEF RequestsInv, ServedOpen, Retire
  <2> QED BY <2>1, <2>2, <2>3, <2>4
<1> QED BY <1>2, <1>3, <1>4 DEF RotationInv

\* The manager, the cache and lazy reads: the manager's value is the newest.
LEMMA SecretSteps ==
  ASSUME RotationInv,
         \/ CacheExpires
         \/ \E r \in SecretRef : Rotate(r)
         \/ \E r \in LazyRef : LazyFetch(r) \/ LazyStore(r)
  PROVE  RotationInv'
<1>0. /\ RotationTypeOK /\ OrderedInv
      /\ vault \in Values /\ cache \in Values /\ late \in Values
  BY DEF RotationInv, RotationTypeOK
<1>1. UNCHANGED <<process, prints, rot, opened, inUse, closed, on, serving, rotFaults>>
  BY DEF CacheExpires, Rotate, LazyFetch, LazyStore
<1>2. /\ vault' \in Values /\ cache' \in Values /\ late' \in Values
      /\ \A r \in SecretRef : vault[r] <= vault'[r]
      /\ \A r \in SecretRef \ LazyRef : late'[r] = late[r] /\ cache'[r] \in {cache[r], 0}
  <2>1. CASE CacheExpires
    BY <1>0, <2>1, RotationTypes DEF CacheExpires, Expires, Values
  <2>2. CASE \E r \in SecretRef : Rotate(r)
    BY <1>0, <2>2, RotationTypes DEF Rotate, Values
  <2>3. CASE \E r \in LazyRef : LazyFetch(r) \/ LazyStore(r)
    BY <1>0, <2>3, RotationTypes DEF LazyFetch, LazyStore, Values
  <2> QED BY <2>1, <2>2, <2>3
<1>3. RotationTypeOK'
  BY <1>0, <1>1, <1>2 DEF RotationTypeOK
<1>4. NextInv' /\ RequestsInv'
  BY <1>1 DEF RotationInv, NextInv, RequestsInv, ServedOpen
<1>5. ASSUME NEW r \in SecretRef \ LazyRef PROVE Ordered(r)'
  <2>1. vault'[r] \in Nat /\ vault[r] <= vault'[r]
    BY <1>2, RotationTypes DEF Values
  <2>2. Ordered(r)
    BY <1>0 DEF OrderedInv
  <2>3. /\ vault[r] \in Nat /\ cache[r] \in Nat /\ prints[r] \in Nat
        /\ rot.read[r] \in Nat /\ \A g \in 1..MaxOpens : opened[g][r] \in Nat
    BY <1>0, ValueTypes
  <2>4. /\ inUse # 0 => inUse \in 1..MaxOpens
        /\ rot.pc \in {"open", "check", "start"} => rot.next \in 1..MaxOpens
    BY Generations DEF RotationInv
  <2> QED BY <1>1, <1>2, <2>1, <2>2, <2>3, <2>4 DEF Ordered, Without
<1> QED BY <1>3, <1>4, <1>5 DEF RotationInv, OrderedInv

\* A step of the rotation changes no manager's value.
RotationStep ==
  \/ \E hup \in BOOLEAN : Check(hup)
  \/ Compared \/ Refuse \/ Accept \/ Use \/ UseFails
  \/ \E r \in SecretRef : ReadPrint(r) \/ ReadPrintFails(r) \/ Open(r) \/ OpenWithout(r)
                           \/ OpenFails(r)

\* The rotation's own values keep their types.
LEMMA RotationStepTypes ==
  ASSUME RotationInv, RotationStep
  PROVE  /\ RotationTypeOK' /\ NextInv'
         /\ UNCHANGED <<process, vault, on, serving>>
<1> USE RotationTypes
<1>0. /\ rot \in Rot /\ cache \in Values /\ late \in Values /\ prints \in Values
      /\ opened \in [1..MaxOpens -> Values] /\ inUse \in 0..MaxOpens
      /\ closed \subseteq 1..MaxOpens /\ rotFaults \in 0..MaxRotationFaults
      /\ rot.read \in Values /\ rot.todo \subseteq SecretRef /\ NextInv
      /\ vault \in Values
  BY DEF RotationInv, RotationTypeOK, Rot
<1>1. Fault => rotFaults' \in 0..MaxRotationFaults
  BY <1>0 DEF Fault
<1>2. UNCHANGED <<process, vault, on, serving>>
  BY DEF RotationStep, Check, Compared, Refuse, Accept, Use, UseFails, ReadPrint,
         ReadPrintFails, Open, AfterOpening, OpenWithout, OpenFails
<1>3. ASSUME NEW v \in Values, NEW r \in SecretRef, NEW x \in 0..MaxVersion
      PROVE  [v EXCEPT ![r] = x] \in Values
  BY <1>3 DEF Values
<1>4. ASSUME NEW r \in SecretRef, NEW v \in 1..MaxVersion, Reads(r, v)
      PROVE  cache' \in Values /\ v \in 0..MaxVersion
  <2>1. v \in 0..MaxVersion
    OBVIOUS
  <2> QED BY <1>0, <1>3, <1>4, <2>1 DEF Reads
<1>5. ASSUME NEW r \in SecretRef, ReadFails(r) PROVE cache' = cache /\ rotFaults' \in 0..MaxRotationFaults
  BY <1>0, <1>1, <1>5 DEF ReadFails
<1>6. /\ cache' \in Values /\ late' \in Values /\ rotFaults' \in 0..MaxRotationFaults
  BY <1>0, <1>1, <1>4, <1>5 DEF RotationStep, Check, Compared, Refuse, Accept, Use, UseFails,
         ReadPrint, ReadPrintFails, Open, AfterOpening, OpenWithout, OpenFails, Forgotten
<1>7. /\ rot' \in Rot
      /\ rot'.pc # "idle" => inUse' < MaxOpens
      /\ rot'.pc \in {"open", "check", "start"} => rot'.next = inUse' + 1
  <2>1. ASSUME NEW hup \in BOOLEAN, Check(hup)
        PROVE  /\ rot' = [RotIdle EXCEPT !.pc = "prints", !.hup = hup, !.todo = SecretRef]
               /\ inUse' = inUse /\ inUse < MaxOpens
    BY <2>1 DEF Check
  <2>2. \A hup \in BOOLEAN :
          /\ [RotIdle EXCEPT !.pc = "prints", !.hup = hup, !.todo = SecretRef] \in Rot
          /\ [RotIdle EXCEPT !.pc = "prints", !.hup = hup, !.todo = SecretRef].pc = "prints"
    BY DEF Rot, RotIdle
  <2>3. \A r \in SecretRef, v \in 0..MaxVersion :
          /\ [rot EXCEPT !.todo = @ \ {r}, !.read[r] = v] \in Rot
          /\ [rot EXCEPT !.todo = @ \ {r}, !.read[r] = v].pc = rot.pc
          /\ [rot EXCEPT !.todo = @ \ {r}, !.read[r] = v].next = rot.next
    <3> SUFFICES ASSUME NEW r \in SecretRef, NEW v \in 0..MaxVersion
                 PROVE  /\ [rot EXCEPT !.todo = @ \ {r}, !.read[r] = v] \in Rot
                        /\ [rot EXCEPT !.todo = @ \ {r}, !.read[r] = v].pc = rot.pc
                        /\ [rot EXCEPT !.todo = @ \ {r}, !.read[r] = v].next = rot.next
      OBVIOUS
    <3>1. [rot.read EXCEPT ![r] = v] \in Values
      BY <1>0, <1>3
    <3> QED BY <1>0, <3>1 DEF Rot
  <2>4. /\ RotIdle.pc = "idle" /\ Restart.pc = "prints"
        /\ inUse = 0 => inUse < MaxOpens
        /\ rot.pc # "idle" => inUse < MaxOpens /\ inUse + 1 \in 0..MaxOpens
        /\ rot.pc \in {"open", "check", "start"} => rot.next = inUse + 1
    BY <1>0 DEF NextInv
  <2>5. ASSUME NEW r \in SecretRef, ReadPrint(r)
        PROVE  rot' \in Rot /\ rot'.pc = "prints" /\ inUse' < MaxOpens
    <3>1. PICK v \in 1..MaxVersion : rot' = [rot EXCEPT !.todo = @ \ {r}, !.read[r] = v]
      BY <2>5 DEF ReadPrint
    <3>2. v \in 0..MaxVersion
      OBVIOUS
    <3> QED BY <2>3, <2>4, <2>5, <3>1, <3>2 DEF ReadPrint
  <2>6. ASSUME NEW r \in SecretRef, ReadPrintFails(r)
        PROVE  rot' \in Rot /\ rot'.pc \in {"prints", "idle"} /\ inUse' < MaxOpens
    <3>1. [rot EXCEPT !.todo = @ \ {r}] \in Rot /\ [rot EXCEPT !.todo = {}, !.ok = FALSE] \in Rot
      BY <1>0 DEF Rot
    <3>2. /\ [rot EXCEPT !.todo = @ \ {r}].pc = rot.pc
          /\ [rot EXCEPT !.todo = {}, !.ok = FALSE].pc = rot.pc
      BY <1>0 DEF Rot
    <3>3. /\ rot' \in {[rot EXCEPT !.todo = @ \ {r}], [rot EXCEPT !.todo = {}, !.ok = FALSE],
                       RotIdle, Restart}
          /\ rot.pc = "prints" /\ inUse' = inUse
      BY <2>6 DEF ReadPrintFails, Restart
    <3> QED BY <2>4, <3>1, <3>2, <3>3
  <2>7. CASE Compared
    <3>1. /\ rot.pc = "prints" /\ inUse' = inUse
          /\ rot' \in {RotIdle, [rot EXCEPT !.pc = "open", !.todo = SecretRef, !.next = inUse + 1]}
      BY <2>7 DEF Compared
    <3>2. /\ [rot EXCEPT !.pc = "open", !.todo = SecretRef, !.next = inUse + 1] \in Rot
          /\ [rot EXCEPT !.pc = "open", !.todo = SecretRef, !.next = inUse + 1].next = inUse + 1
      BY <1>0, <2>4, <3>1 DEF Rot
    <3> QED BY <2>4, <3>1, <3>2
  <2>8. ASSUME NEW r \in SecretRef, Open(r) \/ OpenWithout(r)
        PROVE  rot' \in Rot /\ rot'.next = inUse' + 1 /\ inUse' < MaxOpens
    <3>1. /\ rot.pc = "open" /\ inUse' = inUse
          /\ \E p \in {"start", "check", rot.pc} : rot' = [rot EXCEPT !.todo = @ \ {r}, !.pc = p]
      BY <2>8 DEF Open, OpenWithout, AfterOpening
    <3>2. \A p \in {"start", "check", "open"} :
            /\ [rot EXCEPT !.todo = @ \ {r}, !.pc = p] \in Rot
            /\ [rot EXCEPT !.todo = @ \ {r}, !.pc = p].next = rot.next
      BY <1>0 DEF Rot
    <3> QED BY <2>4, <3>1, <3>2
  <2>9. CASE Refuse \/ (\E r \in SecretRef : OpenFails(r)) \/ Use \/ UseFails
    <3>1. rot' \in {RotIdle, Restart} /\ (rot' = Restart => inUse' = 0)
      BY <2>9 DEF Refuse, OpenFails, Use, UseFails
    <3> QED BY <2>4, <3>1
  <2>10. CASE Accept
    <3>1. rot.pc = "check" /\ rot' = [rot EXCEPT !.pc = "start"] /\ inUse' = inUse
      BY <2>10 DEF Accept
    <3>2. rot' \in Rot /\ rot'.next = rot.next
      BY <1>0, <3>1 DEF Rot
    <3> QED BY <2>4, <3>1, <3>2
  <2> QED BY <2>1, <2>2, <2>5, <2>6, <2>7, <2>8, <2>9, <2>10 DEF RotationStep
<1>8. prints' \in Values
  BY <1>0 DEF RotationStep, Check, Compared, Refuse, Accept, Use, UseFails,
         ReadPrint, ReadPrintFails, Open, AfterOpening, OpenWithout, OpenFails, PrintsAfter
<1>9. opened' \in [1..MaxOpens -> Values]
  <2>1. ASSUME NEW r \in SecretRef, Open(r) \/ OpenWithout(r)
        PROVE  opened' \in [1..MaxOpens -> Values]
    <3>0. 0 \in 0..MaxVersion /\ 1..MaxVersion \subseteq 0..MaxVersion
      OBVIOUS
    <3>1. PICK v \in 0..MaxVersion : opened' = [opened EXCEPT ![rot.next][r] = v]
      BY <2>1, <3>0 DEF Open, OpenWithout
    <3>2. v \in 0..MaxVersion
      OBVIOUS
    <3>3. \A g \in 1..MaxOpens : [opened[g] EXCEPT ![r] = v] \in Values
      BY <1>0, <1>3, <3>2
    <3> QED BY <1>0, <3>1, <3>3
  <2>2. CASE ~\E r \in SecretRef : Open(r) \/ OpenWithout(r)
    <3>1. opened' \in {opened, [opened EXCEPT ![rot.next] = NoValues],
                       [g \in 1..MaxOpens |-> NoValues]}
      BY <2>2 DEF RotationStep, Check, Compared, Refuse, Accept, Use, UseFails,
           ReadPrint, ReadPrintFails, OpenFails
    <3>2. /\ [opened EXCEPT ![rot.next] = NoValues] \in [1..MaxOpens -> Values]
          /\ [g \in 1..MaxOpens |-> NoValues] \in [1..MaxOpens -> Values]
      BY <1>0
    <3> QED BY <1>0, <3>1, <3>2
  <2> QED BY <2>1, <2>2
<1>10. inUse' \in 0..MaxOpens /\ closed' \subseteq 1..MaxOpens
  <2>1. CASE Use
    <3>1. rot.next \in 0..MaxOpens /\ ({inUse} \ {0}) \subseteq 1..MaxOpens
      BY <1>0 DEF Rot
    <3> QED BY <1>0, <2>1, <3>1 DEF Use, GenerationStopped
  <2>2. CASE ~Use
    <3>1. inUse' \in {inUse, 0} /\ closed' \in {closed, {}}
      BY <2>2 DEF RotationStep, Check, Compared, Refuse, Accept, UseFails,
           ReadPrint, ReadPrintFails, Open, AfterOpening, OpenWithout, OpenFails
    <3>2. 0 \in 0..MaxOpens
      OBVIOUS
    <3> QED BY <1>0, <3>1, <3>2
  <2> QED BY <2>1, <2>2
<1>11. RotationTypeOK'
  BY <1>2, <1>6, <1>7, <1>8, <1>9, <1>10 DEF RotationTypeOK, RotationInv, Rot
<1> QED BY <1>2, <1>7, <1>11 DEF NextInv

\* The order of the values survives every step of the rotation: the
\* fingerprints are read before the connections, and kept with them.
LEMMA RotationStepOrder ==
  ASSUME RotationInv, RotationStep, NEW r \in SecretRef \ LazyRef
  PROVE  Ordered(r)'
<1>0. /\ Ordered(r) /\ RotationTypeOK /\ NextInv
  BY DEF RotationInv, OrderedInv
<1>1. /\ vault[r] \in Nat /\ cache[r] \in Nat /\ prints[r] \in Nat
      /\ rot.read[r] \in Nat /\ \A g \in 1..MaxOpens : opened[g][r] \in Nat
      /\ rot \in Rot /\ rot.read \in [SecretRef -> 0..MaxVersion]
      /\ cache \in [SecretRef -> 0..MaxVersion]
      /\ opened \in [1..MaxOpens -> [SecretRef -> 0..MaxVersion]]
  BY <1>0, ValueTypes DEF RotationTypeOK, Rot, Values
<1>2. /\ inUse \in Nat
      /\ inUse # 0 => inUse \in 1..MaxOpens
      /\ rot.pc \in {"open", "check", "start"} =>
           rot.next = inUse + 1 /\ rot.next \in 1..MaxOpens /\ rot.next # inUse
  BY <1>0, Generations
<1>3. /\ RotIdle.pc = "idle" /\ RotIdle.read[r] = 0 /\ NoValues[r] = 0
      /\ Restart.pc = "prints" /\ Restart.read[r] = 0
  BY RotationTypes DEF NoValues
<1>4. vault' = vault
  BY RotationStepTypes
<1>5. ASSUME NEW s \in SecretRef, NEW v \in 1..MaxVersion, Reads(s, v)
      PROVE  /\ s = r => /\ cache'[r] = v /\ v <= vault[r] /\ prints[r] <= v
                         /\ rot.read[r] <= v
             /\ s # r => cache'[r] = cache[r]
  <2>1. s # r => cache'[r] = cache[r]
    BY <1>1, <1>5 DEF Reads
  <2>2. ASSUME s = r PROVE cache'[r] = v /\ v \in {cache[r], vault[r]} /\ (v = cache[r] => cache[r] # 0 \/ v = vault[r])
    BY <1>1, <1>5, <2>2 DEF Reads
  <2> QED BY <1>0, <1>1, <2>1, <2>2 DEF Ordered, Without
<1>6. ASSUME NEW hup \in BOOLEAN, Check(hup) PROVE Ordered(r)'
  <2>1. /\ rot'.pc = "prints" /\ rot'.read[r] = 0 /\ cache'[r] = 0
        /\ UNCHANGED <<late, prints, opened, inUse>>
    BY <1>3, <1>6 DEF Check, Forgotten, RotIdle
  <2> QED BY <1>0, <1>1, <1>4, <2>1 DEF Ordered, Without
<1>7. ASSUME NEW s \in SecretRef, ReadPrint(s) PROVE Ordered(r)'
  <2>1. PICK v \in 1..MaxVersion :
          Reads(s, v) /\ rot' = [rot EXCEPT !.todo = @ \ {s}, !.read[s] = v]
    BY <1>7 DEF ReadPrint
  <2>2. rot.pc = "prints" /\ UNCHANGED <<late, prints, opened, inUse>>
    BY <1>7 DEF ReadPrint
  <2>3. rot'.pc = "prints" /\ rot'.read[r] = IF s = r THEN v ELSE rot.read[r]
    BY <1>1, <2>1, <2>2 DEF Rot
  <2> QED BY <1>0, <1>1, <1>4, <1>5, <2>1, <2>2, <2>3 DEF Ordered, Without
<1>8. ASSUME NEW s \in SecretRef, ReadPrintFails(s) PROVE Ordered(r)'
  <2>1. /\ rot' \in {[rot EXCEPT !.todo = @ \ {s}], [rot EXCEPT !.todo = {}, !.ok = FALSE],
                     RotIdle, Restart}
        /\ rot.pc = "prints" /\ UNCHANGED <<cache, late, prints, opened, inUse>>
    BY <1>8 DEF ReadPrintFails, ReadFails, Restart
  <2>2. rot'.pc \in {"prints", "idle"} /\ rot'.read[r] \in {0, rot.read[r]}
    BY <1>1, <1>3, <2>1 DEF Rot
  <2> QED BY <1>0, <1>1, <1>4, <2>1, <2>2 DEF Ordered, Without
<1>9. CASE Compared
  <2>1. /\ rot' \in {[rot EXCEPT !.pc = "open", !.todo = SecretRef, !.next = inUse + 1], RotIdle}
        /\ prints' = IF inUse = 0 THEN rot.read ELSE prints
        /\ UNCHANGED <<cache, late, opened, inUse>>
    BY <1>9 DEF Compared
  <2>2. \/ rot'.pc = "open" /\ rot'.todo = SecretRef /\ rot'.read = rot.read
        \/ rot'.pc = "idle" /\ rot'.read[r] = 0
    BY <1>1, <1>3, <2>1 DEF Rot
  <2> QED BY <1>0, <1>1, <1>4, <2>1, <2>2 DEF Ordered, Without
<1>10. ASSUME NEW s \in SecretRef, Open(s) PROVE Ordered(r)'
  <2>1. PICK v \in 1..MaxVersion : Reads(s, v) /\ opened' = [opened EXCEPT ![rot.next][s] = v]
    BY <1>10 DEF Open
  <2>2. /\ rot.pc = "open" /\ s \in rot.todo /\ UNCHANGED <<late, prints, inUse>>
        /\ rot' = [rot EXCEPT !.todo = @ \ {s},
                              !.pc = IF rot.todo = {s} THEN (IF inUse = 0 THEN "start" ELSE "check")
                                     ELSE rot.pc]
    BY <1>1, <1>10 DEF Open, AfterOpening, Rot
  <2>3. /\ rot'.read = rot.read /\ rot'.next = rot.next /\ rot'.todo = rot.todo \ {s}
        /\ rot'.pc \in {"open", "start", "check"}
        /\ rot'.pc # "open" => rot.todo = {s}
    BY <1>1, <2>2 DEF Rot
  <2>4. /\ opened'[rot.next][r] = IF s = r THEN v ELSE opened[rot.next][r]
        /\ inUse # 0 => opened'[inUse][r] = opened[inUse][r]
    BY <1>1, <1>2, <2>1, <2>2
  <2>5. (rot'.pc = "open" => r \notin rot'.todo) => s = r \/ r \notin rot.todo
    BY <2>3
  <2> QED BY <1>0, <1>1, <1>4, <1>5, <2>1, <2>2, <2>3, <2>4, <2>5 DEF Ordered, Without
<1>15. ASSUME NEW s \in SecretRef, OpenWithout(s) PROVE Ordered(r)'
  <2>1. /\ rot.pc = "open" /\ s \in rot.todo /\ s \in UnneededRef
        /\ UNCHANGED <<cache, late, prints, inUse>>
        /\ opened' = [opened EXCEPT ![rot.next][s] = 0]
        /\ rot' = [rot EXCEPT !.todo = @ \ {s},
                              !.pc = IF rot.todo = {s} THEN (IF inUse = 0 THEN "start" ELSE "check")
                                     ELSE rot.pc]
    BY <1>1, <1>15 DEF OpenWithout, ReadFails, AfterOpening, Rot
  <2>2. /\ rot'.read = rot.read /\ rot'.next = rot.next /\ rot'.todo = rot.todo \ {s}
        /\ rot'.pc \in {"open", "start", "check"}
        /\ rot'.pc # "open" => rot.todo = {s}
    BY <1>1, <2>1 DEF Rot
  <2>3. (rot'.pc = "open" => r \notin rot'.todo) => s = r \/ r \notin rot.todo
    BY <2>2
  <2>4. /\ opened'[rot.next][r] = IF s = r THEN 0 ELSE opened[rot.next][r]
        /\ inUse # 0 => opened'[inUse][r] = opened[inUse][r]
    BY <1>1, <1>2, <2>1
  <2> QED BY <1>0, <1>1, <1>2, <1>4, <2>1, <2>2, <2>3, <2>4 DEF Ordered, Without
<1>11. CASE Refuse \/ \E s \in SecretRef : OpenFails(s)
  <2>1. /\ rot.pc \in {"open", "check"} /\ rot' \in {RotIdle, Restart}
        /\ opened' = [opened EXCEPT ![rot.next] = NoValues]
        /\ UNCHANGED <<cache, late, prints, inUse>>
    BY <1>11 DEF Refuse, OpenFails, ReadFails
  <2>2. rot'.pc \in {"idle", "prints"} /\ rot'.read[r] = 0
    BY <1>3, <2>1
  <2>3. inUse # 0 => opened'[inUse][r] = opened[inUse][r]
    BY <1>1, <1>2, <2>1
  <2> QED BY <1>0, <1>1, <1>4, <2>1, <2>2, <2>3 DEF Ordered, Without
<1>12. CASE Accept
  <2>1. /\ rot.pc = "check" /\ rot' = [rot EXCEPT !.pc = "start"]
        /\ UNCHANGED <<cache, late, prints, opened, inUse>>
    BY <1>12 DEF Accept
  <2>2. rot'.pc = "start" /\ rot'.read = rot.read /\ rot'.next = rot.next
    BY <1>1, <2>1 DEF Rot
  <2> QED BY <1>0, <1>4, <2>1, <2>2 DEF Ordered, Without
<1>13. CASE Use
  <2>1. /\ rot.pc = "start" /\ inUse' = rot.next /\ rot' = RotIdle
        /\ prints' \in {prints, rot.read} /\ UNCHANGED <<cache, late, opened>>
    BY <1>13 DEF Use, PrintsAfter
  <2> QED BY <1>0, <1>1, <1>3, <1>4, <2>1 DEF Ordered, Without
<1>14. CASE UseFails
  <2>1. /\ inUse' = 0 /\ rot' = Restart /\ cache'[r] = 0 /\ late'[r] = 0 /\ prints'[r] = 0
    BY <1>3, <1>14 DEF UseFails
  <2> QED BY <1>1, <1>3, <1>4, <2>1 DEF Ordered, Without
<1> QED BY <1>6, <1>7, <1>8, <1>9, <1>10, <1>11, <1>12, <1>13, <1>14, <1>15 DEF RotationStep

\* For any number of references, rotations and requests, a rotated secret is
\* noticed by the next refresh, however reads, cache and connections
\* interleave with it, and `turgon mcp` never serves on closed connections.
THEOREM RotationsAreFollowed == RotationSpec => []RotationSafe
<1>1. RotationInit => RotationInv
  <2> SUFFICES ASSUME RotationInit PROVE RotationInv
    OBVIOUS
  <2>1. [RotIdle EXCEPT !.pc = "prints", !.todo = SecretRef] = Restart
    BY DEF Restart
  <2>0. vault \in Values /\ \A r \in SecretRef : vault[r] \in Nat
    BY RotationTypes DEF RotationInit, Values
  <2>2. RotationTypeOK
    BY <2>0, <2>1, RotationTypes DEF RotationInit, RotationTypeOK, Rot
  <2>3. NextInv /\ RequestsInv
    BY <2>1, RotationTypes DEF RotationInit, NextInv, RequestsInv, ServedOpen
  <2>4. \A r \in SecretRef : NoValues[r] = 0
    BY DEF NoValues
  <2>5. OrderedInv
    BY <2>0, <2>1, <2>4, RotationTypes DEF RotationInit, OrderedInv, Ordered, Without
  <2> QED BY <2>2, <2>3, <2>5 DEF RotationInv
<1>2. ASSUME RotationInv, [RotationNext]_rotationVars PROVE RotationInv'
  <2>1. CASE UNCHANGED rotationVars
    BY <1>2, <2>1 DEF rotationVars, RotationInv, RotationTypeOK, NextInv, RequestsInv,
                      ServedOpen, OrderedInv, Ordered, Without
  <2>2. CASE RotationStep
    <3>1. RotationTypeOK' /\ NextInv' /\ UNCHANGED <<process, vault, on, serving>>
      BY <1>2, <2>2, RotationStepTypes
    <3>2. OrderedInv'
      BY <1>2, <2>2, RotationStepOrder DEF OrderedInv
    <3>3. closed' \subseteq closed \/ process = "run"
      BY <2>2 DEF RotationStep, Check, Compared, Refuse, Accept, Use, UseFails, ReadPrint,
                  ReadPrintFails, Open, AfterOpening, OpenWithout, OpenFails, GenerationStopped
    <3>4. RequestsInv'
      BY <1>2, <3>1, <3>3 DEF RotationInv, RequestsInv, ServedOpen
    <3> QED BY <3>1, <3>2, <3>4 DEF RotationInv
  <2> QED BY <1>2, <2>1, <2>2, RequestSteps, SecretSteps DEF RotationNext, RotationStep
<1>3. RotationInv => RotationSafe
  <2> SUFFICES ASSUME RotationInv PROVE RotationSafe
    OBVIOUS
  <2>1. ASSUME inUse # 0, NEW r \in SecretRef \ LazyRef, opened[inUse][r] # vault[r],
               ~Without(r, inUse)
        PROVE  prints[r] # vault[r]
    <3>1. inUse \in 1..MaxOpens
      BY <2>1, Generations DEF RotationInv
    <3>2. opened[inUse][r] \in Nat /\ vault[r] \in Nat /\ prints[r] \in Nat
      BY <3>1, ValueTypes DEF RotationInv
    <3>3. prints[r] <= opened[inUse][r] /\ opened[inUse][r] <= vault[r]
      BY <2>1 DEF RotationInv, OrderedInv, Ordered, Without
    <3> QED BY <2>1, <3>2, <3>3
  <2> QED BY <2>1 DEF RotationSafe, RotationNotMissed, RotationInv, RequestsInv, Without
<1> QED BY <1>1, <1>2, <1>3, PTL DEF RotationSpec

-----------------------------------------------------------------------------
(* Decisions in the console. *)

Page == [step: Nat, content: Nat, of: ConsoleUser \cup {Nobody}]
TabOf == [pc: {"idle", "signal", "record", "retry", "cli"}, page: Page]
SignalOf == [request: Page, by: ConsoleUser, via: {"console", "command"}, approve: BOOLEAN]

ConsoleShape ==
  /\ agentRun \in ConsoleUser \cup {Nobody}
  /\ wrun \in [state: {"running", "waiting", "failed", "completed"}, step: Nat,
               attempt: Nat, content: Nat]
  /\ tab \in [ConsoleUser -> TabOf]
  /\ signals \in Seq(SignalOf)

\* From the check on, a page that is about to be decided on, and every
\* decision that is under way, is about somebody else's write.
OthersWrite ==
  /\ \A u \in ConsoleUser : tab[u].pc = "signal" => tab[u].page.of # u
  /\ \A i \in 1..Len(signals) :
       signals[i].via = "console" => signals[i].by # signals[i].request.of

ConsoleInv == ConsoleShape /\ OthersWrite /\ DecidedAsShown

\* What the run asks for is a page.
LEMMA PendingIsPage == ConsoleShape => Pending \in Page
  BY DEF ConsoleShape, Pending, RequestOf, NoPage, Page, Waiting

\* Requests to the console change their own tab.
LEMMA TabSteps ==
  ASSUME ConsoleInv, NEW u \in ConsoleUser,
         GetRun(u) \/ Decide(u) \/ ApproveCmd(u) \/ RetryRun(u) \/ RecordRetry(u) \/ Retry(u)
  PROVE  ConsoleInv'
<1>0. ConsoleShape /\ OthersWrite /\ DecidedAsShown /\ Pending \in Page /\ tab[u] \in TabOf
  BY PendingIsPage DEF ConsoleInv, ConsoleShape
<1>1. UNCHANGED <<agentRun, signals, decided>>
  BY DEF GetRun, Decide, ApproveCmd, RetryRun, RecordRetry, Retry
<1>2. PICK t \in TabOf : /\ tab' = [tab EXCEPT ![u] = t]
                         /\ t.pc = "signal" => t.page.of # u
  <2>1. CASE GetRun(u)
    <3>1. [tab[u] EXCEPT !.page = Pending] \in TabOf /\ [tab[u] EXCEPT !.page = Pending].pc = "idle"
      BY <1>0, <2>1 DEF GetRun, TabOf, Idle
    <3> QED BY <2>1, <3>1 DEF GetRun, Tab
  <2>2. CASE Decide(u)
    <3>1. /\ [tab[u] EXCEPT !.pc = "signal"] \in TabOf
          /\ [tab[u] EXCEPT !.pc = "signal"].page = tab[u].page
      BY <1>0 DEF TabOf
    <3>2. tab[u].page.of # u
      BY <2>2 DEF Decide
    <3> QED BY <2>2, <3>1, <3>2 DEF Decide, Tab
  <2>3. CASE ApproveCmd(u)
    <3>1. /\ [tab[u] EXCEPT !.pc = "cli", !.page = Pending] \in TabOf
          /\ [tab[u] EXCEPT !.pc = "cli", !.page = Pending].pc = "cli"
      BY <1>0 DEF TabOf
    <3> QED BY <2>3, <3>1 DEF ApproveCmd, Tab
  <2>4. CASE RetryRun(u) \/ RecordRetry(u) \/ Retry(u)
    <3>1. \A p \in {"idle", "record", "retry"} :
            /\ [tab[u] EXCEPT !.pc = p] \in TabOf /\ [tab[u] EXCEPT !.pc = p].pc = p
      BY <1>0 DEF TabOf
    <3>2. \E p \in {"idle", "record", "retry"} : tab' = [tab EXCEPT ![u] = [tab[u] EXCEPT !.pc = p]]
      BY <2>4 DEF RetryRun, RecordRetry, Retry, Tab
    <3> QED BY <3>1, <3>2
  <2> QED BY <2>1, <2>2, <2>3, <2>4
<1>3. wrun' \in [state: {"running", "waiting", "failed", "completed"}, step: Nat,
                 attempt: Nat, content: Nat]
  <2>1. CASE Retry(u)
    BY <1>0, <2>1 DEF Retry, Restarted, NewRun, ConsoleShape
  <2>2. CASE ~Retry(u)
    BY <1>0, <2>2 DEF GetRun, Decide, ApproveCmd, RetryRun, RecordRetry, ConsoleShape
  <2> QED BY <2>1, <2>2
<1>4. ConsoleShape'
  BY <1>0, <1>1, <1>2, <1>3 DEF ConsoleShape
<1>5. OthersWrite'
  BY <1>0, <1>1, <1>2 DEF OthersWrite, ConsoleShape
<1> QED BY <1>0, <1>1, <1>4, <1>5 DEF ConsoleInv, DecidedAsShown

\* A decision is sent as it stands in the tab.
LEMMA SignalSteps ==
  ASSUME ConsoleInv, NEW u \in ConsoleUser, NEW approve \in BOOLEAN,
         Signal(u, approve) \/ ApproveSignal(u, approve)
  PROVE  ConsoleInv'
<1>0. ConsoleShape /\ OthersWrite /\ DecidedAsShown /\ tab[u] \in TabOf /\ tab[u].page \in Page
  BY DEF ConsoleInv, ConsoleShape, TabOf
<1>1. PICK sig \in SignalOf : /\ Signalled(u, sig)
                              /\ sig.via = "console" => sig.by # sig.request.of
  <2>1. CASE Signal(u, approve)
    <3> DEFINE sig == [request |-> tab[u].page, by |-> u, via |-> "console", approve |-> approve]
    <3>1. tab[u].page.of # u
      BY <1>0, <2>1 DEF Signal, OthersWrite
    <3>2. sig \in SignalOf /\ sig.by = u /\ sig.request = tab[u].page
      BY <1>0 DEF SignalOf
    <3> QED BY <2>1, <3>1, <3>2 DEF Signal
  <2>2. CASE ApproveSignal(u, approve)
    <3> DEFINE sig == [request |-> tab[u].page, by |-> u, via |-> "command", approve |-> approve]
    <3>1. sig \in SignalOf /\ sig.via = "command"
      BY <1>0 DEF SignalOf
    <3> QED BY <2>2, <3>1 DEF ApproveSignal
  <2> QED BY <2>1, <2>2
<1>2. /\ UNCHANGED <<agentRun, wrun, decided>> /\ tab' = [tab EXCEPT ![u] = NoTab]
      /\ signals' = signals \/ signals' = Append(signals, sig)
  BY <1>1 DEF Signalled, Tab
<1>3. NoTab \in TabOf /\ NoTab.pc = "idle"
  BY DEF NoTab, NoPage, TabOf, Page
<1>4. /\ signals' \in Seq(SignalOf)
      /\ \A i \in 1..Len(signals') :
           signals'[i].via = "console" => signals'[i].by # signals'[i].request.of
  <2>0. signals \in Seq(SignalOf)
    BY <1>0 DEF ConsoleShape
  <2>1. CASE signals' = signals
    BY <1>0, <2>0, <2>1 DEF OthersWrite
  <2>2. CASE signals' = Append(signals, sig)
    <3>1. /\ Append(signals, sig) \in Seq(SignalOf)
          /\ Len(Append(signals, sig)) = Len(signals) + 1
          /\ \A i \in 1..Len(signals) : Append(signals, sig)[i] = signals[i]
          /\ Append(signals, sig)[Len(signals) + 1] = sig /\ Len(signals) \in Nat
      BY <2>0, AppendProperties
    <3>2. \A i \in 1..(Len(signals) + 1) : i \in 1..Len(signals) \/ i = Len(signals) + 1
      BY <3>1
    <3> QED BY <1>0, <1>1, <2>2, <3>1, <3>2 DEF OthersWrite
  <2> QED BY <1>2, <2>1, <2>2
<1>5. ConsoleShape'
  BY <1>0, <1>2, <1>3, <1>4 DEF ConsoleShape
<1>6. OthersWrite'
  BY <1>0, <1>2, <1>3, <1>4 DEF OthersWrite, ConsoleShape
<1> QED BY <1>0, <1>2, <1>5, <1>6 DEF ConsoleInv, DecidedAsShown

\* Whatever the run, other people, retries and `turgon approve` do between
\* the page, the check and the signal, a decision made in the console is
\* about the request its page showed, and that is not the decider's own.
THEOREM DecisionsAreAsShown == ConsoleSpec => []DecidedAsShown
<1>1. ConsoleInit => ConsoleInv
  <2> SUFFICES ASSUME ConsoleInit PROVE ConsoleInv
    OBVIOUS
  <2>1. NoTab \in TabOf /\ NoTab.pc = "idle"
    BY DEF NoTab, NoPage, TabOf, Page
  <2>2. ConsoleShape
    BY <2>1 DEF ConsoleInit, ConsoleShape, NewRun
  <2>3. OthersWrite /\ DecidedAsShown
    BY <2>1 DEF ConsoleInit, OthersWrite, DecidedAsShown
  <2> QED BY <2>2, <2>3 DEF ConsoleInv
<1>2. ASSUME ConsoleInv, [ConsoleNext]_consoleVars PROVE ConsoleInv'
  <2>0. ConsoleShape /\ OthersWrite /\ DecidedAsShown
    BY <1>2 DEF ConsoleInv
  <2>1. ASSUME UNCHANGED <<agentRun, wrun, signals, tab, decided>> PROVE ConsoleInv'
    BY <2>0, <2>1 DEF ConsoleInv, ConsoleShape, OthersWrite, DecidedAsShown
  <2>2. CASE RunWaits \/ RunCompletes \/ RunFails \/ RetryCmd
    <3>1. /\ UNCHANGED <<agentRun, tab, decided>> /\ signals' \in {signals, <<>>}
      BY <2>2 DEF RunWaits, RunCompletes, RunFails, RetryCmd
    <3>2. wrun' \in [state: {"running", "waiting", "failed", "completed"}, step: Nat,
                     attempt: Nat, content: Nat]
      BY <2>0, <2>2 DEF ConsoleShape, RunWaits, RunCompletes, RunFails, RetryCmd, Restarted, NewRun
    <3>3. ConsoleShape'
      <4>1. signals' \in Seq(SignalOf)
        BY <2>0, <3>1, EmptySeq DEF ConsoleShape
      <4> QED BY <2>0, <3>1, <3>2, <4>1 DEF ConsoleShape
    <3>4. OthersWrite'
      BY <2>0, <3>1 DEF OthersWrite
    <3> QED BY <2>0, <3>1, <3>3, <3>4 DEF ConsoleInv, DecidedAsShown
  <2>3. CASE AwaitApproval
    <3>1. /\ signals # <<>> /\ UNCHANGED <<agentRun, tab>> /\ signals' \in {<<>>, Tail(signals)}
          /\ \/ UNCHANGED <<wrun, decided>>
             \/ /\ Head(signals).request = Pending
                /\ decided' = {[made |-> Pending, about |-> Head(signals).request,
                                by |-> Head(signals).by, via |-> Head(signals).via]}
                /\ wrun' \in {[wrun EXCEPT !.state = "running", !.step = @ + 1],
                              [wrun EXCEPT !.state = "failed"]}
      BY <2>3 DEF AwaitApproval, Matches
    <3>2. /\ signals \in Seq(SignalOf) /\ Len(signals) \in Nat /\ 1 \in 1..Len(signals)
          /\ Head(signals) = signals[1] /\ Tail(signals) \in Seq(SignalOf)
          /\ Len(Tail(signals)) = Len(signals) - 1
          /\ \A i \in 1..(Len(signals) - 1) : Tail(signals)[i] = signals[i + 1]
      BY <2>0, <3>1, HeadTailProperties, EmptySeq DEF ConsoleShape
    <3>3. ConsoleShape'
      <4>1. signals' \in Seq(SignalOf)
        BY <3>1, <3>2, EmptySeq
      <4>2. wrun' \in [state: {"running", "waiting", "failed", "completed"}, step: Nat,
                       attempt: Nat, content: Nat]
        <5>1. /\ wrun \in [state: {"running", "waiting", "failed", "completed"}, step: Nat,
                           attempt: Nat, content: Nat]
              /\ wrun.step + 1 \in Nat
          BY <2>0 DEF ConsoleShape
        <5>2. CASE wrun' = [wrun EXCEPT !.state = "running", !.step = @ + 1]
          BY <5>1, <5>2
        <5>3. CASE wrun' = [wrun EXCEPT !.state = "failed"]
          BY <5>1, <5>3
        <5> QED BY <3>1, <5>1, <5>2, <5>3
      <4> QED BY <2>0, <3>1, <4>1, <4>2 DEF ConsoleShape
    <3>4. OthersWrite'
      <4>1. \A i \in 1..(Len(signals) - 1) : i + 1 \in 1..Len(signals)
        BY <3>2
      <4> QED BY <2>0, <3>1, <3>2, <4>1 DEF OthersWrite
    <3>5. DecidedAsShown'
      BY <2>0, <3>1, <3>2 DEF DecidedAsShown, OthersWrite
    <3> QED BY <3>3, <3>4, <3>5 DEF ConsoleInv
  <2>4. ASSUME NEW u \in ConsoleUser,
               \/ GroupsChange(u) \/ Login(u) \/ SessionOver(u)
               \/ \E n \in 1..MaxLogins : Callback(u, n)
        PROVE  ConsoleInv'
    BY <2>1, <2>4 DEF GroupsChange, Login, SessionOver, Callback
  <2>5. CASE UNCHANGED consoleVars
    BY <2>1, <2>5 DEF consoleVars
  <2> QED BY <1>2, <2>2, <2>3, <2>4, <2>5, TabSteps, SignalSteps DEF ConsoleNext
<1>3. ConsoleInv => DecidedAsShown
  BY DEF ConsoleInv
<1> QED BY <1>1, <1>2, <1>3, PTL DEF ConsoleSpec

-----------------------------------------------------------------------------
(* The appliance. *)

Worker == [name: SpecName, version: Version, port: Nat,
           st: {"starting", "ready", "down", "stopping", "gone"}]
WorkerEnded == {"stopping", "gone"}

SupervisorShape ==
  /\ procs \in Seq(Worker)
  /\ current \in [SpecName -> 0..Len(procs)]
  /\ upcoming \in [SpecName -> 0..Len(procs)]
  /\ served \in [SpecName -> BOOLEAN]
  /\ supDo.do = "start" => supDo.name \in SpecName /\ supDo.version \in Version

\* A unit holds workers of its own, and not the same one twice.
UnitsOwn == \A n \in SpecName :
  /\ current[n] # 0 => procs[current[n]].name = n
  /\ upcoming[n] # 0 => procs[upcoming[n]].name = n /\ upcoming[n] # current[n]

\* No worker runs that no unit knows of.
NoneForgotten == \A i \in 1..Len(procs) :
  procs[i].st \notin WorkerEnded => \E n \in SpecName : i = current[n] \/ i = upcoming[n]

\* A version starts after the one that was being tried is told to stop.
TriedIsStopped == supDo.do = "start" =>
  (upcoming[supDo.name] # 0 => procs[upcoming[supDo.name]].st \in WorkerEnded)

SupervisorInv ==
  /\ SupervisorShape /\ UnitsOwn /\ NoneForgotten /\ TriedIsStopped
  /\ LastValidRuns /\ PortsDistinct

\* Stopping leaves every worker its name and port, and ends exactly the ones
\* that are stopped.
LEMMA StoppedWorkers ==
  ASSUME procs \in Seq(Worker), NEW ids, procs' = Stopped(ids)
  PROVE  /\ procs' \in Seq(Worker) /\ Len(procs') = Len(procs)
         /\ DOMAIN procs = 1..Len(procs) /\ DOMAIN procs' = 1..Len(procs)
         /\ Len(procs) \in Nat
         /\ \A i \in 1..Len(procs) :
              /\ procs'[i].name = procs[i].name /\ procs'[i].port = procs[i].port
              /\ i \in ids => procs'[i].st \in WorkerEnded
              /\ i \notin ids => procs'[i] = procs[i]
              /\ procs[i].st \in WorkerEnded => procs'[i].st \in WorkerEnded
              /\ procs[i].st = "gone" => procs'[i].st = "gone"
<1>1. /\ Len(procs) \in Nat /\ DOMAIN procs = 1..Len(procs)
      /\ \A i \in 1..Len(procs) : procs[i] \in Worker
  OBVIOUS
<1>2. procs' = [i \in 1..Len(procs) |->
                 IF i \in ids /\ procs[i].st # "gone"
                   THEN [procs[i] EXCEPT !.st = "stopping"] ELSE procs[i]]
  BY <1>1 DEF Stopped, Alive
<1>3. \A i \in 1..Len(procs) : procs'[i] \in Worker
  BY <1>1, <1>2 DEF Worker
<1>4. procs' \in Seq(Worker) /\ Len(procs') = Len(procs) /\ DOMAIN procs' = 1..Len(procs)
  BY <1>1, <1>2, <1>3
<1>5. ASSUME NEW i \in 1..Len(procs)
      PROVE  /\ procs'[i].name = procs[i].name /\ procs'[i].port = procs[i].port
             /\ i \in ids => procs'[i].st \in WorkerEnded
             /\ i \notin ids => procs'[i] = procs[i]
             /\ procs[i].st \in WorkerEnded => procs'[i].st \in WorkerEnded
             /\ procs[i].st = "gone" => procs'[i].st = "gone"
  BY <1>1, <1>2 DEF Worker, WorkerEnded
<1> QED BY <1>1, <1>4, <1>5

\* What a scan does to a unit keeps the invariant: it stops what the unit
\* drops, and not the worker that serves.
LEMMA UnitSteps ==
  ASSUME SupervisorInv, NEW n \in SpecName, NEW ids, NEW c, NEW u, NEW s \in BOOLEAN,
         procs' = Stopped(ids), ids \subseteq {current[n], upcoming[n]},
         current' = [current EXCEPT ![n] = c], upcoming' = [upcoming EXCEPT ![n] = u],
         served' = [served EXCEPT ![n] = s],
         c \in {0, current[n], upcoming[n]}, u \in {0, upcoming[n]}, u # 0 => u # c,
         current[n] \notin {c, u} => current[n] \in ids,
         upcoming[n] \notin {c, u} => upcoming[n] \in ids,
         s => c # 0 /\ c \notin ids /\ procs[c].st \notin WorkerEnded,
         supDo'.do = "start" =>
           supDo'.name = n /\ supDo'.version \in Version /\ (u # 0 => u \in ids)
  PROVE  SupervisorInv'
<1>1. SupervisorShape /\ UnitsOwn /\ NoneForgotten /\ LastValidRuns /\ PortsDistinct
  BY DEF SupervisorInv
<1>2. /\ procs' \in Seq(Worker) /\ Len(procs') = Len(procs)
      /\ DOMAIN procs = 1..Len(procs) /\ DOMAIN procs' = 1..Len(procs)
      /\ Len(procs) \in Nat
      /\ \A i \in 1..Len(procs) :
           /\ procs'[i].name = procs[i].name /\ procs'[i].port = procs[i].port
           /\ i \in ids => procs'[i].st \in WorkerEnded
           /\ i \notin ids => procs'[i] = procs[i]
           /\ procs[i].st \in WorkerEnded => procs'[i].st \in WorkerEnded
           /\ procs[i].st = "gone" => procs'[i].st = "gone"
  BY <1>1, StoppedWorkers DEF SupervisorShape
<1>3. /\ \A m \in SpecName : current[m] \in 0..Len(procs) /\ upcoming[m] \in 0..Len(procs)
      /\ \A m \in SpecName : \A i \in {current[m], upcoming[m]} : i # 0 => i \in 1..Len(procs)
      /\ 0 \in 0..Len(procs)
  BY <1>1, <1>2 DEF SupervisorShape
<1>4. /\ current' \in [SpecName -> 0..Len(procs)] /\ upcoming' \in [SpecName -> 0..Len(procs)]
      /\ served' \in [SpecName -> BOOLEAN]
      /\ current'[n] = c /\ upcoming'[n] = u /\ served'[n] = s
      /\ \A m \in SpecName : m # n => /\ current'[m] = current[m] /\ upcoming'[m] = upcoming[m]
                                      /\ served'[m] = served[m]
  BY <1>1, <1>3 DEF SupervisorShape
<1>5. SupervisorShape'
  BY <1>2, <1>4 DEF SupervisorShape
<1>6. UnitsOwn'
  BY <1>1, <1>2, <1>3, <1>4 DEF UnitsOwn
<1>7. NoneForgotten'
  <2> SUFFICES ASSUME NEW i \in 1..Len(procs), procs'[i].st \notin WorkerEnded
               PROVE  \E m \in SpecName : i = current'[m] \/ i = upcoming'[m]
    BY <1>2 DEF NoneForgotten
  <2>1. i \notin ids /\ procs[i].st \notin WorkerEnded
    BY <1>2
  <2>2. PICK m \in SpecName : i = current[m] \/ i = upcoming[m]
    BY <1>1, <2>1 DEF NoneForgotten
  <2>3. CASE m = n
    BY <1>4, <2>1, <2>2, <2>3
  <2>4. CASE m # n
    BY <1>4, <2>2, <2>4
  <2> QED BY <2>3, <2>4
<1>8. TriedIsStopped'
  BY <1>2, <1>3, <1>4 DEF TriedIsStopped
<1>9. LastValidRuns'
  <2> SUFFICES ASSUME NEW m \in SpecName, served'[m]
               PROVE  current'[m] # 0 /\ procs'[current'[m]].st \notin WorkerEnded
    BY DEF LastValidRuns, WorkerEnded
  <2>1. CASE m = n
    BY <1>2, <1>3, <1>4, <2>1
  <2>2. CASE m # n
    <3>1. current[m] # 0 /\ procs[current[m]].st \notin WorkerEnded
      BY <1>1, <1>4, <2>2 DEF LastValidRuns, WorkerEnded
    <3>2. current[m] \notin ids
      BY <1>1, <1>3, <2>2, <3>1 DEF UnitsOwn
    <3> QED BY <1>2, <1>3, <1>4, <2>2, <3>1, <3>2
  <2> QED BY <2>1, <2>2
<1>10. PortsDistinct'
  BY <1>1, <1>2 DEF PortsDistinct, Alive
<1> QED BY <1>5, <1>6, <1>7, <1>8, <1>9, <1>10 DEF SupervisorInv

\* A worker becomes ready, exits, comes back or ends.
LEMMA WorkerSteps ==
  ASSUME SupervisorInv, NEW i \in DOMAIN procs,
         WorkerReady(i) \/ WorkerExits(i) \/ WorkerRestarts(i) \/ WorkerEnds(i)
  PROVE  SupervisorInv'
<1>1. SupervisorShape /\ UnitsOwn /\ NoneForgotten /\ TriedIsStopped /\ LastValidRuns
      /\ PortsDistinct
  BY DEF SupervisorInv
<1>2. PICK to \in {"starting", "ready", "down", "gone"} :
        /\ procs' = [procs EXCEPT ![i].st = to]
        /\ procs[i].st \in WorkerEnded <=> to \in WorkerEnded
        /\ procs[i].st # "gone"
        /\ UNCHANGED <<unitVars, supDo>>
  BY DEF WorkerReady, WorkerExits, WorkerRestarts, WorkerEnds, WorkerMoves, WorkerEnded
<1>3. /\ Len(procs) \in Nat /\ DOMAIN procs = 1..Len(procs)
      /\ \A j \in 1..Len(procs) : procs[j] \in Worker
  BY <1>1 DEF SupervisorShape
<1>4. /\ procs' \in Seq(Worker) /\ Len(procs') = Len(procs) /\ DOMAIN procs' = 1..Len(procs)
  <2>1. [procs[i] EXCEPT !.st = to] \in Worker
    BY <1>3 DEF Worker
  <2>2. procs' = [procs EXCEPT ![i] = [procs[i] EXCEPT !.st = to]]
    BY <1>2
  <2> QED BY <1>1, <1>3, <2>1, <2>2 DEF SupervisorShape
<1>5. \A j \in 1..Len(procs) :
        /\ procs'[j].name = procs[j].name /\ procs'[j].port = procs[j].port
        /\ procs'[j].st \in WorkerEnded <=> procs[j].st \in WorkerEnded
        /\ procs[j].st = "gone" => procs'[j].st = "gone"
  BY <1>2, <1>3 DEF Worker
<1>6. UNCHANGED <<current, upcoming, served, supDo>>
  BY <1>2 DEF unitVars
<1>7. \A m \in SpecName : \A j \in {current[m], upcoming[m]} : j # 0 => j \in 1..Len(procs)
  BY <1>1, <1>3 DEF SupervisorShape
<1>8. SupervisorShape'
  BY <1>1, <1>4, <1>6 DEF SupervisorShape
<1>9. UnitsOwn'
  BY <1>1, <1>5, <1>6, <1>7 DEF UnitsOwn
<1>10. NoneForgotten'
  BY <1>1, <1>4, <1>5, <1>6 DEF NoneForgotten
<1>11. TriedIsStopped'
  BY <1>1, <1>5, <1>6, <1>7 DEF TriedIsStopped, SupervisorShape
<1>12. LastValidRuns'
  BY <1>1, <1>5, <1>6, <1>7 DEF LastValidRuns, WorkerEnded
<1>13. PortsDistinct'
  BY <1>1, <1>3, <1>4, <1>5 DEF PortsDistinct, Alive
<1> QED BY <1>8, <1>9, <1>10, <1>11, <1>12, <1>13 DEF SupervisorInv

\* With more ports than workers, the first free port is one nobody has.
LEMMA PortIsFree ==
  ASSUME NEW k \in Nat, NEW m \in Nat, k < m, NEW port, NEW J \in SUBSET (1..k)
  PROVE  LET used == {port[i] : i \in J}
         IN  Min((1..m) \ used) \in (1..m) \ used
<1> DEFINE used == {port[i] : i \in J}
           free == (1..m) \ used
<1>1. free # {}
  <2> SUFFICES ASSUME \A p \in 1..m : \E i \in J : port[i] = p PROVE FALSE
    OBVIOUS
  <2> DEFINE f == [p \in 1..m |-> CHOOSE i \in J : port[i] = p]
  <2>1. \A p \in 1..m : f[p] \in 1..k /\ port[f[p]] = p
    OBVIOUS
  <2>2. f \in [1..m -> 1..k]
    BY <2>1
  <2>3. /\ IsFiniteSet(1..m) /\ IsFiniteSet(1..k)
        /\ Cardinality(1..m) = m /\ Cardinality(1..k) = k
    <3>1. ASSUME NEW n \in Nat PROVE IsFiniteSet(1..n) /\ Cardinality(1..n) = n
      <4>1. 1 \in Int /\ n \in Int
        OBVIOUS
      <4>2. IsFiniteSet(1..n) /\ Cardinality(1..n) = IF 1 > n THEN 0 ELSE n - 1 + 1
        BY <4>1, FS_Interval
      <4> QED BY <4>2
    <3> QED BY <3>1
  <2>4. \E p, q \in 1..m : p # q /\ f[p] = f[q]
    <3>1. Cardinality(1..k) < Cardinality(1..m)
      BY <2>3
    <3> DEFINE S == 1..m
               T == 1..k
    <3>2. IsFiniteSet(S) /\ IsFiniteSet(T) /\ Cardinality(T) < Cardinality(S) /\ f \in [S -> T]
      BY <2>2, <2>3, <3>1
    <3> HIDE DEF S, T, f
    <3>3. \E p, q \in S : p # q /\ f[p] = f[q]
      BY <3>2, FS_PigeonHole
    <3> QED BY <3>3 DEF S
  <2> HIDE DEF f
  <2> QED BY <2>1, <2>4
<1>2. free \in SUBSET Nat
  OBVIOUS
<1>3. \E x \in free : \A y \in free : x <= y
  <2>1. PICK x \in free : \A y \in free : ~(<<y, x>> \in OpToRel(<, Nat))
    BY <1>1, <1>2, WFMin, NatLessThanWellFounded
  <2>2. \A y \in free : ~(y < x)
    BY <1>2, <2>1 DEF OpToRel
  <2> QED BY <1>2, <2>2
<1> QED BY <1>3 DEF Min

\* A new worker gets a port of its own, and replaces the one that was tried.
LEMMA StartSteps ==
  ASSUME SupervisorInv, StartWorker
  PROVE  SupervisorInv'
<1>1. SupervisorShape /\ UnitsOwn /\ NoneForgotten /\ TriedIsStopped /\ LastValidRuns
      /\ PortsDistinct
  BY DEF SupervisorInv
<1> DEFINE k == Len(procs)
           n == supDo.name
           w == [name |-> supDo.name, version |-> supDo.version,
                 port |-> FreePort, st |-> "starting"]
<1>2. /\ k \in Nat /\ DOMAIN procs = 1..k /\ k + 1 \in Nat
      /\ \A i \in 1..k : procs[i] \in Worker /\ i # k + 1
      /\ k < MaxStarts + 1 /\ MaxStarts + 1 \in Nat
  BY <1>1, SupervisorAssumption DEF SupervisorShape, StartWorker
<1>3. n \in SpecName /\ supDo.version \in Version
  BY <1>1 DEF SupervisorShape, StartWorker
<1>4. \A i \in 1..k : procs[i].st # "stopping"
  BY <1>2 DEF StartWorker, StopsDone
<1>5. FreePort \in Nat /\ \A i \in 1..k : procs[i].st # "gone" => procs[i].port # FreePort
  <2> DEFINE J == {j \in 1..k : \E m \in SpecName : j \in {current[m], upcoming[m]}}
             port == [i \in 1..k |-> procs[i].port]
             used == {port[i] : i \in J}
  <2>1. FreePort = Min((1..(MaxStarts + 1)) \ used)
    <3>1. used = {procs[i].port : i \in J}
      OBVIOUS
    <3> QED BY <1>2, <3>1 DEF FreePort
  <2>2. J \in SUBSET (1..k)
    OBVIOUS
  <2> HIDE DEF J, port
  <2>3. FreePort \in (1..(MaxStarts + 1)) \ used
    BY <1>2, <2>1, <2>2, PortIsFree
  <2>4. \A i \in 1..k : procs[i].st # "gone" => i \in J
    BY <1>1, <1>4 DEF J, NoneForgotten, WorkerEnded
  <2>5. \A i \in 1..k : i \in J => procs[i].port \in used
    BY DEF port
  <2> QED BY <1>2, <2>3, <2>4, <2>5
<1> HIDE DEF k
<1>6. w \in Worker
  BY <1>3, <1>5 DEF Worker
<1>7. /\ procs' = Append(procs, w)
      /\ procs' \in Seq(Worker) /\ Len(procs') = k + 1 /\ DOMAIN procs' = 1..(k + 1)
      /\ \A i \in 1..k : procs'[i] = procs[i]
      /\ procs'[k + 1].name = n /\ procs'[k + 1].port = FreePort
      /\ procs'[k + 1].st = "starting"
  <2>1. procs' = Append(procs, w)
    BY DEF StartWorker
  <2> HIDE DEF w
  <2>2. /\ procs' \in Seq(Worker) /\ Len(procs') = k + 1
        /\ \A i \in 1..k : procs'[i] = procs[i] /\ procs'[k + 1] = w
    BY <1>1, <1>6, <2>1, AppendProperties DEF SupervisorShape, k
  <2>3. procs'[k + 1] = w
    BY <1>1, <1>6, <2>1, AppendProperties DEF SupervisorShape, k
  <2>4. w.name = n /\ w.port = FreePort /\ w.st = "starting"
    BY DEF w
  <2>5. DOMAIN procs' = 1..(k + 1)
    BY <2>2
  <2> QED BY <2>1, <2>2, <2>3, <2>4, <2>5
<1>8. /\ UNCHANGED <<current, served>> /\ supDo'.do = "scan"
      /\ upcoming' = [upcoming EXCEPT ![n] = k + 1]
  BY DEF StartWorker, Nothing, k
<1>9. /\ \A i \in 0..k : i \in 0..(k + 1)
      /\ \A i \in 1..(k + 1) : i \in 1..k \/ i = k + 1
      /\ k + 1 \in 0..(k + 1) /\ k + 1 \notin 0..k /\ k + 1 # 0
      /\ \A i \in 0..k : i # 0 => i \in 1..k
  BY <1>2
<1>10. /\ \A m \in SpecName : current[m] \in 0..k /\ upcoming[m] \in 0..k
       /\ current \in [SpecName -> 0..k] /\ upcoming \in [SpecName -> 0..k]
  BY <1>1 DEF SupervisorShape, k
<1>11. /\ upcoming'[n] = k + 1
       /\ \A m \in SpecName : m # n => upcoming'[m] = upcoming[m]
       /\ current' \in [SpecName -> 0..(k + 1)] /\ upcoming' \in [SpecName -> 0..(k + 1)]
  BY <1>3, <1>8, <1>9, <1>10
<1>12. SupervisorShape'
  BY <1>1, <1>7, <1>8, <1>11 DEF SupervisorShape
<1>13. UnitsOwn'
  <2> SUFFICES ASSUME NEW m \in SpecName
               PROVE  /\ current'[m] # 0 => procs'[current'[m]].name = m
                      /\ upcoming'[m] # 0 => /\ procs'[upcoming'[m]].name = m
                                             /\ upcoming'[m] # current'[m]
    BY DEF UnitsOwn
  <2>1. current'[m] # 0 => procs'[current'[m]].name = m
    BY <1>1, <1>7, <1>8, <1>9, <1>10 DEF UnitsOwn
  <2>2. CASE m = n
    BY <1>7, <1>8, <1>9, <1>10, <1>11, <2>1, <2>2
  <2>3. CASE m # n
    BY <1>1, <1>7, <1>8, <1>9, <1>10, <1>11, <2>1, <2>3 DEF UnitsOwn
  <2> QED BY <2>2, <2>3
<1>14. NoneForgotten'
  <2> SUFFICES ASSUME NEW i \in 1..(k + 1), procs'[i].st \notin WorkerEnded
               PROVE  \E m \in SpecName : i = current'[m] \/ i = upcoming'[m]
    BY <1>7 DEF NoneForgotten
  <2>1. CASE i = k + 1
    BY <1>3, <1>11, <2>1
  <2>2. CASE i \in 1..k
    <3>1. procs[i].st \notin WorkerEnded
      BY <1>7, <2>2
    <3>2. PICK m \in SpecName : i = current[m] \/ i = upcoming[m]
      BY <1>1, <2>2, <3>1 DEF NoneForgotten, k
    <3>3. i # 0
      BY <2>2
    <3>4. supDo.do = "start"
      BY DEF StartWorker
    <3>5. ~(m = n /\ i = upcoming[m])
      BY <1>1, <3>1, <3>3, <3>4 DEF TriedIsStopped
    <3> QED BY <1>8, <1>11, <3>2, <3>5
  <2> QED BY <1>9, <2>1, <2>2
<1>15. TriedIsStopped'
  BY <1>8 DEF TriedIsStopped
<1>16. LastValidRuns'
  BY <1>1, <1>7, <1>8, <1>9, <1>10 DEF LastValidRuns
<1>17. PortsDistinct'
  <2>1. ASSUME NEW i \in 1..(k + 1), NEW j \in 1..(k + 1), i # j,
               procs'[i].st # "gone", procs'[j].st # "gone"
        PROVE  procs'[i].port # procs'[j].port
    <3>1. CASE i \in 1..k /\ j \in 1..k
      BY <1>1, <1>2, <1>7, <2>1, <3>1 DEF PortsDistinct, Alive
    <3>2. CASE i = k + 1 /\ j \in 1..k
      BY <1>5, <1>7, <2>1, <3>2 DEF k
    <3>3. CASE j = k + 1 /\ i \in 1..k
      BY <1>5, <1>7, <2>1, <3>3 DEF k
    <3> QED BY <1>9, <2>1, <3>1, <3>2, <3>3
  <2> QED BY <1>7, <2>1 DEF PortsDistinct, Alive
<1> QED BY <1>12, <1>13, <1>14, <1>15, <1>16, <1>17 DEF SupervisorInv

\* Whatever happens to the files and the workers between the steps of a
\* scan, a unit that had a worker has one nobody stopped until its file is
\* gone, and no two workers that are alive share a port.
THEOREM UnitsStayServed == SupervisorSpec => []UnitsServed
<1>1. SupervisorInit => SupervisorInv
  <2> SUFFICES ASSUME SupervisorInit PROVE SupervisorInv
    OBVIOUS
  <2>1. /\ procs = <<>> /\ procs \in Seq(Worker) /\ Len(procs) = 0 /\ DOMAIN procs = {}
        /\ supDo.do = "scan" /\ 0 \in 0..0
    BY EmptySeq DEF SupervisorInit, Nothing
  <2>2. SupervisorShape
    BY <2>1 DEF SupervisorInit, SupervisorShape
  <2>3. UnitsOwn /\ NoneForgotten /\ TriedIsStopped /\ LastValidRuns /\ PortsDistinct
    BY <2>1 DEF SupervisorInit, UnitsOwn, NoneForgotten, TriedIsStopped, LastValidRuns,
                PortsDistinct
  <2> QED BY <2>2, <2>3 DEF SupervisorInv
<1>2. ASSUME SupervisorInv, [SupervisorNext]_supervisorVars PROVE SupervisorInv'
  <2>0. SupervisorShape /\ UnitsOwn /\ LastValidRuns /\ PortsDistinct
    BY <1>2 DEF SupervisorInv
  <2>1. ASSUME UNCHANGED <<procs, current, upcoming, served, supDo>> PROVE SupervisorInv'
    BY <1>2, <2>1 DEF SupervisorInv, SupervisorShape, UnitsOwn, NoneForgotten, TriedIsStopped,
                      LastValidRuns, PortsDistinct, Alive
  <2>2. ASSUME NEW n \in SpecName,
               RefuseSpec(n) \/ \E v \in AnyVersion : EditSpec(n, v)
        PROVE  SupervisorInv'
    BY <2>1, <2>2 DEF RefuseSpec, WorkersAfterRefusal, EditSpec, unitVars
  <2>3. ASSUME NEW n \in SpecName,
               BackInPlace(n) \/ GiveUp(n) \/ NewVersion(n) \/ Promote(n) \/ SpecRemoved(n)
        PROVE  SupervisorInv'
    <3>1. /\ current \in [SpecName -> 0..Len(procs)] /\ upcoming \in [SpecName -> 0..Len(procs)]
          /\ served \in [SpecName -> BOOLEAN] /\ served[n] \in BOOLEAN
          /\ current = [current EXCEPT ![n] = current[n]]
          /\ upcoming = [upcoming EXCEPT ![n] = upcoming[n]]
          /\ served = [served EXCEPT ![n] = served[n]]
      BY <2>0 DEF SupervisorShape
    <3>2. /\ served[n] => /\ current[n] # 0 /\ procs[current[n]].st \notin WorkerEnded
                          /\ current[n] # upcoming[n]
          /\ upcoming[n] # 0 => upcoming[n] # current[n]
      BY <2>0 DEF LastValidRuns, UnitsOwn, WorkerEnded
    <3>3. Nothing.do # "start"
      BY DEF Nothing
    <3>4. CASE BackInPlace(n) \/ GiveUp(n)
      <4>1. /\ procs' = Stopped({upcoming[n]}) /\ UNCHANGED <<current, served>>
            /\ upcoming' = [upcoming EXCEPT ![n] = 0] /\ supDo'.do # "start"
        BY <3>3, <3>4 DEF BackInPlace, GiveUp, ReadValid, Scanning
      <4> QED BY <1>2, <3>1, <3>2, <4>1, UnitSteps
    <3>5. CASE NewVersion(n)
      <4>1. /\ procs' = Stopped({upcoming[n]}) /\ UNCHANGED <<current, upcoming, served>>
            /\ supDo'.name = n /\ supDo'.version \in Version
        BY <3>5 DEF NewVersion, ReadValid
      <4> QED BY <1>2, <3>1, <3>2, <4>1, UnitSteps
    <3>6. CASE Promote(n)
      <4>1. /\ procs' = Stopped({current[n]})
            /\ current' = [current EXCEPT ![n] = upcoming[n]]
            /\ upcoming' = [upcoming EXCEPT ![n] = 0] /\ served' = [served EXCEPT ![n] = TRUE]
            /\ supDo'.do # "start" /\ upcoming[n] # 0 /\ procs[upcoming[n]].st = "ready"
        BY <3>3, <3>6 DEF Promote, ReadValid, Scanning, Trying, Runs
      <4>2. procs[upcoming[n]].st \notin WorkerEnded
        BY <4>1 DEF WorkerEnded
      <4> QED BY <1>2, <3>2, <4>1, <4>2, UnitSteps
    <3>7. CASE SpecRemoved(n)
      <4>1. /\ procs' = Stopped({current[n], upcoming[n]})
            /\ current' = [current EXCEPT ![n] = 0]
            /\ upcoming' = [upcoming EXCEPT ![n] = 0] /\ served' = [served EXCEPT ![n] = FALSE]
            /\ supDo'.do # "start"
        BY <3>3, <3>7 DEF SpecRemoved, Scanning
      <4> QED BY <1>2, <4>1, UnitSteps
    <3> QED BY <2>3, <3>4, <3>5, <3>6, <3>7
  <2>4. CASE CopyFails
    <3>1. UNCHANGED <<procs, current, upcoming, served>> /\ supDo'.do # "start"
      BY <2>4 DEF CopyFails, unitVars, Nothing
    <3>2. SupervisorShape' /\ UnitsOwn'
      BY <1>2, <3>1 DEF SupervisorInv, SupervisorShape, UnitsOwn
    <3>3. NoneForgotten' /\ TriedIsStopped'
      BY <1>2, <3>1 DEF SupervisorInv, NoneForgotten, TriedIsStopped
    <3>4. LastValidRuns' /\ PortsDistinct'
      BY <1>2, <3>1 DEF SupervisorInv, LastValidRuns, PortsDistinct, Alive
    <3> QED BY <3>2, <3>3, <3>4 DEF SupervisorInv
  <2>5. CASE SupervisorStops
    <3>1. /\ procs' = Stopped(DOMAIN procs) /\ supDo'.do # "start"
          /\ current' = [n \in SpecName |-> 0] /\ upcoming' = [n \in SpecName |-> 0]
          /\ served' = [n \in SpecName |-> FALSE]
      BY <2>5 DEF SupervisorStops, Scanning, Nothing
    <3>2. /\ procs' \in Seq(Worker) /\ Len(procs') = Len(procs)
          /\ DOMAIN procs = 1..Len(procs) /\ DOMAIN procs' = 1..Len(procs)
          /\ Len(procs) \in Nat
          /\ \A i \in 1..Len(procs) :
               /\ procs'[i].port = procs[i].port /\ procs'[i].st \in WorkerEnded
               /\ procs[i].st = "gone" => procs'[i].st = "gone"
      BY <2>0, <3>1, StoppedWorkers DEF SupervisorShape
    <3>3. SupervisorShape'
      <4>1. 0 \in 0..Len(procs)
        BY <3>2
      <4> QED BY <3>1, <3>2, <4>1 DEF SupervisorShape
    <3>4. UnitsOwn' /\ NoneForgotten' /\ TriedIsStopped' /\ LastValidRuns'
      BY <3>1, <3>2 DEF UnitsOwn, NoneForgotten, TriedIsStopped, LastValidRuns
    <3>5. PortsDistinct'
      BY <2>0, <3>2 DEF PortsDistinct, Alive
    <3> QED BY <3>3, <3>4, <3>5 DEF SupervisorInv
  <2>6. CASE UNCHANGED supervisorVars
    BY <2>1, <2>6 DEF supervisorVars, unitVars
  <2> QED BY <1>2, <2>2, <2>3, <2>4, <2>5, <2>6, StartSteps, WorkerSteps DEF SupervisorNext
<1>3. SupervisorInv => UnitsServed
  BY DEF SupervisorInv, UnitsServed
<1> QED BY <1>1, <1>2, <1>3, PTL DEF SupervisorSpec

-----------------------------------------------------------------------------
(* Identity. *)

ResolveRecord == [state : ResolveStates, master : MaybeMaster, retried : BOOLEAN]

\* Every link under way, by a match, a steward or a load, is to a master
\* record; once a steward's link is stored the record stays linked, and a run
\* that was retried after it finds the link when it starts again.
MatchesKnown == \A r \in ResolveRun :
  /\ ResolveAt(r, "link") => resolve[r].master \in Master
  /\ resolve[r].retried => resolve[r].state \in {"start", "resolved"} /\ xref # NoMaster
SeatsKnown == \A s \in StewardUser :
  /\ seat[s].pc = "link" => seat[s].master \in Master
  /\ seat[s].pc \in {"audit", "retry"} => xref # NoMaster
LoadsKnown == load.pc = "write" => load.master \in Master
IdentityShape ==
  /\ xref \in MaybeMaster
  /\ resolve \in [ResolveRun -> ResolveRecord]
  /\ seat \in [StewardUser -> [pc : {"idle", "link", "audit", "retry"}, master : MaybeMaster,
                               waiting : SUBSET ResolveRun]]
  /\ load \in [pc : {"idle", "write"}, seen : MaybeMaster, master : MaybeMaster]
IdentityInv == IdentityShape /\ MatchesKnown /\ SeatsKnown /\ LoadsKnown

\* One run moves on: the others stay, and so does whether it was retried.
LEMMA RunMoves ==
  ASSUME IdentityShape, NEW r \in ResolveRun, NEW state \in ResolveStates,
         NEW m \in MaybeMaster, GoTo(r, state, m)
  PROVE  /\ resolve' \in [ResolveRun -> ResolveRecord]
         /\ resolve'[r].state = state /\ resolve'[r].master = m
         /\ resolve'[r].retried = resolve[r].retried
         /\ \A q \in ResolveRun : q # r => resolve'[q] = resolve[q]
<1>1. resolve \in [ResolveRun -> ResolveRecord] /\ resolve[r] \in ResolveRecord
  BY DEF IdentityShape
<1>2. resolve' = [resolve EXCEPT ![r] = [resolve[r] EXCEPT !.state = state, !.master = m]]
  BY <1>1 DEF GoTo
<1>3. [resolve[r] EXCEPT !.state = state, !.master = m] \in ResolveRecord
  BY <1>1 DEF ResolveRecord
<1> QED BY <1>1, <1>2, <1>3 DEF ResolveRecord

\* A run that a steward retried does not wait for a steward again: its link
\* is stored before the retry starts, and no match, load or steward removes
\* a link (console/steward.go, engine/activities.go Resolve).
THEOREM RetriedRunsResolve == IdentitySpec => []RetriedResolves
<1>1. IdentityInit => IdentityInv
  BY DEF IdentityInit, IdentityInv, IdentityShape, MatchesKnown, SeatsKnown, LoadsKnown, ResolveAt,
         ResolveRecord, ResolveStates, MaybeMaster, NoRequestSeat, NoLoad
<1>2. IdentityInv /\ [IdentityNext]_identityVars => IdentityInv'
  <2> SUFFICES ASSUME IdentityInv, [IdentityNext]_identityVars PROVE IdentityInv'
    OBVIOUS
  <2>0. IdentityShape /\ MatchesKnown /\ SeatsKnown /\ LoadsKnown /\ NoMaster \notin Master
    BY IdentityAssumption DEF IdentityInv
  <2>a. /\ NoMaster \in MaybeMaster /\ Master \subseteq MaybeMaster /\ xref \in MaybeMaster
        /\ \A r \in ResolveRun : resolve[r].master \in MaybeMaster
        /\ {"start", "lookup", "link", "audit", "resolved", "unresolved", "invalid"} \subseteq ResolveStates
    BY <2>0 DEF MaybeMaster, IdentityShape, ResolveRecord, ResolveStates
  <2>1. ASSUME NEW r \in ResolveRun,
               \/ Xref(r) \/ NeedsSteward(r) \/ SplinkRefuses(r) \/ MatchAudits(r) \/ ResolveFails(r)
               \/ \E m \in Master : Match(r, m)
        PROVE  IdentityInv'
    <3>1. UNCHANGED <<xref, seat, load>>
      BY <2>1 DEF Xref, NeedsSteward, SplinkRefuses, MatchAudits, ResolveFails, Match
    <3>2. PICK state \in ResolveStates, m \in MaybeMaster :
            /\ GoTo(r, state, m)
            /\ state = "link" => m \in Master
            /\ resolve[r].retried => state \in {"start", "resolved"}
      <4>1. CASE Xref(r)
        <5>1. CASE xref # NoMaster
          BY <2>a, <4>1, <5>1 DEF Xref
        <5>2. CASE xref = NoMaster
          <6>1. ~resolve[r].retried
            BY <2>0, <5>2 DEF MatchesKnown
          <6>2. GoTo(r, "lookup", NoMaster)
            BY <4>1, <5>2 DEF Xref
          <6> QED BY <2>a, <6>1, <6>2
        <5> QED BY <5>1, <5>2
      <4>2. CASE NeedsSteward(r) \/ SplinkRefuses(r) \/ MatchAudits(r) \/ ResolveFails(r) \/ \E m \in Master : Match(r, m)
        <5>1. ~resolve[r].retried
          BY <2>0, <4>2 DEF NeedsSteward, SplinkRefuses, MatchAudits, ResolveFails, Match, ResolveAt, MatchesKnown
        <5>2. \E state \in ResolveStates, m \in MaybeMaster : GoTo(r, state, m) /\ (state = "link" => m \in Master)
          BY <2>a, <4>2 DEF NeedsSteward, SplinkRefuses, MatchAudits, ResolveFails, Match
        <5> QED BY <5>1, <5>2
      <4> QED BY <2>1, <4>1, <4>2
    <3>3. /\ resolve' \in [ResolveRun -> ResolveRecord]
          /\ resolve'[r].state = state /\ resolve'[r].master = m
          /\ resolve'[r].retried = resolve[r].retried
          /\ \A q \in ResolveRun : q # r => resolve'[q] = resolve[q]
      BY <2>0, <3>2, RunMoves
    <3>4. resolve[r].retried => xref # NoMaster
      BY <2>0 DEF MatchesKnown
    <3>5. MatchesKnown'
      BY <2>0, <3>1, <3>2, <3>3, <3>4 DEF MatchesKnown, ResolveAt
    <3> QED BY <2>0, <3>1, <3>3, <3>5 DEF IdentityInv, IdentityShape, SeatsKnown, LoadsKnown
  <2>2. ASSUME NEW r \in ResolveRun, MatchLinks(r) PROVE IdentityInv'
    <3>1. /\ UNCHANGED <<seat, load>> /\ xref' = resolve[r].master /\ ResolveAt(r, "link")
          /\ GoTo(r, "audit", resolve[r].master)
      BY <2>2 DEF MatchLinks, LinkTo
    <3>2. /\ resolve' \in [ResolveRun -> ResolveRecord]
          /\ resolve'[r].state = "audit" /\ resolve'[r].retried = resolve[r].retried
          /\ \A q \in ResolveRun : q # r => resolve'[q] = resolve[q]
      BY <2>0, <2>a, <3>1, RunMoves
    <3>3. xref' \in Master /\ ~resolve[r].retried
      BY <2>0, <3>1 DEF MatchesKnown, ResolveAt
    <3>4. MatchesKnown'
      BY <2>0, <3>2, <3>3 DEF MatchesKnown, ResolveAt
    <3> QED BY <2>0, <2>a, <3>1, <3>2, <3>3, <3>4 DEF IdentityInv, IdentityShape, SeatsKnown, LoadsKnown
  <2>3. ASSUME NEW s \in StewardUser, NEW t \in [pc : {"idle", "link", "audit", "retry"}, master : MaybeMaster,
                               waiting : SUBSET ResolveRun],
               seat' = [seat EXCEPT ![s] = t], UNCHANGED <<resolve, load>>,
               xref' \in MaybeMaster, xref' = xref \/ xref' \in Master,
               t.pc = "link" => t.master \in Master,
               t.pc \in {"audit", "retry"} => xref' # NoMaster
        PROVE  IdentityInv'
    <3>1. seat' \in [StewardUser -> [pc : {"idle", "link", "audit", "retry"}, master : MaybeMaster,
                               waiting : SUBSET ResolveRun]]
          /\ \A u \in StewardUser : seat'[u] = IF u = s THEN t ELSE seat[u]
      BY <2>0, <2>3 DEF IdentityShape
    <3>2. xref # NoMaster => xref' # NoMaster
      BY <2>0, <2>3
    <3>3. SeatsKnown'
      BY <2>0, <2>3, <3>1, <3>2 DEF SeatsKnown
    <3>4. MatchesKnown' /\ LoadsKnown' /\ IdentityShape'
      BY <2>0, <2>3, <3>1, <3>2 DEF MatchesKnown, ResolveAt, LoadsKnown, IdentityShape
    <3> QED BY <3>3, <3>4 DEF IdentityInv
  <2>4. ASSUME NEW s \in StewardUser,
               StewardLinks(s) \/ StewardAudits(s) \/ StewardFails(s) \/ \E m \in Master : StewardLists(s, m)
        PROVE  IdentityInv'
    <3>1. seat \in [StewardUser -> [pc : {"idle", "link", "audit", "retry"}, master : MaybeMaster,
                               waiting : SUBSET ResolveRun]]
          /\ NoRequestSeat \in [pc : {"idle", "link", "audit", "retry"}, master : MaybeMaster,
                               waiting : SUBSET ResolveRun] /\ NoRequestSeat.pc = "idle"
      BY <2>0, <2>a DEF IdentityShape, NoRequestSeat
    <3>2. CASE StewardLinks(s)
      <4> DEFINE t == [seat[s] EXCEPT !.pc = "audit"]
      <4>1. seat' = [seat EXCEPT ![s] = t] /\ xref' = seat[s].master /\ UNCHANGED <<resolve, load>>
            /\ seat[s].pc = "link"
        BY <3>1, <3>2 DEF StewardLinks, LinkTo
      <4>2. xref' \in Master
        BY <2>0, <4>1 DEF SeatsKnown
      <4>3. t \in [pc : {"idle", "link", "audit", "retry"}, master : MaybeMaster,
                               waiting : SUBSET ResolveRun] /\ t.pc = "audit"
        BY <3>1
      <4> HIDE DEF t
      <4> QED BY <2>0, <2>3, <2>a, <4>1, <4>2, <4>3
    <3>3. CASE StewardAudits(s)
      <4> DEFINE t == [seat[s] EXCEPT !.pc = "retry"]
      <4>1. seat' = [seat EXCEPT ![s] = t] /\ UNCHANGED <<xref, resolve, load>> /\ seat[s].pc = "audit"
        BY <3>1, <3>3 DEF StewardAudits
      <4>2. t \in [pc : {"idle", "link", "audit", "retry"}, master : MaybeMaster,
                               waiting : SUBSET ResolveRun] /\ t.pc = "retry"
        BY <3>1
      <4>3. xref # NoMaster
        BY <2>0, <4>1 DEF SeatsKnown
      <4> HIDE DEF t
      <4> QED BY <2>3, <2>a, <4>1, <4>2, <4>3
    <3>4. CASE StewardFails(s)
      BY <2>3, <2>a, <3>1, <3>4 DEF StewardFails
    <3>5. CASE \E m \in Master : StewardLists(s, m)
      <4>1. PICK m \in Master : StewardLists(s, m)
        BY <3>5
      <4> DEFINE t == [pc |-> "link", master |-> m, waiting |-> Unresolved]
      <4>2. seat' = [seat EXCEPT ![s] = t] /\ UNCHANGED <<xref, resolve, load>>
        BY <4>1 DEF StewardLists
      <4>3. Unresolved \subseteq ResolveRun
        BY DEF Unresolved
      <4>4. t \in [pc : {"idle", "link", "audit", "retry"}, master : MaybeMaster,
                               waiting : SUBSET ResolveRun] /\ t.pc = "link" /\ t.master \in Master
        BY <2>a, <4>3
      <4> HIDE DEF t
      <4> QED BY <2>3, <2>a, <4>2, <4>4
    <3> QED BY <2>4, <3>2, <3>3, <3>4, <3>5
  <2>5. ASSUME NEW s \in StewardUser, StewardRetries(s) PROVE IdentityInv'
    <3>1. /\ UNCHANGED <<xref, load>> /\ seat' = [seat EXCEPT ![s] = NoRequestSeat]
          /\ seat[s].pc = "retry" /\ xref # NoMaster
      BY <2>0, <2>5 DEF StewardRetries, SeatsKnown
    <3>2. \A r \in ResolveRun : resolve'[r] = resolve[r] \/ resolve'[r] = [state |-> "start", master |-> NoMaster, retried |-> TRUE]
      BY <2>5 DEF StewardRetries
    <3>3. resolve' = [r \in ResolveRun |-> resolve'[r]]
      BY <2>5 DEF StewardRetries
    <3>4. [state |-> "start", master |-> NoMaster, retried |-> TRUE] \in ResolveRecord
      BY <2>a DEF ResolveRecord
    <3>5. resolve' \in [ResolveRun -> ResolveRecord]
      BY <2>0, <3>2, <3>3, <3>4 DEF IdentityShape
    <3>6. MatchesKnown'
      BY <2>0, <3>1, <3>2 DEF MatchesKnown, ResolveAt
    <3>7. /\ seat' \in [StewardUser -> [pc : {"idle", "link", "audit", "retry"}, master : MaybeMaster,
                               waiting : SUBSET ResolveRun]]
          /\ \A u \in StewardUser : seat'[u] = seat[u] \/ seat'[u].pc = "idle"
      BY <2>0, <2>a, <3>1 DEF IdentityShape, NoRequestSeat
    <3> QED BY <2>0, <3>1, <3>5, <3>6, <3>7 DEF IdentityInv, IdentityShape, SeatsKnown, LoadsKnown
  <2>6. ASSUME NEW m \in Master, LoadReads(m) PROVE IdentityInv'
    BY <2>0, <2>a, <2>6 DEF LoadReads, IdentityInv, IdentityShape, MatchesKnown, ResolveAt, SeatsKnown, LoadsKnown
  <2>7. CASE LoadWrites
    <3>1. UNCHANGED <<resolve, seat>> /\ load' = NoLoad /\ (xref' = xref \/ xref' \in Master)
      BY <2>0, <2>7 DEF LoadWrites, LinkTo, LoadsKnown
    <3>2. (xref # NoMaster => xref' # NoMaster) /\ xref' \in MaybeMaster
      BY <2>0, <2>a, <3>1
    <3> QED BY <2>0, <2>a, <3>1, <3>2 DEF IdentityInv, IdentityShape, MatchesKnown, ResolveAt, SeatsKnown,
                                           LoadsKnown, NoLoad
  <2>8. CASE AnotherRunFails \/ UNCHANGED identityVars
    BY <2>0, <2>8 DEF AnotherRunFails, identityVars, IdentityInv, IdentityShape, MatchesKnown, ResolveAt,
                      SeatsKnown, LoadsKnown
  <2> QED BY <2>1, <2>2, <2>4, <2>5, <2>6, <2>7, <2>8 DEF IdentityNext
<1>3. IdentityInv => RetriedResolves
  BY DEF IdentityInv, MatchesKnown, RetriedResolves, ResolveAt
<1> QED BY <1>1, <1>2, <1>3, PTL DEF IdentitySpec

-----------------------------------------------------------------------------
(* Plugins. *)

\* Every governed write a plugin started has the ID of the change itself.
PluginsInv ==
  /\ \A w \in writes : \E p, ch : w = Proposed(p, ch)
  /\ OnlyPermitted

\* However often the activity is attempted, and whichever chain reaches a
\* plugin, a change is one governed write, and no request goes to an address
\* that is not permitted, whatever its name resolved to before
\* (runner.go ProposeChange, netguard.go Client).
THEOREM PluginsStayContained == PluginsSpec => []PluginsContained
<1>1. PluginsInit => PluginsInv
  BY DEF PluginsInit, PluginsInv, OnlyPermitted
<1>2. PluginsInv /\ [PluginsNext]_pluginVars => PluginsInv'
  <2> SUFFICES ASSUME PluginsInv, [PluginsNext]_pluginVars PROVE PluginsInv'
    OBVIOUS
  <2>1. \A w \in writes' : w \in writes \/ \E p, ch : w = Proposed(p, ch)
    BY DEF PluginsNext, RunPlugin, Answered, Publish, CheckURL, Dial, NameMoves, ProposeChange, Handled,
           PluginFails, HostFails, AttemptLost, pluginVars
  <2>2. reached' = reached \/ (Permitted(resolves) /\ reached' = reached \cup {resolves})
    BY DEF PluginsNext, RunPlugin, Answered, Publish, CheckURL, Dial, NameMoves, ProposeChange, Handled,
           PluginFails, HostFails, AttemptLost, pluginVars
  <2>3. OnlyPermitted'
    BY <2>2 DEF PluginsInv, OnlyPermitted
  <2>4. \A w \in writes' : \E p, ch : w = Proposed(p, ch)
    BY <2>1 DEF PluginsInv
  <2> QED BY <2>3, <2>4 DEF PluginsInv, Proposed, ProposalId
<1>3. PluginsInv => PluginsContained
  BY DEF PluginsInv, PluginsContained, OneProposal, Proposed
<1> QED BY <1>1, <1>2, <1>3, PTL DEF PluginsSpec

-----------------------------------------------------------------------------
(* Agent writes. *)

AgentRun == [req: AwRequest \cup {NoRequest}, at: RunAt, end: Ended \cup {"none"},
             approved: BOOLEAN]
AgentCall == [at: {"idle", "wait", "describe", "query", "set"}, req: AwRequest \cup {NoRequest},
              push: SUBSET PushId]

AgentShape ==
  /\ awRun \in AgentRun
  /\ awCall \in [AwCaller -> AgentCall]
  /\ inbox \in [PushId -> Seq({"pending", "outcome"})]

\* What the document at the target and the run's end say of each other: a
\* document is there only after an approved commit, a rejection leaves none,
\* and what was stored is not refused.
Documented ==
  /\ awTries \in Nat
  /\ awRun.at \in {"none", "prepare", "notify", "wait"} => awDoc = NoRequest /\ ~awStored
  /\ awRun.at \in {"none", "prepare", "notify", "wait"} => awTries = 0
  /\ awRun.at = "commit" => awDoc = NoRequest \/ (awRun.approved /\ awDoc = awRun.req)
  /\ awRun.at = "commit" /\ awTries = 0 => awDoc = NoRequest
  /\ awRun.at \in {"outcome", "done"} <=> awRun.end # "none"
  /\ awRun.end = "committed" => awDoc = awRun.req
  /\ awRun.end = "rejected" => awDoc = NoRequest
  /\ awRun.end \in {"denied", "invalid"} => ~awStored /\ (awTries <= 1 => awDoc = NoRequest)

\* Whoever asks under the ID asks for the request that runs, and is told an
\* outcome only when the run has ended.
Asked == \A c \in AwCaller : awCall[c].at \in {"wait", "describe", "query"} =>
  awRun.at # "none" /\ awCall[c].req = awRun.req
Reported == \A t \in awTold :
  awRun.at = "done" /\ t.req = awRun.req /\ t.state = awRun.end

\* The pending notice is out of the way before the run goes on, and the
\* outcome is sent when it has ended.
Noticed ==
  /\ notifying # {} => awRun.at = "notify"
  /\ outcomeTo # {} => awRun.at = "done"
  /\ awRun.at # "done" => \A p \in PushId : \A i \in DOMAIN inbox[p] : inbox[p][i] = "pending"
  /\ PendingBeforeOutcome

AgentInv == AgentShape /\ Documented /\ Asked /\ Reported /\ Noticed

\* A notice is added at the end of what a receiver got.
LEMMA NoticeAdded ==
  ASSUME inbox \in [PushId -> Seq({"pending", "outcome"})], NEW p \in PushId,
         NEW n \in {"pending", "outcome"}, Received(p, n)
  PROVE  /\ inbox' \in [PushId -> Seq({"pending", "outcome"})]
         /\ \A q \in PushId : q # p => inbox'[q] = inbox[q]
         /\ Len(inbox[p]) \in Nat /\ DOMAIN inbox[p] = 1..Len(inbox[p])
         /\ DOMAIN inbox'[p] = 1..(Len(inbox[p]) + 1)
         /\ \A i \in 1..Len(inbox[p]) : inbox'[p][i] = inbox[p][i]
         /\ inbox'[p][Len(inbox[p]) + 1] = n
<1>1. inbox[p] \in Seq({"pending", "outcome"})
  OBVIOUS
<1>2. inbox'[p] = Append(inbox[p], n) /\ \A q \in PushId : q # p => inbox'[q] = inbox[q]
  BY DEF Received
<1>3. Append(inbox[p], n) \in Seq({"pending", "outcome"})
  BY <1>1
<1>4. inbox' \in [PushId -> Seq({"pending", "outcome"})]
  BY <1>3 DEF Received
<1>5. /\ Len(inbox[p]) \in Nat /\ DOMAIN inbox[p] = 1..Len(inbox[p])
      /\ DOMAIN Append(inbox[p], n) = 1..(Len(inbox[p]) + 1)
      /\ \A i \in 1..Len(inbox[p]) : Append(inbox[p], n)[i] = inbox[p][i]
      /\ Append(inbox[p], n)[Len(inbox[p]) + 1] = n
  BY <1>1
<1> QED BY <1>2, <1>4, <1>5

\* Steps of the workflow keep the run a run.
LEMMA AgentRunSteps ==
  ASSUME awRun \in AgentRun
  PROVE  /\ \A s \in Ended : EndWith(s) =>
              /\ awRun' \in AgentRun /\ awRun'.at = "outcome" /\ awRun'.end = s
              /\ awRun'.req = awRun.req
         /\ \A b \in BOOLEAN, a \in RunAt : awRun' = [awRun EXCEPT !.at = a, !.approved = b] =>
              /\ awRun' \in AgentRun /\ awRun'.at = a /\ awRun'.end = awRun.end
              /\ awRun'.req = awRun.req /\ awRun'.approved = b
         /\ \A a \in RunAt : awRun' = [awRun EXCEPT !.at = a] =>
              /\ awRun' \in AgentRun /\ awRun'.at = a /\ awRun'.end = awRun.end
              /\ awRun'.req = awRun.req /\ awRun'.approved = awRun.approved
         /\ awRun.end \in Ended \cup {"none"} /\ awRun.at \in RunAt /\ awRun.approved \in BOOLEAN
<1>1. ASSUME NEW s \in Ended, EndWith(s)
      PROVE  /\ awRun' \in AgentRun /\ awRun'.at = "outcome" /\ awRun'.end = s
             /\ awRun'.req = awRun.req
  BY <1>1 DEF EndWith, AgentRun, RunAt
<1>2. ASSUME NEW b \in BOOLEAN, NEW a \in RunAt, awRun' = [awRun EXCEPT !.at = a, !.approved = b]
      PROVE  /\ awRun' \in AgentRun /\ awRun'.at = a /\ awRun'.end = awRun.end
             /\ awRun'.req = awRun.req /\ awRun'.approved = b
  BY <1>2 DEF AgentRun
<1>3. ASSUME NEW a \in RunAt, awRun' = [awRun EXCEPT !.at = a]
      PROVE  /\ awRun' \in AgentRun /\ awRun'.at = a /\ awRun'.end = awRun.end
             /\ awRun'.req = awRun.req /\ awRun'.approved = awRun.approved
  BY <1>3 DEF AgentRun
<1>4. awRun.end \in Ended \cup {"none"} /\ awRun.at \in RunAt /\ awRun.approved \in BOOLEAN
  BY DEF AgentRun
<1> QED BY <1>1, <1>2, <1>3, <1>4

\* The run goes on: it has not ended before, and what callers were promised
\* of it stays.
LEMMA RunGoesOn ==
  ASSUME AgentInv, UNCHANGED <<awCall, awTold, inbox>>, awRun' \in AgentRun,
         awRun.at \notin {"none", "done"}, awRun'.at # "none", awRun'.req = awRun.req,
         Documented',
         notifying' # {} => awRun'.at = "notify",
         outcomeTo' # {} => awRun'.at = "done"
  PROVE  AgentInv'
<1>1. awTold = {}
  BY DEF AgentInv, Reported
<1>2. AgentShape' /\ Asked' /\ Reported'
  BY <1>1 DEF AgentInv, AgentShape, Asked, Reported
<1>3. Noticed'
  BY DEF AgentInv, Noticed, PendingBeforeOutcome
<1> QED BY <1>2, <1>3 DEF AgentInv

\* The steps of AgentWriteWorkflow.
LEMMA WorkflowSteps ==
  ASSUME AgentInv,
         \/ \E s \in Ended : PrepareAgentFails(s)
         \/ \E b \in BOOLEAN : PrepareAgentOk(b) \/ AgentDecided(b)
         \/ AwaitAgentApproval \/ CommitAgentWrite \/ StartOutcome
  PROVE  AgentInv'
<1>0. /\ AgentShape /\ Documented /\ Noticed /\ awRun \in AgentRun
      /\ {"denied", "invalid", "failed", "committed", "rejected"} = Ended
  BY DEF AgentInv, AgentShape, Ended
<1>a. {"none", "prepare", "notify", "wait", "commit", "outcome", "done"} = RunAt
  BY DEF RunAt
<1>1. ASSUME NEW s \in Ended, PrepareAgentFails(s) PROVE AgentInv'
  <2>1. /\ awRun.at = "prepare" /\ EndWith(s) /\ s \in {"denied", "invalid", "failed"}
        /\ UNCHANGED <<commitVars, notifying, outcomeTo, awCall, awTold, inbox>>
    BY <1>1 DEF PrepareAgentFails, noticeVars
  <2>2. awRun' \in AgentRun /\ awRun'.at = "outcome" /\ awRun'.end = s /\ awRun'.req = awRun.req
    BY <1>0, <2>1, AgentRunSteps
  <2>3. Documented'
    BY <1>0, <2>1, <2>2 DEF Documented, commitVars
  <2>4. notifying' = {} /\ outcomeTo' = {}
    BY <1>0, <2>1 DEF Noticed
  <2> QED BY <2>1, <2>2, <2>3, <2>4, RunGoesOn
<1>2. ASSUME NEW b \in BOOLEAN, PrepareAgentOk(b) PROVE AgentInv'
  <2>1. PICK a \in {"notify", "commit"}, ok \in BOOLEAN :
          /\ awRun.at = "prepare" /\ awRun' = [awRun EXCEPT !.at = a, !.approved = ok]
          /\ a = "commit" => notifying' = {}
          /\ UNCHANGED <<commitVars, outcomeTo, awCall, awTold, inbox>>
    <3>1. CASE b
      BY <1>2, <3>1 DEF PrepareAgentOk
    <3>2. CASE ~b
      BY <1>2, <3>2 DEF PrepareAgentOk
    <3> QED BY <3>1, <3>2
  <2>2. /\ awRun' \in AgentRun /\ awRun'.at = a /\ awRun'.end = awRun.end /\ awRun'.req = awRun.req
        /\ awRun'.approved = ok
    BY <1>0, <1>a, <2>1, AgentRunSteps
  <2>3. Documented'
    BY <1>0, <2>1, <2>2 DEF Documented, commitVars
  <2>4. outcomeTo' = {}
    BY <1>0, <2>1 DEF Noticed
  <2> QED BY <2>1, <2>2, <2>3, <2>4, RunGoesOn
<1>3. ASSUME NEW b \in BOOLEAN, AgentDecided(b) PROVE AgentInv'
  <2>1. /\ awRun.at = "wait" /\ awRun' = [awRun EXCEPT !.at = "commit", !.approved = b]
        /\ UNCHANGED <<commitVars, notifying, outcomeTo, awCall, awTold, inbox>>
    BY <1>3 DEF AgentDecided, noticeVars
  <2>2. /\ awRun' \in AgentRun /\ awRun'.at = "commit" /\ awRun'.end = awRun.end /\ awRun'.req = awRun.req
    BY <1>0, <1>a, <2>1, AgentRunSteps
  <2>3. Documented'
    BY <1>0, <2>1, <2>2 DEF Documented, commitVars
  <2>4. notifying' = {} /\ outcomeTo' = {}
    BY <1>0, <2>1 DEF Noticed
  <2> QED BY <2>1, <2>2, <2>3, <2>4, RunGoesOn
<1>4. CASE AwaitAgentApproval
  <2>1. /\ awRun.at = "notify" /\ awRun' = [awRun EXCEPT !.at = "wait"] /\ notifying = {}
        /\ UNCHANGED <<commitVars, notifying, outcomeTo, awCall, awTold, inbox>>
    BY <1>4 DEF AwaitAgentApproval, Notified, noticeVars
  <2>2. /\ awRun' \in AgentRun /\ awRun'.at = "wait" /\ awRun'.end = awRun.end /\ awRun'.req = awRun.req
    BY <1>0, <1>a, <2>1, AgentRunSteps
  <2>3. Documented'
    BY <1>0, <2>1, <2>2 DEF Documented, commitVars
  <2>4. notifying' = {} /\ outcomeTo' = {}
    BY <1>0, <2>1 DEF Noticed
  <2> QED BY <2>1, <2>2, <2>3, <2>4, RunGoesOn
<1>5. CASE CommitAgentWrite
  <2>1. /\ awRun.at = "commit" /\ UNCHANGED <<notifying, outcomeTo, awCall, awTold, inbox>>
    BY <1>5 DEF CommitAgentWrite, noticeVars
  <2>2. awTries' = awTries + 1 /\ awTries \in Nat /\ awTries' \in Nat
    BY <1>0, <1>5 DEF CommitAgentWrite, Documented
  <2>3. notifying' = {} /\ outcomeTo' = {}
    BY <1>0, <2>1 DEF Noticed
  <2>4. \/ UNCHANGED awRun /\ (UNCHANGED awDoc \/ (awRun.approved /\ awDoc' = awRun.req))
        \/ \E s \in Ended : /\ EndWith(s)
                            /\ s = "committed" => awDoc' = awRun.req
                            /\ s = "rejected" => awDoc' = NoRequest
                            /\ s \in {"denied", "invalid"} => ~awStored' /\ UNCHANGED awDoc
    <3>1. ~awRun.approved => awDoc = NoRequest
      BY <1>0, <2>1 DEF Documented
    <3>2. CASE awRun.approved /\ awDoc' = awRun.req /\ EndWith("committed")
      BY <1>0, <3>2
    <3>3. CASE ~awRun.approved /\ UNCHANGED awDoc /\ EndWith("rejected")
      BY <1>0, <3>1, <3>3
    <3>4. CASE /\ ~awStored /\ UNCHANGED <<awDoc, awStored>>
               /\ \E s \in {"denied", "invalid"} : EndWith(s)
      BY <1>0, <3>4
    <3>5. CASE UNCHANGED awRun /\ (UNCHANGED awDoc \/ (awRun.approved /\ awDoc' = awRun.req))
      BY <3>5
    <3>6. CASE EndWith("failed")
      BY <1>0, <3>6
    <3> QED BY <1>5, <3>2, <3>3, <3>4, <3>5, <3>6 DEF CommitAgentWrite
  <2>5. CASE UNCHANGED awRun /\ (UNCHANGED awDoc \/ (awRun.approved /\ awDoc' = awRun.req))
    <3>1. awRun.end = "none"
      BY <1>0, <2>1 DEF Documented
    <3>2. Documented'
      BY <1>0, <2>1, <2>2, <2>5, <3>1 DEF Documented
    <3> QED BY <1>0, <2>1, <2>3, <2>5, <3>2, RunGoesOn
  <2>6. ASSUME NEW s \in Ended, EndWith(s), s = "committed" => awDoc' = awRun.req,
               s = "rejected" => awDoc' = NoRequest,
               s \in {"denied", "invalid"} => ~awStored' /\ UNCHANGED awDoc
        PROVE  AgentInv'
    <3>1. awRun' \in AgentRun /\ awRun'.at = "outcome" /\ awRun'.end = s /\ awRun'.req = awRun.req
      BY <1>0, <2>6, AgentRunSteps
    <3>2. s # "none"
      BY DEF Ended
    <3>3. awTries' <= 1 => awDoc = NoRequest
      BY <1>0, <2>1, <2>2 DEF Documented
    <3>4. Documented'
      BY <2>2, <2>6, <3>1, <3>2, <3>3 DEF Documented
    <3> QED BY <2>1, <2>3, <3>1, <3>4, RunGoesOn
  <2> QED BY <2>4, <2>5, <2>6
<1>6. CASE StartOutcome
  <2>1. /\ awRun.at = "outcome" /\ awRun' = [awRun EXCEPT !.at = "done"]
        /\ UNCHANGED <<commitVars, notifying, awCall, awTold, inbox>>
    BY <1>6 DEF StartOutcome
  <2>2. /\ awRun' \in AgentRun /\ awRun'.at = "done" /\ awRun'.end = awRun.end /\ awRun'.req = awRun.req
    BY <1>0, <1>a, <2>1, AgentRunSteps
  <2>3. Documented'
    BY <1>0, <2>1, <2>2 DEF Documented, commitVars
  <2>4. notifying' = {}
    BY <1>0, <2>1 DEF Noticed
  <2> QED BY <2>1, <2>2, <2>3, <2>4, RunGoesOn
<1> QED BY <1>1, <1>2, <1>3, <1>4, <1>5, <1>6

\* Notices reach the receivers, or are given up.
LEMMA NoticeSteps ==
  ASSUME AgentInv, NEW p \in PushId, PushPending(p) \/ PushOutcome(p)
  PROVE  AgentInv'
<1>0. /\ AgentShape /\ Noticed /\ inbox \in [PushId -> Seq({"pending", "outcome"})]
  BY DEF AgentInv, AgentShape
<1>1. /\ UNCHANGED <<awRun, commitVars, awCall, awTold>>
      /\ notifying' \subseteq notifying /\ outcomeTo' \subseteq outcomeTo
  BY DEF PushPending, PushOutcome
<1>2. /\ AgentInv => Documented' /\ Asked' /\ Reported'
      /\ (awRun \in AgentRun)' /\ (awCall \in [AwCaller -> AgentCall])'
  BY <1>0, <1>1 DEF AgentInv, AgentShape, Documented, Asked, Reported, commitVars
<1>3. (notifying' # {} => awRun'.at = "notify") /\ (outcomeTo' # {} => awRun'.at = "done")
  BY <1>0, <1>1 DEF Noticed
<1>4. CASE UNCHANGED inbox
  <2>1. AgentShape' /\ Noticed'
    BY <1>0, <1>1, <1>2, <1>3, <1>4 DEF AgentShape, Noticed, PendingBeforeOutcome
  <2> QED BY <1>2, <2>1 DEF AgentInv
<1>5. ASSUME NEW n \in {"pending", "outcome"}, Received(p, n),
             n = "pending" => awRun.at # "done", n = "outcome" => awRun.at = "done"
      PROVE  AgentInv'
  <2>1. /\ inbox' \in [PushId -> Seq({"pending", "outcome"})]
        /\ \A q \in PushId : q # p => inbox'[q] = inbox[q]
        /\ Len(inbox[p]) \in Nat /\ DOMAIN inbox[p] = 1..Len(inbox[p])
        /\ DOMAIN inbox'[p] = 1..(Len(inbox[p]) + 1)
        /\ \A i \in 1..Len(inbox[p]) : inbox'[p][i] = inbox[p][i]
        /\ inbox'[p][Len(inbox[p]) + 1] = n
    BY <1>0, <1>5, NoticeAdded
  <2>2. awRun'.at # "done" => \A q \in PushId : \A i \in DOMAIN inbox'[q] : inbox'[q][i] = "pending"
    <3> SUFFICES ASSUME awRun.at # "done", NEW q \in PushId, NEW i \in DOMAIN inbox'[q]
                 PROVE  inbox'[q][i] = "pending"
      BY <1>1
    <3>1. n = "pending"
      BY <1>5
    <3>2. \A r \in PushId : \A j \in DOMAIN inbox[r] : inbox[r][j] = "pending"
      BY <1>0 DEF Noticed
    <3>3. CASE q # p
      BY <2>1, <3>2, <3>3
    <3>4. CASE q = p /\ i \in 1..Len(inbox[p])
      BY <2>1, <3>2, <3>4
    <3>5. CASE q = p /\ i = Len(inbox[p]) + 1
      BY <2>1, <3>1, <3>5
    <3>6. q = p => i \in 1..Len(inbox[p]) \/ i = Len(inbox[p]) + 1
      BY <2>1
    <3> QED BY <3>3, <3>4, <3>5, <3>6
  <2>3. PendingBeforeOutcome'
    <3> SUFFICES ASSUME NEW q \in PushId, NEW i \in DOMAIN inbox'[q], NEW j \in DOMAIN inbox'[q],
                        i < j, inbox'[q][j] = "pending"
                 PROVE  inbox'[q][i] = "pending"
      BY DEF PendingBeforeOutcome
    <3>1. \A i0, j0 \in DOMAIN inbox[q] : i0 < j0 /\ inbox[q][j0] = "pending" => inbox[q][i0] = "pending"
      BY <1>0 DEF Noticed, PendingBeforeOutcome
    <3>2. CASE q # p
      BY <2>1, <3>1, <3>2
    <3>3. CASE q = p /\ j \in 1..Len(inbox[p])
      <4>1. i \in 1..Len(inbox[p])
        BY <2>1, <3>3
      <4> QED BY <2>1, <3>1, <3>3, <4>1
    <3>4. CASE q = p /\ j = Len(inbox[p]) + 1
      <4>1. n = "pending"
        BY <2>1, <3>4
      <4> QED BY <1>1, <1>5, <2>2, <4>1
    <3>5. q = p => j \in 1..Len(inbox[p]) \/ j = Len(inbox[p]) + 1
      BY <2>1
    <3> QED BY <3>2, <3>3, <3>4, <3>5
  <2>4. AgentShape' /\ Noticed'
    BY <1>2, <1>3, <2>1, <2>2, <2>3 DEF AgentShape, Noticed
  <2> QED BY <1>2, <2>4 DEF AgentInv
<1>6. CASE PushPending(p)
  <2>1. awRun.at = "notify" /\ (UNCHANGED inbox \/ Received(p, "pending"))
    BY <1>0, <1>6 DEF PushPending, Noticed
  <2> QED BY <1>4, <1>5, <2>1
<1>7. CASE PushOutcome(p)
  <2>1. awRun.at = "done" /\ (UNCHANGED inbox \/ Received(p, "outcome"))
    BY <1>0, <1>7 DEF PushOutcome, Noticed
  <2> QED BY <1>4, <1>5, <2>1
<1> QED BY <1>6, <1>7

\* A caller moves on, and a run that has ended may be reported to it.
LEMMA CallerSteps ==
  ASSUME AgentInv, NEW c \in AwCaller, NEW k \in AgentCall,
         awCall' = [awCall EXCEPT ![c] = k],
         k.at \in {"wait", "describe", "query"} => awRun.at # "none" /\ k.req = awRun.req,
         UNCHANGED <<awRun, commitVars, noticeVars>>,
         \A t \in awTold' \ awTold : awRun.at = "done" /\ t.req = awRun.req /\ t.state = awRun.end
  PROVE  AgentInv'
<1>1. UNCHANGED <<notifying, outcomeTo, inbox>>
  BY DEF noticeVars
<1>2. awCall' \in [AwCaller -> AgentCall] /\ \A d \in AwCaller : awCall'[d] = IF d = c THEN k ELSE awCall[d]
  BY DEF AgentInv, AgentShape
<1>3. AgentShape' /\ Documented' /\ Noticed'
  BY <1>1, <1>2 DEF AgentInv, AgentShape, Documented, Noticed, PendingBeforeOutcome, commitVars
<1>4. Asked'
  BY <1>2 DEF AgentInv, Asked
<1>5. Reported'
  BY DEF AgentInv, Reported
<1> QED BY <1>3, <1>4, <1>5 DEF AgentInv

\* The answers callers get.
LEMMA AnswerSteps ==
  ASSUME AgentInv, NEW c \in AwCaller,
         \/ SignalPushSet(c) \/ OnGetTask(c) \/ Follow(c)
         \/ AwaitDone(c) \/ WaitEnded(c) \/ Describe(c) \/ QueryPending(c)
         \/ \E p \in PushId : OnSetTaskPushConfig(c, p)
  PROVE  AgentInv'
<1>0. /\ AgentShape /\ awRun \in AgentRun /\ awCall \in [AwCaller -> AgentCall] /\ awCall[c] \in AgentCall
      /\ IdleCall \in AgentCall /\ IdleCall.at = "idle" /\ awRun.req \in AwRequest \cup {NoRequest}
  BY DEF AgentInv, AgentShape, AgentCall, IdleCall, AgentRun
<1>1. awCall[c].at \in {"wait", "describe", "query"} => awRun.at # "none" /\ awCall[c].req = awRun.req
  BY DEF AgentInv, Asked
<1>2. ASSUME NEW states, Answer(c, states), awCall[c].at \in {"wait", "describe", "query"},
             states \cap Ended # {} => awRun.at = "done" /\ states = {awRun.end}
      PROVE  AgentInv'
  <2>1. awCall' = [awCall EXCEPT ![c] = IdleCall] /\ UNCHANGED <<awRun, commitVars, noticeVars>>
    BY <1>2 DEF Answer
  <2>2. \A t \in awTold' \ awTold : t.req = awCall[c].req /\ t.state \in states \cap Ended
    BY <1>2 DEF Answer
  <2>3. \A t \in awTold' \ awTold : awRun.at = "done" /\ t.req = awRun.req /\ t.state = awRun.end
    BY <1>1, <1>2, <2>2
  <2> QED BY <1>0, <2>1, <2>3, CallerSteps
<1>3. CASE SignalPushSet(c)
  <2>1. /\ awCall' = [awCall EXCEPT ![c] = IdleCall] /\ UNCHANGED <<awRun, commitVars, noticeVars, awTold>>
    BY <1>3 DEF SignalPushSet
  <2> QED BY <1>0, <2>1, CallerSteps
<1>4. CASE OnGetTask(c) \/ Follow(c)
  <2> DEFINE k == [at |-> "wait", req |-> awRun.req, push |-> {}]
  <2>1. /\ awCall' = [awCall EXCEPT ![c] = k] /\ UNCHANGED <<awRun, commitVars, noticeVars, awTold>>
        /\ awRun.at # "none"
    BY <1>4 DEF OnGetTask, Follow, AskAgain
  <2>2. k \in AgentCall /\ k.req = awRun.req
    BY <1>0 DEF AgentCall
  <2> HIDE DEF k
  <2> QED BY <2>1, <2>2, CallerSteps
<1>5. CASE AwaitDone(c)
  BY <1>2, <1>5 DEF AwaitDone
<1>6. CASE WaitEnded(c)
  <2> DEFINE k == [awCall[c] EXCEPT !.at = "describe"]
  <2>1. /\ awCall' = [awCall EXCEPT ![c] = k] /\ UNCHANGED <<awRun, commitVars, noticeVars, awTold>>
        /\ awCall[c].at = "wait"
    BY <1>0, <1>6 DEF WaitEnded
  <2>2. k \in AgentCall /\ k.req = awCall[c].req
    BY <1>0 DEF AgentCall
  <2> HIDE DEF k
  <2> QED BY <1>1, <2>1, <2>2, CallerSteps
<1>7. CASE Describe(c)
  <2>1. CASE awRun.at = "done" /\ Answer(c, {awRun.end})
    BY <1>2, <1>7, <2>1 DEF Describe
  <2>2. CASE /\ awCall' = [awCall EXCEPT ![c].at = "query"]
             /\ UNCHANGED <<awRun, commitVars, noticeVars, awTold>>
    <3> DEFINE k == [awCall[c] EXCEPT !.at = "query"]
    <3>1. awCall' = [awCall EXCEPT ![c] = k] /\ awCall[c].at = "describe"
      BY <1>0, <1>7, <2>2 DEF Describe
    <3>2. k \in AgentCall /\ k.req = awCall[c].req
      BY <1>0 DEF AgentCall
    <3> HIDE DEF k
    <3> QED BY <1>1, <2>2, <3>1, <3>2, CallerSteps
  <2> QED BY <1>7, <2>1, <2>2 DEF Describe
<1>8. CASE QueryPending(c)
  <2>1. "pending" \notin Ended /\ "running" \notin Ended
    BY DEF Ended
  <2> QED BY <1>2, <1>8, <2>1 DEF QueryPending
<1>9. ASSUME NEW p \in PushId, OnSetTaskPushConfig(c, p) PROVE AgentInv'
  <2> DEFINE k == [IdleCall EXCEPT !.at = "set", !.push = {p}]
  <2>1. awCall' = [awCall EXCEPT ![c] = k] /\ UNCHANGED <<awRun, commitVars, noticeVars, awTold>>
    BY <1>9 DEF OnSetTaskPushConfig
  <2>2. k \in AgentCall /\ k.at = "set"
    BY <1>0 DEF AgentCall
  <2> HIDE DEF k
  <2> QED BY <2>1, <2>2, CallerSteps
<1> QED BY <1>3, <1>4, <1>5, <1>6, <1>7, <1>8, <1>9

\* A write is asked for: the first under the ID starts it, later ones join it
\* if they ask for the same.
LEMMA SubmitSteps ==
  ASSUME AgentInv, NEW c \in AwCaller, NEW r \in AwRequest, NEW ps \in SUBSET PushId, Submit(c, r, ps)
  PROVE  AgentInv'
<1> DEFINE k == [at |-> "wait", req |-> r, push |-> {}]
<1>1. k \in AgentCall /\ k.req = r /\ k.at = "wait"
  BY DEF AgentCall
<1>2. awCall' = [awCall EXCEPT ![c] = k] /\ UNCHANGED <<commitVars, noticeVars, awTold>>
  BY DEF Submit
<1> HIDE DEF k
<1>3. CASE awRun.at # "none" /\ SameRequest(r) /\ UNCHANGED awRun
  BY <1>1, <1>2, <1>3, CallerSteps DEF SameRequest
<1>4. CASE awRun.at = "none" /\ awRun' = [awRun EXCEPT !.req = r, !.at = "prepare"]
  <2>1. awRun \in AgentRun /\ awCall \in [AwCaller -> AgentCall]
    BY DEF AgentInv, AgentShape
  <2>2. awRun' \in AgentRun /\ awRun'.at = "prepare" /\ awRun'.req = r /\ awRun'.end = awRun.end
    BY <1>4, <2>1 DEF AgentRun, RunAt
  <2>3. awCall' \in [AwCaller -> AgentCall] /\ \A d \in AwCaller : awCall'[d] = IF d = c THEN k ELSE awCall[d]
    BY <1>1, <1>2, <2>1
  <2>4. UNCHANGED <<notifying, outcomeTo, inbox>>
    BY <1>2 DEF noticeVars
  <2>5. AgentShape'
    BY <2>2, <2>3, <2>4 DEF AgentInv, AgentShape
  <2>6. Asked'
    BY <1>1, <1>4, <2>2, <2>3 DEF AgentInv, Asked
  <2>7. Reported'
    BY <1>2, <1>4 DEF AgentInv, Reported
  <2>8. Documented'
    BY <1>2, <1>4, <2>2 DEF AgentInv, Documented, commitVars
  <2>9. Noticed'
    BY <1>4, <2>2, <2>4 DEF AgentInv, Noticed, PendingBeforeOutcome
  <2> QED BY <2>5, <2>6, <2>7, <2>8, <2>9 DEF AgentInv
<1> QED BY <1>3, <1>4 DEF Submit

\* However many callers ask under a request ID, for whatever request, and
\* however late: every outcome they are told is the one the write had and, but
\* for a refusal after an answer that was lost, says what the target holds; no
\* receiver of notices hears that the write is pending after its outcome
\* (engine/agent.go, agentpush.go).
THEOREM AgentsAreToldTheTruth == AgentWriteSpec => []AgentsToldTruth
<1>1. AgentWriteInit => AgentInv
  <2> SUFFICES ASSUME AgentWriteInit PROVE AgentInv
    OBVIOUS
  <2>1. /\ awRun = [req |-> NoRequest, at |-> "none", end |-> "none", approved |-> FALSE]
        /\ awDoc = NoRequest /\ awTries = 0 /\ awStored = FALSE /\ notifying = {} /\ outcomeTo = {} /\ inbox = [p \in PushId |-> <<>>]
        /\ awCall = [c \in AwCaller |-> IdleCall] /\ awTold = {}
    BY DEF AgentWriteInit
  <2>2. AgentShape
    BY <2>1 DEF AgentShape, AgentRun, RunAt, AgentCall, IdleCall
  <2>3. Documented /\ Asked /\ Reported
    BY <2>1 DEF Documented, Asked, Reported, IdleCall
  <2>4. Noticed
    BY <2>1 DEF Noticed, PendingBeforeOutcome
  <2> QED BY <2>2, <2>3, <2>4 DEF AgentInv
<1>2. AgentInv /\ [AgentWriteNext]_agentWriteVars => AgentInv'
  <2> SUFFICES ASSUME AgentInv, [AgentWriteNext]_agentWriteVars PROVE AgentInv'
    OBVIOUS
  <2>1. CASE UNCHANGED <<awRun, commitVars, noticeVars, awCall, awTold>>
    BY <2>1 DEF noticeVars, AgentInv, AgentShape, Documented, Asked, Reported, Noticed,
                PendingBeforeOutcome, commitVars
  <2>2. CASE HandlePushSignal \/ (\E p \in PushId : OnDeleteTaskPushConfig(p)) \/ UNCHANGED agentWriteVars
    BY <2>1, <2>2 DEF HandlePushSignal, OnDeleteTaskPushConfig, agentWriteVars
  <2>3. ASSUME NEW c \in AwCaller, NEW r \in AwRequest,
               McpWrite(c, r) \/ \E p \in PushId : OnSendMessage(c, r, p)
        PROVE  AgentInv'
    BY <2>3, SubmitSteps DEF McpWrite, OnSendMessage
  <2> QED BY <2>2, <2>3, WorkflowSteps, NoticeSteps, AnswerSteps DEF AgentWriteNext
<1>3. AgentInv => AgentsToldTruth
  BY DEF AgentInv, Documented, Reported, Noticed, AgentsToldTruth, OneOutcome
<1> QED BY <1>1, <1>2, <1>3, PTL DEF AgentWriteSpec

-----------------------------------------------------------------------------
(* Compiling, signing and loading a spec. *)

\* A recipe has no slots, so a fault of a stack is a stack's.
Fitting(c) == c \in Products /\ (~c.stack => c.faults \cap DOMAIN BlueprintFaults = {})

WarrantedBy(c, rv) == c.faults = {} /\ (Confident(c) \/ rv[KeyOf(c.mapping)] = "approved")

\* Whoever vouches for a signed message: a compile from a catalog that
\* warranted it, or the key's owner by hand.
Vouched(level, body, compiled, byHand) ==
  \/ [level |-> level, digest |-> body] \in byHand
  \/ \E r \in compiled : r.body = body /\ r.level = level /\ r.warranted

SpecShape(s) == \E b, l, d, g : s = [body |-> b, level |-> l, digest |-> d, signatures |-> g]

ReleaseShape ==
  /\ Fitting(catalog) /\ \A c \in build : Fitting(c)
  /\ decisions \in [FieldKeys -> {"none", "approved", "rejected"}]
  /\ SpecShape(file)

\* Every compile was warranted, and every signature in the file is on a
\* message somebody vouches for.
CompilesWarranted == \A r \in released : r.warranted
SignaturesVouched == \A g \in file.signatures :
  \E l, b : g = [level |-> l, digest |-> b] /\ Vouched(l, b, released, endorsed)
ReleaseInv == ReleaseShape /\ CompilesWarranted /\ SignaturesVouched /\ ReviewedRuns

\* A report lets its object be deployed when nothing of the table was found,
\* nothing waits for a review and the objects under it can be deployed.
LEMMA DeployableReport ==
  ASSUME NEW base, NEW table, NEW faults, NEW queue, NEW children
  PROVE  FinishReport(base, table, faults, queue, children).deployable
           = (faults \cap DOMAIN table = {} /\ queue = {} /\ \A c \in children : c.deployable)
BY DEF FinishReport

\* Tables merged have the faults of both.
LEMMA MergedDomain ==
  ASSUME NEW f, NEW g PROVE DOMAIN Merged(f, g) = DOMAIN f \cup DOMAIN g
BY DEF Merged

\* A recipe that can be deployed has no fault a recipe can have, and its
\* field is confident enough or approved as it stands.
LEMMA RecipeDeploys ==
  ASSUME NEW c \in Products, NEW rv \in [FieldKeys -> {"none", "approved", "rejected"}],
         RecipeReport(c, rv).deployable
  PROVE  /\ c.faults \cap DOMAIN BlueprintFaults = c.faults
         /\ Confident(c) \/ rv[KeyOf(c.mapping)] = "approved"
<1> DEFINE step    == MapStep(c, rv)
           plugin  == FinishReport(0, PluginFaults, c.faults, {}, {})
           faults  == c.faults \cup {f \in {"rejectedField"} : step.rejected}
<1>1. "schema" \notin c.faults
  BY DEF RecipeReport, Refused
<1>2. RecipeReport(c, rv)
        = FinishReport(IF c.certified THEN 0 ELSE 1, RecipeErrors, faults, step.queue, {plugin})
  BY <1>1 DEF RecipeReport
<1>3. faults \cap DOMAIN RecipeErrors = {} /\ step.queue = {} /\ plugin.deployable
  <2> DEFINE base == IF c.certified THEN 0 ELSE 1
  <2> HIDE DEF step, plugin, faults, base
  <2>1. FinishReport(base, RecipeErrors, faults, step.queue, {plugin}).deployable
    BY <1>2 DEF base
  <2>2. faults \cap DOMAIN RecipeErrors = {} /\ step.queue = {} /\ \A p \in {plugin} : p.deployable
    BY <2>1, DeployableReport
  <2> QED BY <2>2
<1>4. c.faults \cap DOMAIN PluginFaults = {}
  BY <1>3, DeployableReport
<1>5. DOMAIN RecipeErrors = DOMAIN RecipeFaults \cup {"rejectedField"}
  BY MergedDomain DEF RecipeErrors
<1>6. c.faults \cap DOMAIN RecipeFaults = {} /\ ~step.rejected
  <2> HIDE DEF step
  <2> QED BY <1>3, <1>5
<1>7. DOMAIN SchemaFaults = {"schema"}
  BY DEF SchemaFaults
<1>8. DOMAIN UnmappedFaults \subseteq DOMAIN RecipeFaults
  <2> DEFINE m1 == Merged(WriteFaults, UnmappedFaults)
             m2 == Merged(FieldFaults, DocumentFaults)
             m3 == Merged(EndpointFaults, StepFaults)
             m4 == Merged(PolicyFaults, CapacityFaults)
  <2>1. StepFaults = Merged(m1, m2) /\ RecipeFaults = Merged(m3, m4)
    BY DEF StepFaults, RecipeFaults
  <2>2. DOMAIN UnmappedFaults \subseteq DOMAIN m1 /\ DOMAIN StepFaults \subseteq DOMAIN m3
    <3>1. DOMAIN m1 = DOMAIN WriteFaults \cup DOMAIN UnmappedFaults
      BY MergedDomain
    <3>2. DOMAIN m3 = DOMAIN EndpointFaults \cup DOMAIN StepFaults
      BY MergedDomain
    <3> HIDE DEF m1, m3
    <3> QED BY <3>1, <3>2
  <2> HIDE DEF m1, m2, m3, m4
  <2>3. DOMAIN m1 \subseteq DOMAIN StepFaults /\ DOMAIN m3 \subseteq DOMAIN RecipeFaults
    BY <2>1, MergedDomain
  <2> QED BY <2>2, <2>3
<1>9. c.faults \subseteq DOMAIN BlueprintFaults
  BY <1>1, <1>4, <1>6, <1>7 DEF Products, Faults
<1>10. KeyOf(c.mapping) \in FieldKeys
  BY DEF KeyOf, FieldKeys, Products, Mappings
<1>11. rv[KeyOf(c.mapping)] \in {"none", "approved", "rejected"}
  BY <1>10
<1>12. Confident(c) \/ rv[KeyOf(c.mapping)] = "approved"
  <2> SUFFICES ASSUME ~Confident(c) PROVE rv[KeyOf(c.mapping)] = "approved"
    OBVIOUS
  <2>1. c.faults \cap DOMAIN UnmappedFaults = {}
    BY <1>6, <1>8
  <2>2. rv[KeyOf(c.mapping)] # "none"
    BY <1>3, <2>1 DEF MapStep, Find
  <2>3. rv[KeyOf(c.mapping)] # "rejected"
    BY <1>6, <2>1 DEF MapStep, Find
  <2> QED BY <1>11, <2>2, <2>3
<1> QED BY <1>9, <1>12

\* What the verifier lets be compiled is warranted.
LEMMA VerifyWarrants ==
  ASSUME NEW c, Fitting(c), NEW rv \in [FieldKeys -> {"none", "approved", "rejected"}],
         Verify(c, rv).deployable
  PROVE  WarrantedBy(c, rv)
<1>0. c \in Products
  BY DEF Fitting
<1>1. CASE c.stack
  <2> DEFINE recipe == RecipeReport(c, rv)
             plugin == FinishReport(0, PluginFaults, c.faults, {}, {})
  <2>1. Verify(c, rv) = FinishReport(0, BlueprintFaults, c.faults, {}, {recipe, plugin})
    BY <1>1 DEF Verify, BlueprintReport
  <2>2. c.faults \cap DOMAIN BlueprintFaults = {} /\ recipe.deployable
    <3> HIDE DEF recipe, plugin
    <3>1. /\ c.faults \cap DOMAIN BlueprintFaults = {}
          /\ \A r \in {recipe, plugin} : r.deployable
      <4>1. FinishReport(0, BlueprintFaults, c.faults, {}, {recipe, plugin}).deployable
        BY <2>1
      <4> QED BY <4>1, DeployableReport
    <3> QED BY <3>1
  <2> QED BY <1>0, <2>2, RecipeDeploys DEF WarrantedBy
<1>2. CASE ~c.stack
  BY <1>0, <1>2, RecipeDeploys DEF WarrantedBy, Fitting, Verify
<1> QED BY <1>1, <1>2

\* Whatever is edited, reviewed, compiled and signed in whatever order, for any
\* catalog and any number of edits: a worker that trusts the pipeline's key runs
\* only a spec compiled from a catalog that warranted it, at the level it was
\* compiled with, or one the key's owner signed by hand.
THEOREM ReleasesAreReviewed == ReleaseSpec => []ReviewedRuns
<1>1. ReleaseInit => ReleaseInv
  <2> SUFFICES ASSUME ReleaseInit PROVE ReleaseInv
    OBVIOUS
  <2>1. Fitting(catalog)
    <3>1. catalog.faults = {} /\ catalog \in Products
      BY DEF ReleaseInit, Products
    <3> QED BY <3>1 DEF Fitting
  <2>2. SpecShape(file) /\ file.signatures = {}
    BY DEF ReleaseInit, SpecShape, NoSpec
  <2> QED BY <2>1, <2>2 DEF ReleaseInit, ReleaseInv, ReleaseShape, CompilesWarranted,
                            SignaturesVouched, ReviewedRuns, NoReviews
<1>2. ReleaseInv /\ [ReleaseNext]_releaseVars => ReleaseInv'
  <2> SUFFICES ASSUME ReleaseInv, [ReleaseNext]_releaseVars PROVE ReleaseInv'
    OBVIOUS
  <2> USE DEF ReleaseInv
  <2>0. ASSUME UNCHANGED <<file, worker, released, endorsed>>, Fitting(catalog'),
               \A c \in build' : Fitting(c),
               decisions' \in [FieldKeys -> {"none", "approved", "rejected"}]
        PROVE  ReleaseInv'
    <3>1. ReleaseShape'
      BY <2>0 DEF ReleaseShape
    <3> QED BY <2>0, <3>1 DEF CompilesWarranted, SignaturesVouched, ReviewedRuns
  <2>1. CASE EditCatalog
    <3>1. Fitting(catalog)
      BY DEF ReleaseShape
    <3>2. catalog' \in Products /\ catalog'.stack = catalog.stack
      BY <2>1, <3>1, ReleaseConstants DEF EditCatalog, Fitting, Products
    <3>3. ~catalog'.stack => catalog'.faults \cap DOMAIN BlueprintFaults = {}
      <4>1. ASSUME NEW m, catalog' = [catalog EXCEPT !.mapping = m]
            PROVE  catalog'.faults = catalog.faults
        BY <4>1, <3>1 DEF Fitting, Products
      <4>2. ASSUME NEW f, catalog' = [catalog EXCEPT !.faults = {f}]
            PROVE  catalog'.faults = {f}
        BY <4>2, <3>1 DEF Fitting, Products
      <4>3. ASSUME catalog' = [catalog EXCEPT !.faults = {}]
            PROVE  catalog'.faults = {}
        BY <4>3, <3>1 DEF Fitting, Products
      <4> QED BY <2>1, <3>1, <3>2, <4>1, <4>2, <4>3 DEF EditCatalog, Fitting
    <3>4. Fitting(catalog')
      BY <3>2, <3>3 DEF Fitting
    <3> QED BY <2>0, <2>1, <3>4 DEF EditCatalog, ReleaseShape
  <2>2. CASE LoadPage
    BY <2>0, <2>2 DEF LoadPage, ReleaseShape
  <2>3. CASE ReviewField
    <3>1. decisions' \in [FieldKeys -> {"none", "approved", "rejected"}]
      BY <2>3 DEF ReviewField, ReleaseShape
    <3> QED BY <2>0, <2>3, <3>1 DEF ReviewField, ReleaseShape
  <2>4. CASE StartCompile
    BY <2>0, <2>4 DEF StartCompile, ReleaseShape
  <2>5. CASE RefuseCompile
    BY <2>0, <2>5 DEF RefuseCompile, ReleaseShape
  <2>6. CASE FinishCompile
    <3>1. PICK c \in build, signed \in BOOLEAN :
            LET r == Verify(c, decisions)
                s == [body |-> Body(c), level |-> r.level, digest |-> Digest(Body(c)), signatures |-> {}]
            IN /\ r.deployable
               /\ file' = IF signed THEN Sign(s) ELSE s
               /\ released' = released \cup {[level |-> s.level, body |-> s.body, warranted |-> Warranted(c)]}
      BY <2>6 DEF FinishCompile
    <3> DEFINE l == Verify(c, decisions).level
               b == Body(c)
               s == [body |-> b, level |-> l, digest |-> b, signatures |-> {}]
               entry == [level |-> l, body |-> b, warranted |-> Warranted(c)]
    <3>2. UNCHANGED <<catalog, decisions, worker, endorsed>> /\ build' = {}
      BY <2>6 DEF FinishCompile
    <3>3. Warranted(c)
      BY <3>1, VerifyWarrants DEF ReleaseShape, Warranted, WarrantedBy
    <3>4. file' = (IF signed THEN Sign(s) ELSE s) /\ released' = released \cup {entry}
      BY <3>1 DEF Digest
    <3>5. entry.level = l /\ entry.body = b /\ entry.warranted
      BY <3>3
    <3> HIDE DEF l, b, entry
    <3>6. file' \in {s, [body |-> b, level |-> l, digest |-> b,
                         signatures |-> {[level |-> l, digest |-> b]}]}
      BY <3>4 DEF Sign, SignedMessage
    <3>7. SpecShape(file') /\ \A g \in file'.signatures : g = [level |-> l, digest |-> b]
      BY <3>6 DEF SpecShape
    <3>8. CompilesWarranted' /\ ReviewedRuns'
      BY <3>2, <3>4, <3>5 DEF CompilesWarranted, ReviewedRuns
    <3>9. Vouched(l, b, released', endorsed')
      BY <3>4, <3>5 DEF Vouched
    <3> QED BY <3>2, <3>7, <3>8, <3>9 DEF ReleaseShape, SignaturesVouched, Fitting
  <2>7. CASE EditFile
    <3>1. SpecShape(file') /\ file'.signatures = file.signatures
      BY <2>7 DEF EditFile, ReleaseShape, SpecShape
    <3>2. UNCHANGED <<catalog, decisions, build, worker, released, endorsed>>
      BY <2>7 DEF EditFile
    <3>3. ReleaseShape'
      BY <3>1, <3>2 DEF ReleaseShape
    <3> QED BY <3>1, <3>2, <3>3 DEF CompilesWarranted, SignaturesVouched, ReviewedRuns
  <2>8. CASE SignFile
    <3>1. /\ UNCHANGED <<catalog, decisions, build, worker, released>>
          /\ file' = Sign(file) /\ file.digest = file.body
          /\ endorsed' = endorsed \cup (IF AsCompiled THEN {} ELSE {SignedMessage(file)})
      BY <2>8 DEF SignFile, Parses, Digest
    <3>2. SpecShape(file') /\ file'.signatures = {SignedMessage(file)}
      BY <3>1 DEF Sign, ReleaseShape, SpecShape
    <3>3. Vouched(file.level, file.body, released', endorsed')
      BY <3>1 DEF Vouched, AsCompiled, SignedMessage, CompilesWarranted
    <3>4. ReviewedRuns'
      BY <3>1 DEF ReviewedRuns
    <3> QED BY <3>1, <3>2, <3>3, <3>4 DEF ReleaseShape, Fitting, CompilesWarranted,
                                SignaturesVouched, SignedMessage
  <2>9. CASE LoadSpec
    <3>1. file.digest = file.body /\ SignedMessage(file) \in file.signatures
      BY <2>9 DEF LoadSpec, Parses, Trusted, Digest
    <3>2. Vouched(file.level, file.body, released, endorsed)
      <4>1. PICK l, b : /\ SignedMessage(file) = [level |-> l, digest |-> b]
                        /\ Vouched(l, b, released, endorsed)
        BY <3>1 DEF SignaturesVouched
      <4>2. l = file.level /\ b = file.body
        BY <3>1, <4>1 DEF SignedMessage
      <4> QED BY <4>1, <4>2
    <3>3. ReviewedRuns'
      BY <2>9, <3>2 DEF LoadSpec, ReviewedRuns, Vouched
    <3> QED BY <2>9, <3>3 DEF LoadSpec, ReleaseShape, Fitting, SpecShape, CompilesWarranted,
                              SignaturesVouched, Vouched
  <2>10. CASE UNCHANGED releaseVars
    BY <2>0, <2>10 DEF releaseVars, ReleaseShape
  <2> QED BY <2>1, <2>2, <2>3, <2>4, <2>5, <2>6, <2>7, <2>8, <2>9, <2>10 DEF ReleaseNext
<1>3. ReleaseInv => ReviewedRuns
  BY DEF ReleaseInv
<1> QED BY <1>1, <1>2, <1>3, PTL DEF ReleaseSpec

-----------------------------------------------------------------------------
(* The operator. *)

\* No pod of another version is left.
OnlyPodsOf(s) == \A t \in OpSpec : t # s => pods[t] = 0

\* The controller has seen no later template than there is; the template
\* is of a spec that was verified.
TemplateSeen ==
  /\ dep.obs <= dep.gen
  /\ IF dep.gen > 0 THEN dep.spec \in OpSpec ELSE dep.spec = NoMount

\* Once the controller has seen the template and counted no other pods,
\* there are none, and none come while the template stays.
OthersReplaced ==
  dep.gen > 0 /\ dep.obs = dep.gen /\ dep.updated = dep.total => OnlyPodsOf(dep.spec)

\* A Reconcile that has written its ConfigMap finds it there; one that has
\* updated the Deployment finds its template, and a status that showed the
\* rollout through still tells the truth.
Reconciling ==
  /\ oper.at \in {"map", "deploy", "hooks", "observe", "prune"} => oper.in.spec \in OpSpec
  /\ oper.at \in {"deploy", "hooks", "observe", "prune"} => oper.in.spec \in specMaps
  /\ oper.at \in {"hooks", "observe", "prune"} =>
       /\ dep.gen > 0 /\ dep.spec = oper.in.spec
       /\ oper.dep.obs >= oper.dep.gen /\ oper.dep.updated = oper.dep.total =>
            OnlyPodsOf(dep.spec)
  /\ oper.at = "prune" => OnlyPodsOf(dep.spec)

OperatorInv ==
  /\ OperatorTypeOK /\ IsFiniteSet(PodsOf(pods))
  /\ TemplateSeen /\ OthersReplaced /\ Reconciling /\ MountedSpecKept

\* The pods of one version are among all pods, as many as are counted.
LEMMA PodsCounted ==
  ASSUME NEW f \in [OpSpec -> Nat], IsFiniteSet(PodsOf(f)), NEW s \in OpSpec
  PROVE  /\ Total(f) \in Nat
         /\ f[s] = Total(f) => \A t \in OpSpec : t # s => f[t] = 0
<1> DEFINE mine == {s} \X (1..f[s])
<1>1. f[s] \in Nat /\ IsFiniteSet(1..f[s]) /\ Cardinality(1..f[s]) = f[s]
  <2>1. f[s] \in Nat /\ f[s] \in Int /\ 1 \in Int
    OBVIOUS
  <2>2. IsFiniteSet(1..f[s]) /\ Cardinality(1..f[s]) = IF 1 > f[s] THEN 0 ELSE f[s] - 1 + 1
    BY <2>1, FS_Interval
  <2> QED BY <2>1, <2>2
<1>2. IsFiniteSet({s}) /\ Cardinality({s}) = 1
  BY FS_Singleton
<1>3. IsFiniteSet(mine) /\ Cardinality(mine) = f[s]
  <2>1. IsFiniteSet(mine) /\ Cardinality(mine) = 1 * Cardinality(1..f[s])
    BY <1>1, <1>2, FS_Product
  <2> QED BY <1>1, <2>1
<1>4. mine \subseteq PodsOf(f)
  BY DEF PodsOf
<1>5. ASSUME f[s] = Total(f), NEW t \in OpSpec, t # s PROVE f[t] = 0
  <2>1. PodsOf(f) = mine
    BY <1>3, <1>4, <1>5, FS_Subset DEF Total
  <2>2. f[t] \in Nat
    OBVIOUS
  <2>3. CASE f[t] > 0
    <3>1. 1 \in 1..f[t]
      BY <2>2, <2>3
    <3>2. <<t, 1>> \in PodsOf(f)
      BY <3>1 DEF PodsOf
    <3>3. <<t, 1>> \notin mine
      BY <1>5
    <3> QED BY <2>1, <3>2, <3>3
  <2> QED BY <2>2, <2>3
<1>6. Total(f) \in Nat
  BY FS_CardinalityType DEF Total
<1> QED BY <1>5, <1>6

\* Fewer pods are finitely many, and so is one more.
LEMMA PodsFinite ==
  ASSUME NEW f \in [OpSpec -> Nat], IsFiniteSet(PodsOf(f)), NEW g \in [OpSpec -> Nat]
  PROVE  /\ (\A s \in OpSpec : g[s] <= f[s]) => IsFiniteSet(PodsOf(g))
         /\ \A s \in OpSpec : g = [f EXCEPT ![s] = @ + 1] => IsFiniteSet(PodsOf(g))
<1>1. ASSUME \A s \in OpSpec : g[s] <= f[s] PROVE IsFiniteSet(PodsOf(g))
  <2>1. \A s \in OpSpec : 1..g[s] \subseteq 1..f[s]
    <3> SUFFICES ASSUME NEW s \in OpSpec PROVE 1..g[s] \subseteq 1..f[s]
      OBVIOUS
    <3>1. g[s] \in Nat /\ f[s] \in Nat /\ g[s] <= f[s]
      BY <1>1
    <3> QED BY <3>1
  <2>2. PodsOf(g) \subseteq PodsOf(f)
    BY <2>1 DEF PodsOf
  <2> QED BY <2>2, FS_Subset
<1>2. ASSUME NEW s \in OpSpec, g = [f EXCEPT ![s] = @ + 1] PROVE IsFiniteSet(PodsOf(g))
  <2>1. f[s] \in Nat /\ g[s] = f[s] + 1 /\ \A t \in OpSpec : t # s => g[t] = f[t]
    BY <1>2
  <2>2. 1..g[s] = (1..f[s]) \cup {g[s]}
    BY <2>1
  <2>3. PodsOf(g) \subseteq PodsOf(f) \cup {<<s, g[s]>>}
    <3> SUFFICES ASSUME NEW t \in OpSpec, NEW n \in 1..g[t], <<t, n>> # <<s, g[s]>>
                 PROVE  n \in 1..f[t]
      BY DEF PodsOf
    <3>1. CASE t = s
      BY <2>2, <3>1
    <3>2. CASE t # s
      BY <2>1, <3>2
    <3> QED BY <3>1, <3>2
  <2>4. IsFiniteSet(PodsOf(f) \cup {<<s, g[s]>>})
    BY FS_AddElement
  <2> QED BY <2>3, <2>4, FS_Subset
<1> QED BY <1>1, <1>2

\* The Deployment as the API server and its controller write it.
LEMMA DeploymentFields ==
  ASSUME NEW d \in Deployment
  PROVE  /\ d.gen \in Nat /\ d.obs \in Nat /\ d.want \in Nat /\ d.updated \in Nat
         /\ d.total \in Nat /\ d.ready \in Nat /\ d.spec \in OpSpec \cup {NoMount}
BY DEF Deployment

\* Nothing is deployed at first.
LEMMA OperatorStarts == OperatorInit => OperatorInv
<1> SUFFICES ASSUME OperatorInit PROVE OperatorInv
  OBVIOUS
<1> USE DEF OperatorInit
<1>1. OperatorTypeOK
  <2>1. intg \in Integration
    BY OperatorAssumption DEF Integration
  <2>2. NoDeployment \in Deployment
    BY DEF NoDeployment, Deployment, NoMount
  <2>3. oper \in [at: {"idle", "map", "deploy", "hooks", "observe", "prune", "refused"},
                  in: Integration, dep: Deployment]
    BY <2>1, <2>2 DEF OperIdle
  <2>4. available \in [reason: {"Unknown", "NoWorkers", "Paused", "WorkersReady",
                                "RollingOut"}, gen: 0..MaxChanges]
    BY OperatorAssumption
  <2> QED BY <2>1, <2>2, <2>3, <2>4, OperatorAssumption DEF OperatorTypeOK, NoMount
<1>2. PodsOf(pods) = {}
  BY DEF PodsOf
<1>3. IsFiniteSet(PodsOf(pods))
  BY <1>2, FS_EmptySet
<1>4. dep.gen = 0 /\ dep.obs = 0 /\ dep.spec = NoMount /\ oper.at = "idle"
  BY DEF NoDeployment, OperIdle
<1>5. TemplateSeen /\ OthersReplaced /\ Reconciling /\ MountedSpecKept
  BY <1>4 DEF TemplateSeen, OthersReplaced, Reconciling, MountedSpecKept
<1> QED BY <1>1, <1>3, <1>5 DEF OperatorInv

\* The Integration, the cache and the status move.
LEMMA OperatorLooksOn ==
  ASSUME OperatorInv, OperatorTypeOK', UNCHANGED <<specMaps, dep, pods, oper>>
  PROVE  OperatorInv'
BY DEF OperatorInv, TemplateSeen, OthersReplaced, Reconciling, MountedSpecKept, OnlyPodsOf, PodsOf

\* Reconcile ends, or starts over, having pruned nothing.
LEMMA ReconcileEnds ==
  ASSUME OperatorInv, OperatorTypeOK', UNCHANGED <<specMaps, dep, pods>>,
         oper'.at \in {"idle", "refused"}
  PROVE  OperatorInv'
BY DEF OperatorInv, TemplateSeen, OthersReplaced, Reconciling, MountedSpecKept, OnlyPodsOf, PodsOf

\* The variables a step leaves alone, or changes within their types.
LEMMA OperatorTypes ==
  ASSUME OperatorInv, OperatorNext
  PROVE  OperatorTypeOK'
<1> USE OperatorAssumption
<1>0. /\ intg \in Integration /\ specMaps \subseteq OpSpec
      /\ dep \in Deployment /\ depCache \in Deployment
      /\ pods \in [OpSpec -> Nat] /\ podsReady \in [OpSpec -> Nat]
      /\ \A s \in OpSpec : podsReady[s] <= pods[s]
      /\ oper \in [at: {"idle", "map", "deploy", "hooks", "observe", "prune", "refused"},
                   in: Integration, dep: Deployment]
      /\ available \in [reason: {"Unknown", "NoWorkers", "Paused", "WorkersReady",
                                 "RollingOut"}, gen: 0..MaxChanges]
      /\ routed \in OpSpec \cup {NoMount} /\ opFaults \in 0..MaxOpFaults
      /\ IsFiniteSet(PodsOf(pods))
  BY DEF OperatorInv, OperatorTypeOK
<1>a. NoDeployment \in Deployment
  BY DEF NoDeployment, Deployment, NoMount
<1>b. oper.in \in Integration /\ oper.dep \in Deployment
  BY <1>0
<1>c. OperIdle(oper.in) \in [at: {"idle", "map", "deploy", "hooks", "observe", "prune", "refused"},
                             in: Integration, dep: Deployment]
  BY <1>a, <1>b DEF OperIdle
<1>d. UpdateStatus => available' \in [reason: {"Unknown", "NoWorkers", "Paused", "WorkersReady",
                                               "RollingOut"}, gen: 0..MaxChanges]
  <2>1. intg.gen \in 0..MaxChanges
    BY <1>0 DEF Integration
  <2>2. Observed \in {"NoWorkers", "Paused", "WorkersReady", "RollingOut"}
    BY DEF Observed
  <2> QED BY <1>0, <2>1, <2>2 DEF UpdateStatus
<1>e. OpFault => opFaults' \in 0..MaxOpFaults
  BY <1>0 DEF OpFault
<1>1. ASSUME NEW s \in OpSpec \cup {BadSpec}, NEW p \in BOOLEAN, ChangeIntegration(s, p)
      PROVE  OperatorTypeOK'
  <2>1. intg' \in Integration
    BY <1>0, <1>1 DEF ChangeIntegration, Integration
  <2> QED BY <1>0, <1>1, <2>1 DEF ChangeIntegration, OperatorTypeOK, podVars
<1>2. CASE CacheCatchesUp
  BY <1>0, <1>2 DEF CacheCatchesUp, OperatorTypeOK, podVars
<1>3. CASE DeploymentObserves
  <2>1. dep.gen \in Nat /\ dep.spec \in OpSpec
    BY <1>0, <1>3, DeploymentFields DEF DeploymentObserves, OperatorInv, TemplateSeen
  <2>2. Total(pods) \in Nat /\ pods[dep.spec] \in Nat
    BY <1>0, <2>1, PodsCounted
  <2>3. IsFiniteSet(PodsOf(podsReady))
    BY <1>0, PodsFinite
  <2>4. Total(podsReady) \in Nat
    BY <1>0, <2>1, <2>3, PodsCounted
  <2>5. dep' \in Deployment
    BY <1>0, <1>3, <2>1, <2>2, <2>4 DEF DeploymentObserves, Deployment
  <2> QED BY <1>0, <1>3, <2>5 DEF DeploymentObserves, OperatorTypeOK, podVars
<1>4. CASE PodCreated
  <2>1. dep.spec \in OpSpec
    BY <1>0, <1>4, DeploymentFields DEF PodCreated, OperatorInv, TemplateSeen
  <2>2. pods' \in [OpSpec -> Nat] /\ \A s \in OpSpec : pods[s] <= pods'[s]
    BY <1>0, <1>4, <2>1 DEF PodCreated
  <2>3. \A s \in OpSpec : podsReady[s] <= pods'[s]
    BY <1>0, <2>2
  <2> QED BY <1>0, <1>4, <2>2, <2>3 DEF PodCreated, OperatorTypeOK
<1>5. ASSUME NEW s \in OpSpec, PodRemoved(s) PROVE OperatorTypeOK'
  <2>1. /\ pods' \in [OpSpec -> Nat] /\ podsReady' \in [OpSpec -> Nat]
        /\ pods'[s] = pods[s] - 1
        /\ podsReady'[s] = IF podsReady[s] = pods[s] THEN podsReady[s] - 1 ELSE podsReady[s]
        /\ \A t \in OpSpec : t # s => pods'[t] = pods[t] /\ podsReady'[t] = podsReady[t]
    BY <1>0, <1>5 DEF PodRemoved
  <2>2. \A t \in OpSpec : podsReady'[t] <= pods'[t]
    BY <1>0, <2>1
  <2> QED BY <1>0, <1>5, <2>1, <2>2 DEF PodRemoved, OperatorTypeOK
<1>6. ASSUME NEW s \in OpSpec, PodReady(s) \/ PodFails(s) PROVE OperatorTypeOK'
  <2>1. podsReady' \in [OpSpec -> Nat] /\ \A t \in OpSpec : podsReady'[t] <= pods[t]
    BY <1>0, <1>6 DEF PodReady, PodFails
  <2>2. opFaults' \in 0..MaxOpFaults
    BY <1>0, <1>6, <1>e DEF PodReady, PodFails
  <2> QED BY <1>0, <1>6, <2>1, <2>2 DEF PodReady, PodFails, OperatorTypeOK
<1>7. CASE ReconcileStart
  <2>1. oper' \in [at: {"idle", "map", "deploy", "hooks", "observe", "prune", "refused"},
                   in: Integration, dep: Deployment]
    BY <1>0, <1>a, <1>7 DEF ReconcileStart
  <2> QED BY <1>0, <1>7, <2>1 DEF ReconcileStart, OperatorTypeOK, podVars
<1>8. CASE CreateSpecMap
  <2>1. oper.in.spec \in OpSpec
    BY <1>8 DEF CreateSpecMap, At, OperatorInv, Reconciling
  <2>2. oper' \in [at: {"idle", "map", "deploy", "hooks", "observe", "prune", "refused"},
                   in: Integration, dep: Deployment]
    BY <1>0, <1>8 DEF CreateSpecMap, Goto
  <2> QED BY <1>0, <1>8, <2>1, <2>2 DEF CreateSpecMap, OperatorTypeOK, podVars
<1>9. CASE UpdateDeployment
  <2>1. oper.in.spec \in OpSpec /\ Want(oper.in) \in Nat
    BY <1>9 DEF UpdateDeployment, At, OperatorInv, Reconciling, Want
  <2>2. dep' \in Deployment
    <3>1. CASE UNCHANGED dep
      BY <1>0, <3>1
    <3>2. CASE depCache = dep
      <4>1. PICK g \in {dep.gen, dep.gen + 1} :
              dep' = [dep EXCEPT !.spec = oper.in.spec, !.want = Want(oper.in), !.gen = g]
        BY <1>9, <3>2 DEF UpdateDeployment
      <4>2. g \in Nat
        BY <1>0, <4>1, DeploymentFields
      <4> QED BY <1>0, <2>1, <4>1, <4>2 DEF Deployment
    <3> QED BY <1>9, <3>1, <3>2 DEF UpdateDeployment
  <2>3. oper' \in [at: {"idle", "map", "deploy", "hooks", "observe", "prune", "refused"},
                   in: Integration, dep: Deployment]
    BY <1>0, <1>c, <1>9, <2>2 DEF UpdateDeployment
  <2> QED BY <1>0, <1>9, <2>2, <2>3 DEF UpdateDeployment, OperatorTypeOK, podVars
<1>10. ASSUME NEW b \in BOOLEAN, ReconcileHooks(b) PROVE OperatorTypeOK'
  <2>1. oper.in.spec \in OpSpec
    BY <1>10 DEF ReconcileHooks, At, OperatorInv, Reconciling
  <2>2. oper' \in [at: {"idle", "map", "deploy", "hooks", "observe", "prune", "refused"},
                   in: Integration, dep: Deployment]
    BY <1>0, <1>10 DEF ReconcileHooks, Goto
  <2>3. routed' \in OpSpec \cup {NoMount}
    BY <1>10, <2>1 DEF ReconcileHooks
  <2> QED BY <1>0, <1>10, <2>2, <2>3 DEF ReconcileHooks, OperatorTypeOK, podVars
<1>11. CASE ObserveDeployment
  <2>1. oper' \in [at: {"idle", "map", "deploy", "hooks", "observe", "prune", "refused"},
                   in: Integration, dep: Deployment]
    BY <1>0, <1>c, <1>11 DEF ObserveDeployment, Goto
  <2>2. available' \in [reason: {"Unknown", "NoWorkers", "Paused", "WorkersReady",
                                 "RollingOut"}, gen: 0..MaxChanges]
    BY <1>0, <1>d, <1>11 DEF ObserveDeployment
  <2> QED BY <1>0, <1>11, <2>1, <2>2 DEF ObserveDeployment, OperatorTypeOK, podVars
<1>12. CASE PruneSpecs
  BY <1>0, <1>c, <1>d, <1>12 DEF PruneSpecs, OperatorTypeOK, podVars
<1>13. CASE ReportRefused
  BY <1>0, <1>c, <1>d, <1>13 DEF ReportRefused, OperatorTypeOK, podVars
<1>14. CASE ReconcileFails
  BY <1>0, <1>c, <1>e, <1>14 DEF ReconcileFails, OperatorTypeOK, podVars
<1> QED
  BY <1>1, <1>2, <1>3, <1>4, <1>5, <1>6, <1>7, <1>8, <1>9, <1>10, <1>11, <1>12, <1>13, <1>14
     DEF OperatorNext

\* Every step of the operator, the client cache or the cluster keeps the
\* invariant.
LEMMA OperatorStep ==
  ASSUME OperatorInv, OperatorNext
  PROVE  OperatorInv'
<1>0. /\ OperatorTypeOK' /\ OperatorTypeOK
      /\ dep \in Deployment /\ pods \in [OpSpec -> Nat] /\ IsFiniteSet(PodsOf(pods))
      /\ specMaps \subseteq OpSpec
  BY OperatorTypes DEF OperatorInv, OperatorTypeOK
<1>b. TemplateSeen /\ OthersReplaced /\ Reconciling /\ MountedSpecKept
  BY DEF OperatorInv
<1>1. ASSUME NEW s \in OpSpec \cup {BadSpec}, NEW p \in BOOLEAN, ChangeIntegration(s, p)
      PROVE  OperatorInv'
  BY <1>0, <1>1, OperatorLooksOn DEF ChangeIntegration, podVars
<1>2. CASE CacheCatchesUp
  BY <1>0, <1>2, OperatorLooksOn DEF CacheCatchesUp, podVars
<1>3. CASE DeploymentObserves
  <2>1. /\ dep.gen > 0 /\ dep.spec \in OpSpec
        /\ dep'.gen = dep.gen /\ dep'.spec = dep.spec /\ dep'.obs = dep.gen
        /\ dep'.updated = pods[dep.spec] /\ dep'.total = Total(pods)
        /\ UNCHANGED <<specMaps, pods, oper>>
    BY <1>0, <1>b, <1>3 DEF DeploymentObserves, TemplateSeen, Deployment, podVars
  <2>2. dep'.updated = dep'.total => OnlyPodsOf(dep.spec)
    BY <1>0, <2>1, PodsCounted DEF OnlyPodsOf
  <2>3. TemplateSeen'
    BY <1>0, <2>1, DeploymentFields DEF TemplateSeen
  <2>4. OthersReplaced'
    BY <2>1, <2>2 DEF OthersReplaced, OnlyPodsOf
  <2>5. Reconciling'
    BY <1>b, <2>1 DEF Reconciling, OnlyPodsOf
  <2>6. MountedSpecKept'
    BY <1>b, <2>1 DEF MountedSpecKept
  <2>7. PodsOf(pods)' = PodsOf(pods)
    BY <2>1 DEF PodsOf
  <2> QED BY <1>0, <2>3, <2>4, <2>5, <2>6, <2>7 DEF OperatorInv
<1>4. CASE PodCreated
  <2>1. /\ dep.gen > 0 /\ dep.spec \in OpSpec /\ dep.spec \in specMaps
        /\ pods' = [pods EXCEPT ![dep.spec] = @ + 1]
        /\ pods' \in [OpSpec -> Nat]
        /\ UNCHANGED <<specMaps, dep, oper>>
    BY <1>0, <1>b, <1>4 DEF PodCreated, TemplateSeen, MountedSpecKept
  <2>2. \A t \in OpSpec : t # dep.spec => pods'[t] = pods[t]
    BY <1>0, <2>1
  <2>3. OnlyPodsOf(dep.spec)' <=> OnlyPodsOf(dep.spec)
    BY <2>1, <2>2 DEF OnlyPodsOf
  <2>4. IsFiniteSet(PodsOf(pods'))
    BY <1>0, <2>1, PodsFinite
  <2>5. IsFiniteSet(PodsOf(pods)')
    BY <2>4 DEF PodsOf
  <2>6. MountedSpecKept'
    BY <1>b, <2>1, <2>2 DEF MountedSpecKept
  <2>7. TemplateSeen' /\ OthersReplaced'
    BY <1>b, <2>1, <2>3 DEF TemplateSeen, OthersReplaced
  <2>8. Reconciling'
    BY <1>b, <2>1, <2>3 DEF Reconciling
  <2> QED BY <1>0, <2>5, <2>6, <2>7, <2>8 DEF OperatorInv
<1>5. ASSUME NEW s \in OpSpec, PodRemoved(s) PROVE OperatorInv'
  <2>1. /\ pods' \in [OpSpec -> Nat] /\ pods[s] > 0 /\ pods'[s] = pods[s] - 1
        /\ \A t \in OpSpec : t # s => pods'[t] = pods[t]
        /\ UNCHANGED <<specMaps, dep, oper>>
    BY <1>0, <1>5 DEF PodRemoved
  <2>2. \A t \in OpSpec : pods'[t] <= pods[t] /\ (pods[t] = 0 => pods'[t] = 0)
                          /\ (pods'[t] > 0 => pods[t] > 0)
    BY <1>0, <2>1
  <2>3. OnlyPodsOf(dep.spec) => OnlyPodsOf(dep.spec)'
    BY <2>1, <2>2 DEF OnlyPodsOf
  <2>4. IsFiniteSet(PodsOf(pods'))
    BY <1>0, <2>1, <2>2, PodsFinite
  <2>5. IsFiniteSet(PodsOf(pods)')
    BY <2>4 DEF PodsOf
  <2>6. MountedSpecKept'
    BY <1>b, <2>1, <2>2 DEF MountedSpecKept
  <2>7. TemplateSeen' /\ OthersReplaced'
    BY <1>b, <2>1, <2>3 DEF TemplateSeen, OthersReplaced
  <2>8. Reconciling'
    BY <1>b, <2>1, <2>3 DEF Reconciling
  <2> QED BY <1>0, <2>5, <2>6, <2>7, <2>8 DEF OperatorInv
<1>6. ASSUME NEW s \in OpSpec, PodReady(s) \/ PodFails(s) PROVE OperatorInv'
  BY <1>0, <1>6, OperatorLooksOn DEF PodReady, PodFails
<1>7. CASE ReconcileStart
  <2>1. /\ oper'.at = IF intg.spec \in OpSpec THEN "map" ELSE "refused"
        /\ oper'.in = intg /\ UNCHANGED <<specMaps, dep, pods>>
    BY <1>7 DEF ReconcileStart, podVars
  <2>2. CASE intg.spec \in OpSpec
    <3>1. Reconciling'
      BY <2>1, <2>2 DEF Reconciling
    <3>2. TemplateSeen' /\ OthersReplaced' /\ MountedSpecKept' /\ PodsOf(pods)' = PodsOf(pods)
      BY <1>b, <2>1 DEF TemplateSeen, OthersReplaced, OnlyPodsOf, MountedSpecKept, PodsOf
    <3> QED BY <1>0, <3>1, <3>2 DEF OperatorInv
  <2>3. CASE intg.spec \notin OpSpec
    BY <1>0, <2>1, <2>3, ReconcileEnds
  <2> QED BY <2>2, <2>3
<1>8. CASE CreateSpecMap
  <2>1. /\ oper.at = "map" /\ oper'.at = "deploy" /\ oper'.in = oper.in
        /\ specMaps' = specMaps \cup {oper.in.spec} /\ UNCHANGED <<dep, pods>>
    BY <1>0, <1>8 DEF CreateSpecMap, At, Goto, OperatorTypeOK, podVars
  <2>2. Reconciling'
    BY <1>b, <2>1 DEF Reconciling
  <2>3. TemplateSeen' /\ OthersReplaced' /\ PodsOf(pods)' = PodsOf(pods)
    BY <1>b, <2>1 DEF TemplateSeen, OthersReplaced, OnlyPodsOf, PodsOf
  <2>4. MountedSpecKept'
    BY <1>b, <2>1 DEF MountedSpecKept
  <2> QED BY <1>0, <2>2, <2>3, <2>4 DEF OperatorInv
<1>9. CASE UpdateDeployment
  <2>1. CASE depCache # dep
    <3>1. oper'.at = "idle" /\ UNCHANGED <<specMaps, dep, pods>>
      BY <1>9, <2>1 DEF UpdateDeployment, OperIdle, podVars
    <3> QED BY <1>0, <3>1, ReconcileEnds
  <2>2. CASE depCache = dep
    <3>1. /\ oper.at = "deploy" /\ oper'.at = "hooks" /\ oper'.in = oper.in /\ oper'.dep = dep'
          /\ dep'.spec = oper.in.spec /\ dep'.obs = dep.obs
          /\ dep'.updated = dep.updated /\ dep'.total = dep.total
          /\ dep'.gen = IF dep.spec = oper.in.spec /\ dep.want = Want(oper.in)
                        THEN dep.gen ELSE dep.gen + 1
          /\ UNCHANGED <<specMaps, pods>>
      BY <1>0, <1>9, <2>2 DEF UpdateDeployment, At, OperatorTypeOK, Deployment, podVars
    <3>2. oper.in.spec \in OpSpec /\ oper.in.spec \in specMaps
      BY <1>b, <3>1 DEF Reconciling
    <3>3. dep.gen \in Nat /\ dep.obs \in Nat /\ dep.obs <= dep.gen
      BY <1>0, <1>b, DeploymentFields DEF TemplateSeen
    <3>4. PodsOf(pods)' = PodsOf(pods) /\ (OnlyPodsOf(oper.in.spec)' <=> OnlyPodsOf(oper.in.spec))
      BY <3>1 DEF PodsOf, OnlyPodsOf
    <3>5. CASE dep.spec = oper.in.spec /\ dep'.gen = dep.gen
      <4>1. dep.gen > 0
        BY <1>b, <3>2, <3>3, <3>5, OperatorAssumption DEF TemplateSeen, NoMount
      <4>2. TemplateSeen'
        BY <3>1, <3>2, <3>3, <3>5, <4>1 DEF TemplateSeen
      <4>3. OthersReplaced'
        BY <1>b, <3>1, <3>4, <3>5 DEF OthersReplaced
      <4>4. Reconciling'
        <5>1. dep'.obs >= dep'.gen => dep.obs = dep.gen
          BY <3>1, <3>3, <3>5
        <5>2. dep'.obs >= dep'.gen /\ dep'.updated = dep'.total => OnlyPodsOf(oper.in.spec)
          BY <1>b, <3>1, <3>5, <4>1, <5>1 DEF OthersReplaced
        <5> QED BY <3>1, <3>2, <3>4, <3>5, <4>1, <5>2 DEF Reconciling
      <4>5. MountedSpecKept'
        BY <1>b, <3>1, <3>2 DEF MountedSpecKept
      <4> QED BY <1>0, <3>4, <4>2, <4>3, <4>4, <4>5 DEF OperatorInv
    <3>6. CASE dep'.gen = dep.gen + 1
      <4>1. dep'.gen > 0 /\ dep'.obs < dep'.gen /\ dep'.gen \in Nat /\ dep'.obs \in Nat
        BY <3>1, <3>3, <3>6
      <4>2. TemplateSeen'
        BY <3>1, <3>2, <4>1 DEF TemplateSeen
      <4>3. OthersReplaced'
        BY <4>1 DEF OthersReplaced
      <4>4. Reconciling'
        <5>1. ~(oper'.dep.obs >= oper'.dep.gen)
          BY <3>1, <4>1
        <5> QED BY <3>1, <3>2, <4>1, <5>1 DEF Reconciling
      <4>5. MountedSpecKept'
        BY <1>b, <3>1, <3>2 DEF MountedSpecKept
      <4> QED BY <1>0, <3>4, <4>2, <4>3, <4>4, <4>5 DEF OperatorInv
    <3> QED BY <3>1, <3>5, <3>6
  <2> QED BY <2>1, <2>2
<1>10. ASSUME NEW b \in BOOLEAN, ReconcileHooks(b) PROVE OperatorInv'
  <2>1. /\ oper.at = "hooks" /\ oper'.at = "observe" /\ oper'.in = oper.in /\ oper'.dep = oper.dep
        /\ UNCHANGED <<specMaps, dep, pods>>
    BY <1>0, <1>10 DEF ReconcileHooks, At, Goto, OperatorTypeOK, podVars
  <2>2. Reconciling'
    BY <1>b, <2>1 DEF Reconciling, OnlyPodsOf
  <2>3. TemplateSeen' /\ OthersReplaced' /\ MountedSpecKept' /\ PodsOf(pods)' = PodsOf(pods)
    BY <1>b, <2>1 DEF TemplateSeen, OthersReplaced, OnlyPodsOf, MountedSpecKept, PodsOf
  <2> QED BY <1>0, <2>2, <2>3 DEF OperatorInv
<1>11. CASE ObserveDeployment
  <2>1. CASE RolledOut(oper.dep, Want(oper.in))
    <3>1. /\ oper.at = "observe" /\ oper'.at = "prune" /\ oper'.in = oper.in /\ oper'.dep = oper.dep
          /\ UNCHANGED <<specMaps, dep, pods>>
      BY <1>0, <1>11, <2>1 DEF ObserveDeployment, At, Goto, OperatorTypeOK, podVars
    <3>2. oper.dep.obs >= oper.dep.gen /\ oper.dep.updated = oper.dep.total
      BY <2>1 DEF RolledOut
    <3>3. Reconciling'
      BY <1>b, <3>1, <3>2 DEF Reconciling, OnlyPodsOf
    <3>4. TemplateSeen' /\ OthersReplaced' /\ MountedSpecKept' /\ PodsOf(pods)' = PodsOf(pods)
      BY <1>b, <3>1 DEF TemplateSeen, OthersReplaced, OnlyPodsOf, MountedSpecKept, PodsOf
    <3> QED BY <1>0, <3>3, <3>4 DEF OperatorInv
  <2>2. CASE ~RolledOut(oper.dep, Want(oper.in))
    <3>1. oper'.at = "idle" /\ UNCHANGED <<specMaps, dep, pods>>
      BY <1>11, <2>2 DEF ObserveDeployment, OperIdle, podVars
    <3> QED BY <1>0, <3>1, ReconcileEnds
  <2> QED BY <2>1, <2>2
<1>12. CASE PruneSpecs
  <2>1. /\ oper.at = "prune" /\ oper'.at = "idle" /\ specMaps' = specMaps \cap {oper.in.spec}
        /\ UNCHANGED <<dep, pods>>
    BY <1>12 DEF PruneSpecs, At, OperIdle, podVars
  <2>2. dep.spec = oper.in.spec /\ oper.in.spec \in specMaps' /\ OnlyPodsOf(dep.spec)
    BY <1>b, <2>1 DEF Reconciling
  <2>3. MountedSpecKept'
    BY <1>0, <1>b, <2>1, <2>2 DEF MountedSpecKept, OnlyPodsOf
  <2>4. Reconciling'
    BY <2>1 DEF Reconciling
  <2>5. TemplateSeen' /\ OthersReplaced' /\ PodsOf(pods)' = PodsOf(pods)
    BY <1>b, <2>1 DEF TemplateSeen, OthersReplaced, OnlyPodsOf, PodsOf
  <2> QED BY <1>0, <2>3, <2>4, <2>5 DEF OperatorInv
<1>13. CASE ReportRefused \/ ReconcileFails
  <2>1. oper'.at = "idle" /\ UNCHANGED <<specMaps, dep, pods>>
    BY <1>13 DEF ReportRefused, ReconcileFails, OperIdle, podVars
  <2> QED BY <1>0, <2>1, ReconcileEnds
<1> QED
  BY <1>1, <1>2, <1>3, <1>4, <1>5, <1>6, <1>7, <1>8, <1>9, <1>10, <1>11, <1>12, <1>13
     DEF OperatorNext

\* MountedSpecKept for any number of specs, replicas and faults: what a pod or
\* the template mounts is never pruned (controller.go, pruneSpecs).
THEOREM MountedSpecsAreKept == OperatorSpec => []MountedSpecKept
<1>1. OperatorInit => OperatorInv
  BY OperatorStarts
<1>2. ASSUME OperatorInv, [OperatorNext]_operatorVars PROVE OperatorInv'
  <2>1. CASE OperatorNext
    BY <1>2, <2>1, OperatorStep
  <2>2. CASE UNCHANGED operatorVars
    <3>1. OperatorTypeOK'
      BY <1>2, <2>2 DEF OperatorInv, OperatorTypeOK, operatorVars, podVars
    <3> QED BY <1>2, <2>2, <3>1, OperatorLooksOn DEF operatorVars, podVars
  <2> QED BY <1>2, <2>1, <2>2
<1>3. OperatorInv => MountedSpecKept
  BY DEF OperatorInv
<1> QED BY <1>1, <1>2, <1>3, PTL DEF OperatorSpec
=============================================================================
