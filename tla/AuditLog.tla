------------------------------ MODULE AuditLog ------------------------------
(***************************************************************************)
(* The hash-chained audit log, in both its forms: the shared one in        *)
(* Postgres (pkg/store/pgstore/audit.go), to which every worker and the    *)
(* console append in transactions of their own, and the file of a single   *)
(* process (pkg/audit/audit.go), which keeps the head of the chain in      *)
(* memory.                                                                 *)
(*                                                                         *)
(* An entry's hash covers its content, which no other Record has: it is    *)
(* modelled by the number of the Record call.  0 is Genesis.               *)
(***************************************************************************)
EXTENDS Naturals, Sequences, SequencesExt

CONSTANTS
  Auditor,        \* processes that append to the shared log
  MaxRecords,     \* bound: calls of Record
  MaxAuditFaults  \* bound: lost connections, failed writes and crashes

ASSUME AuditAssumption == MaxRecords \in Nat /\ MaxAuditFaults \in Nat

VARIABLES
  auditRows,   \* turgon_audit, by seq
  auditTx,     \* each process's transaction
  auditAcked,  \* Records the shared log reported done
  collided,    \* history: an INSERT met a seq that was taken
  fileLines,   \* the lines of the file
  fileHead,    \* whether the process has it open, its seq and last hash
  fileAcked,   \* Records the file log reported done
  fileTorn,    \* history: a part of a line was written
  records,     \* calls of Record so far
  auditFaults

sharedLogVars == <<auditRows, auditTx, auditAcked, collided>>
fileLogVars == <<fileLines, fileHead, fileAcked, fileTorn>>
auditVars == <<sharedLogVars, fileLogVars, records, auditFaults>>

Genesis == 0
Entry == [seq: Nat, prev: Nat, hash: Nat]
NoEntry == [seq |-> 0, prev |-> Genesis, hash |-> Genesis]
Torn == [seq |-> 0, prev |-> Genesis, hash |-> Genesis]
Closed == [open |-> FALSE, seq |-> 0, last |-> Genesis]
NoTx == [at |-> "idle", entry |-> NoEntry]

AuditTypeOK ==
  /\ auditRows \in Seq(Entry) /\ fileLines \in Seq(Entry)
  /\ auditTx \in [Auditor -> [at: {"idle", "insert", "commit"}, entry: Entry]]
  /\ auditAcked \subseteq 1..records /\ fileAcked \subseteq 1..records
  /\ fileHead \in [open: BOOLEAN, seq: Nat, last: Nat]
  /\ collided \in BOOLEAN /\ fileTorn \in BOOLEAN
  /\ records \in 0..MaxRecords /\ auditFaults \in 0..MaxAuditFaults

AuditInit ==
  /\ auditRows = <<>> /\ auditTx = [a \in Auditor |-> NoTx]
  /\ auditAcked = {} /\ collided = FALSE
  /\ fileLines = <<>> /\ fileHead = Closed
  /\ fileAcked = {} /\ fileTorn = FALSE
  /\ records = 0 /\ auditFaults = 0

AuditFault == auditFaults < MaxAuditFaults /\ auditFaults' = auditFaults + 1

\* A call of Record, with content of its own.
NewRecord == records < MaxRecords /\ records' = records + 1

\* Next: the sealed entry that follows (seq, prev).
NextEntry(seq, prev) == [seq |-> seq + 1, prev |-> prev, hash |-> records']

\* Link, for one entry of a chain s.
Link(s, i) ==
  /\ s[i].seq = i
  /\ s[i].prev = IF i = 1 THEN Genesis ELSE s[i - 1].hash
  /\ s[i] # Torn

\* Verify, of the file and of the table.
Verifies(s) == \A i \in DOMAIN s : Link(s, i)

Hashes(s) == {s[i].hash : i \in DOMAIN s}

-----------------------------------------------------------------------------
(* The shared log. *)

\* Mutant: the advisory lock is not taken.
LogFreeNoLock(a) == auditTx[a].at = "idle"

\* pg_advisory_xact_lock: held until the transaction ends.
LogFree(a) == \A b \in Auditor : auditTx[b].at = "idle"

\* Under the lock, the last line is read and the entry that follows sealed.
ReadLast(a) ==
  /\ LogFree(a)
  /\ NewRecord
  /\ LET last == IF auditRows = <<>> THEN NoEntry ELSE Last(auditRows)
     IN  auditTx' = [auditTx EXCEPT ![a] =
           [at |-> "insert", entry |-> NextEntry(last.seq, last.hash)]]
  /\ UNCHANGED <<auditRows, auditAcked, collided, fileLogVars, auditFaults>>

SeqTaken(a) == auditTx[a].entry.seq \in {auditRows[i].seq : i \in DOMAIN auditRows}

\* The INSERT of a seq another transaction inserted waits for that one.
InsertWaits(a) == \E b \in Auditor \ {a} :
  auditTx[b].at = "commit" /\ auditTx[b].entry.seq = auditTx[a].entry.seq

InsertEntry(a) ==
  /\ auditTx[a].at = "insert" /\ ~InsertWaits(a)
  /\ auditTx' = [auditTx EXCEPT ![a] =
                   IF SeqTaken(a) THEN NoTx ELSE [@ EXCEPT !.at = "commit"]]
  /\ collided' = (collided \/ SeqTaken(a))
  /\ UNCHANGED <<auditRows, auditAcked, fileLogVars, records, auditFaults>>

CommitEntry(a) ==
  /\ auditTx[a].at = "commit"
  /\ auditRows' = Append(auditRows, auditTx[a].entry)
  /\ auditAcked' = auditAcked \cup {auditTx[a].entry.hash}
  /\ auditTx' = [auditTx EXCEPT ![a] = NoTx]
  /\ UNCHANGED <<collided, fileLogVars, records, auditFaults>>

\* The connection is lost, the ten seconds pass or the process dies: the
\* transaction is rolled back, or committed without its process knowing.
RecordFails(a) ==
  /\ AuditFault
  /\ auditTx[a].at # "idle"
  /\ \/ UNCHANGED auditRows
     \/ auditTx[a].at = "commit" /\ auditRows' = Append(auditRows, auditTx[a].entry)
  /\ auditTx' = [auditTx EXCEPT ![a] = NoTx]
  /\ UNCHANGED <<auditAcked, collided, fileLogVars, records>>

-----------------------------------------------------------------------------
(* The file. *)

\* A log that does not verify is not opened.
OpenFile ==
  /\ ~fileHead.open
  /\ Verifies(fileLines)
  /\ fileHead' = [open |-> TRUE, seq |-> Len(fileLines),
                  last |-> IF fileLines = <<>> THEN Genesis
                           ELSE Last(fileLines).hash]
  /\ UNCHANGED <<sharedLogVars, fileLines, fileAcked, fileTorn, records,
                 auditFaults>>

\* What is written after a part of a line belongs to that line.
Written(e) ==
  IF fileLines # <<>> /\ Last(fileLines) = Torn THEN fileLines
  ELSE Append(fileLines, e)

FileRecord ==
  /\ fileHead.open
  /\ NewRecord
  /\ LET e == NextEntry(fileHead.seq, fileHead.last)
     IN  /\ fileLines' = Written(e)
         /\ fileHead' = [open |-> TRUE, seq |-> e.seq, last |-> e.hash]
         /\ fileAcked' = fileAcked \cup {e.hash}
  /\ UNCHANGED <<sharedLogVars, fileTorn, auditFaults>>

\* A failed write leaves the head where it was.
HeadAfterFailure == fileHead

\* Write fails with nothing, or with a part of the line, written.
FileWriteFails ==
  /\ AuditFault
  /\ fileHead.open
  /\ NewRecord
  /\ \/ UNCHANGED <<fileLines, fileTorn>>
     \/ fileLines' = Written(Torn) /\ fileTorn' = TRUE
  /\ fileHead' = HeadAfterFailure
  /\ UNCHANGED <<sharedLogVars, fileAcked>>

\* The process dies, perhaps in the middle of a line.
FileProcessDies ==
  /\ AuditFault
  /\ fileHead.open
  /\ \/ UNCHANGED <<fileLines, fileTorn>>
     \/ fileLines' = Written(Torn) /\ fileTorn' = TRUE
  /\ fileHead' = Closed
  /\ UNCHANGED <<sharedLogVars, fileAcked, records>>

AuditNext ==
  \/ \E a \in Auditor :
       ReadLast(a) \/ InsertEntry(a) \/ CommitEntry(a) \/ RecordFails(a)
  \/ OpenFile \/ FileRecord \/ FileWriteFails \/ FileProcessDies

AuditSpec == AuditInit /\ [][AuditNext]_auditVars

-----------------------------------------------------------------------------
(* Properties. *)

\* What Record reported done stays provable: both logs verify from end to
\* end and hold every entry that was acknowledged, whatever failed between,
\* as long as no write to the file broke off in the middle of a line.
RecordedVerifies ==
  /\ Verifies(auditRows) /\ auditAcked \subseteq Hashes(auditRows)
  /\ \/ fileTorn
     \/ Verifies(fileLines) /\ fileAcked \subseteq Hashes(fileLines)

\* "concurrent writers extend one chain": no append is lost to another one.
AppendsNeverCollide == ~collided

\* The log can be proved complete, and is one chain.
AuditSafe == RecordedVerifies /\ AppendsNeverCollide
=============================================================================
