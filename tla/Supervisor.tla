----------------------------- MODULE Supervisor -----------------------------
(***************************************************************************)
(* The appliance (pkg/appliance): one process that keeps a worker running  *)
(* for every valid spec file of a directory.  A new version starts next to *)
(* the one that runs and takes over once it is ready.  Files change,       *)
(* workers become ready, exit and come back while a scan is under way.     *)
(*                                                                         *)
(* A version stands for a file's content and its digest.  Reconcile runs   *)
(* alone and waits for every worker it stops: its steps are interleaved    *)
(* with those of the files and of the workers only.                        *)
(***************************************************************************)
EXTENDS Naturals, Sequences, FiniteSetsExt

CONSTANTS
  SpecName,       \* names of spec files
  Version,        \* versions that parse, with a good digest and signature
  BadVersion,     \* versions verify refuses
  NoFile,
  MaxEdits,       \* bound: changes of the files
  MaxStarts,      \* bound: workers the supervisor starts
  MaxExits        \* bound: exits of workers, and failed copies

ASSUME SupervisorAssumption ==
  /\ MaxEdits \in Nat /\ MaxStarts \in Nat /\ MaxExits \in Nat

VARIABLES
  specFile,   \* the version in each file of Dir
  procs,      \* the workers ever started
  current,    \* unit.current, an index of procs or 0
  upcoming,   \* unit.next
  failedV,    \* unit.failed
  fileV,      \* unit.fileDigest
  supDo,      \* what Reconcile does once its stops are through
  served,     \* history: a worker became current since the file is there
  edits, exits

unitVars == <<current, upcoming, failedV, fileV, served>>
supervisorVars == <<specFile, procs, unitVars, supDo, edits, exits>>

AnyVersion == Version \cup BadVersion \cup {NoFile}
Nothing == [do |-> "scan", name |-> CHOOSE n \in SpecName : TRUE, version |-> NoFile]

SupervisorTypeOK ==
  /\ specFile \in [SpecName -> AnyVersion]
  /\ procs \in Seq([name: SpecName, version: Version, port: Nat,
                    st: {"starting", "ready", "down", "stopping", "gone"}])
  /\ Len(procs) <= MaxStarts
  /\ current \in [SpecName -> 0..Len(procs)]
  /\ upcoming \in [SpecName -> 0..Len(procs)]
  /\ failedV \in [SpecName -> AnyVersion] /\ fileV \in [SpecName -> AnyVersion]
  /\ supDo \in [do: {"scan", "start"}, name: SpecName, version: AnyVersion]
  /\ served \in [SpecName -> BOOLEAN]
  /\ edits \in 0..MaxEdits /\ exits \in 0..MaxExits

SupervisorInit ==
  /\ specFile = [n \in SpecName |-> NoFile]
  /\ procs = <<>>
  /\ current = [n \in SpecName |-> 0] /\ upcoming = [n \in SpecName |-> 0]
  /\ failedV = [n \in SpecName |-> NoFile] /\ fileV = [n \in SpecName |-> NoFile]
  /\ supDo = Nothing
  /\ served = [n \in SpecName |-> FALSE]
  /\ edits = 0 /\ exits = 0

Alive(i) == procs[i].st # "gone"

\* The processes p.stop() cancels.
Stopped(ids) == [i \in DOMAIN procs |->
  IF i \in ids /\ Alive(i) THEN [procs[i] EXCEPT !.st = "stopping"] ELSE procs[i]]

\* stop waits until the worker has ended, or was killed.
StopsDone == \A i \in DOMAIN procs : procs[i].st # "stopping"

-----------------------------------------------------------------------------
(* Files and workers. *)

EditSpec(n, v) ==
  /\ edits < MaxEdits /\ specFile[n] # v
  /\ specFile' = [specFile EXCEPT ![n] = v]
  /\ edits' = edits + 1
  /\ UNCHANGED <<procs, unitVars, supDo, exits>>

WorkerMoves(i, from, to) ==
  /\ procs[i].st \in from
  /\ procs' = [procs EXCEPT ![i].st = to]
  /\ UNCHANGED <<specFile, unitVars, supDo, edits>>

WorkerReady(i) == WorkerMoves(i, {"starting"}, "ready") /\ UNCHANGED exits

\* A worker exits, and is started again after its backoff.
WorkerExits(i) ==
  /\ exits < MaxExits /\ exits' = exits + 1
  /\ WorkerMoves(i, {"starting", "ready"}, "down")

WorkerRestarts(i) == WorkerMoves(i, {"down"}, "starting") /\ UNCHANGED exits

\* A worker that was told to stop ends, at the latest when it is killed.
WorkerEnds(i) == WorkerMoves(i, {"stopping"}, "gone") /\ UNCHANGED exits

-----------------------------------------------------------------------------
(* Reconcile. *)

Scanning == supDo = Nothing /\ StopsDone

\* A version that failed is not tried again until the file changes.
Failed(n) == failedV[n] = specFile[n] /\ fileV[n] = specFile[n]

\* The file was read and is valid.
ReadValid(n, failed) ==
  /\ Scanning
  /\ specFile[n] \in Version
  /\ fileV' = [fileV EXCEPT ![n] = specFile[n]]
  /\ failedV' = [failedV EXCEPT ![n] = IF failed THEN specFile[n] ELSE NoFile]

Runs(i, v) == i # 0 /\ procs[i].version = v

\* Mutant: a refused file stops the worker of the last valid version.
WorkersAfterRefusalStopped(n) == Stopped({current[n], upcoming[n]})

WorkersAfterRefusal(n) == procs

\* setInvalid: the workers of the last valid version keep running.
RefuseSpec(n) ==
  /\ Scanning
  /\ specFile[n] \in BadVersion
  /\ fileV' = [fileV EXCEPT ![n] = specFile[n]]
  /\ procs' = WorkersAfterRefusal(n)
  /\ UNCHANGED <<specFile, current, upcoming, failedV, served, supDo, edits, exits>>

\* The file holds what runs: a version that was being tried is dropped.
BackInPlace(n) ==
  /\ ReadValid(n, Failed(n))
  /\ Runs(current[n], specFile[n])
  /\ procs' = Stopped({upcoming[n]})
  /\ upcoming' = [upcoming EXCEPT ![n] = 0]
  /\ UNCHANGED <<specFile, current, served, supDo, edits, exits>>

Trying(n) ==
  /\ ~Runs(current[n], specFile[n])
  /\ ~Failed(n)
  /\ Runs(upcoming[n], specFile[n])

\* promote, when the worker answers that it is ready.
Promote(n) ==
  /\ ReadValid(n, Failed(n))
  /\ Trying(n)
  /\ procs[upcoming[n]].st = "ready"
  /\ procs' = Stopped({current[n]})
  /\ current' = [current EXCEPT ![n] = upcoming[n]]
  /\ upcoming' = [upcoming EXCEPT ![n] = 0]
  /\ served' = [served EXCEPT ![n] = TRUE]
  /\ UNCHANGED <<specFile, supDo, edits, exits>>

\* promote, when it was not ready for ReadyTimeout.
GiveUp(n) ==
  /\ ReadValid(n, TRUE)
  /\ Trying(n)
  /\ procs[upcoming[n]].st # "ready"
  /\ procs' = Stopped({upcoming[n]})
  /\ upcoming' = [upcoming EXCEPT ![n] = 0]
  /\ UNCHANGED <<specFile, current, served, supDo, edits, exits>>

\* A new version: another one being tried is stopped first.
NewVersion(n) ==
  /\ ReadValid(n, Failed(n))
  /\ ~Runs(current[n], specFile[n])
  /\ ~Failed(n)
  /\ ~Runs(upcoming[n], specFile[n])
  /\ procs' = Stopped({upcoming[n]})
  /\ supDo' = [do |-> "start", name |-> n, version |-> specFile[n]]
  /\ UNCHANGED <<specFile, current, upcoming, served, edits, exits>>

\* port: the first one no unit's worker has.
FreePort ==
  LET used == {procs[i].port : i \in {j \in DOMAIN procs :
                 \E n \in SpecName : j \in {current[n], upcoming[n]}}}
  IN  Min((1..(MaxStarts + 1)) \ used)

\* The version that was read is copied and a worker started from the copy.
StartWorker ==
  /\ supDo.do = "start" /\ StopsDone
  /\ Len(procs) < MaxStarts
  /\ procs' = Append(procs, [name |-> supDo.name, version |-> supDo.version,
                             port |-> FreePort, st |-> "starting"])
  /\ upcoming' = [upcoming EXCEPT ![supDo.name] = Len(procs) + 1]
  /\ supDo' = Nothing
  /\ UNCHANGED <<specFile, current, failedV, fileV, served, edits, exits>>

\* The copy cannot be written: setInvalid.  unit.next keeps the worker that
\* was stopped.
CopyFails ==
  /\ supDo.do = "start" /\ StopsDone
  /\ exits < MaxExits /\ exits' = exits + 1
  /\ supDo' = Nothing
  /\ UNCHANGED <<specFile, procs, unitVars, edits>>

\* The file is gone: so are the unit and its workers.
SpecRemoved(n) ==
  /\ Scanning
  /\ specFile[n] = NoFile /\ fileV[n] # NoFile
  /\ procs' = Stopped({current[n], upcoming[n]})
  /\ current' = [current EXCEPT ![n] = 0] /\ upcoming' = [upcoming EXCEPT ![n] = 0]
  /\ failedV' = [failedV EXCEPT ![n] = NoFile] /\ fileV' = [fileV EXCEPT ![n] = NoFile]
  /\ served' = [served EXCEPT ![n] = FALSE]
  /\ UNCHANGED <<specFile, supDo, edits, exits>>

\* Run ends: stopAll waits for all workers; the next start finds no unit.
SupervisorStops ==
  /\ Scanning /\ exits < MaxExits /\ exits' = exits + 1
  /\ procs' = Stopped(DOMAIN procs)
  /\ current' = [n \in SpecName |-> 0] /\ upcoming' = [n \in SpecName |-> 0]
  /\ failedV' = [n \in SpecName |-> NoFile] /\ fileV' = [n \in SpecName |-> NoFile]
  /\ served' = [n \in SpecName |-> FALSE]
  /\ UNCHANGED <<specFile, supDo, edits>>

SupervisorNext ==
  \/ \E n \in SpecName :
       \/ \E v \in AnyVersion : EditSpec(n, v)
       \/ RefuseSpec(n) \/ BackInPlace(n) \/ Promote(n) \/ GiveUp(n)
       \/ NewVersion(n) \/ SpecRemoved(n)
  \/ StartWorker \/ CopyFails \/ SupervisorStops
  \/ \E i \in DOMAIN procs :
       WorkerReady(i) \/ WorkerExits(i) \/ WorkerRestarts(i) \/ WorkerEnds(i)

SupervisorSpec == SupervisorInit /\ [][SupervisorNext]_supervisorVars

-----------------------------------------------------------------------------
(* Properties. *)

\* "a spec that fails is refused and the worker of its last valid version
\* keeps running": from the moment a unit has had a worker, and until its
\* file is gone or the appliance ends, it has one that nobody stopped.
LastValidRuns == \A n \in SpecName :
  served[n] => current[n] # 0 /\ procs[current[n]].st \notin {"stopping", "gone"}

\* ready() asks a port, not a process: no two workers that are alive share
\* one, or a version would be promoted on another worker's answer.
PortsDistinct == \A i, j \in DOMAIN procs :
  i # j /\ Alive(i) /\ Alive(j) => procs[i].port # procs[j].port

\* Each unit keeps the worker it was promised, on a port of its own.
UnitsServed == LastValidRuns /\ PortsDistinct
=============================================================================
