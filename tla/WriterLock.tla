------------------------------ MODULE WriterLock ------------------------------
(***************************************************************************)
(* The lock file that keeps a second process from writing the database:    *)
(* KernelDatabase.acquireWriterLock and releaseWriterLock                  *)
(* (packages/core/src/storage.ts).  Every action is one system call; the   *)
(* calls of different processes interleave, and a process may die between  *)
(* any two.                                                                *)
(*                                                                         *)
(* A process is one incarnation, with its random owner id: it creates at   *)
(* most one lock file, so the file is named by the process that created    *)
(* it.  A write to a file that was unlinked meanwhile goes nowhere.        *)
(***************************************************************************)
EXTENDS Naturals

CONSTANTS
  Processes,
  Pids,
  NoFile,
  NoPid

ASSUME LockAssumption == NoFile \notin Processes /\ NoPid \notin Pids

VARIABLES
  pc,       \* the next system call of a process
  attempt,  \* the loop counter of acquireWriterLock
  pid,      \* pids, given at birth
  file,     \* the file at the lock's path, by its creator
  written,  \* the files whose owner and pid have been written
  met,      \* history: whose lock a process has read and is about to unlink
  crowded,  \* history: processes that acquired while another did
  raced     \* history: whether a living writer's lock was unlinked unread

lockVars == <<pc, attempt, pid, file, written, met, crowded, raced>>

Acquiring == {"creating", "writing", "reading", "unlinking"}
Releasing == {"checking", "removing"}
Alive     == Acquiring \cup Releasing \cup {"holding", "refused", "closed"}

LockTypes ==
  /\ pc \in [Processes -> Alive \cup {"unborn", "dead"}]
  /\ attempt \in [Processes -> 0 .. 1]
  /\ pid \in [Processes -> Pids \cup {NoPid}]
  /\ file \in Processes \cup {NoFile}
  /\ written \subseteq Processes /\ crowded \subseteq Processes
  /\ met \in [Processes -> Processes \cup {NoFile}] /\ raced \in BOOLEAN

LockInit ==
  /\ pc = [p \in Processes |-> "unborn"]
  /\ attempt = [p \in Processes |-> 0]
  /\ pid = [p \in Processes |-> NoPid]
  /\ file = NoFile
  /\ met = [p \in Processes |-> NoFile]
  /\ written = {} /\ crowded = {} /\ raced = FALSE

Goto(p, where) == pc' = [pc EXCEPT ![p] = where]

\* readLock: undefined if there is no file or its text does not parse.
Readable == file \in written

\* kill(pid, 0), of the pid the lock records: some process answers to it.
PidAnswers(q) == \E x \in Processes : pc[x] \in Alive /\ pid[x] = pid[q]

-----------------------------------------------------------------------------
\* A process is born, perhaps with the pid of one that ended, and opens its database.
Start(p) ==
  /\ pc[p] = "unborn"
  /\ \E n \in Pids :
       /\ \A q \in Processes : pid[q] = n => pc[q] = "dead"
       /\ pid' = [pid EXCEPT ![p] = n]
  /\ LET others == {q \in Processes : pc[q] \in Acquiring}
     IN  crowded' = IF others = {} THEN crowded ELSE crowded \cup others \cup {p}
  /\ Goto(p, "creating")
  /\ UNCHANGED <<attempt, file, written, met, raced>>

\* openSync(path, "wx")
Create(p) ==
  /\ pc[p] = "creating"
  /\ IF file = NoFile
     THEN file' = p /\ Goto(p, "writing")
     ELSE Goto(p, "reading") /\ UNCHANGED file
  /\ UNCHANGED <<attempt, pid, written, met, crowded, raced>>

\* writeFileSync(fd, ..)
Write(p) ==
  /\ pc[p] = "writing"
  /\ written' = written \cup {p}
  /\ Goto(p, "holding")
  /\ UNCHANGED <<attempt, pid, file, met, crowded, raced>>

\* The write throws: the constructor rejects and leaves the empty file.
WriteFails(p) ==
  /\ pc[p] = "writing"
  /\ Goto(p, "refused")
  /\ UNCHANGED <<attempt, pid, file, written, met, crowded, raced>>

\* The lock is taken if its text names a pid that answers.
UnreadableIsTaken == file # NoFile /\ (Readable => PidAnswers(file))   \* mutant
NeverTaken == FALSE                            \* mutant: the pid is not probed
Taken == Readable /\ PidAnswers(file)

\* readLock, then isProcessAlive.  The pid is probed in the same step as the
\* file is read: an answer can only turn into silence meanwhile.
Read(p) ==
  /\ pc[p] = "reading"
  /\ Goto(p, IF Taken THEN "refused" ELSE "unlinking")
  /\ met' = [met EXCEPT ![p] = IF Readable /\ ~Taken THEN file ELSE NoFile]
  /\ UNCHANGED <<attempt, pid, file, written, crowded, raced>>

\* The file a process is about to unlink is the lock of a living writer, and not the one
\* it has read.
Races(p) ==
  /\ file # NoFile /\ pc[file] \in {"writing", "holding"} \cup Releasing
  /\ met[p] # file

\* unlinkSync(path), whatever file is there by now; then the loop's next turn.
Unlink(p) ==
  /\ pc[p] = "unlinking"
  /\ file' = NoFile
  /\ raced' = (raced \/ Races(p)) /\ met' = [met EXCEPT ![p] = NoFile]
  /\ IF attempt[p] = 0
     THEN Goto(p, "creating") /\ attempt' = [attempt EXCEPT ![p] = 1]
     ELSE Goto(p, "refused") /\ UNCHANGED attempt
  /\ UNCHANGED <<pid, written, crowded>>

\* close(), or a constructor that fails after the acquisition: the database is
\* closed, then the lock is released if its text still names this owner.
Close(p) ==
  /\ pc[p] = "holding"
  /\ Goto(p, "checking")
  /\ UNCHANGED <<attempt, pid, file, written, met, crowded, raced>>

OwnLock(p) == Readable /\ file = p

CheckOwner(p) ==
  /\ pc[p] = "checking"
  /\ Goto(p, IF OwnLock(p) THEN "removing" ELSE "closed")
  /\ UNCHANGED <<attempt, pid, file, written, met, crowded, raced>>

Remove(p) ==
  /\ pc[p] = "removing"
  /\ file' = NoFile
  /\ Goto(p, "closed")
  /\ UNCHANGED <<attempt, pid, written, met, crowded, raced>>

\* Exit or crash.
Die(p) ==
  /\ pc[p] \in Alive
  /\ Goto(p, "dead") /\ met' = [met EXCEPT ![p] = NoFile]
  /\ UNCHANGED <<attempt, pid, file, written, crowded, raced>>

LockNext ==
  \E p \in Processes :
    \/ Start(p) \/ Create(p) \/ Write(p) \/ WriteFails(p) \/ Read(p) \/ Unlink(p)
    \/ Close(p) \/ CheckOwner(p) \/ Remove(p) \/ Die(p)

LockSpec == LockInit /\ [][LockNext]_lockVars

-----------------------------------------------------------------------------
\* What ADR 0002 promises, and the code does not keep: one logical writer per database.
MutualExclusion ==
  \A p, q \in Processes : pc[p] = "holding" /\ pc[q] = "holding" => p = q

\* The writer whose lock is on disk.
LiveWriter == file # NoFile /\ pc[file] \in {"holding"} \cup Releasing

\* Nor this: a process is turned away only while the process whose lock it met lives,
\* not by what a crash left behind (its own failing write apart).
RefusedOnlyByLiveWriter ==
  [][\A p \in Processes : pc[p] \in {"reading", "unlinking"} /\ pc'[p] = "refused" => LiveWriter]_lockVars

\* There are two writers only after a process has unlinked a living writer's lock that it
\* had not read: one that was created since, or was not yet written (storage.ts:377-390).
OneWriterUnlessRaced == raced \/ MutualExclusion

\* The pid that a dead process recorded has been given to another.
PidReused(q) == pc[q] = "dead" /\ \E x \in Processes \ {q} : pc[x] \in Alive /\ pid[x] = pid[q]

\* A process is turned away by a living writer, by the pid of a dead one that somebody
\* else has now, or because others were acquiring while it did and it met a second lock;
\* what a crash left behind, a half-written lock say, does not lock it out (storage.ts:373-393).
RefusedForCause ==
  [][\A p \in Processes : pc'[p] = "refused" =>
       /\ pc[p] = "reading" => LiveWriter \/ (file # NoFile /\ PidReused(file))
       /\ pc[p] = "unlinking" => p \in crowded]_lockVars

\* A process that closed in order leaves no lock of its own for others to trip on.
ClosedLeavesNoLock ==
  \A p \in Processes : pc[p] = "closed" => file # p

-----------------------------------------------------------------------------
(* The inductive invariant.                                                *)

\* Unless there was a race, the lock on disk names the process that writes it or
\* holds: whoever reads it finds the live writer.
HolderHasLock ==
  \A p \in Processes : pc[p] \in {"writing", "holding"} \cup Releasing => file = p

\* What each position of a process says of its own file ...
OwnFile ==
  \A p \in Processes :
    /\ pc[p] \in {"unborn", "creating", "reading", "unlinking", "closed"} => file # p
    /\ pc[p] \in Acquiring \cup {"unborn", "refused"} => p \notin written
    /\ pc[p] \in {"holding"} \cup Releasing => p \in written

\* ... and of the lock it read: its owner is dead.
MetFile ==
  \A p \in Processes :
    /\ pc[p] # "unlinking" => met[p] = NoFile
    /\ met[p] # NoFile => pc[met[p]] = "dead"

\* Who acquires alone meets one lock at most.
AloneMeetsOne ==
  \A p \in Processes \ crowded :
    /\ pc[p] \in Acquiring => \A q \in Processes : pc[q] \in Acquiring => q = p
    /\ pc[p] = "creating" /\ attempt[p] = 1 => file = NoFile
    /\ pc[p] \in {"unborn", "reading", "unlinking"} => attempt[p] = 0

\* Living processes have pids of their own.
PidInv ==
  /\ \A p \in Processes : pc[p] # "unborn" => pid[p] # NoPid
  /\ \A p, q \in Processes : pc[p] \in Alive /\ pc[q] \in Alive /\ pid[p] = pid[q] => p = q

LockInv ==
  /\ LockTypes /\ OwnFile /\ MetFile /\ AloneMeetsOne /\ PidInv
  /\ ~raced => HolderHasLock
=============================================================================
