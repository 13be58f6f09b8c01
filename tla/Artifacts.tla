-------------------------------- MODULE Artifacts --------------------------------
(***************************************************************************)
(* The files behind artifacts (packages/core/src/artifacts.ts) and the     *)
(* rows that name them.  A model attempt writes two traces from its start  *)
(* to its end (Runtime.#invokeModel).  A tool's long output is staged by   *)
(* the worker, perhaps in a process of its own, and imported when the tool *)
(* has answered (#prepareToolResult, ArtifactStore.ingest).                *)
(*                                                                         *)
(* Every system call and every commit is a step: most follow each other    *)
(* without a pause, but the process may end between any two, and any may   *)
(* fail.  A file's content is the sequence of the pieces written to it; a  *)
(* digest and a length, which stand for all of it, are that sequence too.  *)
(***************************************************************************)
EXTENDS Integers, Sequences

CONSTANTS
  Attempts,  \* model attempts
  Tools,     \* tool operations; the id of its artifact is that of the operation
  MaxEvents, \* bound: pieces of a trace
  MaxFaults, \* bound: system calls and commits that fail
  MaxCrashes \* bound: ends of the process

Kinds == {"request", "events"}
Traces == Attempts \X Kinds
Files == Traces \cup Tools
Works == Attempts \cup Tools

\* Ids of attempts, operations and artifacts are not mixed up.
ASSUME ArtifactsAssumption ==
  /\ Attempts \cap Tools = {} /\ Traces \cap Works = {}
  /\ MaxEvents \in Nat \ {0} /\ MaxFaults \in Nat /\ MaxCrashes \in Nat

VARIABLES
  file,    \* the artifact directory: a file under its partial or its final name
  open,    \* writers that hold a file descriptor
  written, \* what a writer has hashed and counted
  row,     \* artifacts: status, digest and length
  op,      \* operations.status
  attempt, \* model_attempts.status
  refs,    \* operations whose stored result refers to their artifact
  staged,  \* the ingress directory: a tool's output, until it is imported
  input,   \* the descriptor that came with a tool's answer
  at,      \* how far a piece of work is, and how it will end
  up,      \* whether the process runs
  crashes, faults, \* how many there were
  blamed,  \* history: work hit by a fault, a crash or a cancel
  short    \* history: files one of whose writes wrote less than it was given

fileVars == <<file, open, written, short>>
rowVars == <<row, op, attempt, refs>>
ingressVars == <<staged, input>>
causeVars == <<crashes, faults, blamed>>
vars == <<fileVars, rowVars, ingressVars, at, up, causeVars>>

Terminal == {"completed", "failed", "cancelled", "abandoned"}

Place(phase, step, status) == [phase |-> phase, step |-> step, status |-> status]
Goto(w, phase, step, status) == at' = [at EXCEPT ![w] = Place(phase, step, status)]
At(w, phase) == up /\ at[w].phase = phase

Init ==
  /\ file = [f \in Files |-> [name |-> "none", data |-> <<>>]]
  /\ open = {} /\ written = [f \in Files |-> <<>>] /\ short = {}
  /\ row = [f \in Files |-> [status |-> "none", data |-> <<>>]]
  /\ op = [w \in Works |-> "none"]
  /\ attempt = [a \in Attempts |-> "none"]
  /\ refs = {}
  /\ staged = [t \in Tools |-> "none"] /\ input = [t \in Tools |-> {}]
  /\ at = [w \in Works |-> Place("idle", 1, "none")]
  /\ up = TRUE /\ crashes = 0 /\ faults = 0 /\ blamed = {}

-----------------------------------------------------------------------------
(* Artifact writers.                                                       *)

\* ArtifactWriter's constructor.
Create(f) ==
  /\ file' = [file EXCEPT ![f].name = "partial"]
  /\ open' = open \cup {f}
  /\ UNCHANGED <<written, short>>

\* append: what writeSync returns is not looked at, so a write may be cut short.
Write(f, piece) ==
  /\ written' = [written EXCEPT ![f] = Append(@, piece)]
  /\ \/ /\ file' = [file EXCEPT ![f].data = Append(@, piece)]
        /\ UNCHANGED short
     \/ /\ faults < MaxFaults
        /\ short' = short \cup {f}
        /\ UNCHANGED file
  /\ UNCHANGED open

\* finalize, of a writer that is not closed.
Finalize(f) ==
  /\ f \in open
  /\ open' = open \ {f}
  /\ file' = [file EXCEPT ![f].name = "final"]
  /\ UNCHANGED <<written, short>>

\* finalize, if the file cannot be renamed.
FinalizeFails(f) ==
  /\ f \in open
  /\ open' = open \ {f}
  /\ UNCHANGED <<file, written, short>>

\* (mutant: abort leaves the file where it is)
AbortClosesOnly(f) ==
  /\ open' = open \ {f}
  /\ UNCHANGED <<file, written, short>>

\* abort: nothing, once the writer is closed.
Abort(f) ==
  /\ open' = open \ {f}
  /\ file' = IF f \in open THEN [file EXCEPT ![f] = [name |-> "none", data |-> <<>>]] ELSE file
  /\ UNCHANGED <<written, short>>

Save(f, status, data) == row' = [row EXCEPT ![f] = [status |-> status, data |-> data]]

\* A system call or a commit of w fails.
Fault(w) ==
  /\ faults < MaxFaults /\ faults' = faults + 1
  /\ blamed' = blamed \cup {w}
  /\ UNCHANGED crashes

-----------------------------------------------------------------------------
(* Model attempts.                                                         *)

\* Both writers are created before the command, whose commits follow one by one.
OpenOrder == <<"request file", "events file", "request row", "events row", "operation", "attempt">>

\* (mutant: the attempt is finished before its artifacts are saved)
CloseOrderAttemptFirst ==
  <<"request file", "events file", "attempt", "request row", "events row", "operation">>

CloseOrder == <<"request file", "events file", "request row", "events row", "attempt", "operation">>

NamedFile(a, what) ==
  IF what \in {"request file", "request row"} THEN <<a, "request">> ELSE <<a, "events">>

OpenStep(a) ==
  LET what == OpenOrder[at[a].step] f == NamedFile(a, what) IN
  /\ at[a].phase = "idle" /\ up
  /\ \/ /\ what \in {"request file", "events file"} /\ Create(f)
        /\ UNCHANGED rowVars
     \/ /\ what \in {"request row", "events row"} /\ Save(f, "partial", <<>>)
        /\ UNCHANGED <<fileVars, op, attempt, refs>>
     \/ /\ what = "operation" /\ op' = [op EXCEPT ![a] = "running"]
        /\ UNCHANGED <<fileVars, row, attempt, refs>>
     \/ /\ what = "attempt" /\ attempt' = [attempt EXCEPT ![a] = "running"]
        /\ UNCHANGED <<fileVars, row, op, refs>>
  /\ IF at[a].step < 6 THEN Goto(a, "idle", at[a].step + 1, "none")
                       ELSE Goto(a, "invoking", 0, "none")
  /\ UNCHANGED <<ingressVars, up, causeVars>>

\* Nothing is caught before the provider is called: the writers stay open.
OpenFails(a) ==
  /\ At(a, "idle") /\ Fault(a)
  /\ Goto(a, "over", 0, "none")
  /\ UNCHANGED <<fileVars, rowVars, ingressVars, up>>

\* recordRequest, once, and recordEvent.
Record(a, kind) ==
  LET f == <<a, kind>> n == Len(written[f]) IN
  /\ At(a, "invoking")
  /\ n < IF kind = "request" THEN 1 ELSE MaxEvents
  /\ Write(f, n + 1)
  /\ faults' = IF short' = short THEN faults ELSE faults + 1
  /\ UNCHANGED <<rowVars, ingressVars, at, up, crashes, blamed>>

\* The provider returns or throws, or the signal is found aborted.
Invoked(a, status) ==
  /\ At(a, "invoking")
  /\ status = "completed" => written[<<a, "request">>] # <<>>
  /\ Goto(a, "closing", 1, status)
  /\ UNCHANGED <<fileVars, rowVars, ingressVars, up, causeVars>>

TraceStatus(status) == IF status = "completed" THEN "completed" ELSE "failed"

CloseStep(a) ==
  LET what == CloseOrder[at[a].step] f == NamedFile(a, what) status == at[a].status IN
  /\ At(a, "closing")
  /\ \/ /\ what \in {"request file", "events file"} /\ Finalize(f)
        /\ UNCHANGED rowVars
     \/ /\ what \in {"request row", "events row"} /\ Save(f, TraceStatus(status), written[f])
        /\ UNCHANGED <<fileVars, op, attempt, refs>>
     \/ /\ what = "attempt" /\ attempt' = [attempt EXCEPT ![a] = status]
        /\ UNCHANGED <<fileVars, row, op, refs>>
     \/ /\ what = "operation" /\ op' = [op EXCEPT ![a] = status]
        /\ UNCHANGED <<fileVars, row, attempt, refs>>
  /\ IF at[a].step < 6 THEN Goto(a, "closing", at[a].step + 1, status)
                       ELSE Goto(a, "over", 0, status)
  /\ UNCHANGED <<ingressVars, up, causeVars>>

\* A failure on the way to "completed" is caught, and the attempt closed again, as failed;
\* one in the catch block goes to the driver.
Caught(w, phase, status) ==
  IF status = "completed" THEN Goto(w, phase, 1, "failed") ELSE Goto(w, "over", 0, "none")

CloseFails(a) ==
  LET what == CloseOrder[at[a].step] IN
  /\ At(a, "closing") /\ Fault(a)
  /\ IF what \in {"request file", "events file"} THEN FinalizeFails(NamedFile(a, what))
                                                 ELSE UNCHANGED fileVars
  /\ Caught(a, "closing", at[a].status)
  /\ UNCHANGED <<rowVars, ingressVars, up>>

\* finalize throws for a writer that was closed before the failure.
CloseRefused(a) ==
  LET what == CloseOrder[at[a].step] IN
  /\ At(a, "closing")
  /\ what \in {"request file", "events file"} /\ NamedFile(a, what) \notin open
  /\ Caught(a, "closing", at[a].status)
  /\ UNCHANGED <<fileVars, rowVars, ingressVars, up, causeVars>>

-----------------------------------------------------------------------------
(* Tool operations.                                                        *)

OpenTool(t) ==
  /\ At(t, "idle")
  /\ op' = [op EXCEPT ![t] = "running"]
  /\ Goto(t, "working", 0, "none")
  /\ UNCHANGED <<fileVars, row, attempt, refs, ingressVars, up, causeVars>>

OpenToolFails(t) ==
  /\ At(t, "idle") /\ Fault(t)
  /\ Goto(t, "over", 0, "none")
  /\ UNCHANGED <<fileVars, rowVars, ingressVars, up>>

\* stageText, up to its rename.
Stage(t) ==
  /\ At(t, "working") /\ staged[t] = "none"
  /\ staged' = [staged EXCEPT ![t] = "partial"]
  /\ UNCHANGED <<fileVars, rowVars, input, at, up, causeVars>>

\* A worker process may outlive the runtime that it works for.
Staged(t) ==
  /\ staged[t] = "partial"
  /\ staged' = [staged EXCEPT ![t] = "staged"]
  /\ UNCHANGED <<fileVars, rowVars, input, at, up, causeVars>>

\* The tool answers, with the descriptor of an output that was staged, or without one.
Answers(t, d) ==
  /\ At(t, "working")
  /\ \A u \in d : staged[u] \in {"staged", "imported"}
  /\ input' = [input EXCEPT ![t] = d]
  /\ IF d = {} THEN Goto(t, "finishing", 1, "completed") ELSE Goto(t, "ingesting", 1, "none")
  /\ UNCHANGED <<fileVars, rowVars, staged, up, causeVars>>

\* It throws, or what it has answered is dropped for a cancel.
Throws(t, status) ==
  /\ At(t, "working")
  /\ Goto(t, "finishing", 1, status)
  /\ blamed' = IF status = "cancelled" THEN blamed \cup {t} ELSE blamed
  /\ UNCHANGED <<fileVars, rowVars, ingressVars, up, crashes, faults>>

\* (mutant: the staged file is removed before the artifact has its name)
IngestOrderRemoveFirst == <<"create", "read", "remove", "finalize">>

IngestOrder == <<"create", "read", "finalize", "remove">>

\* validateDescriptor, and whether the file is there; nobody else writes to it.
Verified(t, d) == d = t /\ staged[d] = "staged"

\* readVerified and append.
ReadStaged(t, d) ==
  /\ Verified(t, d)
  /\ Write(t, d)
  /\ faults' = IF short' = short THEN faults ELSE faults + 1
  /\ UNCHANGED staged

IngestStep(t) ==
  LET what == IngestOrder[at[t].step] IN
  /\ At(t, "ingesting")
  /\ \E d \in input[t] :
       \/ what = "create" /\ Create(t) /\ UNCHANGED <<staged, faults>>
       \/ what = "read" /\ ReadStaged(t, d)
       \/ what = "finalize" /\ Finalize(t) /\ UNCHANGED <<staged, faults>>
       \/ /\ what = "remove"
          /\ staged' = [staged EXCEPT ![d] = "imported"]
          /\ UNCHANGED <<fileVars, faults>>
  /\ IF at[t].step < 4 THEN Goto(t, "ingesting", at[t].step + 1, "none")
                       ELSE Goto(t, "finishing", 1, "completed")
  /\ UNCHANGED <<rowVars, input, up, crashes, blamed>>

\* A descriptor of another operation, or of what is there no more.
IngestRefused(t) ==
  /\ At(t, "ingesting") /\ IngestOrder[at[t].step] = "read"
  /\ \E d \in input[t] : ~Verified(t, d)
  /\ Abort(t)
  /\ Goto(t, "finishing", 1, "failed")
  /\ UNCHANGED <<rowVars, ingressVars, up, causeVars>>

IngestFails(t) ==
  /\ At(t, "ingesting") /\ Fault(t)
  /\ CASE IngestOrder[at[t].step] = "create" -> UNCHANGED fileVars
       [] IngestOrder[at[t].step] = "finalize" -> FinalizeFails(t)
       [] OTHER -> Abort(t)
  /\ Goto(t, "finishing", 1, "failed")
  /\ UNCHANGED <<rowVars, ingressVars, up>>

\* finishOperation, one transaction with the row of the artifact.
FinishTool(t) ==
  /\ At(t, "finishing")
  /\ op' = [op EXCEPT ![t] = at[t].status]
  /\ IF at[t].status = "completed" /\ input[t] # {}
       THEN Save(t, "completed", written[t]) /\ refs' = refs \cup {t}
       ELSE UNCHANGED <<row, refs>>
  /\ Goto(t, "over", 0, at[t].status)
  /\ UNCHANGED <<fileVars, attempt, ingressVars, up, causeVars>>

FinishToolFails(t) ==
  /\ At(t, "finishing") /\ Fault(t)
  /\ Caught(t, "finishing", at[t].status)
  /\ UNCHANGED <<fileVars, rowVars, ingressVars, up>>

-----------------------------------------------------------------------------
\* Work that has not begun is the next process's.
Begun == {w \in Works : at[w] # Place("idle", 1, "none") /\ at[w].phase # "over"}

Crash ==
  /\ up /\ crashes < MaxCrashes
  /\ up' = FALSE /\ crashes' = crashes + 1
  /\ open' = {}
  /\ at' = [w \in Works |-> IF w \in Begun THEN Place("over", 0, "none") ELSE at[w]]
  /\ blamed' = blamed \cup Begun
  /\ UNCHANGED <<file, written, short, rowVars, ingressVars, faults>>

\* recoverAbandoned: artifacts are left as they are.
Recover ==
  LET abandoned(status) == IF status = "running" THEN "abandoned" ELSE status IN
  /\ ~up /\ up' = TRUE
  /\ op' = [w \in Works |-> abandoned(op[w])]
  /\ attempt' = [a \in Attempts |-> IF op[a] = "running" THEN abandoned(attempt[a]) ELSE attempt[a]]
  /\ UNCHANGED <<fileVars, row, refs, ingressVars, at, causeVars>>

AttemptStep(a) ==
  \/ OpenStep(a) \/ OpenFails(a) \/ CloseStep(a) \/ CloseFails(a) \/ CloseRefused(a)
  \/ \E kind \in Kinds : Record(a, kind)
  \/ \E status \in {"completed", "failed", "cancelled"} : Invoked(a, status)

ToolStep(t) ==
  \/ OpenTool(t) \/ OpenToolFails(t) \/ Stage(t) \/ Staged(t)
  \/ \E d \in {{}} \cup {{u} : u \in Tools} : Answers(t, d)
  \/ \E status \in {"failed", "cancelled"} : Throws(t, status)
  \/ IngestStep(t) \/ IngestRefused(t) \/ IngestFails(t)
  \/ FinishTool(t) \/ FinishToolFails(t)

Next ==
  \/ \E a \in Attempts : AttemptStep(a)
  \/ \E t \in Tools : ToolStep(t)
  \/ Crash \/ Recover

Spec == Init /\ [][Next]_vars

-----------------------------------------------------------------------------
Statuses == {"none", "running"} \cup Terminal

Phases == {"idle", "invoking", "closing", "working", "ingesting", "finishing", "over"}

FileTypes ==
  /\ file \in [Files -> [name : {"none", "partial", "final"}, data : Seq(Nat \cup Tools)]]
  /\ written \in [Files -> Seq(Nat \cup Tools)]
  /\ open \subseteq Files /\ short \subseteq Files

RowTypes ==
  /\ row \in [Files -> [status : {"none", "partial", "completed", "failed"}, data : Seq(Nat \cup Tools)]]
  /\ op \in [Works -> Statuses] /\ attempt \in [Attempts -> Statuses]
  /\ refs \subseteq Tools

WorkTypes ==
  /\ staged \in [Tools -> {"none", "partial", "staged", "imported"}]
  /\ input \in [Tools -> SUBSET Tools]
  /\ at \in [Works -> [phase : Phases, step : 0 .. 6,
                       status : {"none", "completed", "failed", "cancelled"}]]
  /\ up \in BOOLEAN /\ crashes \in 0 .. MaxCrashes /\ faults \in 0 .. MaxFaults
  /\ blamed \subseteq Works

TypeOK == FileTypes /\ RowTypes /\ WorkTypes

\* The file is there under its final name, with what the row says is in it.
Readable(f) ==
  /\ row[f].status \in {"completed", "failed"}
  /\ file[f].name = "final"
  /\ file[f].data = row[f].data \/ f \in short

\* What readArtifact offers can be read and is what its row says, and an attempt that
\* ended by itself has both its traces, whichever step of its end the process died in or a
\* commit failed at (runtime.ts:411-442).
ArtifactsInv ==
  /\ TypeOK
  /\ \A f \in Files : row[f].status \in {"completed", "failed"} => Readable(f)
  /\ \A a \in Attempts, k \in Kinds :
       attempt[a] \in {"completed", "failed", "cancelled"} =>
         Readable(<<a, k>>) /\ (attempt[a] = "completed") = (row[<<a, k>>].status = "completed")

\* An output that was staged completely is never lost: it stays until an artifact holds it,
\* and an operation's reference leads to its own output (artifacts.ts:122-137).
OutputKept ==
  \A t \in Tools :
    /\ staged[t] = "imported" => file[t].name = "final" /\ (file[t].data = <<t>> \/ t \in short)
    /\ t \in refs => Readable(t) /\ row[t].data = <<t>>

\* Nothing is left behind by work that is over - no descriptor, no partial file, no file
\* without its row, no output that it handed in - but after a fault, a crash or a cancel.
LeftoversForCause ==
  \A w \in Works \ blamed : at[w].phase = "over" =>
    \A f \in IF w \in Tools THEN {w} ELSE {w} \X Kinds :
      /\ f \notin open
      /\ file[f].name = "none" \/ Readable(f)
      /\ w \in Tools => ~(input[w] = {w} /\ staged[w] = "staged")
=============================================================================
