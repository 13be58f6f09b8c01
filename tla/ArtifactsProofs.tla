---------------------------- MODULE ArtifactsProofs ----------------------------
(***************************************************************************)
(* Proofs about Artifacts, for any attempts, tools and bounds.  A piece of *)
(* work touches no files and rows but its own (the frame lemmas), so that  *)
(* an invariant of each attempt and of each tool by itself is enough.      *)
(***************************************************************************)
EXTENDS Artifacts, TLAPS

\* The life of a file.
Fresh(f) == f \notin open /\ file[f].name = "none" /\ file[f].data = <<>> /\ written[f] = <<>>
Growing(f) == f \in open /\ file[f].name = "partial"
Whole(f) == f \notin open /\ file[f].name = "final"
Counted(f) == file[f].data = written[f] \/ f \in short
Saved(f) == row[f].status \in {"completed", "failed"}

Ended == {"completed", "failed", "cancelled"}

TraceInv(f) ==
  /\ f \in open => file[f].name = "partial"
  /\ Counted(f)
  /\ Saved(f) => Whole(f) /\ row[f].data = written[f]

IdleInv(a, r, e) ==
  at[a].phase = "idle" =>
    /\ at[a].step >= 1
    /\ IF at[a].step <= 1 THEN Fresh(r) ELSE Growing(r)
    /\ IF at[a].step <= 2 THEN Fresh(e) ELSE Growing(e)
    /\ ~Saved(r) /\ ~Saved(e) /\ attempt[a] = "none"

InvokingInv(a, r, e) ==
  at[a].phase = "invoking" =>
    Growing(r) /\ Growing(e) /\ ~Saved(r) /\ ~Saved(e) /\ attempt[a] = "running"

ClosingInv(a, r, e) ==
  LET step == at[a].step status == TraceStatus(at[a].status) IN
  at[a].phase = "closing" =>
    /\ step >= 1 /\ at[a].status \in Ended
    /\ step >= 2 => Whole(r)
    /\ step >= 3 => Whole(e)
    /\ step >= 4 => row[r].status = status
    /\ step >= 5 => row[e].status = status
    /\ step < 6 /\ (step = 1 => r \in open) => attempt[a] = "running"
    /\ step = 6 => attempt[a] = at[a].status
    /\ a \notin blamed => (step = 1 => r \in open) /\ (step <= 2 => e \in open)

OverInv(a, r, e) ==
  /\ at[a].phase = "over" /\ a \notin blamed => Saved(r) /\ Saved(e)
  /\ attempt[a] \in Ended =>
       \A f \in {r, e} : Saved(f) /\ (attempt[a] = "completed") = (row[f].status = "completed")

AttemptInv(a) ==
  LET r == <<a, "request">> e == <<a, "events">> IN
  /\ at[a].phase \in {"idle", "invoking", "closing", "over"}
  /\ TraceInv(r) /\ TraceInv(e)
  /\ IdleInv(a, r, e) /\ InvokingInv(a, r, e) /\ ClosingInv(a, r, e) /\ OverInv(a, r, e)

Holds(t) == written[t] = <<t>> /\ (file[t].data = <<t>> \/ t \in short)

KeptInv(t) ==
  /\ row[t].status \in {"none", "completed"}
  /\ Saved(t) => at[t].phase = "over" /\ Whole(t) /\ Counted(t) /\ row[t].data = written[t]
  /\ staged[t] = "imported" => at[t].phase \in {"finishing", "over"} /\ Whole(t) /\ Holds(t)
  /\ t \in input[t] => staged[t] \in {"staged", "imported"}
  /\ t \in refs => Saved(t) /\ row[t].data = <<t>>

IngestInv(t) ==
  at[t].phase = "ingesting" =>
    /\ at[t].step \in 1 .. 4 /\ \E u \in Tools : input[t] = {u}
    /\ at[t].step = 1 => Fresh(t)
    /\ at[t].step = 2 => Growing(t) /\ file[t].data = <<>> /\ written[t] = <<>>
    /\ at[t].step > 2 => input[t] = {t} /\ staged[t] = "staged" /\ Holds(t)
    /\ at[t].step = 3 => Growing(t)
    /\ at[t].step = 4 => Whole(t)

Undone(t) == t \notin open /\ file[t].name = "none" /\ ~(input[t] = {t} /\ staged[t] = "staged")

DoneInv(t) ==
  /\ at[t].phase = "finishing" =>
       /\ t \notin open /\ at[t].status \in Ended
       /\ at[t].status = "completed" /\ input[t] = {} => Fresh(t)
       /\ at[t].status = "completed" /\ input[t] # {} => input[t] = {t} /\ staged[t] = "imported"
       /\ at[t].status # "completed" /\ t \notin blamed => Undone(t)
  /\ at[t].phase = "over" /\ t \notin blamed =>
       Undone(t) \/ (Saved(t) /\ staged[t] = "imported")

ToolInv(t) ==
  /\ at[t].phase \in {"idle", "working", "ingesting", "finishing", "over"}
  /\ at[t].phase \in {"idle", "working"} => Fresh(t) /\ input[t] = {}
  /\ KeptInv(t) /\ IngestInv(t) /\ DoneInv(t)

DownInv == ~up => Begun = {}


-----------------------------------------------------------------------------
(* Types.                                                                  *)

LEMMA WriterTypes ==
  ASSUME FileTypes, NEW f \in Files
  PROVE  /\ Create(f) \/ Finalize(f) \/ FinalizeFails(f) \/ Abort(f) => FileTypes'
         /\ \A piece \in Nat \cup Tools : Write(f, piece) => FileTypes'
<1> DEFINE Contents == [name : {"none", "partial", "final"}, data : Seq(Nat \cup Tools)]
<1>1. ASSUME NEW n \in {"none", "partial", "final"}
      PROVE  [file EXCEPT ![f].name = n] \in [Files -> Contents]
  BY DEF FileTypes
<1>2. [file EXCEPT ![f] = [name |-> "none", data |-> <<>>]] \in [Files -> Contents]
  BY DEF FileTypes
<1>3. Create(f) \/ Finalize(f) \/ FinalizeFails(f) \/ Abort(f) => FileTypes'
  BY <1>1, <1>2 DEF FileTypes, Create, Finalize, FinalizeFails, Abort
<1>4. ASSUME NEW piece \in Nat \cup Tools, Write(f, piece)
      PROVE  FileTypes'
  <2>1. Append(written[f], piece) \in Seq(Nat \cup Tools) /\ Append(file[f].data, piece) \in Seq(Nat \cup Tools)
    BY DEF FileTypes
  <2>2. written' \in [Files -> Seq(Nat \cup Tools)]
    BY <1>4, <2>1 DEF FileTypes, Write
  <2>3. [file EXCEPT ![f].data = Append(@, piece)] \in [Files -> Contents]
    BY <2>1 DEF FileTypes
  <2>4. QED BY <1>4, <2>2, <2>3 DEF FileTypes, Write
<1>5. QED BY <1>3, <1>4

LEMMA SaveTypes ==
  ASSUME RowTypes, NEW f \in Files, NEW status \in {"partial", "completed", "failed"},
         NEW data \in Seq(Nat \cup Tools), Save(f, status, data), UNCHANGED <<op, attempt>>,
         refs' \subseteq Tools
  PROVE  RowTypes'
BY DEF RowTypes, Save

LEMMA GotoTypes ==
  ASSUME WorkTypes, NEW w \in Works, NEW phase \in Phases, NEW step \in 0 .. 6,
         NEW status \in {"none", "completed", "failed", "cancelled"}, Goto(w, phase, step, status)
  PROVE  at' \in [Works -> [phase : Phases, step : 0 .. 6,
                            status : {"none", "completed", "failed", "cancelled"}]]
BY DEF WorkTypes, Goto, Place

LEMMA NamedFiles ==
  ASSUME NEW a \in Attempts, NEW what
  PROVE  NamedFile(a, what) \in {<<a, "request">>, <<a, "events">>} /\ NamedFile(a, what) \in Files
BY DEF NamedFile, Files, Traces, Kinds

LEMMA OwnFiles ==
  ASSUME NEW a \in Attempts, NEW k \in Kinds
  PROVE  <<a, k>> \in Files /\ <<a, k>> \notin Tools /\ a \in Works /\ a \notin Tools
BY ArtifactsAssumption DEF Files, Traces, Works

LEMMA CaughtTypes ==
  ASSUME WorkTypes, NEW w \in Works, NEW phase \in Phases, NEW status, Caught(w, phase, status)
  PROVE  at' \in [Works -> [phase : Phases, step : 0 .. 6,
                            status : {"none", "completed", "failed", "cancelled"}]]
<1>1. CASE status = "completed"
  BY <1>1, GotoTypes DEF Caught
<1>2. CASE status # "completed"
  <2>1. Goto(w, "over", 0, "none")
    BY <1>2 DEF Caught
  <2>2. "over" \in Phases
    BY DEF Phases
  <2>3. QED BY <2>1, <2>2, GotoTypes
<1>3. QED BY <1>1, <1>2

LEMMA FaultTypes ==
  ASSUME WorkTypes, NEW w \in Works, Fault(w)
  PROVE  faults' \in 0 .. MaxFaults /\ blamed' \subseteq Works /\ crashes' \in 0 .. MaxCrashes
BY ArtifactsAssumption DEF WorkTypes, Fault

\* A step of an attempt keeps the types.
LEMMA AttemptTypes ==
  ASSUME TypeOK, NEW a \in Attempts, AttemptStep(a)
  PROVE  TypeOK'
<1> DEFINE Ats == [Works -> [phase : Phases, step : 0 .. 6,
                            status : {"none", "completed", "failed", "cancelled"}]]
<1>0. /\ a \in Works /\ \A k \in Kinds : <<a, k>> \in Files
      /\ FileTypes /\ RowTypes /\ WorkTypes
      /\ {"idle", "invoking", "closing", "over"} \subseteq Phases
      /\ at[a].step \in 0 .. 6 /\ at[a].status \in {"none", "completed", "failed", "cancelled"}
      /\ {"none", "running", "abandoned", "completed", "failed", "cancelled"} \subseteq Statuses
  BY OwnFiles DEF TypeOK, WorkTypes, Works, Phases, Statuses, Terminal
<1>1. CASE OpenStep(a)
  <2> DEFINE what == OpenOrder[at[a].step]
  <2>1. FileTypes'
    BY <1>0, <1>1, WriterTypes, NamedFiles DEF OpenStep, fileVars, FileTypes
  <2>2. RowTypes'
    <3>1. <<>> \in Seq(Nat \cup Tools)
      OBVIOUS
    <3>2. CASE Save(NamedFile(a, what), "partial", <<>>) /\ UNCHANGED <<op, attempt, refs>>
      BY <1>0, <3>1, <3>2, SaveTypes, NamedFiles DEF RowTypes
    <3>3. CASE op' = [op EXCEPT ![a] = "running"] /\ UNCHANGED <<row, attempt, refs>>
      BY <1>0, <3>3 DEF RowTypes
    <3>4. CASE attempt' = [attempt EXCEPT ![a] = "running"] /\ UNCHANGED <<row, op, refs>>
      BY <1>0, <3>4 DEF RowTypes
    <3>5. CASE UNCHANGED rowVars
      BY <1>0, <3>5 DEF RowTypes, rowVars
    <3>6. QED BY <1>1, <3>2, <3>3, <3>4, <3>5 DEF OpenStep, fileVars
  <2>3. at' \in Ats
    <3>1. CASE at[a].step < 6
      <4>1. Goto(a, "idle", at[a].step + 1, "none")
        BY <1>1, <3>1 DEF OpenStep
      <4>2. at[a].step + 1 \in 0 .. 6
        BY <1>0, <3>1
      <4>3. QED BY <1>0, <4>1, <4>2, GotoTypes
    <3>2. CASE ~(at[a].step < 6)
      <4>1. Goto(a, "invoking", 0, "none")
        BY <1>0, <1>1, <3>2 DEF OpenStep
      <4>2. QED BY <1>0, <4>1, GotoTypes
    <3>3. QED BY <3>1, <3>2
  <2>4. WorkTypes'
    BY <1>0, <1>1, <2>3 DEF OpenStep, WorkTypes, ingressVars, causeVars
  <2>5. QED BY <2>1, <2>2, <2>4 DEF TypeOK
<1>2. CASE OpenFails(a)
  <2>1. at' \in Ats
    BY <1>0, <1>2, GotoTypes DEF OpenFails
  <2>2. WorkTypes'
    BY <1>0, <1>2, <2>1, FaultTypes DEF OpenFails, WorkTypes, ingressVars
  <2>3. QED BY <1>0, <1>2, <2>2 DEF OpenFails, TypeOK, FileTypes, RowTypes, fileVars, rowVars
<1>3. CASE CloseStep(a)
  <2> DEFINE what == CloseOrder[at[a].step] f == NamedFile(a, what) status == at[a].status
  <2>1. FileTypes'
    BY <1>0, <1>3, WriterTypes, NamedFiles DEF CloseStep, fileVars, FileTypes
  <2>2. RowTypes'
    <3>1. written[f] \in Seq(Nat \cup Tools)
      BY <1>0, NamedFiles DEF FileTypes
    <3>2. CASE Save(f, TraceStatus(status), written[f]) /\ UNCHANGED <<op, attempt, refs>>
      <4>1. TraceStatus(status) \in {"partial", "completed", "failed"} /\ refs' \subseteq Tools
        BY <1>0, <3>2 DEF TraceStatus, RowTypes
      <4>2. QED BY <1>0, <3>1, <3>2, <4>1, SaveTypes, NamedFiles
    <3>3. CASE op' = [op EXCEPT ![a] = status] /\ UNCHANGED <<row, attempt, refs>>
      BY <1>0, <3>3 DEF RowTypes, Statuses
    <3>4. CASE attempt' = [attempt EXCEPT ![a] = status] /\ UNCHANGED <<row, op, refs>>
      BY <1>0, <3>4 DEF RowTypes, Statuses
    <3>5. CASE UNCHANGED rowVars
      BY <1>0, <3>5 DEF RowTypes, rowVars
    <3>6. QED BY <1>3, <3>2, <3>3, <3>4, <3>5 DEF CloseStep
  <2>3. at' \in Ats
    <3>1. CASE at[a].step < 6
      <4>1. Goto(a, "closing", at[a].step + 1, status)
        BY <1>3, <3>1 DEF CloseStep
      <4>2. at[a].step + 1 \in 0 .. 6
        BY <1>0, <3>1
      <4>3. QED BY <1>0, <4>1, <4>2, GotoTypes
    <3>2. CASE ~(at[a].step < 6)
      <4>1. Goto(a, "over", 0, status)
        BY <1>0, <1>3, <3>2 DEF CloseStep
      <4>2. QED BY <1>0, <4>1, GotoTypes
    <3>3. QED BY <3>1, <3>2
  <2>4. WorkTypes'
    BY <1>0, <1>3, <2>3 DEF CloseStep, WorkTypes, ingressVars, causeVars
  <2>5. QED BY <2>1, <2>2, <2>4 DEF TypeOK
<1>4. CASE CloseFails(a)
  <2>1. FileTypes'
    BY <1>0, <1>4, WriterTypes, NamedFiles DEF CloseFails, fileVars, FileTypes
  <2>2. at' \in Ats
    BY <1>0, <1>4, CaughtTypes DEF CloseFails
  <2>3. WorkTypes'
    BY <1>0, <1>4, <2>2, FaultTypes DEF CloseFails, WorkTypes, ingressVars
  <2>4. QED BY <1>0, <1>4, <2>1, <2>3 DEF CloseFails, TypeOK, RowTypes, rowVars
<1>5. CASE CloseRefused(a)
  <2>1. at' \in Ats
    BY <1>0, <1>5, CaughtTypes DEF CloseRefused
  <2>2. WorkTypes'
    BY <1>0, <1>5, <2>1 DEF CloseRefused, WorkTypes, ingressVars, causeVars
  <2>3. QED BY <1>0, <1>5, <2>2 DEF CloseRefused, TypeOK, FileTypes, RowTypes, fileVars, rowVars
<1>6. ASSUME NEW kind \in Kinds, Record(a, kind)
      PROVE  TypeOK'
  <2>1. Len(written[<<a, kind>>]) + 1 \in Nat
    BY <1>0 DEF FileTypes
  <2>2. FileTypes'
    BY <1>0, <1>6, <2>1, WriterTypes DEF Record
  <2>3. faults' \in 0 .. MaxFaults
    BY <1>0, <1>6, ArtifactsAssumption DEF Record, Write, WorkTypes
  <2>4. WorkTypes'
    BY <1>0, <1>6, <2>3 DEF Record, WorkTypes, ingressVars
  <2>5. QED BY <1>0, <1>6, <2>2, <2>4 DEF Record, TypeOK, RowTypes, rowVars
<1>7. ASSUME NEW status \in {"completed", "failed", "cancelled"}, Invoked(a, status)
      PROVE  TypeOK'
  <2>1. at' \in Ats
    BY <1>0, <1>7, GotoTypes DEF Invoked
  <2>2. WorkTypes'
    BY <1>0, <1>7, <2>1 DEF Invoked, WorkTypes, ingressVars, causeVars
  <2>3. QED BY <1>0, <1>7, <2>2 DEF Invoked, TypeOK, FileTypes, RowTypes, fileVars, rowVars
<1>8. QED BY <1>1, <1>2, <1>3, <1>4, <1>5, <1>6, <1>7 DEF AttemptStep

\* A step of a tool keeps the types.
LEMMA ToolTypes ==
  ASSUME TypeOK, NEW t \in Tools, ToolStep(t)
  PROVE  TypeOK'
<1> DEFINE Ats == [Works -> [phase : Phases, step : 0 .. 6,
                            status : {"none", "completed", "failed", "cancelled"}]]
<1>0. /\ t \in Works /\ t \in Files /\ FileTypes /\ RowTypes /\ WorkTypes
      /\ {"idle", "working", "ingesting", "finishing", "over"} \subseteq Phases
      /\ at[t].step \in 0 .. 6 /\ at[t].status \in {"none", "completed", "failed", "cancelled"}
      /\ {"none", "running", "abandoned", "completed", "failed", "cancelled"} \subseteq Statuses
  BY DEF TypeOK, WorkTypes, Works, Files, Phases, Statuses, Terminal
<1>1. CASE OpenTool(t)
  <2>1. at' \in Ats
    BY <1>0, <1>1, GotoTypes DEF OpenTool
  <2>2. WorkTypes'
    BY <1>0, <1>1, <2>1 DEF OpenTool, WorkTypes, ingressVars, causeVars
  <2>3. RowTypes'
    BY <1>0, <1>1 DEF OpenTool, RowTypes
  <2>4. QED BY <1>0, <1>1, <2>2, <2>3 DEF OpenTool, TypeOK, FileTypes, fileVars
<1>2. CASE OpenToolFails(t)
  <2>1. at' \in Ats
    BY <1>0, <1>2, GotoTypes DEF OpenToolFails
  <2>2. WorkTypes'
    BY <1>0, <1>2, <2>1, FaultTypes DEF OpenToolFails, WorkTypes, ingressVars
  <2>3. QED BY <1>0, <1>2, <2>2 DEF OpenToolFails, TypeOK, FileTypes, RowTypes, fileVars, rowVars
<1>3. CASE Stage(t) \/ Staged(t)
  <2>1. UNCHANGED <<input, at, up, causeVars>> /\ UNCHANGED <<fileVars, rowVars>>
    BY <1>3 DEF Stage, Staged
  <2>2. staged' \in [Tools -> {"none", "partial", "staged", "imported"}]
    BY <1>0, <1>3 DEF Stage, Staged, WorkTypes
  <2>3. WorkTypes'
    BY <1>0, <2>1, <2>2 DEF WorkTypes, causeVars
  <2>4. QED BY <1>0, <2>1, <2>3 DEF TypeOK, FileTypes, RowTypes, fileVars, rowVars
<1>4. ASSUME NEW d \in {{}} \cup {{u} : u \in Tools}, Answers(t, d)
      PROVE  TypeOK'
  <2>1. at' \in Ats
    BY <1>0, <1>4, GotoTypes DEF Answers
  <2>2. input' \in [Tools -> SUBSET Tools]
    BY <1>0, <1>4 DEF Answers, WorkTypes
  <2>3. WorkTypes'
    BY <1>0, <1>4, <2>1, <2>2 DEF Answers, WorkTypes, causeVars
  <2>4. QED BY <1>0, <1>4, <2>3 DEF Answers, TypeOK, FileTypes, RowTypes, fileVars, rowVars
<1>5. ASSUME NEW status \in {"failed", "cancelled"}, Throws(t, status)
      PROVE  TypeOK'
  <2>1. at' \in Ats
    BY <1>0, <1>5, GotoTypes DEF Throws
  <2>2. WorkTypes'
    BY <1>0, <1>5, <2>1 DEF Throws, WorkTypes, ingressVars
  <2>3. QED BY <1>0, <1>5, <2>2 DEF Throws, TypeOK, FileTypes, RowTypes, fileVars, rowVars
<1>6. CASE IngestStep(t)
  <2> DEFINE what == IngestOrder[at[t].step]
  <2>1. PICK d \in input[t] :
          \/ Create(t) /\ UNCHANGED <<staged, faults>>
          \/ ReadStaged(t, d)
          \/ Finalize(t) /\ UNCHANGED <<staged, faults>>
          \/ staged' = [staged EXCEPT ![d] = "imported"] /\ UNCHANGED <<fileVars, faults>>
    BY <1>6, Zenon DEF IngestStep
  <2>2. d \in Tools
    BY <1>0, <2>1 DEF WorkTypes
  <2>3. FileTypes'
    BY <1>0, <2>1, <2>2, WriterTypes DEF ReadStaged, fileVars, FileTypes
  <2>4. staged' \in [Tools -> {"none", "partial", "staged", "imported"}]
    BY <1>0, <2>1, <2>2 DEF ReadStaged, WorkTypes
  <2>5. faults' \in 0 .. MaxFaults
    BY <1>0, <2>1, ArtifactsAssumption DEF ReadStaged, Write, WorkTypes
  <2>6. at' \in Ats
    <3>1. CASE at[t].step < 4
      <4>1. Goto(t, "ingesting", at[t].step + 1, "none")
        BY <1>6, <3>1 DEF IngestStep
      <4>2. at[t].step + 1 \in 0 .. 6
        BY <1>0, <3>1
      <4>3. QED BY <1>0, <4>1, <4>2, GotoTypes
    <3>2. CASE ~(at[t].step < 4)
      <4>1. Goto(t, "finishing", 1, "completed")
        BY <1>6, <3>2 DEF IngestStep
      <4>2. QED BY <1>0, <4>1, GotoTypes
    <3>3. QED BY <3>1, <3>2
  <2>7. WorkTypes'
    BY <1>0, <1>6, <2>4, <2>5, <2>6 DEF IngestStep, WorkTypes
  <2>8. QED BY <1>0, <1>6, <2>3, <2>7 DEF IngestStep, TypeOK, RowTypes, rowVars
<1>7. CASE IngestRefused(t) \/ IngestFails(t)
  <2>1. Goto(t, "finishing", 1, "failed") /\ UNCHANGED <<rowVars, ingressVars, up>>
    BY <1>7 DEF IngestRefused, IngestFails
  <2>2. FinalizeFails(t) \/ Abort(t) \/ UNCHANGED fileVars
    BY <1>7 DEF IngestRefused, IngestFails
  <2>3. FileTypes'
    BY <1>0, <2>2, WriterTypes DEF fileVars, FileTypes
  <2>4. at' \in Ats
    BY <1>0, <2>1, GotoTypes
  <2>5. faults' \in 0 .. MaxFaults /\ blamed' \subseteq Works /\ crashes' \in 0 .. MaxCrashes
    BY <1>0, <1>7, FaultTypes DEF IngestRefused, IngestFails, causeVars, WorkTypes
  <2>6. WorkTypes'
    BY <1>0, <2>1, <2>4, <2>5 DEF WorkTypes, ingressVars
  <2>7. QED BY <1>0, <2>1, <2>3, <2>6 DEF TypeOK, RowTypes, rowVars
<1>8. CASE FinishTool(t)
  <2>1. at' \in Ats
    BY <1>0, <1>8, GotoTypes DEF FinishTool
  <2>2. WorkTypes'
    BY <1>0, <1>8, <2>1 DEF FinishTool, WorkTypes, ingressVars, causeVars
  <2>3. written[t] \in Seq(Nat \cup Tools)
    BY <1>0 DEF FileTypes
  <2>4. row' \in [Files -> [status : {"none", "partial", "completed", "failed"}, data : Seq(Nat \cup Tools)]]
    BY <1>0, <1>8, <2>3 DEF FinishTool, Save, RowTypes
  <2>5. RowTypes'
    BY <1>0, <1>8, <2>4 DEF FinishTool, RowTypes
  <2>6. QED BY <1>0, <1>8, <2>2, <2>5 DEF FinishTool, TypeOK, FileTypes, fileVars
<1>9. CASE FinishToolFails(t)
  <2>1. at' \in Ats
    BY <1>0, <1>9, CaughtTypes DEF FinishToolFails
  <2>2. WorkTypes'
    BY <1>0, <1>9, <2>1, FaultTypes DEF FinishToolFails, WorkTypes, ingressVars
  <2>3. QED BY <1>0, <1>9, <2>2 DEF FinishToolFails, TypeOK, FileTypes, RowTypes, fileVars, rowVars
<1>10. QED BY <1>1, <1>2, <1>3, <1>4, <1>5, <1>6, <1>7, <1>8, <1>9 DEF ToolStep

\* Types: files, rows and work.
THEOREM ArtifactsTypes == Spec => []TypeOK
<1>1. Init => TypeOK
  BY ArtifactsAssumption DEF Init, TypeOK, FileTypes, RowTypes, WorkTypes, Place, Phases, Statuses, Works
<1>2. TypeOK /\ [Next]_vars => TypeOK'
  <2> SUFFICES ASSUME TypeOK, [Next]_vars PROVE TypeOK'
    OBVIOUS
  <2>1. CASE \E a \in Attempts : AttemptStep(a)
    BY <2>1, AttemptTypes
  <2>2. CASE \E t \in Tools : ToolStep(t)
    BY <2>2, ToolTypes
  <2>3. CASE Crash
    <3>1. at' \in [Works -> [phase : Phases, step : 0 .. 6,
                            status : {"none", "completed", "failed", "cancelled"}]]
      BY <2>3 DEF Crash, TypeOK, WorkTypes, Place, Phases
    <3>2. crashes' \in 0 .. MaxCrashes
      BY <2>3, ArtifactsAssumption DEF Crash, TypeOK, WorkTypes
    <3>3. blamed' \subseteq Works /\ open' \subseteq Files /\ up' \in BOOLEAN
      BY <2>3 DEF Crash, TypeOK, WorkTypes, Begun
    <3>4. QED BY <2>3, <3>1, <3>2, <3>3 DEF Crash, TypeOK, FileTypes, RowTypes, WorkTypes, rowVars, ingressVars
  <2>4. CASE Recover
    <3>1. op' \in [Works -> Statuses] /\ attempt' \in [Attempts -> Statuses]
      BY <2>4 DEF Recover, TypeOK, RowTypes, Statuses, Terminal, Works
    <3>2. QED
      BY <2>4, <3>1 DEF Recover, TypeOK, FileTypes, RowTypes, WorkTypes, fileVars, ingressVars, causeVars
  <2>5. CASE UNCHANGED vars
    BY <2>5 DEF vars, fileVars, rowVars, ingressVars, causeVars, TypeOK, FileTypes, RowTypes, WorkTypes
  <2>6. QED BY <2>1, <2>2, <2>3, <2>4, <2>5 DEF Next
<1>3. QED BY <1>1, <1>2, PTL DEF Spec

-----------------------------------------------------------------------------
(* What a step leaves alone.                                               *)

SameFile(f) ==
  /\ file'[f] = file[f] /\ written'[f] = written[f] /\ row'[f] = row[f]
  /\ f \in open' <=> f \in open
  /\ f \in short' <=> f \in short

SameWork(w) == at'[w] = at[w] /\ (w \in blamed' <=> w \in blamed)

SameTool(t) ==
  /\ SameWork(t) /\ SameFile(t) /\ staged'[t] = staged[t] /\ input'[t] = input[t]
  /\ t \in refs' <=> t \in refs

SameAttempt(a) == SameWork(a) /\ attempt'[a] = attempt[a] /\ \A k \in Kinds : SameFile(<<a, k>>)

LEMMA AttemptKept ==
  ASSUME NEW a \in Attempts, AttemptInv(a), SameAttempt(a)
  PROVE  AttemptInv(a)'
<1>1. SameFile(<<a, "request">>) /\ SameFile(<<a, "events">>)
  BY DEF SameAttempt, Kinds
<1>2. TraceInv(<<a, "request">>)' /\ TraceInv(<<a, "events">>)'
  BY <1>1 DEF AttemptInv, TraceInv, SameFile, Counted, Saved, Whole
<1>3. IdleInv(a, <<a, "request">>, <<a, "events">>)' /\ InvokingInv(a, <<a, "request">>, <<a, "events">>)'
  BY <1>1 DEF AttemptInv, IdleInv, InvokingInv, SameAttempt, SameFile, SameWork, Saved, Fresh, Growing
<1>4. ClosingInv(a, <<a, "request">>, <<a, "events">>)'
  BY <1>1 DEF AttemptInv, ClosingInv, SameAttempt, SameFile, SameWork, Whole
<1>5. OverInv(a, <<a, "request">>, <<a, "events">>)'
  BY <1>1 DEF AttemptInv, OverInv, SameAttempt, SameFile, SameWork, Saved
<1>6. QED BY <1>2, <1>3, <1>4, <1>5 DEF AttemptInv, SameAttempt, SameWork

LEMMA ToolKept ==
  ASSUME NEW t \in Tools, ToolInv(t), SameTool(t)
  PROVE  ToolInv(t)'
<1>1. KeptInv(t)'
  BY DEF ToolInv, KeptInv, SameTool, SameWork, SameFile, Saved, Whole, Counted, Holds
<1>2. IngestInv(t)'
  BY DEF ToolInv, IngestInv, SameTool, SameWork, SameFile, Fresh, Growing, Whole, Holds
<1>3. DoneInv(t)'
  BY DEF ToolInv, DoneInv, SameTool, SameWork, SameFile, Fresh, Undone, Saved
<1>4. QED BY <1>1, <1>2, <1>3 DEF ToolInv, SameTool, SameWork, SameFile, Fresh

\* What a writer does concerns one file.
WriterStep(f) == Create(f) \/ Finalize(f) \/ FinalizeFails(f) \/ Abort(f) \/ \E piece : Write(f, piece)

LEMMA WriterFrame ==
  ASSUME FileTypes, NEW f \in Files, NEW g \in Files \ {f}, WriterStep(f)
  PROVE  /\ file'[g] = file[g] /\ written'[g] = written[g]
         /\ (g \in open' <=> g \in open) /\ (g \in short' <=> g \in short)
BY DEF FileTypes, WriterStep, Create, Finalize, FinalizeFails, Abort, Write

LEMMA SaveFrame ==
  ASSUME RowTypes, NEW f \in Files, NEW g \in Files \ {f}
  PROVE  \A status, data : Save(f, status, data) => row'[g] = row[g]
BY DEF RowTypes, Save

LEMMA GotoFrame ==
  ASSUME WorkTypes, NEW w, NEW v \in Works \ {w}
  PROVE  \A phase, step, status :
           /\ Goto(w, phase, step, status) => at'[v] = at[v]
           /\ Caught(w, phase, status) => at'[v] = at[v]
BY DEF Goto, Caught, WorkTypes

LEMMA FaultFrame ==
  ASSUME NEW w, NEW v \in Works \ {w}, Fault(w)
  PROVE  v \in blamed' <=> v \in blamed
BY DEF Fault

\* An attempt's step concerns its own files and rows.
LEMMA AttemptFrame ==
  ASSUME TypeOK, NEW a \in Attempts, AttemptStep(a)
  PROVE  /\ \A b \in Attempts \ {a} : SameAttempt(b)
         /\ \A t \in Tools : SameTool(t)
         /\ up /\ up'
<1> DEFINE Own == {<<a, "request">>, <<a, "events">>}
<1>0. FileTypes /\ RowTypes /\ WorkTypes /\ a \in Works /\ Own \subseteq Files
  BY OwnFiles DEF TypeOK, Kinds
<1>1. up /\ up' /\ UNCHANGED ingressVars
  <2>1. CASE OpenStep(a) \/ OpenFails(a) \/ CloseStep(a)
    <3>1. up /\ UNCHANGED <<ingressVars, up>>
      BY <2>1 DEF OpenStep, OpenFails, CloseStep, At
    <3>2. QED BY <3>1
  <2>2. CASE CloseFails(a) \/ CloseRefused(a)
    <3>1. up /\ UNCHANGED <<ingressVars, up>>
      BY <2>2 DEF CloseFails, CloseRefused, At
    <3>2. QED BY <3>1
  <2>3. CASE \E kind \in Kinds : Record(a, kind)
    BY <2>3 DEF Record, At, ingressVars
  <2>4. CASE \E status : Invoked(a, status)
    BY <2>4 DEF Invoked, At, ingressVars
  <2>5. QED BY <2>1, <2>2, <2>3, <2>4 DEF AttemptStep
<1>2. UNCHANGED fileVars \/ \E f \in Own : WriterStep(f)
  <2>1. CASE OpenStep(a) \/ CloseStep(a) \/ CloseFails(a)
    BY <2>1, NamedFiles DEF OpenStep, CloseStep, CloseFails, WriterStep
  <2>2. CASE \E kind \in Kinds : Record(a, kind)
    BY <2>2 DEF Record, WriterStep, Kinds
  <2>3. CASE OpenFails(a) \/ CloseRefused(a) \/ \E status : Invoked(a, status)
    BY <2>3 DEF OpenFails, CloseRefused, Invoked
  <2>4. QED BY <2>1, <2>2, <2>3 DEF AttemptStep
<1>3. UNCHANGED row \/ \E f \in Own : \E status, data : Save(f, status, data)
  <2>1. CASE OpenStep(a) \/ CloseStep(a)
    BY <2>1, NamedFiles DEF OpenStep, CloseStep, rowVars
  <2>2. CASE ~(OpenStep(a) \/ CloseStep(a))
    BY <2>2 DEF AttemptStep, OpenFails, CloseFails, CloseRefused, Record, Invoked, rowVars
  <2>3. QED BY <2>1, <2>2
<1>4. ASSUME NEW g \in Files \ Own
      PROVE  SameFile(g)
  <2>1. row'[g] = row[g]
    BY <1>0, <1>3, SaveFrame
  <2>2. /\ file'[g] = file[g] /\ written'[g] = written[g]
        /\ (g \in open' <=> g \in open) /\ (g \in short' <=> g \in short)
    BY <1>0, <1>2, WriterFrame DEF fileVars
  <2>3. QED BY <2>1, <2>2 DEF SameFile
<1>5. ASSUME NEW v \in Works \ {a}
      PROVE  SameWork(v)
  <2>1. CASE OpenStep(a)
    BY <1>0, <2>1, GotoFrame DEF OpenStep, causeVars, SameWork
  <2>2. CASE OpenFails(a)
    BY <1>0, <2>2, GotoFrame, FaultFrame DEF OpenFails, SameWork
  <2>3. CASE CloseStep(a)
    BY <1>0, <2>3, GotoFrame DEF CloseStep, causeVars, SameWork
  <2>4. CASE CloseFails(a)
    BY <1>0, <2>4, GotoFrame, FaultFrame DEF CloseFails, SameWork
  <2>5. CASE CloseRefused(a)
    BY <1>0, <2>5, GotoFrame DEF CloseRefused, causeVars, SameWork
  <2>6. CASE \E kind \in Kinds : Record(a, kind)
    BY <2>6 DEF Record, SameWork
  <2>7. CASE \E status : Invoked(a, status)
    BY <1>0, <2>7, GotoFrame DEF Invoked, causeVars, SameWork
  <2>8. QED BY <2>1, <2>2, <2>3, <2>4, <2>5, <2>6, <2>7 DEF AttemptStep
<1>6. ASSUME NEW b \in Attempts \ {a}
      PROVE  SameAttempt(b)
  <2>1. attempt'[b] = attempt[b]
    BY <1>0 DEF AttemptStep, OpenStep, OpenFails, CloseStep, CloseFails, CloseRefused, Record,
                Invoked, rowVars, RowTypes
  <2>2. \A k \in Kinds : <<b, k>> \in Files \ Own
    BY OwnFiles
  <2>3. b \in Works \ {a}
    BY DEF Works
  <2>4. QED BY <1>4, <1>5, <2>1, <2>2, <2>3 DEF SameAttempt
<1>7. ASSUME NEW t \in Tools
      PROVE  SameTool(t)
  <2>1. t \in Files \ Own /\ t \in Works \ {a}
    BY OwnFiles DEF Files, Works, Kinds
  <2>2. refs' = refs
    BY DEF AttemptStep, OpenStep, OpenFails, CloseStep, CloseFails, CloseRefused, Record, Invoked, rowVars
  <2>3. QED BY <1>1, <1>4, <1>5, <2>1, <2>2 DEF SameTool, ingressVars
<1>8. QED BY <1>1, <1>6, <1>7

\* A tool's step concerns its own file and row, and the output it was given; that it removes
\* only if it is its own.
LEMMA ToolFrame ==
  ASSUME TypeOK, NEW t \in Tools, ToolInv(t), ToolStep(t)
  PROVE  /\ \A u \in Tools \ {t} : SameTool(u)
         /\ \A a \in Attempts : SameAttempt(a)
         /\ up' = up /\ (up \/ UNCHANGED at)
<1>0. FileTypes /\ RowTypes /\ WorkTypes /\ t \in Works /\ t \in Files
  BY DEF TypeOK, Works, Files
<1>1. up' = up /\ (up \/ UNCHANGED at) /\ UNCHANGED attempt
  BY DEF ToolStep, OpenTool, OpenToolFails, Stage, Staged, Answers, Throws, IngestStep, IngestRefused,
         IngestFails, FinishTool, FinishToolFails, At, rowVars
<1>2. UNCHANGED fileVars \/ WriterStep(t)
  <2>1. CASE IngestStep(t)
    BY <2>1 DEF IngestStep, ReadStaged, WriterStep
  <2>2. CASE IngestRefused(t) \/ IngestFails(t)
    BY <2>2 DEF IngestRefused, IngestFails, WriterStep
  <2>3. CASE ~(IngestStep(t) \/ IngestRefused(t) \/ IngestFails(t))
    BY <2>3 DEF ToolStep, OpenTool, OpenToolFails, Stage, Staged, Answers, Throws, FinishTool, FinishToolFails
  <2>4. QED BY <2>1, <2>2, <2>3
<1>3. UNCHANGED row \/ \E status, data : Save(t, status, data)
  <2>1. CASE FinishTool(t)
    BY <2>1 DEF FinishTool
  <2>2. CASE ~FinishTool(t)
    BY <2>2 DEF ToolStep, OpenTool, OpenToolFails, Stage, Staged, Answers, Throws, IngestStep, IngestRefused,
                IngestFails, FinishToolFails, rowVars
  <2>3. QED BY <2>1, <2>2
<1>4. ASSUME NEW g \in Files \ {t}
      PROVE  SameFile(g)
  <2>1. row'[g] = row[g]
    BY <1>0, <1>3, SaveFrame
  <2>2. /\ file'[g] = file[g] /\ written'[g] = written[g]
        /\ (g \in open' <=> g \in open) /\ (g \in short' <=> g \in short)
    BY <1>0, <1>2, WriterFrame DEF fileVars
  <2>3. QED BY <2>1, <2>2 DEF SameFile
<1>5. ASSUME NEW v \in Works \ {t}
      PROVE  SameWork(v)
  <2>1. CASE OpenTool(t) \/ IngestRefused(t) \/ FinishTool(t) \/ IngestStep(t)
    <3>1. UNCHANGED blamed
      BY <2>1 DEF OpenTool, IngestRefused, FinishTool, IngestStep, causeVars
    <3>2. \E phase, step, status : Goto(t, phase, step, status)
      BY <2>1 DEF OpenTool, IngestRefused, FinishTool, IngestStep
    <3>3. QED BY <1>0, <3>1, <3>2, GotoFrame DEF SameWork
  <2>2. CASE OpenToolFails(t) \/ IngestFails(t) \/ FinishToolFails(t)
    BY <1>0, <2>2, GotoFrame, FaultFrame DEF OpenToolFails, IngestFails, FinishToolFails, SameWork
  <2>3. CASE Stage(t) \/ Staged(t)
    BY <2>3 DEF Stage, Staged, causeVars, SameWork
  <2>4. CASE \E d : Answers(t, d)
    BY <1>0, <2>4, GotoFrame DEF Answers, causeVars, SameWork
  <2>5. CASE \E status : Throws(t, status)
    BY <1>0, <2>5, GotoFrame DEF Throws, SameWork
  <2>6. QED BY <2>1, <2>2, <2>3, <2>4, <2>5 DEF ToolStep
<1>6. ASSUME NEW a \in Attempts
      PROVE  SameAttempt(a)
  <2>1. \A k \in Kinds : <<a, k>> \in Files \ {t}
    BY OwnFiles
  <2>2. a \in Works \ {t}
    BY OwnFiles DEF Kinds
  <2>3. QED BY <1>1, <1>4, <1>5, <2>1, <2>2 DEF SameAttempt
<1>7. ASSUME NEW u \in Tools \ {t}
      PROVE  SameTool(u)
  <2>1. u \in Files \ {t} /\ u \in Works \ {t}
    BY DEF Files, Works
  <2>2. u \in refs' <=> u \in refs
    BY DEF ToolStep, OpenTool, OpenToolFails, Stage, Staged, Answers, Throws, IngestStep, IngestRefused,
           IngestFails, FinishTool, FinishToolFails, rowVars
  <2>3. input'[u] = input[u]
    BY <1>0 DEF ToolStep, OpenTool, OpenToolFails, Stage, Staged, Answers, Throws, IngestStep, IngestRefused,
           IngestFails, FinishTool, FinishToolFails, ingressVars, WorkTypes
  <2>4. staged'[u] = staged[u]
    <3>1. CASE IngestStep(t)
      <4>1. CASE UNCHANGED staged
        BY <4>1
      <4>2. CASE ~UNCHANGED staged
        <5>1. PICK d \in input[t] : IngestOrder[at[t].step] = "remove" /\ staged' = [staged EXCEPT ![d] = "imported"]
          BY <3>1, <4>2 DEF IngestStep, ReadStaged
        <5>2. at[t].step \in 1 .. 4 /\ at[t].step > 2 => input[t] = {t}
          BY <3>1 DEF IngestStep, At, ToolInv, IngestInv
        <5>3. at[t].step = 4
          BY <3>1, <5>1, <5>2 DEF IngestOrder, IngestStep, At, ToolInv, IngestInv
        <5>4. d = t
          BY <3>1, <5>1, <5>3 DEF IngestStep, At, ToolInv, IngestInv
        <5>5. QED BY <1>0, <5>1, <5>4 DEF WorkTypes
      <4>3. QED BY <4>1, <4>2
    <3>2. CASE Stage(t) \/ Staged(t)
      BY <1>0, <3>2 DEF Stage, Staged, WorkTypes
    <3>3. CASE ~(IngestStep(t) \/ Stage(t) \/ Staged(t))
      BY <3>3 DEF ToolStep, OpenTool, OpenToolFails, Answers, Throws, IngestRefused,
                  IngestFails, FinishTool, FinishToolFails, ingressVars
    <3>4. QED BY <3>1, <3>2, <3>3
  <2>5. QED BY <1>4, <1>5, <2>1, <2>2, <2>3, <2>4 DEF SameTool
<1>8. QED BY <1>1, <1>6, <1>7

-----------------------------------------------------------------------------
(* What a step does to its own work.                                       *)

\* What a writer does to its file.
LEMMA WriterEffect ==
  ASSUME FileTypes, NEW f \in Files
  PROVE  /\ Create(f) =>
              /\ f \in open' /\ file'[f].name = "partial" /\ file'[f].data = file[f].data
              /\ written' = written /\ short' = short
         /\ Finalize(f) =>
              /\ f \in open /\ f \notin open' /\ file'[f].name = "final" /\ file'[f].data = file[f].data
              /\ written' = written /\ short' = short
         /\ FinalizeFails(f) => f \in open /\ f \notin open' /\ UNCHANGED <<file, written, short>>
         /\ Abort(f) =>
              /\ f \notin open' /\ written' = written /\ short' = short
              /\ f \in open => file'[f].name = "none" /\ file'[f].data = <<>>
              /\ f \notin open => file' = file
BY DEF FileTypes, Create, Finalize, FinalizeFails, Abort

LEMMA WriteEffect ==
  ASSUME FileTypes, NEW f \in Files, NEW piece, Write(f, piece)
  PROVE  /\ open' = open /\ file'[f].name = file[f].name
         /\ written'[f] = Append(written[f], piece)
         /\ \/ file'[f].data = Append(file[f].data, piece) /\ short' = short
            \/ file'[f].data = file[f].data /\ f \in short'
BY DEF FileTypes, Write

LEMMA SaveEffect ==
  ASSUME RowTypes, NEW f \in Files, NEW status, NEW data, Save(f, status, data)
  PROVE  row'[f].status = status /\ row'[f].data = data
BY DEF RowTypes, Save

LEMMA GotoEffect ==
  ASSUME WorkTypes, NEW w \in Works, NEW phase, NEW step, NEW status, Goto(w, phase, step, status)
  PROVE  at'[w].phase = phase /\ at'[w].step = step /\ at'[w].status = status
BY DEF WorkTypes, Goto, Place

Reached(w, phase, step) == at'[w].phase = phase /\ at'[w].step = step

\* An attempt is opened file by file, row by row.
LEMMA OpenEffect ==
  ASSUME TypeOK, NEW a \in Attempts, AttemptInv(a), OpenStep(a)
  PROVE  LET r == <<a, "request">> e == <<a, "events">> step == at[a].step IN
         /\ at[a].phase = "idle" /\ blamed' = blamed
         /\ step \in 1 .. 6
         /\ step = 1 => Create(r) /\ UNCHANGED <<row, attempt>> /\ Reached(a, "idle", 2)
         /\ step = 2 => Create(e) /\ UNCHANGED <<row, attempt>> /\ Reached(a, "idle", 3)
         /\ step = 3 => Save(r, "partial", <<>>) /\ UNCHANGED <<fileVars, attempt>> /\ Reached(a, "idle", 4)
         /\ step = 4 => Save(e, "partial", <<>>) /\ UNCHANGED <<fileVars, attempt>> /\ Reached(a, "idle", 5)
         /\ step = 5 => UNCHANGED <<fileVars, row, attempt>> /\ Reached(a, "idle", 6)
         /\ step = 6 => attempt'[a] = "running" /\ UNCHANGED <<fileVars, row>> /\ Reached(a, "invoking", 0)
<1> DEFINE what == OpenOrder[at[a].step] f == NamedFile(a, what)
           Act == \/ what \in {"request file", "events file"} /\ Create(f) /\ UNCHANGED rowVars
                  \/ what \in {"request row", "events row"} /\ Save(f, "partial", <<>>) /\ UNCHANGED <<fileVars, op, attempt, refs>>
                  \/ what = "operation" /\ UNCHANGED <<fileVars, row, attempt, refs>>
                  \/ what = "attempt" /\ attempt' = [attempt EXCEPT ![a] = "running"] /\ UNCHANGED <<fileVars, row, op, refs>>
<1>0. /\ at[a].step < 6 => Goto(a, "idle", at[a].step + 1, "none")
      /\ ~(at[a].step < 6) => Goto(a, "invoking", 0, "none")
  BY DEF OpenStep
<1>1. at[a].phase = "idle" /\ blamed' = blamed /\ Act
  BY DEF OpenStep, causeVars
<1>2. at[a].step \in 1 .. 6 /\ WorkTypes /\ RowTypes /\ a \in Works
  <2>1. WorkTypes /\ RowTypes /\ a \in Works
    BY DEF TypeOK, Works
  <2>2. at[a].step \in 0 .. 6
    BY <2>1 DEF WorkTypes
  <2>3. at[a].step >= 1
    BY <1>1 DEF AttemptInv, IdleInv
  <2>4. QED BY <2>1, <2>2, <2>3
<1>3. /\ at[a].step < 6 => Reached(a, "idle", at[a].step + 1)
      /\ at[a].step = 6 => Reached(a, "invoking", 0)
  <2>1. CASE at[a].step < 6
    BY <1>0, <1>2, <2>1, GotoEffect DEF Reached
  <2>2. CASE at[a].step = 6
    <3>1. Goto(a, "invoking", 0, "none")
      BY <1>0, <2>2
    <3>2. QED BY <1>2, <2>2, <3>1, GotoEffect DEF Reached
  <2>3. QED BY <1>2, <2>1, <2>2
<1>4. ASSUME at[a].step = 1
      PROVE  Create(<<a, "request">>) /\ UNCHANGED <<row, attempt>> /\ Reached(a, "idle", 2)
  <2>1. what = "request file" /\ f = <<a, "request">>
    BY <1>4 DEF OpenOrder, NamedFile
  <2>2. at[a].step < 6 /\ at[a].step + 1 = 2
    BY <1>4
  <2>3. QED BY <1>1, <1>3, <1>4, <2>1, <2>2 DEF rowVars
<1>5. ASSUME at[a].step = 2
      PROVE  Create(<<a, "events">>) /\ UNCHANGED <<row, attempt>> /\ Reached(a, "idle", 3)
  <2>1. what = "events file" /\ f = <<a, "events">>
    BY <1>5 DEF OpenOrder, NamedFile
  <2>2. at[a].step < 6 /\ at[a].step + 1 = 3
    BY <1>5
  <2>3. QED BY <1>1, <1>3, <1>5, <2>1, <2>2 DEF rowVars
<1>6. ASSUME at[a].step = 3
      PROVE  Save(<<a, "request">>, "partial", <<>>) /\ UNCHANGED <<fileVars, attempt>> /\ Reached(a, "idle", 4)
  <2>1. what = "request row" /\ f = <<a, "request">>
    BY <1>6 DEF OpenOrder, NamedFile
  <2>2. at[a].step < 6 /\ at[a].step + 1 = 4
    BY <1>6
  <2>3. QED BY <1>1, <1>3, <1>6, <2>1, <2>2
<1>7. ASSUME at[a].step = 4
      PROVE  Save(<<a, "events">>, "partial", <<>>) /\ UNCHANGED <<fileVars, attempt>> /\ Reached(a, "idle", 5)
  <2>1. what = "events row" /\ f = <<a, "events">>
    BY <1>7 DEF OpenOrder, NamedFile
  <2>2. at[a].step < 6 /\ at[a].step + 1 = 5
    BY <1>7
  <2>3. QED BY <1>1, <1>3, <1>7, <2>1, <2>2
<1>8. ASSUME at[a].step = 5
      PROVE  UNCHANGED <<fileVars, row, attempt>> /\ Reached(a, "idle", 6)
  <2>1. what = "operation"
    BY <1>8 DEF OpenOrder
  <2>2. at[a].step < 6 /\ at[a].step + 1 = 6
    BY <1>8
  <2>3. QED BY <1>1, <1>3, <1>8, <2>1, <2>2
<1>9. ASSUME at[a].step = 6
      PROVE  attempt'[a] = "running" /\ UNCHANGED <<fileVars, row>> /\ Reached(a, "invoking", 0)
  <2>1. what = "attempt"
    BY <1>9 DEF OpenOrder
  <2>2. QED BY <1>1, <1>2, <1>3, <1>9, <2>1 DEF RowTypes
<1>10. at[a].phase = "idle" /\ blamed' = blamed /\ at[a].step \in 1 .. 6
  BY <1>1, <1>2
<1>11. QED BY <1>4, <1>5, <1>6, <1>7, <1>8, <1>9, <1>10, Zenon

\* It is closed in the same way.
LEMMA CloseEffect ==
  ASSUME TypeOK, NEW a \in Attempts, AttemptInv(a), CloseStep(a)
  PROVE  LET r == <<a, "request">> e == <<a, "events">> step == at[a].step status == at[a].status IN
         /\ at[a].phase = "closing" /\ blamed' = blamed
         /\ step \in 1 .. 6
         /\ step = 1 => Finalize(r) /\ UNCHANGED <<row, attempt>> /\ Reached(a, "closing", 2)
         /\ step = 2 => Finalize(e) /\ UNCHANGED <<row, attempt>> /\ Reached(a, "closing", 3)
         /\ step = 3 => Save(r, TraceStatus(status), written[r]) /\ UNCHANGED <<fileVars, attempt>>
                          /\ Reached(a, "closing", 4)
         /\ step = 4 => Save(e, TraceStatus(status), written[e]) /\ UNCHANGED <<fileVars, attempt>>
                          /\ Reached(a, "closing", 5)
         /\ step = 5 => attempt'[a] = status /\ UNCHANGED <<fileVars, row>> /\ Reached(a, "closing", 6)
         /\ step = 6 => UNCHANGED <<fileVars, row, attempt>> /\ Reached(a, "over", 0)
         /\ at'[a].status = status
<1> DEFINE what == CloseOrder[at[a].step] f == NamedFile(a, what) status == at[a].status
           Act == \/ what \in {"request file", "events file"} /\ Finalize(f) /\ UNCHANGED rowVars
                  \/ what \in {"request row", "events row"} /\ Save(f, TraceStatus(status), written[f]) /\ UNCHANGED <<fileVars, op, attempt, refs>>
                  \/ what = "attempt" /\ attempt' = [attempt EXCEPT ![a] = status] /\ UNCHANGED <<fileVars, row, op, refs>>
                  \/ what = "operation" /\ UNCHANGED <<fileVars, row, attempt, refs>>
<1>0. /\ at[a].step < 6 => Goto(a, "closing", at[a].step + 1, status)
      /\ ~(at[a].step < 6) => Goto(a, "over", 0, status)
  BY DEF CloseStep
<1>1. at[a].phase = "closing" /\ blamed' = blamed /\ Act
  BY DEF CloseStep, At, causeVars
<1>2. at[a].step \in 1 .. 6 /\ WorkTypes /\ RowTypes /\ a \in Works
  <2>1. WorkTypes /\ RowTypes /\ a \in Works
    BY DEF TypeOK, Works
  <2>2. at[a].step \in 0 .. 6
    BY <2>1 DEF WorkTypes
  <2>3. at[a].step >= 1
    BY <1>1 DEF AttemptInv, ClosingInv
  <2>4. QED BY <2>1, <2>2, <2>3
<1>3. /\ at[a].step < 6 => Reached(a, "closing", at[a].step + 1)
      /\ at[a].step = 6 => Reached(a, "over", 0)
      /\ at'[a].status = status
  <2>1. CASE at[a].step < 6
    BY <1>0, <1>2, <2>1, GotoEffect DEF Reached
  <2>2. CASE at[a].step = 6
    <3>1. Goto(a, "over", 0, status)
      BY <1>0, <2>2
    <3>2. QED BY <1>2, <2>2, <3>1, GotoEffect DEF Reached
  <2>3. QED BY <1>2, <2>1, <2>2
<1>4. ASSUME at[a].step = 1
      PROVE  Finalize(<<a, "request">>) /\ UNCHANGED <<row, attempt>> /\ Reached(a, "closing", 2)
  <2>1. what = "request file" /\ f = <<a, "request">>
    BY <1>4 DEF CloseOrder, NamedFile
  <2>2. at[a].step < 6 /\ at[a].step + 1 = 2
    BY <1>4
  <2>3. QED BY <1>1, <1>3, <1>4, <2>1, <2>2 DEF rowVars
<1>5. ASSUME at[a].step = 2
      PROVE  Finalize(<<a, "events">>) /\ UNCHANGED <<row, attempt>> /\ Reached(a, "closing", 3)
  <2>1. what = "events file" /\ f = <<a, "events">>
    BY <1>5 DEF CloseOrder, NamedFile
  <2>2. at[a].step < 6 /\ at[a].step + 1 = 3
    BY <1>5
  <2>3. QED BY <1>1, <1>3, <1>5, <2>1, <2>2 DEF rowVars
<1>6. ASSUME at[a].step = 3
      PROVE  /\ Save(<<a, "request">>, TraceStatus(status), written[<<a, "request">>])
             /\ UNCHANGED <<fileVars, attempt>> /\ Reached(a, "closing", 4)
  <2>1. what = "request row" /\ f = <<a, "request">>
    BY <1>6 DEF CloseOrder, NamedFile
  <2>2. at[a].step < 6 /\ at[a].step + 1 = 4
    BY <1>6
  <2>3. QED BY <1>1, <1>3, <1>6, <2>1, <2>2
<1>7. ASSUME at[a].step = 4
      PROVE  /\ Save(<<a, "events">>, TraceStatus(status), written[<<a, "events">>])
             /\ UNCHANGED <<fileVars, attempt>> /\ Reached(a, "closing", 5)
  <2>1. what = "events row" /\ f = <<a, "events">>
    BY <1>7 DEF CloseOrder, NamedFile
  <2>2. at[a].step < 6 /\ at[a].step + 1 = 5
    BY <1>7
  <2>3. QED BY <1>1, <1>3, <1>7, <2>1, <2>2
<1>8. ASSUME at[a].step = 5
      PROVE  attempt'[a] = status /\ UNCHANGED <<fileVars, row>> /\ Reached(a, "closing", 6)
  <2>1. what = "attempt"
    BY <1>8 DEF CloseOrder
  <2>2. at[a].step < 6 /\ at[a].step + 1 = 6
    BY <1>8
  <2>3. QED BY <1>1, <1>2, <1>3, <1>8, <2>1, <2>2 DEF RowTypes
<1>9. ASSUME at[a].step = 6
      PROVE  UNCHANGED <<fileVars, row, attempt>> /\ Reached(a, "over", 0)
  <2>1. what = "operation"
    BY <1>9 DEF CloseOrder
  <2>2. QED BY <1>1, <1>3, <1>9, <2>1
<1>10. at[a].phase = "closing" /\ blamed' = blamed /\ at[a].step \in 1 .. 6 /\ at'[a].status = status
  BY <1>1, <1>2, <1>3
<1>11. QED BY <1>4, <1>5, <1>6, <1>7, <1>8, <1>9, <1>10, Zenon

\* The file a writer does not write to stays.
LEMMA OtherTrace ==
  ASSUME TypeOK, NEW f \in Files, NEW g \in Files \ {f}, TraceInv(g), WriterStep(f), UNCHANGED row
  PROVE  /\ TraceInv(g)' /\ (Saved(g)' <=> Saved(g)) /\ row'[g] = row[g]
         /\ (Fresh(g)' <=> Fresh(g)) /\ (Growing(g)' <=> Growing(g)) /\ (Whole(g)' <=> Whole(g))
         /\ (g \in open' <=> g \in open)
BY WriterFrame DEF TypeOK, TraceInv, Saved, Counted, Fresh, Growing, Whole

\* The states of an attempt's traces, row and file together.
LEMMA AttemptOwn ==
  ASSUME TypeOK, NEW a \in Attempts, AttemptInv(a), AttemptStep(a)
  PROVE  AttemptInv(a)'
<1> DEFINE r == <<a, "request">> e == <<a, "events">>
<1>0. /\ a \in Works /\ r \in Files \ {e} /\ e \in Files \ {r}
      /\ FileTypes /\ RowTypes /\ WorkTypes
      /\ TraceInv(r) /\ TraceInv(e) /\ IdleInv(a, r, e) /\ InvokingInv(a, r, e)
      /\ ClosingInv(a, r, e) /\ OverInv(a, r, e)
  BY OwnFiles DEF TypeOK, Kinds, AttemptInv
<1>1. CASE OpenStep(a)
  <2>0. at[a].phase = "idle" /\ attempt[a] = "none" /\ ~Saved(r) /\ ~Saved(e) /\ at[a].step \in 1 .. 6
    BY <1>0, <1>1, OpenEffect DEF IdleInv
  <2>1. CASE at[a].step = 1
    <3>1. Create(r) /\ UNCHANGED <<row, attempt>> /\ at'[a].phase = "idle" /\ at'[a].step = 2 /\ blamed' = blamed
      BY <1>1, <2>1, OpenEffect DEF Reached
    <3>2. /\ TraceInv(e)' /\ ~Saved(e)' /\ Fresh(e)'
      BY <1>0, <2>0, <2>1, <3>1, OtherTrace DEF WriterStep, IdleInv
    <3>3. TraceInv(r)' /\ ~Saved(r)' /\ Growing(r)'
      BY <1>0, <2>0, <3>1, WriterEffect DEF TraceInv, Saved, Growing, Counted
    <3>4. QED BY <2>0, <3>1, <3>2, <3>3 DEF AttemptInv, IdleInv, InvokingInv, ClosingInv, OverInv, Ended
  <2>2. CASE at[a].step = 2
    <3>1. Create(e) /\ UNCHANGED <<row, attempt>> /\ at'[a].phase = "idle" /\ at'[a].step = 3 /\ blamed' = blamed
      BY <1>1, <2>2, OpenEffect DEF Reached
    <3>2. /\ TraceInv(r)' /\ ~Saved(r)' /\ Growing(r)'
      BY <1>0, <2>0, <2>2, <3>1, OtherTrace DEF WriterStep, IdleInv
    <3>3. TraceInv(e)' /\ ~Saved(e)' /\ Growing(e)'
      BY <1>0, <2>0, <3>1, WriterEffect DEF TraceInv, Saved, Growing, Counted
    <3>4. QED BY <2>0, <3>1, <3>2, <3>3 DEF AttemptInv, IdleInv, InvokingInv, ClosingInv, OverInv, Ended
  <2>3. CASE at[a].step \in 3 .. 6
    <3>1. /\ UNCHANGED fileVars /\ blamed' = blamed
          /\ \/ \E f \in {r, e} : Save(f, "partial", <<>>)
             \/ UNCHANGED row
      BY <1>1, <2>3, OpenEffect DEF Reached
    <3>2. ~Saved(r)' /\ ~Saved(e)'
      BY <1>0, <2>0, <3>1, SaveEffect, SaveFrame DEF Saved
    <3>3. TraceInv(r)' /\ TraceInv(e)'
      BY <1>0, <3>1, <3>2 DEF TraceInv, fileVars, Counted
    <3>4. Growing(r)' /\ Growing(e)'
      BY <1>0, <2>0, <2>3, <3>1 DEF IdleInv, Growing, fileVars
    <3>5. CASE at[a].step < 6
      <4>1. at'[a].phase = "idle" /\ at'[a].step = at[a].step + 1 /\ attempt' = attempt
        <5>1. at[a].step = 3 \/ at[a].step = 4 \/ at[a].step = 5
          BY <2>3, <3>5
        <5>2. CASE at[a].step = 3
          <6>1. Reached(a, "idle", 4) /\ attempt' = attempt
            BY <1>1, <5>2, OpenEffect
          <6>2. QED BY <5>2, <6>1 DEF Reached
        <5>3. CASE at[a].step = 4
          <6>1. Reached(a, "idle", 5) /\ attempt' = attempt
            BY <1>1, <5>3, OpenEffect
          <6>2. QED BY <5>3, <6>1 DEF Reached
        <5>4. CASE at[a].step = 5
          <6>1. Reached(a, "idle", 6) /\ attempt' = attempt
            BY <1>1, <5>4, OpenEffect
          <6>2. QED BY <5>4, <6>1 DEF Reached
        <5>5. QED BY <5>1, <5>2, <5>3, <5>4
      <4>2. at'[a].step > 2 /\ at'[a].step >= 1 /\ ~(at'[a].step <= 1) /\ ~(at'[a].step <= 2)
        BY <2>3, <4>1
      <4>3. QED BY <2>0, <3>2, <3>3, <3>4, <4>1, <4>2
                DEF AttemptInv, IdleInv, InvokingInv, ClosingInv, OverInv, Ended
    <3>6. CASE at[a].step = 6
      <4>1. at'[a].phase = "invoking" /\ attempt'[a] = "running"
        BY <1>1, <3>6, OpenEffect DEF Reached
      <4>2. QED BY <3>2, <3>3, <3>4, <4>1 DEF AttemptInv, IdleInv, InvokingInv, ClosingInv, OverInv, Ended
    <3>7. QED BY <2>3, <3>5, <3>6
  <2>4. QED BY <2>0, <2>1, <2>2, <2>3
<1>2. CASE OpenFails(a)
  <2>1. at[a].phase = "idle" /\ a \in blamed' /\ Goto(a, "over", 0, "none") /\ UNCHANGED <<fileVars, rowVars>>
    BY <1>2 DEF OpenFails, At, Fault
  <2>2. at'[a].phase = "over"
    BY <1>0, <2>1, GotoEffect
  <2>3. TraceInv(r)' /\ TraceInv(e)'
    BY <1>0, <2>1 DEF TraceInv, fileVars, rowVars, Counted, Saved, Whole
  <2>4. attempt'[a] = "none"
    BY <1>0, <2>1 DEF IdleInv, rowVars
  <2>5. QED BY <2>1, <2>2, <2>3, <2>4 DEF AttemptInv, IdleInv, InvokingInv, ClosingInv, OverInv, Ended
<1>3. CASE CloseStep(a)
  <2>0. at[a].phase = "closing" /\ at[a].step \in 1 .. 6 /\ at[a].status \in Ended
    <3>1. at[a].phase = "closing"
      BY <1>3, CloseEffect DEF Reached
    <3>2. at[a].step >= 1 /\ at[a].status \in Ended
      BY <1>0, <3>1 DEF ClosingInv
    <3>3. at[a].step \in 0 .. 6
      BY <1>0 DEF WorkTypes
    <3>4. QED BY <3>1, <3>2, <3>3
  <2>1. CASE at[a].step = 1
    <3>1. /\ Finalize(r) /\ UNCHANGED <<row, attempt>> /\ at'[a].phase = "closing" /\ at'[a].step = 2
          /\ blamed' = blamed /\ at'[a].status = at[a].status
      BY <1>3, <2>1, CloseEffect DEF Reached
    <3>2. TraceInv(e)' /\ (e \in open' <=> e \in open)
      BY <1>0, <3>1, OtherTrace DEF WriterStep
    <3>3. r \in open /\ TraceInv(r)' /\ Whole(r)'
      BY <1>0, <3>1, WriterEffect DEF TraceInv, Saved, Whole, Counted
    <3>4. attempt'[a] = "running"
      BY <1>0, <2>0, <2>1, <3>1, <3>3 DEF ClosingInv
    <3>5. a \notin blamed => e \in open
      BY <1>0, <2>0, <2>1 DEF ClosingInv
    <3>6. ClosingInv(a, r, e)'
      BY <2>0, <3>1, <3>2, <3>3, <3>4, <3>5 DEF ClosingInv
    <3>7. QED BY <3>1, <3>2, <3>3, <3>4, <3>6 DEF AttemptInv, IdleInv, InvokingInv, OverInv, Ended
  <2>2. CASE at[a].step = 2
    <3>1. /\ Finalize(e) /\ UNCHANGED <<row, attempt>> /\ at'[a].phase = "closing" /\ at'[a].step = 3
          /\ blamed' = blamed /\ at'[a].status = at[a].status
      BY <1>3, <2>2, CloseEffect DEF Reached
    <3>2. Whole(r) /\ attempt[a] = "running"
      BY <1>0, <2>0, <2>2 DEF ClosingInv
    <3>3. TraceInv(r)' /\ Whole(r)'
      BY <1>0, <3>1, <3>2, OtherTrace DEF WriterStep
    <3>4. TraceInv(e)' /\ Whole(e)'
      BY <1>0, <3>1, WriterEffect DEF TraceInv, Saved, Whole, Counted
    <3>5. ClosingInv(a, r, e)'
      BY <2>0, <3>1, <3>2, <3>3, <3>4 DEF ClosingInv
    <3>6. QED BY <3>1, <3>2, <3>3, <3>4, <3>5 DEF AttemptInv, IdleInv, InvokingInv, OverInv, Ended
  <2>3. CASE at[a].step = 3
    <3>1. /\ Save(r, TraceStatus(at[a].status), written[r]) /\ UNCHANGED <<fileVars, attempt>>
          /\ at'[a].phase = "closing" /\ at'[a].step = 4
          /\ blamed' = blamed /\ at'[a].status = at[a].status
      BY <1>3, <2>3, CloseEffect DEF Reached
    <3>2. Whole(r) /\ Whole(e) /\ attempt[a] = "running"
      BY <1>0, <2>0, <2>3 DEF ClosingInv
    <3>3. row'[e] = row[e] /\ row'[r].status = TraceStatus(at[a].status) /\ row'[r].data = written[r]
      BY <1>0, <3>1, SaveEffect, SaveFrame
    <3>4. TraceInv(r)' /\ TraceInv(e)' /\ Whole(r)' /\ Whole(e)'
      BY <1>0, <3>1, <3>2, <3>3 DEF TraceInv, fileVars, Saved, Whole, Counted
    <3>5. ClosingInv(a, r, e)'
      BY <2>0, <3>1, <3>2, <3>3, <3>4 DEF ClosingInv
    <3>6. QED BY <3>1, <3>2, <3>4, <3>5 DEF AttemptInv, IdleInv, InvokingInv, OverInv, Ended
  <2>4. CASE at[a].step = 4
    <3>1. /\ Save(e, TraceStatus(at[a].status), written[e]) /\ UNCHANGED <<fileVars, attempt>>
          /\ at'[a].phase = "closing" /\ at'[a].step = 5
          /\ blamed' = blamed /\ at'[a].status = at[a].status
      BY <1>3, <2>4, CloseEffect DEF Reached
    <3>2. Whole(r) /\ Whole(e) /\ attempt[a] = "running" /\ row[r].status = TraceStatus(at[a].status)
      BY <1>0, <2>0, <2>4 DEF ClosingInv
    <3>3. row'[r] = row[r] /\ row'[e].status = TraceStatus(at[a].status) /\ row'[e].data = written[e]
      BY <1>0, <3>1, SaveEffect, SaveFrame
    <3>4. TraceInv(r)' /\ TraceInv(e)' /\ Whole(r)' /\ Whole(e)'
      BY <1>0, <3>1, <3>2, <3>3 DEF TraceInv, fileVars, Saved, Whole, Counted
    <3>5. ClosingInv(a, r, e)'
      BY <2>0, <3>1, <3>2, <3>3, <3>4 DEF ClosingInv
    <3>6. QED BY <3>1, <3>2, <3>4, <3>5 DEF AttemptInv, IdleInv, InvokingInv, OverInv, Ended
  <2>5. CASE at[a].step \in 5 .. 6
    <3>1. /\ UNCHANGED <<fileVars, row>> /\ blamed' = blamed /\ at'[a].status = at[a].status
          /\ at[a].step = 5 => at'[a].phase = "closing" /\ at'[a].step = 6 /\ attempt'[a] = at[a].status
          /\ at[a].step = 6 => at'[a].phase = "over" /\ attempt'[a] = attempt[a]
      <4>1. at[a].step = 5 \/ at[a].step = 6
        BY <2>5
      <4>2. QED BY <1>3, <4>1, CloseEffect DEF Reached
    <3>2. Whole(r) /\ Whole(e) /\ \A f \in {r, e} : row[f].status = TraceStatus(at[a].status)
      BY <1>0, <2>0, <2>5 DEF ClosingInv
    <3>3. TraceInv(r)' /\ TraceInv(e)' /\ Whole(r)' /\ Whole(e)' /\ row' = row
      BY <1>0, <3>1, <3>2 DEF TraceInv, fileVars, Saved, Whole, Counted
    <3>4. \A f \in {r, e} : Saved(f)' /\ (at[a].status = "completed") = (row[f].status = "completed")
      BY <3>2, <3>3 DEF Saved, TraceStatus
    <3>5. attempt'[a] = at[a].status
      BY <1>0, <2>0, <2>5, <3>1 DEF ClosingInv
    <3>6. OverInv(a, r, e)'
      BY <3>3, <3>4, <3>5 DEF OverInv
    <3>7. CASE at[a].step = 5
      <4>1. ClosingInv(a, r, e)'
        BY <2>0, <3>1, <3>2, <3>3, <3>7 DEF ClosingInv
      <4>2. QED BY <3>1, <3>3, <3>6, <3>7, <4>1 DEF AttemptInv, IdleInv, InvokingInv
    <3>8. CASE at[a].step = 6
      BY <3>1, <3>3, <3>6, <3>8 DEF AttemptInv, IdleInv, InvokingInv, ClosingInv
    <3>9. QED BY <2>5, <3>7, <3>8
  <2>6. QED BY <2>0, <2>1, <2>2, <2>3, <2>4, <2>5
<1>4. CASE CloseFails(a) \/ CloseRefused(a)
  <2>1. /\ at[a].phase = "closing" /\ UNCHANGED rowVars /\ Caught(a, "closing", at[a].status)
        /\ UNCHANGED fileVars \/ FinalizeFails(NamedFile(a, CloseOrder[at[a].step]))
        /\ CloseRefused(a) => UNCHANGED <<fileVars, blamed>>
        /\ CloseFails(a) => a \in blamed'
    BY <1>4 DEF CloseFails, CloseRefused, At, Fault, causeVars
  <2>2. /\ at[a].step \in 1 .. 6
        /\ at[a].step >= 2 => r \notin open
        /\ at[a].step >= 3 => e \notin open
    BY <1>0, <2>1 DEF ClosingInv, WorkTypes, Whole
  <2>3. a \in blamed'
    <3>1. CASE CloseRefused(a)
      <4>1. NamedFile(a, CloseOrder[at[a].step]) \notin open
        BY <3>1 DEF CloseRefused
      <4>2. CloseOrder[at[a].step] \in {"request file", "events file"}
        BY <3>1 DEF CloseRefused
      <4>3. at[a].step \in 1 .. 2
        <5>1. at[a].step \in 1 .. 2 \/ at[a].step = 3 \/ at[a].step = 4 \/ at[a].step = 5 \/ at[a].step = 6
          BY <2>2
        <5>2. /\ CloseOrder[3] = "request row" /\ CloseOrder[4] = "events row"
              /\ CloseOrder[5] = "attempt" /\ CloseOrder[6] = "operation"
          BY DEF CloseOrder
        <5>3. QED BY <4>2, <5>1, <5>2
      <4>4. CASE at[a].step = 1
        BY <1>0, <2>1, <3>1, <4>1, <4>4 DEF ClosingInv, NamedFile, CloseOrder
      <4>5. CASE at[a].step = 2
        BY <1>0, <2>1, <3>1, <4>1, <4>5 DEF ClosingInv, NamedFile, CloseOrder
      <4>6. QED BY <4>3, <4>4, <4>5
    <3>2. QED BY <1>4, <2>1, <3>1
  <2>4. r \notin open'
    <3>1. CASE CloseFails(a)
      <4>1. CASE at[a].step = 1
        <5>1. FinalizeFails(r)
          BY <3>1, <4>1 DEF CloseFails, CloseOrder, NamedFile
        <5>2. QED BY <5>1 DEF FinalizeFails
      <4>2. CASE at[a].step >= 2
        BY <2>1, <2>2, <4>2 DEF FinalizeFails, fileVars
      <4>3. QED BY <2>2, <4>1, <4>2
    <3>2. CASE CloseRefused(a)
      <4>1. CASE at[a].step = 1
        BY <2>1, <3>2, <4>1 DEF CloseRefused, CloseOrder, NamedFile, fileVars
      <4>2. CASE at[a].step >= 2
        BY <2>1, <2>2, <3>2, <4>2 DEF fileVars
      <4>3. QED BY <2>2, <4>1, <4>2
    <3>3. QED BY <1>4, <3>1, <3>2
  <2>5. UNCHANGED <<file, written, short, row, attempt>> /\ open' \subseteq open
    BY <2>1 DEF FinalizeFails, fileVars, rowVars
  <2>6. TraceInv(r)' /\ TraceInv(e)' /\ \A f \in {r, e} : Saved(f)' <=> Saved(f)
    BY <1>0, <2>5 DEF TraceInv, Counted, Saved, Whole
  <2>7. OverInv(a, r, e)'
    BY <1>0, <2>3, <2>5, <2>6 DEF OverInv
  <2>8. \/ at'[a].phase = "closing" /\ at'[a].step = 1 /\ at'[a].status = "failed"
        \/ at'[a].phase = "over"
    BY <1>0, <2>1, GotoEffect DEF Caught
  <2>9. ClosingInv(a, r, e)'
    BY <2>3, <2>4, <2>8 DEF ClosingInv, Ended
  <2>10. QED BY <2>6, <2>7, <2>8, <2>9 DEF AttemptInv, IdleInv, InvokingInv
<1>5. ASSUME NEW kind \in Kinds, Record(a, kind)
      PROVE  AttemptInv(a)'
  <2>1. /\ at[a].phase = "invoking" /\ UNCHANGED <<rowVars, at, blamed>>
        /\ \E piece : Write(<<a, kind>>, piece)
    BY <1>5 DEF Record, At
  <2>2. Growing(r) /\ Growing(e) /\ ~Saved(r) /\ ~Saved(e)
    BY <1>0, <2>1 DEF InvokingInv
  <2>3. ASSUME NEW f \in {r, e} PROVE TraceInv(f)' /\ Growing(f)' /\ ~Saved(f)'
    <3>1. CASE f = <<a, kind>>
      <4>1. PICK piece : Write(f, piece)
        BY <2>1, <3>1
      <4>2. /\ open' = open /\ file'[f].name = file[f].name
            /\ written'[f] = Append(written[f], piece)
            /\ \/ file'[f].data = Append(file[f].data, piece) /\ short' = short
               \/ file'[f].data = file[f].data /\ f \in short'
        BY <1>0, <2>3, <4>1, WriteEffect
      <4>3. Counted(f)'
        <5>1. file[f].data = written[f] \/ f \in short
          BY <1>0, <2>3 DEF TraceInv, Counted
        <5>2. CASE f \in short'
          BY <5>2 DEF Counted
        <5>3. CASE f \notin short'
          <6>1. file'[f].data = Append(file[f].data, piece) /\ file[f].data = written[f]
            BY <4>2, <5>1, <5>3
          <6>2. QED BY <4>2, <6>1 DEF Counted
        <5>4. QED BY <5>2, <5>3
      <4>4. QED BY <1>0, <2>1, <2>2, <2>3, <4>2, <4>3 DEF TraceInv, Growing, Saved, rowVars
    <3>2. CASE f # <<a, kind>>
      <4>1. <<a, kind>> \in Files /\ f \in Files \ {<<a, kind>>} /\ WriterStep(<<a, kind>>)
        BY <1>0, <2>1, <2>3, <3>2, OwnFiles DEF WriterStep
      <4>2. QED BY <1>0, <2>1, <2>2, <2>3, <4>1, OtherTrace DEF rowVars
    <3>3. QED BY <3>1, <3>2
  <2>4. QED BY <1>0, <2>1, <2>3 DEF AttemptInv, IdleInv, InvokingInv, ClosingInv, OverInv, rowVars, Ended
<1>6. ASSUME NEW status \in {"completed", "failed", "cancelled"}, Invoked(a, status)
      PROVE  AttemptInv(a)'
  <2>1. /\ at[a].phase = "invoking" /\ UNCHANGED <<fileVars, rowVars, blamed>>
        /\ Goto(a, "closing", 1, status)
    BY <1>6 DEF Invoked, At, causeVars
  <2>2. at'[a].phase = "closing" /\ at'[a].step = 1 /\ at'[a].status = status
    BY <1>0, <2>1, GotoEffect
  <2>3. Growing(r) /\ Growing(e) /\ attempt[a] = "running"
    BY <1>0, <2>1 DEF InvokingInv
  <2>4. TraceInv(r)' /\ TraceInv(e)'
    BY <1>0, <2>1 DEF TraceInv, fileVars, rowVars, Counted, Saved, Whole
  <2>5. ClosingInv(a, r, e)'
    BY <2>1, <2>2, <2>3 DEF ClosingInv, Growing, fileVars, rowVars, Ended
  <2>6. QED BY <2>1, <2>2, <2>3, <2>4, <2>5 DEF AttemptInv, IdleInv, InvokingInv, OverInv, rowVars, Ended
<1>7. QED BY <1>1, <1>2, <1>3, <1>4, <1>5, <1>6 DEF AttemptStep

\* A tool's output is imported step by step, if it is its own.
LEMMA IngestEffect ==
  ASSUME TypeOK, NEW t \in Tools, ToolInv(t), IngestStep(t)
  PROVE  LET step == at[t].step IN
         /\ at[t].phase = "ingesting" /\ UNCHANGED <<rowVars, input, blamed>> /\ step \in 1 .. 4
         /\ step = 1 => Create(t) /\ UNCHANGED staged /\ Reached(t, "ingesting", 2)
         /\ step = 2 => /\ Write(t, t) /\ UNCHANGED staged /\ Reached(t, "ingesting", 3)
                        /\ input[t] = {t} /\ staged[t] = "staged"
         /\ step = 3 => Finalize(t) /\ UNCHANGED staged /\ Reached(t, "ingesting", 4)
         /\ step = 4 => /\ UNCHANGED fileVars /\ staged'[t] = "imported"
                        /\ Reached(t, "finishing", 1) /\ at'[t].status = "completed"
<1> DEFINE what == IngestOrder[at[t].step]
           Act(d) == \/ what = "create" /\ Create(t) /\ UNCHANGED <<staged, faults>>
                     \/ what = "read" /\ ReadStaged(t, d)
                     \/ what = "finalize" /\ Finalize(t) /\ UNCHANGED <<staged, faults>>
                     \/ /\ what = "remove"
                        /\ staged' = [staged EXCEPT ![d] = "imported"]
                        /\ UNCHANGED <<fileVars, faults>>
<1>0. /\ at[t].step < 4 => Goto(t, "ingesting", at[t].step + 1, "none")
      /\ ~(at[t].step < 4) => Goto(t, "finishing", 1, "completed")
  BY DEF IngestStep
<1>1. at[t].phase = "ingesting" /\ UNCHANGED <<rowVars, input, blamed>>
  BY DEF IngestStep, At
<1>2. PICK d \in input[t] : Act(d)
  BY DEF IngestStep
<1>3. WorkTypes /\ t \in Works /\ at[t].step \in 1 .. 4
  BY <1>1 DEF TypeOK, Works, ToolInv, IngestInv
<1>4. input[t] = {d}
  BY <1>1, <1>2 DEF ToolInv, IngestInv
<1>5. /\ at[t].step < 4 => Reached(t, "ingesting", at[t].step + 1)
      /\ at[t].step = 4 => Reached(t, "finishing", 1) /\ at'[t].status = "completed"
  <2>1. CASE at[t].step < 4
    BY <1>0, <1>3, <2>1, GotoEffect DEF Reached
  <2>2. CASE at[t].step = 4
    <3>1. Goto(t, "finishing", 1, "completed")
      BY <1>0, <2>2
    <3>2. QED BY <1>3, <2>2, <3>1, GotoEffect DEF Reached
  <2>3. QED BY <1>3, <2>1, <2>2
<1>6. ASSUME at[t].step = 1
      PROVE  Create(t) /\ UNCHANGED staged /\ Reached(t, "ingesting", 2)
  <2>1. what = "create" /\ at[t].step < 4 /\ at[t].step + 1 = 2
    BY <1>6 DEF IngestOrder
  <2>2. QED BY <1>2, <1>5, <1>6, <2>1
<1>7. ASSUME at[t].step = 2
      PROVE  /\ Write(t, t) /\ UNCHANGED staged /\ Reached(t, "ingesting", 3)
             /\ input[t] = {t} /\ staged[t] = "staged"
  <2>1. what = "read" /\ at[t].step < 4 /\ at[t].step + 1 = 3
    BY <1>7 DEF IngestOrder
  <2>2. ReadStaged(t, d)
    BY <1>2, <2>1
  <2>3. QED BY <1>4, <1>5, <1>7, <2>1, <2>2 DEF ReadStaged, Verified
<1>8. ASSUME at[t].step = 3
      PROVE  Finalize(t) /\ UNCHANGED staged /\ Reached(t, "ingesting", 4)
  <2>1. what = "finalize" /\ at[t].step < 4 /\ at[t].step + 1 = 4
    BY <1>8 DEF IngestOrder
  <2>2. QED BY <1>2, <1>5, <1>8, <2>1
<1>9. ASSUME at[t].step = 4
      PROVE  /\ UNCHANGED fileVars /\ staged'[t] = "imported"
             /\ Reached(t, "finishing", 1) /\ at'[t].status = "completed"
  <2>1. what = "remove"
    BY <1>9 DEF IngestOrder
  <2>2. d = t
    BY <1>1, <1>2, <1>9 DEF ToolInv, IngestInv
  <2>3. UNCHANGED fileVars /\ staged' = [staged EXCEPT ![t] = "imported"]
    BY <1>2, <2>1, <2>2
  <2>4. QED BY <1>3, <1>5, <1>9, <2>3 DEF WorkTypes
<1>10. QED BY <1>1, <1>3, <1>6, <1>7, <1>8, <1>9, Zenon

\* What a tool has is in one place: handed in, in its file, or with its row.
LEMMA ToolOwn ==
  ASSUME TypeOK, NEW t \in Tools, ToolInv(t), ToolStep(t)
  PROVE  ToolInv(t)'
<1>0. /\ t \in Works /\ t \in Files /\ FileTypes /\ RowTypes /\ WorkTypes
      /\ KeptInv(t) /\ IngestInv(t) /\ DoneInv(t)
  BY DEF TypeOK, Works, Files, ToolInv
<1>1. CASE OpenTool(t)
  <2>1. /\ at[t].phase = "idle" /\ at'[t].phase = "working"
        /\ UNCHANGED <<fileVars, row, refs, ingressVars, blamed>>
    BY <1>0, <1>1, GotoEffect DEF OpenTool, At, causeVars
  <2>2. KeptInv(t)'
    BY <1>0, <2>1 DEF KeptInv, fileVars, ingressVars, Saved
  <2>3. QED BY <2>1, <2>2 DEF ToolInv, IngestInv, DoneInv, Fresh, fileVars, ingressVars
<1>2. CASE OpenToolFails(t)
  <2>1. /\ at[t].phase = "idle" /\ at'[t].phase = "over" /\ t \in blamed'
        /\ UNCHANGED <<fileVars, rowVars, ingressVars>>
    BY <1>0, <1>2, GotoEffect DEF OpenToolFails, At, Fault
  <2>2. KeptInv(t)'
    BY <1>0, <2>1 DEF KeptInv, fileVars, rowVars, ingressVars, Saved, Whole, Holds, Counted
  <2>3. QED BY <2>1, <2>2 DEF ToolInv, IngestInv, DoneInv
<1>3. CASE Stage(t) \/ Staged(t)
  <2>1. /\ UNCHANGED <<fileVars, rowVars, input, at, blamed>>
        /\ staged[t] \in {"none", "partial"} /\ staged'[t] \in {"partial", "staged"}
        /\ staged[t] = "none" => at[t].phase = "working"
    BY <1>0, <1>3 DEF Stage, Staged, At, causeVars, WorkTypes
  <2>2. t \notin input[t] /\ ~(at[t].phase = "ingesting" /\ at[t].step > 2)
    BY <1>0, <2>1 DEF KeptInv, IngestInv
  <2>3. KeptInv(t)'
    BY <1>0, <2>1, <2>2 DEF KeptInv, fileVars, rowVars, Saved, Whole, Counted
  <2>4. IngestInv(t)'
    BY <1>0, <2>1, <2>2 DEF IngestInv, fileVars, Fresh, Growing, Whole, Holds
  <2>5. DoneInv(t)'
    BY <1>0, <2>1, <2>2 DEF DoneInv, fileVars, rowVars, Fresh, Undone, Saved
  <2>6. QED BY <2>1, <2>3, <2>4, <2>5 DEF ToolInv, fileVars, Fresh
<1>4. ASSUME NEW d \in {{}} \cup {{u} : u \in Tools}, Answers(t, d)
      PROVE  ToolInv(t)'
  <2>1. /\ at[t].phase = "working" /\ UNCHANGED <<fileVars, rowVars, staged, blamed>>
        /\ \A u \in d : staged[u] \in {"staged", "imported"}
        /\ input'[t] = d
    BY <1>0, <1>4 DEF Answers, At, causeVars, WorkTypes
  <2>2. Fresh(t) /\ ~Saved(t)
    BY <1>0, <2>1 DEF ToolInv, KeptInv
  <2>3. IF d = {} THEN at'[t].phase = "finishing" /\ at'[t].status = "completed"
                  ELSE at'[t].phase = "ingesting" /\ at'[t].step = 1
    BY <1>0, <1>4, GotoEffect DEF Answers
  <2>4. at'[t].phase \in {"finishing", "ingesting"}
    BY <2>3
  <2>5. KeptInv(t)'
    BY <1>0, <2>1, <2>2, <2>4 DEF KeptInv, fileVars, rowVars, Saved
  <2>6. Fresh(t)'
    BY <2>1, <2>2 DEF Fresh, fileVars
  <2>7. CASE d = {}
    BY <2>1, <2>3, <2>5, <2>6, <2>7 DEF ToolInv, IngestInv, DoneInv, Fresh, Ended
  <2>8. CASE d # {}
    BY <1>4, <2>1, <2>3, <2>5, <2>6, <2>8 DEF ToolInv, IngestInv, DoneInv
  <2>9. QED BY <2>7, <2>8
<1>5. ASSUME NEW status \in {"failed", "cancelled"}, Throws(t, status)
      PROVE  ToolInv(t)'
  <2>1. /\ at[t].phase = "working" /\ UNCHANGED <<fileVars, rowVars, ingressVars>>
        /\ at'[t].phase = "finishing" /\ at'[t].status = status
    BY <1>0, <1>5, GotoEffect DEF Throws, At
  <2>2. Fresh(t) /\ input[t] = {} /\ ~Saved(t)
    BY <1>0, <2>1 DEF ToolInv, KeptInv
  <2>3. KeptInv(t)'
    BY <1>0, <2>1, <2>2 DEF KeptInv, fileVars, rowVars, ingressVars, Saved
  <2>4. DoneInv(t)'
    BY <2>1, <2>2 DEF DoneInv, Undone, Fresh, fileVars, ingressVars, Ended
  <2>5. QED BY <2>1, <2>3, <2>4 DEF ToolInv, IngestInv
<1>6. CASE IngestStep(t)
  <2>0. /\ at[t].phase = "ingesting" /\ UNCHANGED <<rowVars, input, blamed>> /\ at[t].step \in 1 .. 4
        /\ ~Saved(t) /\ t \notin refs /\ staged[t] # "imported" /\ row[t].status \in {"none", "completed"}
        /\ \E u \in Tools : input[t] = {u}
    BY <1>0, <1>6, IngestEffect DEF KeptInv, IngestInv
  <2>1. CASE at[t].step = 1
    <3>1. Create(t) /\ UNCHANGED staged /\ at'[t].phase = "ingesting" /\ at'[t].step = 2
      BY <1>6, <2>1, IngestEffect DEF Reached
    <3>2. Fresh(t)
      BY <1>0, <2>0, <2>1 DEF IngestInv
    <3>3. Growing(t)' /\ file'[t].data = <<>> /\ written'[t] = <<>>
      BY <1>0, <3>1, <3>2, WriterEffect DEF Growing, Fresh
    <3>4. KeptInv(t)'
      BY <1>0, <2>0, <3>1 DEF KeptInv, rowVars, Saved
    <3>5. IngestInv(t)'
      BY <2>0, <3>1, <3>3 DEF IngestInv
    <3>6. QED BY <3>1, <3>4, <3>5 DEF ToolInv, DoneInv
  <2>2. CASE at[t].step = 2
    <3>1. /\ Write(t, t) /\ UNCHANGED staged /\ at'[t].phase = "ingesting" /\ at'[t].step = 3
          /\ input[t] = {t} /\ staged[t] = "staged"
      BY <1>6, <2>2, IngestEffect DEF Reached
    <3>2. Growing(t) /\ file[t].data = <<>> /\ written[t] = <<>>
      BY <1>0, <2>0, <2>2 DEF IngestInv
    <3>3. /\ open' = open /\ file'[t].name = file[t].name
          /\ written'[t] = Append(written[t], t)
          /\ \/ file'[t].data = Append(file[t].data, t) /\ short' = short
             \/ file'[t].data = file[t].data /\ t \in short'
      BY <1>0, <3>1, WriteEffect
    <3>4. Growing(t)' /\ Holds(t)'
      <4>1. Append(<<>>, t) = <<t>>
        OBVIOUS
      <4>2. QED BY <3>2, <3>3, <4>1 DEF Growing, Holds
    <3>5. KeptInv(t)'
      BY <1>0, <2>0, <3>1 DEF KeptInv, rowVars, Saved
    <3>6. IngestInv(t)'
      BY <2>0, <3>1, <3>4 DEF IngestInv
    <3>7. QED BY <3>1, <3>5, <3>6 DEF ToolInv, DoneInv
  <2>3. CASE at[t].step = 3
    <3>1. Finalize(t) /\ UNCHANGED staged /\ at'[t].phase = "ingesting" /\ at'[t].step = 4
      BY <1>6, <2>3, IngestEffect DEF Reached
    <3>2. Holds(t) /\ input[t] = {t} /\ staged[t] = "staged"
      BY <1>0, <2>0, <2>3 DEF IngestInv
    <3>3. Whole(t)' /\ Holds(t)'
      BY <1>0, <3>1, <3>2, WriterEffect DEF Whole, Holds
    <3>4. KeptInv(t)'
      BY <1>0, <2>0, <3>1 DEF KeptInv, rowVars, Saved
    <3>5. IngestInv(t)'
      BY <2>0, <3>1, <3>2, <3>3 DEF IngestInv
    <3>6. QED BY <3>1, <3>4, <3>5 DEF ToolInv, DoneInv
  <2>4. CASE at[t].step = 4
    <3>1. /\ UNCHANGED fileVars /\ staged'[t] = "imported"
          /\ at'[t].phase = "finishing" /\ at'[t].status = "completed"
      BY <1>6, <2>4, IngestEffect DEF Reached
    <3>2. Holds(t) /\ input[t] = {t} /\ Whole(t)
      BY <1>0, <2>0, <2>4 DEF IngestInv
    <3>3. Whole(t)' /\ Holds(t)'
      BY <3>1, <3>2 DEF Whole, Holds, fileVars
    <3>4. KeptInv(t)'
      BY <1>0, <2>0, <3>1, <3>3 DEF KeptInv, rowVars, Saved
    <3>5. DoneInv(t)'
      BY <2>0, <3>1, <3>2, <3>3 DEF DoneInv, Ended, Whole
    <3>6. QED BY <3>1, <3>4, <3>5 DEF ToolInv, IngestInv
  <2>5. QED BY <2>0, <2>1, <2>2, <2>3, <2>4
<1>7. CASE IngestRefused(t)
  <2>1. /\ at[t].phase = "ingesting" /\ UNCHANGED <<rowVars, ingressVars, blamed>>
        /\ at'[t].phase = "finishing" /\ at'[t].status = "failed" /\ Abort(t)
        /\ \E d \in input[t] : ~Verified(t, d)
        /\ IngestOrder[at[t].step] = "read"
    BY <1>0, <1>7, GotoEffect DEF IngestRefused, At, causeVars
  <2>2. ~Saved(t) /\ t \notin refs /\ staged[t] # "imported" /\ row[t].status \in {"none", "completed"}
    BY <1>0, <2>1 DEF KeptInv
  <2>3. at[t].step = 2
    <3>1. at[t].step = 1 \/ at[t].step = 2 \/ at[t].step = 3 \/ at[t].step = 4
      BY <1>0, <2>1 DEF IngestInv
    <3>2. IngestOrder[1] = "create" /\ IngestOrder[3] = "finalize" /\ IngestOrder[4] = "remove"
      BY DEF IngestOrder
    <3>3. QED BY <2>1, <3>1, <3>2
  <2>4. Growing(t)
    BY <1>0, <2>1, <2>3 DEF IngestInv
  <2>5. ~(input[t] = {t} /\ staged[t] = "staged")
    BY <2>1 DEF Verified
  <2>6. Undone(t)'
    BY <1>0, <2>1, <2>4, <2>5, WriterEffect DEF Undone, Growing, ingressVars
  <2>7. KeptInv(t)'
    BY <1>0, <2>1, <2>2 DEF KeptInv, rowVars, ingressVars, Saved
  <2>8. DoneInv(t)'
    BY <2>1, <2>6 DEF DoneInv, Undone, Ended
  <2>9. QED BY <2>1, <2>7, <2>8 DEF ToolInv, IngestInv
<1>8. CASE IngestFails(t)
  <2>1. /\ at[t].phase = "ingesting" /\ UNCHANGED <<rowVars, ingressVars>> /\ t \in blamed'
        /\ at'[t].phase = "finishing" /\ at'[t].status = "failed"
    BY <1>0, <1>8, GotoEffect DEF IngestFails, At, Fault
  <2>2. ~Saved(t) /\ t \notin refs /\ staged[t] # "imported" /\ row[t].status \in {"none", "completed"}
    BY <1>0, <2>1 DEF KeptInv
  <2>3. t \notin open'
    <3>1. CASE IngestOrder[at[t].step] = "create"
      <4>1. at[t].step = 1 \/ at[t].step = 2 \/ at[t].step = 3 \/ at[t].step = 4
        BY <1>0, <2>1 DEF IngestInv
      <4>2. IngestOrder[2] = "read" /\ IngestOrder[3] = "finalize" /\ IngestOrder[4] = "remove"
        BY DEF IngestOrder
      <4>3. at[t].step = 1
        BY <3>1, <4>1, <4>2
      <4>4. UNCHANGED fileVars
        BY <1>8, <3>1 DEF IngestFails
      <4>5. QED BY <1>0, <2>1, <4>3, <4>4 DEF IngestInv, Fresh, fileVars
    <3>2. CASE IngestOrder[at[t].step] # "create"
      <4>1. FinalizeFails(t) \/ Abort(t)
        BY <1>8, <3>2 DEF IngestFails
      <4>2. QED BY <4>1 DEF FinalizeFails, Abort
    <3>3. QED BY <3>1, <3>2
  <2>4. KeptInv(t)'
    BY <1>0, <2>1, <2>2 DEF KeptInv, rowVars, ingressVars, Saved
  <2>5. DoneInv(t)'
    BY <2>1, <2>3 DEF DoneInv, Ended
  <2>6. QED BY <2>1, <2>4, <2>5 DEF ToolInv, IngestInv
<1>9. CASE FinishTool(t)
  <2>1. /\ at[t].phase = "finishing" /\ at'[t].phase = "over" /\ UNCHANGED <<fileVars, ingressVars, blamed>>
    BY <1>0, <1>9, GotoEffect DEF FinishTool, At, causeVars
  <2>2. ~Saved(t) /\ t \notin refs
    BY <1>0, <2>1 DEF KeptInv
  <2>3. t \notin open /\ at[t].status \in Ended
    BY <1>0, <2>1 DEF DoneInv
  <2>4. CASE at[t].status = "completed" /\ input[t] # {}
    <3>1. Save(t, "completed", written[t]) /\ refs' = refs \cup {t}
      BY <1>9, <2>4 DEF FinishTool
    <3>2. input[t] = {t} /\ staged[t] = "imported" /\ Whole(t) /\ Holds(t)
      BY <1>0, <2>1, <2>4 DEF DoneInv, KeptInv
    <3>3. row'[t].status = "completed" /\ row'[t].data = written[t]
      BY <1>0, <3>1, SaveEffect
    <3>4. Whole(t)' /\ Holds(t)' /\ Counted(t)' /\ written' = written
      BY <2>1, <3>2 DEF Whole, Holds, Counted, fileVars
    <3>5. KeptInv(t)'
      <4>1. Saved(t)' /\ row'[t].data = <<t>> /\ row'[t].data = written'[t]
        BY <3>2, <3>3, <3>4 DEF Saved, Holds
      <4>2. staged' = staged /\ input' = input
        BY <2>1 DEF ingressVars
      <4>3. QED BY <2>1, <3>2, <3>3, <3>4, <4>1, <4>2 DEF KeptInv
    <3>6. DoneInv(t)'
      BY <2>1, <3>2, <3>3 DEF DoneInv, ingressVars, Saved
    <3>7. QED BY <2>1, <3>5, <3>6 DEF ToolInv, IngestInv
  <2>5. CASE ~(at[t].status = "completed" /\ input[t] # {})
    <3>1. UNCHANGED <<row, refs>>
      BY <1>9, <2>5 DEF FinishTool
    <3>2. KeptInv(t)'
      BY <1>0, <2>1, <2>2, <3>1 DEF KeptInv, fileVars, ingressVars, Saved, Whole, Holds
    <3>3. t \notin blamed => Undone(t)
      BY <1>0, <2>1, <2>3, <2>5 DEF DoneInv, Undone, Fresh
    <3>4. DoneInv(t)'
      BY <2>1, <3>3 DEF DoneInv, Undone, fileVars, ingressVars
    <3>5. QED BY <2>1, <3>2, <3>4 DEF ToolInv, IngestInv
  <2>6. QED BY <2>4, <2>5
<1>10. CASE FinishToolFails(t)
  <2>1. /\ at[t].phase = "finishing" /\ t \in blamed' /\ UNCHANGED <<fileVars, rowVars, ingressVars>>
        /\ Caught(t, "finishing", at[t].status)
    BY <1>10 DEF FinishToolFails, At, Fault
  <2>2. \/ at'[t].phase = "finishing" /\ at'[t].status = "failed"
        \/ at'[t].phase = "over"
    BY <1>0, <2>1, GotoEffect DEF Caught
  <2>3. KeptInv(t)'
    BY <1>0, <2>1, <2>2 DEF KeptInv, fileVars, rowVars, ingressVars, Saved, Whole, Holds, Counted
  <2>4. DoneInv(t)'
    BY <1>0, <2>1, <2>2 DEF DoneInv, fileVars, Ended
  <2>5. QED BY <2>2, <2>3, <2>4 DEF ToolInv, IngestInv
<1>11. QED BY <1>1, <1>2, <1>3, <1>4, <1>5, <1>6, <1>7, <1>8, <1>9, <1>10 DEF ToolStep

-----------------------------------------------------------------------------
\* Every attempt and every tool is in one of the states above, and nothing is under way
\* while the process is down (artifacts.ts, runtime.ts:371-443, 535-568).
ProofInv == TypeOK /\ DownInv /\ (\A a \in Attempts : AttemptInv(a)) /\ \A t \in Tools : ToolInv(t)

LEMMA InitWorks == Init => ProofInv
<1> SUFFICES ASSUME Init PROVE ProofInv
  OBVIOUS
<1>1. TypeOK
  BY ArtifactsAssumption DEF Init, TypeOK, FileTypes, RowTypes, WorkTypes, Place, Phases, Statuses, Works
<1>2. \A w \in Works : at[w].phase = "idle" /\ at[w].step = 1
  BY DEF Init, Place
<1>3. \A f \in Files : Fresh(f) /\ row[f].status = "none"
  BY DEF Init, Fresh
<1>4. ASSUME NEW a \in Attempts
      PROVE  AttemptInv(a)
  <2> DEFINE r == <<a, "request">> e == <<a, "events">>
  <2>1. a \in Works /\ r \in Files /\ e \in Files
    BY OwnFiles DEF Kinds
  <2>2. attempt[a] = "none" /\ at[a].phase = "idle" /\ at[a].step = 1
    BY <1>2, <2>1 DEF Init
  <2>3. \A f \in {r, e} : Fresh(f) /\ ~Saved(f) /\ TraceInv(f)
    BY <1>3, <2>1 DEF TraceInv, Fresh, Saved, Counted
  <2>4. QED BY <2>2, <2>3 DEF AttemptInv, IdleInv, InvokingInv, ClosingInv, OverInv, Ended
<1>5. ASSUME NEW t \in Tools
      PROVE  ToolInv(t)
  <2>1. t \in Works /\ t \in Files
    BY DEF Works, Files
  <2>2. /\ at[t].phase = "idle" /\ Fresh(t) /\ row[t].status = "none" /\ ~Saved(t)
        /\ staged[t] = "none" /\ input[t] = {} /\ t \notin refs
    BY <1>2, <1>3, <2>1 DEF Init, Saved
  <2>3. QED BY <2>2 DEF ToolInv, KeptInv, IngestInv, DoneInv
<1>6. DownInv
  BY DEF Init, DownInv
<1>7. QED BY <1>1, <1>4, <1>5, <1>6 DEF ProofInv

\* The end of the process leaves files and rows as they are and closes what is open.
LEMMA CrashWorks ==
  ASSUME ProofInv, TypeOK', Crash
  PROVE  ProofInv'
<1>1. /\ open' = {} /\ UNCHANGED <<file, written, short, rowVars, ingressVars>>
      /\ blamed' = blamed \cup Begun
  BY DEF Crash
<1>2. ASSUME NEW w \in Works
      PROVE  IF w \in Begun THEN at'[w].phase = "over" /\ w \in blamed'
                            ELSE /\ at'[w] = at[w] /\ (w \in blamed' <=> w \in blamed)
                                 /\ at[w].phase = "over" \/ (at[w].phase = "idle" /\ at[w].step = 1)
  BY <1>1 DEF Crash, Begun, Place
<1>3. ASSUME NEW a \in Attempts
      PROVE  AttemptInv(a)'
  <2> DEFINE r == <<a, "request">> e == <<a, "events">>
  <2>1. a \in Works /\ AttemptInv(a)
    BY OwnFiles DEF ProofInv, Kinds
  <2>2. TraceInv(r)' /\ TraceInv(e)'
    BY <1>1, <2>1 DEF AttemptInv, TraceInv, Counted, Saved, Whole, rowVars
  <2>3. CASE a \in Begun
    <3>1. at'[a].phase = "over" /\ a \in blamed'
      BY <1>2, <2>1, <2>3
    <3>2. OverInv(a, r, e)'
      BY <1>1, <2>1, <3>1 DEF AttemptInv, OverInv, Saved, rowVars
    <3>3. QED BY <2>2, <3>1, <3>2 DEF AttemptInv, IdleInv, InvokingInv, ClosingInv
  <2>4. CASE a \notin Begun
    <3>1. /\ at'[a] = at[a] /\ (a \in blamed' <=> a \in blamed)
          /\ at[a].phase = "over" \/ (at[a].phase = "idle" /\ at[a].step = 1)
      BY <1>2, <2>1, <2>4
    <3>2. OverInv(a, r, e)'
      BY <1>1, <2>1, <3>1 DEF AttemptInv, OverInv, Saved, rowVars
    <3>3. IdleInv(a, r, e)'
      BY <1>1, <2>1, <3>1 DEF AttemptInv, IdleInv, Saved, Fresh, rowVars
    <3>4. QED BY <2>2, <3>1, <3>2, <3>3 DEF AttemptInv, InvokingInv, ClosingInv
  <2>5. QED BY <2>3, <2>4
<1>4. ASSUME NEW t \in Tools
      PROVE  ToolInv(t)'
  <2>1. t \in Works /\ ToolInv(t)
    BY DEF ProofInv, Works
  <2>2. CASE t \in Begun
    <3>1. at'[t].phase = "over" /\ t \in blamed'
      BY <1>2, <2>1, <2>2
    <3>2. KeptInv(t)'
      BY <1>1, <2>1, <3>1 DEF ToolInv, KeptInv, Saved, Whole, Counted, Holds, rowVars, ingressVars
    <3>3. QED BY <3>1, <3>2 DEF ToolInv, IngestInv, DoneInv
  <2>3. CASE t \notin Begun
    <3>1. /\ at'[t] = at[t] /\ (t \in blamed' <=> t \in blamed)
          /\ at[t].phase = "over" \/ (at[t].phase = "idle" /\ at[t].step = 1)
      BY <1>2, <2>1, <2>3
    <3>2. KeptInv(t)'
      BY <1>1, <2>1, <3>1 DEF ToolInv, KeptInv, Saved, Whole, Counted, Holds, rowVars, ingressVars
    <3>3. DoneInv(t)'
      BY <1>1, <2>1, <3>1 DEF ToolInv, DoneInv, Undone, Saved, rowVars, ingressVars
    <3>4. at[t].phase = "idle" => Fresh(t)' /\ input'[t] = {}
      BY <1>1, <2>1 DEF ToolInv, Fresh, ingressVars
    <3>5. QED BY <3>1, <3>2, <3>3, <3>4 DEF ToolInv, IngestInv
  <2>4. QED BY <2>2, <2>3
<1>5. DownInv'
  <2>1. \A w \in Works : at'[w] = Place("idle", 1, "none") \/ at'[w].phase = "over"
    BY DEF Crash, Begun, Place
  <2>2. QED BY <2>1 DEF DownInv, Begun
<1>6. QED BY <1>3, <1>4, <1>5 DEF ProofInv

\* Recovery closes rows of attempts that nobody works at.
LEMMA RecoverWorks ==
  ASSUME ProofInv, TypeOK', Recover
  PROVE  ProofInv'
<1>1. UNCHANGED <<fileVars, row, refs, ingressVars, at, causeVars>> /\ up' /\ ~up
  BY DEF Recover
<1>2. ASSUME NEW a \in Attempts
      PROVE  AttemptInv(a)'
  <2> DEFINE r == <<a, "request">> e == <<a, "events">>
  <2>1. a \in Works /\ AttemptInv(a)
    BY OwnFiles DEF ProofInv, Kinds
  <2>2. at[a].phase \in {"idle", "over"}
    BY <1>1, <2>1 DEF ProofInv, DownInv, Begun, Place
  <2>3. attempt'[a] = attempt[a] \/ (attempt'[a] = "abandoned" /\ attempt[a] = "running")
    BY DEF Recover
  <2>4. TraceInv(r)' /\ TraceInv(e)'
    BY <1>1, <2>1 DEF AttemptInv, TraceInv, Counted, Saved, Whole, fileVars
  <2>5. OverInv(a, r, e)'
    BY <1>1, <2>1, <2>3 DEF AttemptInv, OverInv, Saved, Ended, causeVars
  <2>6. IdleInv(a, r, e)'
    BY <1>1, <2>1, <2>3 DEF AttemptInv, IdleInv, Saved, Fresh, Growing, fileVars
  <2>7. QED BY <1>1, <2>2, <2>4, <2>5, <2>6 DEF AttemptInv, InvokingInv, ClosingInv
<1>3. ASSUME NEW t \in Tools
      PROVE  ToolInv(t)'
  <2>1. ToolInv(t) /\ SameTool(t)
    BY <1>1 DEF ProofInv, SameTool, SameWork, SameFile, fileVars, ingressVars, causeVars
  <2>2. QED BY <2>1, ToolKept
<1>4. DownInv'
  BY <1>1 DEF DownInv
<1>5. QED BY <1>2, <1>3, <1>4 DEF ProofInv

\* The states of attempts and tools are preserved by each other's steps, a crash and a recovery.
THEOREM WorksAreInOrder == Spec => []ProofInv
<1>1. Init => ProofInv
  BY InitWorks
<1>2. ProofInv /\ TypeOK' /\ [Next]_vars => ProofInv'
  <2> SUFFICES ASSUME ProofInv, TypeOK', [Next]_vars PROVE ProofInv'
    OBVIOUS
  <2>0. TypeOK /\ DownInv /\ (\A a \in Attempts : AttemptInv(a)) /\ \A t \in Tools : ToolInv(t)
    BY DEF ProofInv
  <2>1. ASSUME NEW a \in Attempts, AttemptStep(a)
        PROVE  ProofInv'
    <3>1. AttemptInv(a)'
      BY <2>0, <2>1, AttemptOwn
    <3>2. /\ \A b \in Attempts \ {a} : SameAttempt(b)
          /\ \A t \in Tools : SameTool(t)
          /\ up'
      BY <2>0, <2>1, AttemptFrame
    <3>3. \A b \in Attempts \ {a} : AttemptInv(b)'
      BY <2>0, <3>2, AttemptKept
    <3>4. \A t \in Tools : ToolInv(t)'
      BY <2>0, <3>2, ToolKept
    <3>5. QED BY <3>1, <3>2, <3>3, <3>4 DEF ProofInv, DownInv
  <2>2. ASSUME NEW t \in Tools, ToolStep(t)
        PROVE  ProofInv'
    <3>1. ToolInv(t)'
      BY <2>0, <2>2, ToolOwn
    <3>2. /\ \A u \in Tools \ {t} : SameTool(u)
          /\ \A a \in Attempts : SameAttempt(a)
          /\ up' = up /\ (up \/ UNCHANGED at)
      BY <2>0, <2>2, ToolFrame
    <3>3. \A a \in Attempts : AttemptInv(a)'
      BY <2>0, <3>2, AttemptKept
    <3>4. \A u \in Tools \ {t} : ToolInv(u)'
      BY <2>0, <3>2, ToolKept
    <3>5. DownInv'
      BY <2>0, <3>2 DEF DownInv, Begun
    <3>6. QED BY <3>1, <3>3, <3>4, <3>5 DEF ProofInv
  <2>3. CASE Crash
    BY <2>3, CrashWorks
  <2>4. CASE Recover
    BY <2>4, RecoverWorks
  <2>5. CASE UNCHANGED vars
    <3>1. \A a \in Attempts : SameAttempt(a)
      BY <2>5 DEF vars, fileVars, rowVars, ingressVars, causeVars, SameAttempt, SameWork, SameFile
    <3>2. \A t \in Tools : SameTool(t)
      BY <2>5 DEF vars, fileVars, rowVars, ingressVars, causeVars, SameTool, SameWork, SameFile
    <3>3. DownInv'
      BY <2>0, <2>5 DEF vars, DownInv, Begun
    <3>4. QED BY <2>0, <3>1, <3>2, <3>3, AttemptKept, ToolKept DEF ProofInv
  <2>6. QED BY <2>1, <2>2, <2>3, <2>4, <2>5 DEF Next
<1>3. QED BY <1>1, <1>2, ArtifactsTypes, PTL DEF Spec

\* A row that says it is complete has its whole file, and an attempt that ended by itself
\* has both its traces, which agree with how it ended (runtime.ts:411-442).
THEOREM RowsAreReadable == Spec => []ArtifactsInv
<1>1. ProofInv => ArtifactsInv
  <2> SUFFICES ASSUME ProofInv PROVE ArtifactsInv
    OBVIOUS
  <2>1. ASSUME NEW f \in Files, row[f].status \in {"completed", "failed"}
        PROVE  Readable(f)
    <3>1. CASE f \in Tools
      BY <2>1, <3>1 DEF ProofInv, ToolInv, KeptInv, Saved, Whole, Counted, Readable
    <3>2. CASE f \in Traces
      <4>1. PICK a \in Attempts, k \in Kinds : f = <<a, k>>
        BY <3>2 DEF Traces
      <4>2. TraceInv(f)
        BY <4>1 DEF ProofInv, AttemptInv, Kinds
      <4>3. QED BY <2>1, <4>2 DEF TraceInv, Saved, Whole, Counted, Readable
    <3>3. QED BY <2>1, <3>1, <3>2 DEF Files
  <2>2. ASSUME NEW a \in Attempts, NEW k \in Kinds, attempt[a] \in {"completed", "failed", "cancelled"}
        PROVE  Readable(<<a, k>>) /\ (attempt[a] = "completed") = (row[<<a, k>>].status = "completed")
    <3>1. Saved(<<a, k>>) /\ (attempt[a] = "completed") = (row[<<a, k>>].status = "completed")
      BY <2>2 DEF ProofInv, AttemptInv, OverInv, Ended, Kinds
    <3>2. <<a, k>> \in Files
      BY OwnFiles
    <3>3. QED BY <2>1, <3>1, <3>2 DEF Saved
  <2>3. QED BY <2>1, <2>2 DEF ArtifactsInv, ProofInv
<1>2. QED BY <1>1, WorksAreInOrder, PTL

\* An output leaves the ingress directory only for its artifact's file, and a stored result
\* refers to the operation's own output (artifacts.ts:122-137).
THEOREM OutputsAreKept == Spec => []OutputKept
<1>1. ProofInv => OutputKept
  BY DEF ProofInv, ToolInv, KeptInv, OutputKept, Readable, Saved, Whole, Counted, Holds
<1>2. QED BY <1>1, WorksAreInOrder, PTL

\* Work that no fault, crash or cancel hit leaves nothing behind.
THEOREM NothingIsLeft == Spec => []LeftoversForCause
<1>1. ProofInv /\ ArtifactsInv => LeftoversForCause
  <2> SUFFICES ASSUME ProofInv, ArtifactsInv, NEW w \in Works \ blamed, at[w].phase = "over",
                      NEW f \in IF w \in Tools THEN {w} ELSE {w} \X Kinds
               PROVE  /\ f \notin open
                      /\ file[f].name = "none" \/ Readable(f)
                      /\ w \in Tools => ~(input[w] = {w} /\ staged[w] = "staged")
    BY DEF LeftoversForCause
  <2>1. CASE w \notin Tools
    <3>1. w \in Attempts
      BY <2>1 DEF Works
    <3>2. PICK k \in Kinds : f = <<w, k>>
      BY <2>1
    <3>3. AttemptInv(w)
      BY <3>1 DEF ProofInv
    <3>4. Saved(f) /\ TraceInv(f)
      BY <3>2, <3>3 DEF AttemptInv, OverInv, Kinds
    <3>5. QED BY <2>1, <3>4 DEF TraceInv, Saved, Whole, Counted, Readable
  <2>2. CASE w \in Tools
    <3>1. f = w
      BY <2>2
    <3>2. Undone(w) \/ (Saved(w) /\ staged[w] = "imported" /\ Whole(w) /\ Counted(w) /\ row[w].data = written[w])
      BY <2>2 DEF ProofInv, ToolInv, DoneInv, KeptInv
    <3>3. QED BY <3>1, <3>2 DEF Undone, Saved, Whole, Counted, Readable
  <2>3. QED BY <2>1, <2>2
<1>2. QED BY <1>1, WorksAreInOrder, RowsAreReadable, PTL
=============================================================================
