------------------------------ MODULE RunLedger ------------------------------
(***************************************************************************)
(* What the durable tables promise a reader, whatever threads, commits,    *)
(* faults and crashes lie behind them: a run and its model and tool        *)
(* operations live and end once, an operation joins only a live run, a run *)
(* ends after its operations, work is cancelled only on request, and a     *)
(* recovery ends everything that was live.  Kernel implements it.          *)
(***************************************************************************)
CONSTANTS Runs, Ops, NoRun

VARIABLES
  run,    \* status of each run
  op,     \* status of each operation
  owner,  \* the run of each operation
  asked,  \* the runs whose cancellation was requested
  stuck   \* the runs a storage fault has hit

vars == <<run, op, owner, asked, stuck>>

Outcomes == {"completed", "failed", "cancelled"}

Init ==
  /\ run = [r \in Runs |-> "absent"]
  /\ op = [o \in Ops |-> "absent"]
  /\ owner = [o \in Ops |-> NoRun]
  /\ asked = {} /\ stuck = {}

Begin(r) ==
  /\ run[r] = "absent"
  /\ run' = [run EXCEPT ![r] = "running"]
  /\ UNCHANGED <<op, owner, asked>>

\* An operation may already have failed when it is first seen.
Open(r, o, status) ==
  /\ run[r] = "running" /\ op[o] = "absent"
  /\ status \in {"running", "failed"}
  /\ op' = [op EXCEPT ![o] = status]
  /\ owner' = [owner EXCEPT ![o] = r]
  /\ UNCHANGED <<run, asked>>

End(o, status) ==
  /\ op[o] = "running"
  /\ status = "cancelled" => owner[o] \in asked
  /\ op' = [op EXCEPT ![o] = status]
  /\ UNCHANGED <<run, owner, asked>>

\* Only a storage fault lets a run end before one of its operations.
Finish(r, status) ==
  /\ run[r] = "running"
  /\ \A o \in Ops : owner[o] = r /\ op[o] = "running" => r \in stuck
  /\ status = "cancelled" => r \in asked
  /\ run' = [run EXCEPT ![r] = status]
  /\ UNCHANGED <<op, owner, asked>>

Ask ==
  /\ asked' \in SUBSET Runs /\ asked \subseteq asked'
  /\ UNCHANGED <<run, op, owner>>

Recover ==
  /\ op' = [o \in Ops |-> IF op[o] = "running" THEN "abandoned" ELSE op[o]]
  /\ run' = [r \in Runs |-> IF run[r] = "running" THEN "failed" ELSE run[r]]
  /\ UNCHANGED <<owner, asked>>

\* A storage fault may come with any step, or alone.
Step ==
  \/ \E r \in Runs : Begin(r) \/ \E s \in Outcomes : Finish(r, s)
  \/ \E r \in Runs, o \in Ops, s \in {"running", "failed"} : Open(r, o, s)
  \/ \E o \in Ops, s \in Outcomes : End(o, s)
  \/ Ask \/ Recover
  \/ UNCHANGED <<run, op, owner, asked>>

Next == Step /\ stuck \subseteq stuck' /\ stuck' \in SUBSET Runs

Spec == Init /\ [][Next]_vars
=============================================================================
