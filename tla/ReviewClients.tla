---------------------------- MODULE ReviewClients ----------------------------
(***************************************************************************)
(* Clients of one review workflow over HTTP: each has one thing to record, *)
(* under the id of the event that caused it, and sends it again when no    *)
(* answer comes.  Requests may be delivered late and more than once, and   *)
(* answers may be lost (as when the daemon dies after the commit); what    *)
(* the service does with a request is ReviewWorkflow's.                    *)
(*                                                                         *)
(* The clients are not in the repository.  They do what the API asks of    *)
(* them: name the revision they read, keep the event id in every retry,    *)
(* and give up when a request is refused that was not stale.               *)
(***************************************************************************)
EXTENDS ReviewWorkflow

CONSTANTS
  Clients,
  Intent     \* of each client: [do, event, offer, stage, commit]

\* The service makes the type of a moved head itself; a client that has evidence of
\* that type to record moves the head with it.
ASSUME ClientsAssumption ==
  /\ Intent \in [Clients -> [do : {"append", "complete", "move"}, event : Events, offer : Offers,
                             stage : Stages, commit : Heads]]
  /\ \A c \in Clients : Intent[c].do = "move" <=> Intent[c].offer.type = HeadChanged

VARIABLES
  pc,        \* "idle", "waiting", "done", "refused"
  seen,      \* the revision the client read last
  sent,      \* requests in the network: [client, expected]
  answers    \* answers given: [client, expected, ok]

clientVars == <<pc, seen, sent, answers>>
allVars == <<vars, clientVars>>

ClientsOK ==
  /\ TypeOK
  /\ pc \in [Clients -> {"idle", "waiting", "done", "refused"}]
  /\ seen \in [Clients -> 0 .. MaxRevision]
  /\ sent \subseteq [client : Clients, expected : 1 .. revision]
  /\ answers \subseteq [client : Clients, expected : 1 .. revision, ok : BOOLEAN]

ClientInit ==
  /\ Init
  /\ pc = [c \in Clients |-> "idle"]
  /\ seen = [c \in Clients |-> 0]
  /\ sent = {} /\ answers = {}

What(c) == Submission(Intent[c].offer, Intent[c].commit, Intent[c].event)

\* Read the workflow and send the command against the revision read.
Ask(c) ==
  /\ pc[c] = "idle"
  /\ seen' = [seen EXCEPT ![c] = revision]
  /\ sent' = sent \cup {[client |-> c, expected |-> revision]}
  /\ pc' = [pc EXCEPT ![c] = "waiting"]
  /\ UNCHANGED <<vars, answers>>

\* No answer: read again and try once more, under the same event id.
GiveUpWaiting(c) ==
  /\ pc[c] = "waiting" /\ seen[c] # revision
  /\ pc' = [pc EXCEPT ![c] = "idle"]
  /\ UNCHANGED <<vars, seen, sent, answers>>

\* The daemon serves a request: a repetition is answered as the original was,
\* a valid command is carried out, all else is refused with nothing written.
Replayed(c) ==
  IF Intent[c].do = "complete" THEN RepeatsFor(What(c), Intent[c].stage) ELSE Repeats(What(c))

Valid(m) ==
  LET c == m.client IN
  CASE Intent[c].do = "append"   -> MayAppend(m.expected, What(c))
    [] Intent[c].do = "complete" -> MayComplete(m.expected, What(c), Intent[c].stage)
    [] Intent[c].do = "move"     -> MayMove(m.expected, What(c))

Carry(m) ==
  LET c == m.client IN
  \/ Intent[c].do = "append" /\ AppendEvidence(m.expected, What(c))
  \/ Intent[c].do = "complete" /\ CompleteStage(m.expected, What(c), Intent[c].stage)
  \/ Intent[c].do = "move" /\ UpdateHead(m.expected, What(c))

\* The answer reaches a client that still waits for it, or is lost.
Answer(m, ok) ==
  \/ /\ pc[m.client] = "waiting" /\ seen[m.client] = m.expected
     /\ answers' = answers \cup {[client |-> m.client, expected |-> m.expected, ok |-> ok]}
  \/ UNCHANGED answers

Serve(m) ==
  /\ m \in sent
  /\ \/ Replayed(m.client) /\ UNCHANGED vars /\ Answer(m, TRUE)
     \/ ~Replayed(m.client) /\ Carry(m) /\ Answer(m, TRUE)
     \/ ~Replayed(m.client) /\ ~Valid(m) /\ UNCHANGED vars /\ Answer(m, FALSE)
  /\ UNCHANGED <<pc, seen, sent>>

Heed(c) ==
  /\ pc[c] = "waiting"
  /\ \E a \in answers :
       /\ a.client = c /\ a.expected = seen[c]
       /\ pc' = [pc EXCEPT ![c] = IF a.ok THEN "done"
                                  ELSE IF revision # seen[c] THEN "idle" ELSE "refused"]
  /\ UNCHANGED <<vars, seen, sent, answers>>

ClientNext ==
  \/ \E c \in Clients : Ask(c) \/ GiveUpWaiting(c) \/ Heed(c)
  \/ \E m \in sent : Serve(m)

ClientSpec == ClientInit /\ [][ClientNext]_allVars

-----------------------------------------------------------------------------
\* However often a command is sent, read anew and sent again, the event behind
\* it is recorded once.
RecordedOnce ==
  \A n, k \in DOMAIN history : history[n].event = history[k].event => n = k
\* Every revision was decided by somebody who had read the one before it.
NoLostUpdate ==
  \A n \in DOMAIN history :
    \E m \in sent : m.expected = n /\ What(m.client) = history[n]

\* With the types, what the clients rely on of the history.
ClientsInv == ClientsOK /\ RecordedOnce /\ NoLostUpdate

\* The answers are true for good: a request that was accepted is in the history
\* (its stage completed by it), and one that was refused never gets there.
AnswersHold ==
  \A a \in answers :
    LET e == What(a.client)
        carried(n) == /\ n \in DOMAIN history /\ history[n] = e
                      /\ Intent[a.client].do = "complete" =>
                           \E x \in results : x.revision = n + 1 /\ x.stage = Intent[a.client].stage
    IN  IF a.ok THEN \E n \in DOMAIN history : carried(n) ELSE ~carried(a.expected)
=============================================================================
