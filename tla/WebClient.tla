-------------------------------- MODULE WebClient --------------------------------
(***************************************************************************)
(* The sessions and runs of the web client (apps/daemon/src/web-ui.ts):    *)
(* one page, whose handlers share the object `state` and wait for answers  *)
(* of the daemon that come in any order or not at all.  Other clients      *)
(* start runs too.                                                         *)
(*                                                                         *)
(* An action is what the page does between two awaits.  What a request     *)
(* reads, or does, the daemon reads or does at one moment, and the page    *)
(* uses the answer at a later one.                                         *)
(*                                                                         *)
(* Left out: the review panel, the inspector's contents, and the cancel    *)
(* button, which sends one request and changes nothing on the page.        *)
(***************************************************************************)
EXTENDS Integers, Sequences, FiniteSets

CONSTANTS
  Sessions, \* sessions there may be
  Present,  \* sets of them that there may be when the page is opened
  Runs,     \* runs there may be
  None,     \* no session or run
  MaxClicks,   \* bound: what the user does
  MaxWaiting,  \* bound: the user acts while the page waits for less than that
  MaxFailures  \* bound: requests that fail

ASSUME WebAssumption ==
  /\ None \notin Sessions \cup Runs
  /\ Present \subseteq SUBSET Sessions
  /\ MaxClicks \in Nat /\ MaxWaiting \in Nat /\ MaxFailures \in Nat

VARIABLES
  made,      \* the daemon's sessions
  home,      \* the session of a run, None before the run is started
  over,      \* runs that are over
  sessionId, activeRunId, starting, sessionBusy, polling, \* state
  listed,    \* the sessions that have a button
  shown,     \* the session whose records and runs are on the screen
  late,      \* whether they were asked for before what they replaced
  disabled,  \* buttons that are disabled
  waiting,   \* what the page waits for, in the order in which it was asked
  clicks, failures

daemonVars == <<made, home, over>>
stateVars == <<sessionId, activeRunId, starting, sessionBusy, polling>>
screenVars == <<listed, shown, late>>
vars == <<daemonVars, stateVars, screenVars, disabled, waiting, clicks, failures>>

\* What a request is part of, and what it is.
Kinds == {"boot", "select", "session", "start", "inspect", "poll", "last"}
Places == {"list", "create", "others", "refresh", "again", "post", "status", "timer",
           "inspect", "final"}

\* Refreshes, by what comes after them.
Refreshes == {"refresh", "again", "final"}

\* What it is about and what it got: a run or a status, or for a list the sessions seen.
Ask(kind, at, for) ==
  [kind |-> kind, at |-> at, of |-> sessionId', for |-> for, got |-> None,
   seen |-> {}, late |-> FALSE]

Without(i) == SubSeq(waiting, 1, i - 1) \o SubSeq(waiting, i + 1, Len(waiting))
Goes(i, next) == waiting' = Without(i) \o next

\* syncRunControls.
Disabled(active, start, busy) ==
       (IF active = None THEN {"cancel"} ELSE {})
  \cup (IF active # None \/ start THEN {"send"} ELSE {})
  \cup (IF active # None \/ start \/ busy THEN {"new"} ELSE {})

SyncRunControls == disabled' = Disabled(activeRunId', starting', sessionBusy')

Init ==
  /\ made \in Present
  /\ home = [r \in Runs |-> None] /\ over = {}
  /\ sessionId = None /\ activeRunId = None
  /\ starting = FALSE /\ sessionBusy = FALSE /\ polling = FALSE
  /\ listed = {} /\ shown = None /\ late = FALSE /\ disabled = {"cancel"}
  /\ waiting = <<[kind |-> "boot", at |-> "list", of |-> None, for |-> None, got |-> None,
                   seen |-> {}, late |-> FALSE]>>
  /\ clicks = 0 /\ failures = 0

-----------------------------------------------------------------------------
(* The daemon.                                                             *)

Running(s) == {r \in Runs : home[r] = s /\ r \notin over}

\* (mutant: the status is that of the run's start)
StatusAsStarted(r) == "running"

Status(r) == IF r \in over THEN "over" ELSE "running"

\* The next run or session of the bounded supply; which one it is makes no difference.
Free == {r \in Runs : home[r] = None /\ \A i \in DOMAIN waiting : waiting[i].for # r}
NewRun == CHOOSE r \in Free : TRUE
FreeSessions ==
  {s \in Sessions \ made : \A i \in DOMAIN waiting : waiting[i].at = "create" => waiting[i].for # s}
NewSession == CHOOSE s \in FreeSessions : TRUE

\* The daemon reads or does what it is asked.
Serve(i) ==
  LET t == waiting[i] IN
  /\ t.got = None
  /\ \/ /\ t.at \in Refreshes
        /\ \E r \in IF Running(t.of) = {} THEN {"nothing"} ELSE Running(t.of) :
             waiting' = [waiting EXCEPT ![i].got = r]
        /\ UNCHANGED <<made, home>>
     \/ /\ t.at = "post"
        /\ waiting' = [waiting EXCEPT ![i].got = t.for]
        /\ home' = [home EXCEPT ![t.for] = t.of]
        /\ UNCHANGED made
     \/ /\ t.at = "status"
        /\ waiting' = [waiting EXCEPT ![i].got = Status(t.for)]
        /\ UNCHANGED <<made, home>>
     \/ /\ t.at = "list"
        /\ waiting' = [waiting EXCEPT ![i].got = "nothing", ![i].seen = made]
        /\ UNCHANGED <<made, home>>
     \/ /\ t.at = "create"
        /\ waiting' = [waiting EXCEPT ![i].got = "nothing"]
        /\ made' = made \cup {t.for}
        /\ UNCHANGED home
  /\ UNCHANGED <<over, stateVars, screenVars, disabled, clicks, failures>>

\* Another client starts a run.
OtherStarts(s) ==
  /\ Free # {} /\ s \in made
  /\ home' = [home EXCEPT ![NewRun] = s]
  /\ UNCHANGED <<made, over, stateVars, screenVars, disabled, waiting, clicks, failures>>

RunEnds(r) ==
  /\ home[r] # None /\ r \notin over
  /\ over' = over \cup {r}
  /\ UNCHANGED <<made, home, stateVars, screenVars, disabled, waiting, clicks, failures>>

-----------------------------------------------------------------------------
(* Sessions.                                                               *)

\* What selectSession does not do while a run is active or starting.
MaySelect(s) == (activeRunId = None /\ ~starting) \/ s = sessionId

\* poll, up to its first await: a request for the active run, or the last refresh.
Poll ==
  IF polling THEN <<>>
  ELSE IF activeRunId' # None THEN <<Ask("poll", "status", activeRunId')>>
  ELSE <<Ask("last", "refresh", None)>>

\* (mutant: a session that is selected is read only if it was not yet)
AfterSessionsUnread(kind) == IF kind = "boot" THEN <<Ask("boot", "others", None)>> ELSE <<>>

\* loadSessions has returned: to selectSession, to the script's last line, or to the New button.
AfterSessions(kind) ==
  CASE kind = "select" -> <<Ask("select", "again", None)>>
    [] kind = "boot" -> <<Ask("boot", "others", None)>>
    [] kind = "session" -> <<>>

Loaded(kind) == sessionBusy' = (sessionBusy /\ kind # "session")

\* loadSessions: what is to be selected may have been said before the list was asked for.
ListArrives(i) ==
  LET t == waiting[i] IN
  /\ t.at = "list" /\ t.got # None /\ t.seen # {}
  /\ \E next \in IF t.for # None THEN {t.for} ELSE IF sessionId # None THEN {sessionId} ELSE t.seen :
       \/ /\ next # sessionId /\ MaySelect(next)
          /\ sessionId' = next /\ activeRunId' = None
          /\ disabled' = disabled \cup {"cancel"}
          /\ Goes(i, <<Ask(t.kind, "refresh", None)>>)
          /\ UNCHANGED <<starting, sessionBusy, polling>>
       \/ /\ next = sessionId \/ ~MaySelect(next)
          /\ UNCHANGED <<sessionId, activeRunId, starting, polling>>
          /\ Loaded(t.kind)
          /\ IF t.kind = "session" THEN SyncRunControls ELSE UNCHANGED disabled
          /\ Goes(i, AfterSessions(t.kind))
  /\ listed' = t.seen
  /\ UNCHANGED <<daemonVars, shown, late, clicks, failures>>

\* There was no session when the daemon looked.
ListIsEmpty(i) ==
  /\ waiting[i].at = "list" /\ waiting[i].got # None /\ waiting[i].seen = {}
  /\ FreeSessions # {}
  /\ UNCHANGED <<daemonVars, stateVars, screenVars, disabled, clicks, failures>>
  /\ Goes(i, <<Ask(waiting[i].kind, "create", NewSession)>>)

SessionCreated(i) ==
  /\ waiting[i].at = "create" /\ waiting[i].got # None
  /\ UNCHANGED <<daemonVars, stateVars, screenVars, disabled, clicks, failures>>
  /\ Goes(i, <<Ask(waiting[i].kind, "list", waiting[i].for)>>)

\* The script's last line: the runtime's description and the review panel are loaded, too.
OthersArrive(i) ==
  /\ waiting[i].at = "others"
  /\ polling' = (polling \/ activeRunId # None)
  /\ UNCHANGED <<daemonVars, sessionId, activeRunId, starting, sessionBusy, screenVars, disabled, clicks, failures>>
  /\ Goes(i, Poll)

-----------------------------------------------------------------------------
(* refreshConversation, and what follows it.                               *)

\* A run that was found running becomes the active one; if none was, the active run stays.
FoundActive(t) == IF t.got = "nothing" THEN activeRunId ELSE t.got

\* What was asked for before this, and is answered after it.
Overtaken(i) == {j \in DOMAIN waiting : j < i /\ waiting[j].at \in Refreshes}

Render(i, next) ==
  LET rest == [j \in DOMAIN waiting |-> [waiting[j] EXCEPT !.late = @ \/ j \in Overtaken(i)]] IN
  /\ shown' = waiting[i].of /\ late' = waiting[i].late /\ UNCHANGED listed
  /\ waiting' = SubSeq(rest, 1, i - 1) \o SubSeq(rest, i + 1, Len(rest)) \o next

\* Of a click, of the script's end, of a prompt (which is then polled for), or of a poll that is over.
RefreshArrives(i) ==
  LET t == waiting[i]
      loaded == t.at = "refresh" /\ t.kind \in {"boot", "select", "session"}
  IN
  /\ t.at \in Refreshes /\ t.got # None /\ t.kind # "poll"
  /\ activeRunId' = FoundActive(t)
  /\ starting' = (starting /\ t.kind # "start")
  /\ polling' = (polling \/ (t.kind = "start" /\ activeRunId' # None))
  /\ IF loaded THEN Loaded(t.kind) ELSE UNCHANGED sessionBusy
  /\ UNCHANGED <<daemonVars, sessionId, clicks, failures>>
  /\ SyncRunControls
  /\ Render(i, IF loaded THEN AfterSessions(t.kind) ELSE IF t.kind = "start" THEN Poll ELSE <<>>)

InspectArrives(i) ==
  /\ waiting[i].at = "inspect"
  /\ UNCHANGED <<daemonVars, stateVars, screenVars, disabled, clicks, failures>>
  /\ Goes(i, <<Ask("poll", "final", None)>>)

-----------------------------------------------------------------------------
(* Runs.                                                                   *)

PostArrives(i) ==
  LET t == waiting[i] IN
  /\ t.at = "post" /\ t.got # None
  /\ activeRunId' = t.for
  /\ UNCHANGED <<daemonVars, sessionId, starting, sessionBusy, polling, screenVars, disabled, clicks, failures>>
  /\ Goes(i, <<Ask("start", "refresh", None)>>)

\* poll: the status first, then a refresh.
StatusArrives(i) ==
  /\ waiting[i].at = "status" /\ waiting[i].got # None
  /\ UNCHANGED <<daemonVars, stateVars, screenVars, disabled, clicks, failures>>
  /\ Goes(i, <<Ask("poll", "refresh", waiting[i].got)>>)

\* The run is over: it is active no more, whichever run the refresh has found.
PolledOver(i) ==
  LET t == waiting[i] IN
  /\ t.kind = "poll" /\ t.at = "refresh" /\ t.got # None /\ t.for = "over"
  /\ activeRunId' = None
  /\ disabled' = Disabled(FoundActive(t), starting, sessionBusy)
  /\ UNCHANGED <<daemonVars, sessionId, starting, sessionBusy, polling, clicks, failures>>
  /\ Render(i, <<Ask("poll", "inspect", None)>>)

PolledRunning(i) ==
  LET t == waiting[i] IN
  /\ t.kind = "poll" /\ t.at = "refresh" /\ t.got # None /\ t.for = "running"
  /\ activeRunId' = FoundActive(t)
  /\ UNCHANGED <<daemonVars, sessionId, starting, sessionBusy, polling, clicks, failures>>
  /\ SyncRunControls
  /\ Render(i, <<Ask("poll", "timer", None)>>)

TimerFires(i) ==
  /\ waiting[i].at = "timer"
  /\ polling' = (activeRunId # None)
  /\ UNCHANGED <<daemonVars, sessionId, activeRunId, starting, sessionBusy, screenVars, disabled, clicks, failures>>
  /\ Goes(i, <<IF activeRunId # None THEN Ask("poll", "status", activeRunId)
                                     ELSE Ask("last", "refresh", None)>>)

\* The refresh of the inspected run: the loop is left, also if it has found another run.
PollEnds(i) ==
  LET t == waiting[i] IN
  /\ t.at = "final" /\ t.got # None
  /\ activeRunId' = FoundActive(t)
  /\ polling' = FALSE
  /\ UNCHANGED <<daemonVars, sessionId, starting, sessionBusy, clicks, failures>>
  /\ SyncRunControls
  /\ Render(i, <<Ask("last", "refresh", None)>>)

\* api throws: the catch and finally blocks of the handlers there are.
Fail(i) ==
  LET kind == waiting[i].kind IN
  /\ failures < MaxFailures /\ failures' = failures + 1
  /\ waiting[i].at # "timer"
  /\ starting' = (starting /\ kind # "start")
  /\ sessionBusy' = (sessionBusy /\ kind # "session")
  /\ polling' = (polling /\ kind # "poll")
  /\ UNCHANGED <<daemonVars, sessionId, activeRunId, screenVars, clicks>>
  /\ IF kind \in {"start", "session"} THEN SyncRunControls ELSE UNCHANGED disabled
  /\ Goes(i, IF kind = "poll" THEN <<Ask("last", "refresh", None)>> ELSE <<>>)

-----------------------------------------------------------------------------
(* The user.                                                               *)

Click ==
  /\ clicks < MaxClicks /\ Len(waiting) < MaxWaiting
  /\ clicks' = clicks + 1

Then(next) == waiting' = waiting \o next

ClickSession(s) ==
  /\ Click /\ s \in listed
  /\ ~sessionBusy /\ MaySelect(s)
  /\ sessionId' = s /\ activeRunId' = None
  /\ disabled' = disabled \cup {"cancel"}
  /\ UNCHANGED <<daemonVars, starting, sessionBusy, polling, screenVars, failures>>
  /\ Then(<<Ask("select", "list", s)>>)

\* What inspectRun asks for first is in.
ClickRun ==
  /\ Click /\ shown # None /\ \E r \in Runs : home[r] = shown
  /\ UNCHANGED <<daemonVars, stateVars, screenVars, disabled, failures>>
  /\ Then(<<Ask("inspect", "refresh", None)>>)

\* The form's submit event; the shortcut sends it with the button disabled, too.  (With no
\* session selected the request would only fail.)
Submit ==
  /\ Click /\ Free # {} /\ sessionId # None
  /\ activeRunId = None /\ ~starting
  /\ starting' = TRUE
  /\ UNCHANGED <<daemonVars, sessionId, activeRunId, sessionBusy, polling, screenVars, failures>>
  /\ SyncRunControls
  /\ Then(<<Ask("start", "post", NewRun)>>)

ClickNew ==
  /\ Click /\ "new" \notin disabled
  /\ FreeSessions # {}
  /\ activeRunId = None /\ ~starting /\ ~sessionBusy
  /\ sessionBusy' = TRUE
  /\ UNCHANGED <<daemonVars, sessionId, activeRunId, starting, polling, screenVars, failures>>
  /\ SyncRunControls
  /\ Then(<<Ask("session", "create", NewSession)>>)

-----------------------------------------------------------------------------
Arrives(i) ==
  \/ ListArrives(i) \/ ListIsEmpty(i) \/ SessionCreated(i) \/ OthersArrive(i)
  \/ RefreshArrives(i) \/ InspectArrives(i)
  \/ PostArrives(i) \/ StatusArrives(i) \/ PolledOver(i) \/ PolledRunning(i)
  \/ TimerFires(i) \/ PollEnds(i)

User ==
  \/ \E s \in Sessions : ClickSession(s)
  \/ Submit \/ ClickRun \/ ClickNew

Next ==
  \/ User
  \/ \E i \in DOMAIN waiting : Serve(i) \/ Arrives(i) \/ Fail(i)
  \/ \E s \in Sessions : OtherStarts(s)
  \/ \E r \in Runs : RunEnds(r)

Spec == Init /\ [][Next]_vars

\* What the page waits for comes or fails, and runs end; the user need not do anything.
Fairness ==
  /\ \A kind \in Kinds :
       WF_vars(\E i \in DOMAIN waiting : waiting[i].kind = kind /\ (Serve(i) \/ Arrives(i)))
  /\ \A r \in Runs : WF_vars(RunEnds(r))

FairSpec == Spec /\ Fairness

-----------------------------------------------------------------------------
Request ==
  [kind : Kinds, at : Places, of : Sessions \cup {None},
   for : Sessions \cup Runs \cup {None, "running", "over"},
   got : Runs \cup {None, "nothing", "running", "over"}, seen : SUBSET Sessions, late : BOOLEAN]

TypeOK ==
  /\ made \subseteq Sessions /\ over \subseteq Runs
  /\ home \in [Runs -> Sessions \cup {None}]
  /\ sessionId \in Sessions \cup {None} /\ activeRunId \in Runs \cup {None}
  /\ starting \in BOOLEAN /\ sessionBusy \in BOOLEAN /\ polling \in BOOLEAN
  /\ listed \subseteq Sessions /\ shown \in Sessions \cup {None} /\ late \in BOOLEAN
  /\ disabled \subseteq {"send", "new", "cancel"}
  /\ waiting \in Seq(Request)
  /\ clicks \in 0 .. MaxClicks /\ failures \in 0 .. MaxFailures

\* There is one loop that polls while the flag is set, and none otherwise (web-ui.ts:323-339).
OneLoop ==
  Cardinality({i \in DOMAIN waiting : waiting[i].kind = "poll"}) = IF polling THEN 1 ELSE 0

\* Once every answer is in, the screen shows the selected session and the buttons fit the
\* state, in whatever order sessions were clicked, created and answered for - unless a
\* request failed or the answer on the screen was overtaken by a later one's (240-295).
ScreenSettles ==
  /\ TypeOK /\ OneLoop
  /\ waiting = <<>> /\ failures = 0 =>
       /\ shown = sessionId \/ late
       /\ disabled = Disabled(activeRunId, starting, sessionBusy)

\* The flags `starting`, `sessionBusy` and `polling` are cleared: a prompt that starts, a
\* session that is made and the loop that polls come to an end, also if a request of
\* theirs fails (323-362).  A run may stay active though nobody polls for it: EndIsNoticed.
ControlsReturn == []<>(~starting /\ ~sessionBusy /\ ~polling)

\* A run that is shown as in progress is noticed to be over: the client polls.
EndIsNoticed == \A r \in Runs : activeRunId = r ~> activeRunId # r
=============================================================================
