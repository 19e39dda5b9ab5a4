----------------------------- MODULE Suspension -----------------------------
(***************************************************************************)
(* The suspension manager (packages/core/src/services/suspension.ts) with  *)
(* its coalescing queue, over the mobile database adapter.                 *)
(*                                                                         *)
(* Events of the platform ask for a suspend or a resume through a queue    *)
(* that runs one operation and remembers only the latest of the others.    *)
(* A suspend closes the gate, then drains: it waits for what was already   *)
(* sent to the database to settle, and after a grace period interrupts it. *)
(* The drain gives up when iOS's time runs out, or when the app is back in *)
(* the foreground.                                                         *)
(***************************************************************************)
EXTENDS MobileDb

CONSTANTS
  Task,      \* background tasks
  MaxEvents  \* bound: platform events

ASSUME EventsAssumption == MaxEvents \in Nat

VARIABLES
  mgr,       \* the manager's state
  screen,    \* where the app is
  app,       \* the app state the manager recorded
  tasks,     \* background tasks registered
  op,        \* the operation running in the queue
  pending,   \* the one operation behind it
  entered,   \* the drain began in the background
  saw,       \* what of waitForIdle the drain's present tick has seen settle
  drained,   \* how the last drain ended
  services,  \* the scheduler and the uploader
  events,    \* platform events so far
  hazard     \* history: the races named below that have happened

manager == <<mgr, screen, app, tasks, op, pending, entered, saw, drained, services, events>>
vars == <<db, manager, hazard>>

Init ==
  /\ DbInit
  /\ mgr = "active"
  /\ screen = "foreground" /\ app = "foreground"
  /\ tasks = {}
  /\ op = "none" /\ pending = "none"
  /\ entered = FALSE /\ saw = {} /\ drained = "none"
  /\ services = "running"
  /\ events = 0
  /\ hazard = {}

\* Where the event loop may turn: no operation's continuation is due either.
Turn == Quiet /\ op # "over"

(***************************************************************************)
(* Operations, up to their first await, given the app state and the tasks  *)
(* they find.  doResume has none and is over at once.                      *)
(***************************************************************************)
Skip == op' = "over" /\ UNCHANGED <<db, mgr, entered, saw, drained, services, hazard>>

doSuspend(recorded) ==
  IF mgr # "active" THEN Skip
  ELSE /\ mgr' = "suspending"
       /\ suspendDb
       /\ services' = "paused"
       /\ entered' = (recorded = "background")
       /\ saw' = {}
       /\ op' = "drain"
       /\ UNCHANGED <<drained, hazard>>

\* What a resume finds half done: a transaction whose last ROLLBACK was interrupted,
\* a replacement that has not taken the readers away yet.
Resumed ==
  (IF /\ conn.open
      /\ \A c \in Tx : call[c].pc \notin Running \/ (call[c].pc = "again" /\ call[c].hit)
   THEN {"strayTransaction"} ELSE {})
  \union (IF reset \in {"settle", "close"} THEN {"resumedReset"} ELSE {})

doResume ==
  IF mgr # "suspended" THEN Skip
  ELSE /\ mgr' = "active"
       /\ resumeDb
       /\ services' = "running"
       /\ op' = "over"
       /\ hazard' = hazard \union Resumed
       /\ UNCHANGED <<entered, saw, drained>>

Run(o, recorded, running) ==
  CASE o = "resume" -> doResume
    [] o = "maybeSuspend" ->
         IF running # {} \/ recorded # "background" THEN Skip ELSE doSuspend(recorded)
    [] o = "suspendUnlessBusy" ->
         IF running # {} THEN Skip ELSE doSuspend(recorded)

\* Mutant: an operation is dropped when another is already pending.
enqueueFirst(o, recorded, running) ==
  IF op = "none" THEN Run(o, recorded, running) /\ UNCHANGED pending
  ELSE /\ pending' = IF pending = "none" THEN o ELSE pending
       /\ UNCHANGED <<db, mgr, op, entered, saw, drained, services, hazard>>

\* CoalescingQueue.enqueue: runs now, or replaces whatever was pending.
enqueue(o, recorded, running) ==
  IF op = "none" THEN Run(o, recorded, running) /\ UNCHANGED pending
  ELSE /\ pending' = o
       /\ UNCHANGED <<db, mgr, op, entered, saw, drained, services, hazard>>

\* The operation's promise settled: the pending one runs.
RunPending ==
  /\ op = "over"
  /\ IF pending = "none"
     THEN op' = "none" /\ UNCHANGED <<db, mgr, pending, entered, saw, drained, services, hazard>>
     ELSE Run(pending, app, tasks) /\ pending' = "none"
  /\ UNCHANGED <<screen, app, tasks, events>>

(***************************************************************************)
(* The drain.                                                              *)
(***************************************************************************)
DrainSees ==
  /\ op = "drain"
  /\ \/ Inflight = {} /\ "idle" \notin saw /\ saw' = saw \union {"idle"}
     \/ ~Replacing /\ "replaced" \notin saw /\ saw' = saw \union {"replaced"}
  /\ UNCHANGED <<db, mgr, screen, app, tasks, op, pending, entered, drained, services, events, hazard>>

\* doSuspend's last lines.  Only a transaction left open makes it wait once more.
DrainEnds(how) ==
  /\ drained' = how
  /\ IF how = "clean" /\ conn.open
     THEN op' = "end" /\ UNCHANGED mgr
     ELSE op' = "over" /\ mgr' = "suspended"
  /\ UNCHANGED <<db, screen, app, tasks, pending, entered, saw, services, events, hazard>>

DrainIdle == op = "drain" /\ saw = {"idle", "replaced"} /\ DrainEnds("clean")

\* iOS's remaining time, or MAX_DRAIN_MS.
DrainLate == op = "drain" /\ Turn /\ saw # {"idle", "replaced"} /\ DrainEnds("late")

\* Seen when a tick begins.
DrainReturns == op = "drain" /\ Turn /\ entered /\ app # "background" /\ DrainEnds("returned")

\* A tick passed; once the grace period is over it interrupts.
DrainTick ==
  /\ op = "drain" /\ Turn /\ saw # {"idle", "replaced"}
  /\ saw' = {}
  /\ interruptDatabase \/ UNCHANGED db
  /\ UNCHANGED <<mgr, screen, app, tasks, op, pending, entered, drained, services, events, hazard>>

SuspendEnds ==
  /\ op = "end" /\ Turn
  /\ endOpenTransaction
  /\ mgr' = "suspended" /\ op' = "over"
  /\ UNCHANGED <<screen, app, tasks, pending, entered, saw, drained, services, events, hazard>>

(***************************************************************************)
(* Platform events.                                                        *)
(***************************************************************************)
Event == events < MaxEvents /\ events' = events + 1

NoOperation == UNCHANGED <<db, mgr, op, pending, entered, saw, drained, services, hazard>>

\* Android reports a background for a picker too, so there only a return counts.
Background ==
  /\ Event /\ Turn
  /\ screen = "foreground" /\ screen' = "background"
  /\ IF Ios
     THEN /\ app' = "background"
          /\ IF tasks = {} THEN enqueue("maybeSuspend", app', tasks) ELSE NoOperation
     ELSE UNCHANGED app /\ NoOperation
  /\ UNCHANGED tasks

Foreground ==
  /\ Event /\ Turn
  /\ screen = "background" /\ screen' = "foreground"
  /\ app' = "foreground"
  /\ enqueue("resume", app', tasks)
  /\ UNCHANGED tasks

registerBackgroundTask(t) ==
  /\ Event
  /\ t \notin tasks
  /\ tasks' = tasks \union {t}
  /\ enqueue("resume", app, tasks')
  /\ UNCHANGED <<screen, app>>

releaseBackgroundTask(t) ==
  /\ Event
  /\ t \in tasks
  /\ tasks' = tasks \ {t}
  /\ IF tasks' = {} /\ app = "background"
     THEN enqueue("maybeSuspend", app, tasks') ELSE NoOperation
  /\ UNCHANGED <<screen, app>>

\* The upload service stopped in the background: suspendForAndroidServiceStop.
ServiceStop ==
  /\ Event
  /\ ~Ios /\ screen = "background"
  /\ enqueue("suspendUnlessBusy", app, tasks)
  /\ UNCHANGED <<screen, app, tasks>>

\* resetData, from a press: the app is in front and has resumed.  The other callers of
\* resetDb show the splash first, and no suspend begins under it.
UserReset ==
  /\ Turn
  /\ screen = "foreground" /\ gate = "active"
  /\ resetDb
  /\ UNCHANGED <<manager, hazard>>

Platform ==
  \/ Background \/ Foreground \/ ServiceStop
  \/ \E t \in Task : registerBackgroundTask(t) \/ releaseBackgroundTask(t)

Drain == DrainSees \/ DrainIdle \/ DrainLate \/ DrainReturns \/ DrainTick

DbStep(A) == A /\ UNCHANGED <<manager, hazard>>

ResetStep == DbStep(ResetLocked \/ ResetSettled \/ ResetClose \/ (Turn /\ ResetReopen))

CallStep(c) == DbStep(Retry(c) \/ Granted(c) \/ Body(c) \/ (Turn /\ NativeEnd(c)))

Next ==
  \/ Platform \/ UserReset
  \/ RunPending \/ Drain \/ SuspendEnds
  \/ ResetStep
  \/ \E c \in Call : DbStep(Start(c)) \/ DbStep(Turn /\ GiveUp(c)) \/ CallStep(c)

Spec == Init /\ [][Next]_vars

\* The queue's operations and the drain's deadline are promises and timers of
\* their own, native statements end, and a transaction body awaits only those.
FairSpec ==
  /\ Spec
  /\ WF_vars(RunPending) /\ WF_vars(SuspendEnds)
  /\ WF_vars(DrainIdle) /\ WF_vars(DrainLate)
  /\ WF_vars(ResetStep)
  /\ \A c \in Call : WF_vars(CallStep(c))

(***************************************************************************)
(* Properties.                                                             *)
(***************************************************************************)
\* Once a drain ended clean nothing runs on the database, no transaction is
\* open and no replacement is under way until the app resumes, so iOS may
\* freeze the process: a call that waited for the lock, a transaction body or
\* a read that is retried must not start anything behind the closed gate.  And
\* a reset closes no connection under a running statement, a use after free:
\* whatever it waited for has ended and nothing else began.
FrozenIsQuiet ==
  /\ hazard = {} /\ mgr = "suspended" /\ drained = "clean" =>
       Inflight = {} /\ ~conn.open /\ reset \notin {"settle", "close", "open"}
  /\ hazard = {} /\ reset = "close" => Inflight = {}

\* A call has the writer only while it holds the lock, and no statement of one
\* call runs inside another's transaction.
WriterIsExclusive ==
  hazard = {} =>
    \A c \in Call :
      call[c].pc \in OnWriter \union {"body"} =>
        /\ claims # <<>> /\ Head(claims) = c
        /\ conn.work \subseteq {c} \X (1 .. TxSize)

\* A suspension owns the gate, whatever reset ends under it.  With no operation
\* left in the queue the app is suspended exactly when it is in the background
\* with no task registered, and its drain was not one that gave up because the
\* user was back: events in quick succession discard no operation that was needed.
RestsRight ==
  /\ hazard = {} /\ mgr \in {"suspending", "suspended"} => gate # "active"
  /\ hazard = {} /\ op = "none" /\ events > 0 =>
       /\ mgr # "suspending"
       /\ mgr = "suspended" <=> (app = "background" /\ tasks = {})
       /\ mgr = "suspended" <=> gate = "suspending"
       /\ mgr = "suspended" <=> services = "paused"
  /\ op = "none" /\ mgr = "suspended" /\ app = "background" => drained # "returned"

\* The app the user is looking at gets its database back.
ForegroundResumes ==
  screen = "foreground" /\ mgr # "active" ~> mgr = "active" \/ screen = "background"

\* A call the app is active for again and again ends: no wake-up at the gate,
\* at the lock or at the readers is lost.
CallsEnd ==
  \A c \in Call :
    []<>(gate = "active") => (call[c].pc # "new" ~> call[c].pc = "done")

\* Whatever suspends, interrupts and resumes cut into it, the adapter is an
\* atomic store: a call told ok is kept whole and for good, one refused left nothing.
Store == INSTANCE AtomicStore WITH
           kept <- durable, answer <- [c \in Call |-> call[c].answer]
StoreSpec == Store!Spec
=============================================================================
