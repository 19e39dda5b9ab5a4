--------------------------- MODULE ServiceInterval ---------------------------
(***************************************************************************)
(* The scheduler of the background services (core/lib/serviceInterval.ts), *)
(* as the mobile app uses it: one service, its chain of ticks, the         *)
(* triggers that bring a tick forward, the pause of a suspension, and the  *)
(* shutdown and the new start around a reset of the local data.            *)
(*                                                                         *)
(* A tick is pending in a timer, deferred until the resume, or running.    *)
(* Timers and deferred ticks differ only in the token of the init that     *)
(* made them, so they are counted by it; the timer the service's entry in  *)
(* the map names is kept apart, being the one that can be cleared.  Timers *)
(* fire, and workers end, in turns of the event loop of their own.  How    *)
(* long an interval is, and waitForIdle, which nothing calls, are left out.*)
(***************************************************************************)
EXTENDS Naturals, Sequences, SequencesExt, FiniteSets

CONSTANTS
  MaxStarts,    \* calls of init
  MaxPauses,    \* suspensions
  MaxTriggers   \* calls of triggerNow

ASSUME BoundAssumption == MaxStarts \in Nat /\ MaxPauses \in Nat /\ MaxTriggers \in Nat

VARIABLES
  token,   \* of the service's entry in the map, 0 when it has none
  sched,   \* the timers, the deferred ticks, the workers and their flags
  paused,
  stop,    \* of a reset of the app: "no", "waiting" for the workers, "stopped"
  starts, pauses, triggers,
  hazard   \* races that happened

vars == <<token, sched, paused, stop, starts, pauses, triggers, hazard>>

Token == 1 .. MaxStarts
Tick == [token : Token, aborted : BOOLEAN, awaited : BOOLEAN]

Sched == [mine : BOOLEAN,            \* the timer the entry names is pending
          strays : [Token -> Nat],   \* the other pending timers
          deferred : [Token -> Nat], \* pausedCallbacks
          running : BOOLEAN, rerun : BOOLEAN,
          ticks : Seq(Tick)]         \* the workers under way

TypeOK ==
  /\ token \in Token \union {0}
  /\ sched \in Sched
  /\ paused \in BOOLEAN
  /\ stop \in {"no", "waiting", "stopped"}
  /\ starts \in 0 .. MaxStarts /\ token <= starts
  /\ hazard \subseteq {"twoChains", "reinitialized"}

Init ==
  /\ token = 0
  /\ sched = [mine |-> FALSE, strays |-> [k \in Token |-> 0], deferred |-> [k \in Token |-> 0],
              running |-> FALSE, rerun |-> FALSE, ticks |-> <<>>]
  /\ paused = FALSE
  /\ stop = "no"
  /\ starts = 0 /\ pauses = 0 /\ triggers = 0
  /\ hazard = {}

(***************************************************************************)
(* The chain, as functions of `sched`.                                     *)
(***************************************************************************)
\* n timers are set by the init of token k: the entry names the last of them,
\* and no longer the one it named before.
Timers(s, k, n) ==
  IF n = 0 THEN s
  ELSE [s EXCEPT !.mine = TRUE, !.strays[k] = @ + n - (IF s.mine THEN 0 ELSE 1)]

\* Only the latest init, unless a shutdown removed the entry.
Current(k) == k = token /\ token # 0

\* Mutant: the next run is put in a timer though the scheduler is paused, and
\* a tick that fires in the pause ends the chain.
ScheduledDeaf(s, k) ==
  IF ~Current(k) \/ paused THEN s ELSE Timers(s, k, 1)

\* scheduleNextRun of the init that made token k.
Scheduled(s, k) ==
  IF ~Current(k) THEN s
  ELSE IF paused THEN [s EXCEPT !.deferred[k] = @ + 1]
  ELSE Timers(s, k, 1)

\* runTick of the init that made token k, up to its worker's first await.
Ticked(s, k) ==
  IF ~Current(k) THEN s
  ELSE IF paused THEN Scheduled(s, k)
  ELSE [s EXCEPT !.running = TRUE,
                 !.ticks = Append(@, [token |-> k, aborted |-> FALSE, awaited |-> FALSE])]

Aborted(s) ==
  [s EXCEPT !.ticks = [i \in DOMAIN @ |-> [@[i] EXCEPT !.aborted = TRUE]]]

(***************************************************************************)
(* Steps.                                                                  *)
(***************************************************************************)
Fire ==
  /\ \/ sched.mine /\ sched' = Ticked([sched EXCEPT !.mine = FALSE], token)
     \/ \E k \in Token :
          sched.strays[k] > 0 /\ sched' = Ticked([sched EXCEPT !.strays[k] = @ - 1], k)
  /\ UNCHANGED <<token, paused, stop, starts, pauses, triggers, hazard>>

\* A worker ended, well or not.  The rerun is of the latest init's tick.
WorkerEnd(i) ==
  LET ended == [sched EXCEPT !.running = FALSE, !.ticks = RemoveAt(@, i)] IN
  /\ sched' = IF sched.rerun /\ ~paused
              THEN Ticked([ended EXCEPT !.rerun = FALSE], token)
              ELSE Scheduled(ended, sched.ticks[i].token)
  /\ UNCHANGED <<token, paused, stop, starts, pauses, triggers, hazard>>

\* Mutant: the timer is not cleared when its tick is brought forward.
triggerNowAlso ==
  /\ token # 0 /\ triggers < MaxTriggers
  /\ triggers' = triggers + 1
  /\ sched' = IF sched.running THEN [sched EXCEPT !.rerun = TRUE] ELSE Ticked(sched, token)
  /\ hazard' = hazard \union
       (IF paused /\ ~sched.running /\ ~sched.mine THEN {"twoChains"} ELSE {})
  /\ UNCHANGED <<token, paused, stop, starts, pauses>>

\* Paused, it finds no timer to bring forward when the tick is deferred already,
\* and defers a second one.
triggerNow ==
  /\ token # 0 /\ triggers < MaxTriggers
  /\ triggers' = triggers + 1
  /\ sched' = IF sched.running THEN [sched EXCEPT !.rerun = TRUE]
              ELSE Ticked([sched EXCEPT !.mine = FALSE], token)
  /\ hazard' = hazard \union
       (IF paused /\ ~sched.running /\ ~sched.mine THEN {"twoChains"} ELSE {})
  /\ UNCHANGED <<token, paused, stop, starts, pauses>>

\* doSuspend, which an app that is starting or resetting blocks, pauses the
\* scheduler and aborts the workers in one go.
Pause ==
  /\ token # 0 /\ stop = "no" /\ ~paused /\ pauses < MaxPauses
  /\ pauses' = pauses + 1
  /\ paused' = TRUE
  /\ sched' = Aborted(sched)
  /\ UNCHANGED <<token, stop, starts, triggers, hazard>>

resume ==
  /\ paused
  /\ paused' = FALSE
  /\ sched' = [Timers(sched, token, IF token = 0 THEN 0 ELSE sched.deferred[token])
               EXCEPT !.deferred = [k \in Token |-> 0]]
  /\ UNCHANGED <<token, stop, starts, pauses, triggers, hazard>>

\* runResetFlow stops the services and waits for the workers.
shutdown ==
  /\ token # 0 /\ stop = "no"
  /\ token' = 0
  /\ stop' = "waiting"
  /\ sched' = [Aborted(sched) EXCEPT
                 !.mine = FALSE,
                 !.ticks = [i \in DOMAIN @ |-> [@[i] EXCEPT !.awaited = TRUE]]]
  /\ UNCHANGED <<paused, starts, pauses, triggers, hazard>>

ShutdownReturns ==
  /\ stop = "waiting"
  /\ \A i \in DOMAIN sched.ticks : ~sched.ticks[i].awaited
  /\ stop' = "stopped"
  /\ UNCHANGED <<token, sched, paused, starts, pauses, triggers, hazard>>

\* initApp starts the service, its own calls having passed the database's gate,
\* which opens in the tick of the resume.  The token starts from 1 where a
\* shutdown removed the entry.
init ==
  /\ ~paused /\ stop # "waiting" /\ starts < MaxStarts
  /\ starts' = starts + 1
  /\ token' = token + 1
  /\ sched' = [Aborted(sched) EXCEPT !.mine = TRUE, !.running = FALSE, !.rerun = FALSE]
  /\ stop' = "no"
  /\ hazard' = hazard \union (IF sched.ticks # <<>> THEN {"reinitialized"} ELSE {})
  /\ UNCHANGED <<paused, pauses, triggers>>

Next ==
  \/ Fire \/ \E i \in DOMAIN sched.ticks : WorkerEnd(i)
  \/ triggerNow \/ Pause \/ resume
  \/ shutdown \/ ShutdownReturns \/ init

Spec == Init /\ [][Next]_vars

\* Timers fire and workers end.
FairSpec ==
  /\ Spec
  /\ WF_vars(Fire) /\ WF_vars(\E i \in DOMAIN sched.ticks : WorkerEnd(i))

(***************************************************************************)
(* Properties.                                                             *)
(***************************************************************************)
Chains ==
  (IF sched.mine THEN 1 ELSE 0) + sched.strays[token] + sched.deferred[token]
    + Cardinality({i \in DOMAIN sched.ticks : sched.ticks[i].token = token})

\* A started service has one chain of ticks, neither none nor two, whatever triggers,
\* pauses, resets and starts come between them, so it runs one worker at a
\* time, as the flags of a tick and the services themselves assume.  A worker
\* under way in a pause or a shutdown was told to stop, and a reset finds none.
\* Except for two races: a trigger in a pause, and an init beside a worker.
OneChain ==
  /\ hazard = {} /\ token # 0 => Chains = 1
  /\ hazard = {} => Len(sched.ticks) <= 1 /\ (sched.running <=> sched.ticks # <<>>)
  /\ paused \/ stop # "no" => \A i \in DOMAIN sched.ticks : sched.ticks[i].aborted
  /\ stop = "stopped" => sched.ticks = <<>>

\* A started service that is not left paused ticks for ever: no pause, trigger
\* or failure takes its last tick away.
KeepsTicking == <>[](token # 0 /\ ~paused) => []<>(sched.ticks # <<>>)
=============================================================================
