----------------------------- MODULE Downloads -----------------------------
(***************************************************************************)
(* The downloads namespace (packages/core/src/app/namespaces/downloads.ts) *)
(* over the slot pool: calls for files and for share links, their          *)
(* bookkeeping by id, the space they promise each other, their wait for a  *)
(* slot, and cancels at any await.                                         *)
(*                                                                         *)
(* A run is one execute() or executeShareUrl().  A controller and a run's  *)
(* promise are the number of the run.  Bytes arrive on disk at once, at    *)
(* the end of a transfer; a cancelled transfer leaves none.                *)
(***************************************************************************)
EXTENDS SlotPool

CONSTANTS
  File,      \* ids of files
  Share,     \* ids of share links
  Size,      \* of each id, as space on disk and as weight in the pool
  Disk,      \* free space at the start, the preserved reserve left out
  Room,      \* what budget.downloadRoom() may return
  Slots,     \* what the settings may allow to run at once
  Depth,     \* MAX_BACKGROUND_DOWNLOADS_QUEUED
  MaxRuns,   \* bound: runs
  MaxActs    \* bound: cancels, space checks of the screens, settings

Id == File \union Share
RunId == 1 .. MaxRuns

ASSUME DownloadsAssumption ==
  /\ IsFiniteSet(Id) /\ Size \in [Id -> Nat \ {0}] /\ Disk \in Nat
  /\ Room \subseteq Nat /\ Slots \subseteq Nat \ {0} /\ Depth \in Nat \ {0}
  /\ MaxRuns \in Nat /\ MaxActs \in Nat

VARIABLES
  controllers, inFlight,  \* the run each id maps to, 0 for none
  priorities,
  inFlightSizes,          \* the ids whose size is counted
  dropped,
  downloads,              \* state: the status shown for each id
  pool,
  run,
  lock,                   \* localCopyLock: the runs holding or waiting, by id
  probe,                  \* deviceSpaceProbe: free is what it read, -1 before
  written,                \* the ids whose bytes are complete on disk
  acts, hazard

maps == <<controllers, inFlight, priorities, inFlightSizes, dropped, downloads>>
vars == <<maps, pool, run, lock, probe, written, acts, hazard>>

NoRun == [id |-> "none", pc |-> "none", aborted |-> FALSE, asked |-> FALSE, free |-> -1]
NoProbe == [on |-> FALSE, free |-> -1]
SlotPriority == [user |-> 0, background |-> 1]
Bytes(ids) == MapThenSumSet(LAMBDA i : Size[i], ids)
Free == Disk - Bytes(written)
\* What a probe that throws counts as: every check passes.
Unread == Disk + Bytes(Id)

Started == {r \in RunId : run[r].pc # "none"}
Live(r) == run[r].pc \notin {"none", "over"} /\ ~run[r].aborted
current(r) == controllers[run[r].id] = r

Init ==
  /\ controllers = [i \in Id |-> 0] /\ inFlight = [i \in Id |-> 0]
  /\ priorities = [i \in Id |-> "none"] /\ inFlightSizes = {} /\ dropped = {}
  /\ downloads = [i \in Id |-> "none"]
  /\ \E n \in Slots, c \in Room : pool = [max |-> n, capacity |-> c, queue |-> <<>>, holders |-> {}]
  /\ run = [r \in RunId |-> NoRun]
  /\ lock = [i \in File |-> <<>>]
  /\ probe = NoProbe /\ written = {} /\ acts = 0 /\ hazard = {}

\* The event loop turns only when no continuation is due: of a settled probe, a grant or an eviction.
Quiet == \A r \in Started : run[r].pc \notin {"check", "ready"} /\ (run[r].pc = "wait" => r \in waiting(pool))
Act == Quiet /\ acts < MaxActs /\ acts' = acts + 1

Goto(r, pc) == run' = [run EXCEPT ![r].pc = pc]
update(i, status) == downloads' = [downloads EXCEPT ![i] = IF @ = "none" THEN @ ELSE status]

(***************************************************************************)
(* How a run ends.  `how` is removed (here already, refused for a          *)
(* suspension or for space, a share link done), dropped, stopped           *)
(* (cancelled), error or done.  Only execute() asks whether the id's       *)
(* entries are still its own.                                              *)
(***************************************************************************)
Clear(i, clears, unlists) ==
  /\ controllers' = [controllers EXCEPT ![i] = IF clears THEN 0 ELSE @]
  /\ priorities' = [priorities EXCEPT ![i] = IF clears THEN "none" ELSE @]
  /\ inFlight' = [inFlight EXCEPT ![i] = IF unlists THEN 0 ELSE @]
  /\ inFlightSizes' = inFlightSizes \ (IF unlists THEN {i} ELSE {})

Shown(r, how, removes) ==
  LET old == downloads[run[r].id]
      new == IF how = "done" \/ (how = "error" /\ ~run[r].aborted) THEN how ELSE old
  IN IF removes \/ old = "none" THEN "none" ELSE new

Over(r, l) ==
  /\ run' = [run EXCEPT ![r] = [NoRun EXCEPT !.pc = "over"]]
  /\ pool' = releaseSlot(pool, r)
  /\ lock' = l

\* Mutant: the finally clears whatever the id's entries belong to.
FileEndsUnguarded(r, how) ==
  LET i == run[r].id
  IN /\ Clear(i, TRUE, TRUE)
     /\ downloads' = [downloads EXCEPT ![i] = Shown(r, how, how \in {"removed", "dropped"})]
     /\ dropped' = dropped \union (IF how = "dropped" THEN {i} ELSE {})
     /\ Over(r, [lock EXCEPT ![i] = Remove(@, r)])
     /\ UNCHANGED hazard
FileEnds(r, how) ==
  LET i == run[r].id
      removes == how \in {"removed", "dropped"} /\ current(r)
  IN /\ Clear(i, current(r), current(r))
     /\ downloads' = [downloads EXCEPT ![i] = Shown(r, how, removes)]
     /\ dropped' = dropped \union (IF how = "dropped" /\ current(r) THEN {i} ELSE {})
     /\ Over(r, [lock EXCEPT ![i] = Remove(@, r)])
     /\ UNCHANGED hazard

\* Race crossed: the entries were those of a later run, started after a cancel of this one.
ShareEnds(r, how) ==
  LET i == run[r].id
  IN /\ Clear(i, how = "removed", TRUE)
     /\ downloads' = [downloads EXCEPT ![i] = Shown(r, how, how = "removed")]
     /\ hazard' = hazard \union (IF inFlight[i] \notin {0, r} THEN {"crossed"} ELSE {})
     /\ Over(r, lock)
     /\ UNCHANGED dropped

Ends(r, how) ==
  /\ IF run[r].id \in File THEN FileEnds(r, how) ELSE ShareEnds(r, how)
  /\ UNCHANGED <<written, acts>>

\* A database error, one of a suspension, or the SDK's.  None of its own for a cancelled transfer.
Fails(r) ==
  /\ Quiet
  /\ run[r].pc \in {"start", "present", "objects", "transfer", "record"}
  /\ \E how \in {"error"} \union (IF run[r].pc = "transfer" THEN {} ELSE {"removed"}) : Ends(r, how)
  /\ UNCHANGED probe

\* The signal reaches the transfer.
Stops(r) ==
  /\ Quiet /\ run[r].pc = "transfer" /\ run[r].aborted
  /\ Ends(r, "stopped") /\ UNCHANGED probe

(***************************************************************************)
(* Calls.                                                                  *)
(***************************************************************************)
register(r, i, priority) ==
  /\ r = Cardinality(Started) + 1 /\ r \in RunId
  /\ run' = [run EXCEPT ![r] = [NoRun EXCEPT !.id = i, !.pc = "start", !.asked = (priority = "user")]]
  /\ controllers' = [controllers EXCEPT ![i] = r]
  /\ inFlight' = [inFlight EXCEPT ![i] = r]
  /\ dropped' = dropped \ {i}
  /\ downloads' = [downloads EXCEPT ![i] = "queued"]

downloadFile(i, priority) ==
  /\ Quiet /\ i \in File
  /\ IF inFlight[i] = 0
     THEN /\ \E r \in RunId : register(r, i, priority)
          /\ priorities' = [priorities EXCEPT ![i] = priority]
          /\ UNCHANGED pool
     ELSE /\ priority = "user" /\ priorities[i] = "background"
          /\ priorities' = [priorities EXCEPT ![i] = "user"]
          /\ pool' = promote(pool, i, SlotPriority["user"])
          /\ run' = [run EXCEPT ![inFlight[i]].asked = TRUE]
          /\ UNCHANGED <<controllers, inFlight, dropped, downloads>>
  /\ UNCHANGED <<inFlightSizes, lock, probe, written, acts, hazard>>

downloadFromShareUrl(i) ==
  /\ Quiet /\ i \in Share /\ inFlight[i] = 0
  /\ \E r \in RunId : register(r, i, "background")
  /\ UNCHANGED <<priorities, inFlightSizes, pool, lock, probe, written, acts, hazard>>

Aborted(rs) == [r \in RunId |-> IF r \in rs THEN [run[r] EXCEPT !.aborted = TRUE] ELSE run[r]]

cancel(i) ==
  /\ Act
  /\ run' = Aborted({controllers[i]})
  /\ pool' = abortWaiters(pool, {controllers[i]})
  /\ controllers' = [controllers EXCEPT ![i] = 0]
  /\ inFlight' = [inFlight EXCEPT ![i] = 0]
  /\ priorities' = [priorities EXCEPT ![i] = "none"]
  /\ inFlightSizes' = inFlightSizes \ {i}
  /\ downloads' = [downloads EXCEPT ![i] = "none"]
  /\ UNCHANGED <<dropped, lock, probe, written, hazard>>

\* Aborted one after the other: a slot may go to a waiter that is cancelled next.
cancelAll ==
  LET all == {controllers[i] : i \in Id} \ {0}
  IN /\ Act
     /\ run' = Aborted(all)
     /\ pool' = FoldLeft(LAMBDA p, r : abortWaiters(p, {r} \intersect all), pool, [r \in RunId |-> r])
     /\ controllers' = [i \in Id |-> 0] /\ inFlight' = [i \in Id |-> 0]
     /\ priorities' = [i \in Id |-> "none"] /\ inFlightSizes' = {} /\ dropped' = {}
     /\ downloads' = [i \in Id |-> "none"]
     /\ UNCHANGED <<lock, probe, written, hazard>>

SetSlots(n) ==
  /\ Act /\ n # pool.max /\ pool' = setMaxSlots(pool, n)
  /\ UNCHANGED <<maps, run, lock, probe, written, hazard>>

(***************************************************************************)
(* The space check.                                                        *)
(***************************************************************************)
probeDeviceSpace == probe' = [probe EXCEPT !.on = TRUE]

\* A screen's own check: what matters of it is that it may start the probe.
Precheck ==
  /\ Act /\ ~probe.on /\ probeDeviceSpace
  /\ UNCHANGED <<maps, pool, run, lock, written, hazard>>

ProbeReads ==
  /\ Quiet /\ probe.on /\ probe.free = -1
  /\ \E free \in {Free, Unread} : probe' = [probe EXCEPT !.free = free]
  /\ UNCHANGED <<maps, pool, run, lock, written, acts, hazard>>

ProbeSettles ==
  /\ Quiet /\ probe.free # -1
  /\ probe' = NoProbe
  /\ run' = [r \in RunId |-> IF run[r].pc = "probe"
                             THEN [run[r] EXCEPT !.pc = "check", !.free = probe.free] ELSE run[r]]
  /\ UNCHANGED <<maps, pool, lock, written, acts, hazard>>

\* What the other downloads have promised, and the verdict on a reading.
Promised(i) == Bytes(inFlightSizes \ {i})
HasSpace(i, free) == free - Promised(i) >= Size[i]

(***************************************************************************)
(* A run, from await to await.                                             *)
(***************************************************************************)
\* Mutant: the size is not recorded before the check.
ReserveLater(r) == inFlightSizes' = inFlightSizes /\ probeDeviceSpace /\ Goto(r, "probe")
Reserve(r) ==
  /\ inFlightSizes' = inFlightSizes \union {run[r].id}
  /\ probeDeviceSpace /\ Goto(r, "probe")

\* The file's record and the size of its local copy are read, or the share link is resolved.
Sized(r) ==
  /\ Quiet /\ run[r].pc = "start"
  /\ \/ /\ run[r].id \in File /\ run[r].aborted
        /\ Ends(r, "stopped") /\ UNCHANGED probe
     \/ /\ run[r].id \in File /\ ~run[r].aborted /\ run[r].id \in written
        /\ Goto(r, "present") /\ UNCHANGED <<maps, pool, lock, probe, written, acts, hazard>>
     \/ /\ run[r].id \in Share \/ ~run[r].aborted
        /\ run[r].id \in Share \/ run[r].id \notin written
        /\ Reserve(r)
        /\ UNCHANGED <<controllers, inFlight, priorities, dropped, downloads, pool, lock, written, acts, hazard>>

Present(r) ==
  /\ Quiet /\ run[r].pc = "present"
  /\ Ends(r, "removed") /\ UNCHANGED probe

\* Races: the reading is older than bytes written since by a download that no longer
\* promises them (staleProbe), or there was none (unread).
Misread(r) ==
  IF HasSpace(run[r].id, Free) THEN {}
  ELSE IF run[r].free = Unread THEN {"unread"} ELSE {"staleProbe"}

CheckSpace(r) ==
  /\ run[r].pc = "check"
  /\ \/ /\ HasSpace(run[r].id, run[r].free)
        /\ run' = [run EXCEPT ![r].pc = IF run[r].id \in File THEN "objects" ELSE "ready", ![r].free = -1]
        /\ hazard' = hazard \union Misread(r)
        /\ UNCHANGED <<maps, pool, lock, written, acts>>
     \/ /\ ~HasSpace(run[r].id, run[r].free)
        /\ Ends(r, "removed")
  /\ UNCHANGED probe

\* The priority is read at the call; a share link has the user's, and waits at any depth.
Acquire(r) ==
  LET i == run[r].id
      priority == IF i \in Share THEN "user" ELSE priorities[i]
      depth == IF priority = "background" THEN <<Depth>> ELSE <<>>
      entry == [run |-> r, key |-> IF i \in Share THEN "none" ELSE i,
                priority |-> SlotPriority[priority], weight |-> Size[i]]
  IN /\ run[r].pc = "ready" \/ (Quiet /\ run[r].pc = "objects")
     /\ \/ /\ run[r].aborted
           /\ Ends(r, "stopped")
        \/ /\ ~run[r].aborted
           /\ \E room \in Room : pool' = acquire(setCapacity(pool, room), entry, depth)
           /\ Goto(r, "wait")
           /\ UNCHANGED <<maps, lock, written, acts, hazard>>
     /\ UNCHANGED probe

\* The slot is granted.  A file then waits for its local copy's lock.
Granted(r) ==
  LET i == run[r].id
  IN /\ run[r].pc = "wait" /\ r \in holding(pool)
     /\ update(i, "downloading")
     /\ Goto(r, IF i \in File THEN "lock" ELSE "transfer")
     /\ lock' = IF i \in File THEN [lock EXCEPT ![i] = Append(@, r)] ELSE lock
     /\ UNCHANGED <<controllers, inFlight, priorities, inFlightSizes, dropped, pool, probe, written, acts, hazard>>

\* The wait for a slot is over without one: cancelled, or dropped for a later background waiter.
Evicted(r) ==
  /\ run[r].pc = "wait" /\ r \notin holding(pool) \union waiting(pool)
  /\ Ends(r, "dropped") /\ UNCHANGED probe

Locked(r) ==
  /\ Quiet /\ run[r].pc = "lock" /\ Head(lock[run[r].id]) = r
  /\ \/ run[r].aborted /\ Ends(r, "stopped")
     \/ ~run[r].aborted /\ Goto(r, "transfer") /\ UNCHANGED <<maps, pool, lock, written, acts, hazard>>
  /\ UNCHANGED probe

Transferred(r) ==
  /\ Quiet /\ run[r].pc = "transfer" /\ ~run[r].aborted
  /\ written' = written \union {run[r].id}
  /\ Goto(r, "record")
  /\ UNCHANGED <<maps, pool, lock, probe, acts, hazard>>

\* The fs row is written; a share link has none.
Record(r) ==
  /\ Quiet /\ run[r].pc = "record"
  /\ \E how \in IF run[r].id \in File THEN {"done"} ELSE IF run[r].aborted THEN {"stopped"} ELSE {"removed"} :
       Ends(r, how)
  /\ UNCHANGED probe

Step(r) ==
  \/ Sized(r) \/ Present(r) \/ CheckSpace(r) \/ Acquire(r) \/ Granted(r) \/ Evicted(r)
  \/ Locked(r) \/ Transferred(r) \/ Record(r) \/ Fails(r) \/ Stops(r)

Call ==
  \/ \E i \in File, priority \in {"user", "background"} : downloadFile(i, priority)
  \/ \E i \in Share : downloadFromShareUrl(i)
  \/ \E i \in Id : cancel(i)
  \/ cancelAll
  \/ \E n \in Slots : SetSlots(n)

Next ==
  \/ \E r \in Started : Step(r)
  \/ Call \/ Precheck \/ ProbeReads \/ ProbeSettles

Spec == Init /\ [][Next]_vars

-----------------------------------------------------------------------------
(***************************************************************************)
(* Properties.                                                             *)
(***************************************************************************)

\* A download that was not cancelled is the one its id leads to: a second call joins it
\* instead of writing the same file, and a cancel aborts it.  However calls and cancels
\* interleave with its awaits, no other run's end takes its entries away, but for the race
\* crossed: executeShareUrl does not ask, as execute does, whose entries it clears.
Reachable ==
  hazard \cap {"crossed"} = {} =>
    \A r \in Started : Live(r) => controllers[run[r].id] = r /\ inFlight[run[r].id] = r

\* The bytes of the downloads under way that passed their space check and those already
\* written never exceed the space there was: two downloads cannot both pass against the
\* same free bytes.  But for a reading older than the bytes it is held against, for none,
\* and for the race crossed.
PromisedFits ==
  LET passed == {r \in Started : Live(r) /\ run[r].pc \in {"objects", "ready", "wait", "lock", "transfer", "record"}}
  IN hazard = {} => Bytes(written \union {run[r].id : r \in passed}) <= Disk

\* No waiter that could run waits: whatever left the pool or the queue, or changed its
\* limits, served the queue again.
RoomIsUsed == drain(pool) = pool

\* A download the user asked for is never left behind the background ones, nor dropped to
\* make room for another of them, whenever the user asked: before the run had a place in
\* the pool or while it waited.
UserFirst ==
  \A r \in Started : run[r].asked /\ ~run[r].aborted /\ run[r].pc = "wait" =>
    /\ r \in waiting(pool) \union holding(pool)
    /\ \A i \in DOMAIN pool.queue : pool.queue[i].run = r => pool.queue[i].priority = 0
=============================================================================
