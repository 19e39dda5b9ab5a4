------------------------------ MODULE Uploader ------------------------------
(***************************************************************************)
(* The upload manager (packages/core/src/services/uploader.ts) with the    *)
(* uploads store (app/namespaces/uploads.ts): files are taken from two     *)
(* queues, added to the packer of the open batch, and the batch is         *)
(* finalized, pinned and recorded as a whole.  Everything runs on one      *)
(* thread, so a step here goes from one await to the next.                 *)
(*                                                                         *)
(* Sizes are abstracted: whether a batch is flushed before or after an add *)
(* is a free choice, as are the lengths of the windows of adds.            *)
(***************************************************************************)
EXTENDS Integers, Sequences, SequencesExt, FiniteSets

CONSTANTS
  File,
  MaxGen,    \* bound: loops started
  MaxBatch,  \* bound: batches at a time, of which the code has at most two
  MaxActs,   \* bound: acts of the user and of the suspension manager
  MaxFails   \* bound: failures of the SDK and of the database

ASSUME UploaderAssumption ==
  /\ IsFiniteSet(File)
  /\ MaxGen \in Nat \ {0} /\ MaxBatch \in Nat \ {0}
  /\ MaxActs \in Nat /\ MaxFails \in Nat

VARIABLES
  file,      \* live, trashed, deleted (a tombstone), or gone with its row
  objects,   \* the files with an object row
  pins,      \* history: how many objects of each file were pinned
  swapped,   \* history: files pinned with the object of another
  uploads,   \* the uploads store: a status that is active, an error, or no entry
  explicit,  \* explicitQueue
  polled,    \* polledFiles
  draining,  \* the loop whose entries shutdown() clears, 0 for none
  active,
  suspended,
  generation,
  current,   \* this.batch and this.packer, 0 for null
  uploading, \* uploadingBatch and uploadingPacker, 0 for null
  flushing,  \* 0 for null
  batch,     \* the batches opened, each with what its packer has added
  loop,      \* runLoop of each generation
  shut,      \* shutdown() waiting for a flush
  acts, fails, hazard

store == <<file, objects, pins, swapped>>
queues == <<explicit, polled, draining>>
flags == <<active, suspended, generation, shut>>
handles == <<current, uploading, flushing>>
counts == <<acts, fails, hazard>>
vars == <<store, uploads, queues, flags, handles, batch, loop, counts>>

Gen == 1 .. MaxGen
Batch == 1 .. MaxBatch
NoBatch == [phase |-> "none", files |-> <<>>, added |-> <<>>, cancelled |-> FALSE,
            at |-> 1, won |-> {}, gone |-> {}]
NoLoop == [pc |-> "none", entries |-> <<>>, next |-> 1, window |-> 0, fly |-> <<>>,
           batch |-> 0, found |-> {}, last |-> FALSE]

Act == acts < MaxActs /\ acts' = acts + 1
Fail == fails < MaxFails /\ fails' = fails + 1

Stale(g) == ~active \/ generation # g

\* The uploads store: setStatus, failEntry (an entry is removed when the database
\* refused it for a suspension, to be polled again), removeMany.
setStatus(up, ids) == [f \in File |-> IF f \in ids /\ up[f] # "none" THEN "active" ELSE up[f]]
failEntry(up, ids, refused) ==
  [f \in File |-> IF f \in ids /\ up[f] # "none" THEN IF refused THEN "none" ELSE "error" ELSE up[f]]
removeMany(up, ids) == [f \in File |-> IF f \in ids THEN "none" ELSE up[f]]

getActiveIds == {f \in File : uploads[f] = "active"}
notActive(ids) == SetToSeq(ids \ getActiveIds)

\* wake(), and the resolver of waitForResume().
Woken(l, pcs) == [g \in Gen |-> IF l[g].pc \in pcs THEN [l[g] EXCEPT !.pc = "top"] ELSE l[g]]

(***************************************************************************)
(* The loop: take the queues, or poll, or wait.                            *)
(***************************************************************************)
Goto(g, pc) == loop' = [loop EXCEPT ![g].pc = pc]

Top(g) ==
  /\ loop[g].pc = "top"
  /\ IF ~Stale(g) /\ ~suspended /\ explicit \o polled # <<>>
     THEN /\ loop' = [loop EXCEPT ![g] = [NoLoop EXCEPT !.pc = "entries", !.entries = explicit \o polled]]
          /\ explicit' = <<>> /\ polled' = <<>> /\ draining' = g
     ELSE /\ Goto(g, IF Stale(g) THEN "over" ELSE IF suspended THEN "parked" ELSE "query")
          /\ UNCHANGED queues
  /\ UNCHANGED <<store, uploads, flags, handles, batch, counts>>

\* What the loop does with nothing to take, and after the poll of an idle wait.
Waits(g) == IF Stale(g) THEN "over"
            ELSE IF suspended \/ (loop[g].last /\ current = 0) THEN "top"
            ELSE IF current # 0 THEN "idle" ELSE "sleep"

\* flush(): the batch and its packer change hands, then uploadBatch runs.
Flush(g, up, bs, l) ==
  /\ current' = 0 /\ uploading' = current /\ flushing' = current
  /\ batch' = [bs EXCEPT ![current].phase = "finalize"]
  /\ uploads' = setStatus(up, ToSet(bs[current].files))
  /\ loop' = [loop EXCEPT ![g] = [l EXCEPT !.batch = current]]
  /\ hazard' = IF suspended THEN hazard \union {"suspended"} ELSE hazard

\* The sync gate is active, or the account is full: the loop waits, even with a
\* batch open.
Gated(g) ==
  /\ loop[g].pc \in {"top", "query"} /\ ~loop[g].last
  /\ ~Stale(g) /\ (loop[g].pc = "top" => ~suspended)
  /\ loop' = [loop EXCEPT ![g] = [NoLoop EXCEPT !.pc = IF suspended THEN "top" ELSE "sleep"]]
  /\ UNCHANGED <<store, uploads, queues, flags, handles, batch, counts>>

\* No connection, no scan, or an error of the query: nothing is polled.
PollSkip(g) ==
  /\ loop[g].pc = "query"
  /\ IF loop[g].last /\ Waits(g) = "idle"
     THEN Flush(g, uploads, batch, [NoLoop EXCEPT !.pc = "flush"])
     ELSE Goto(g, Waits(g)) /\ UNCHANGED <<handles, batch, uploads, hazard>>
  /\ UNCHANGED <<store, queues, flags, acts, fails>>

\* The query of pollDB.
Query(g) ==
  /\ loop[g].pc = "query"
  /\ loop' = IF Stale(g) THEN [loop EXCEPT ![g].pc = "over"]
             ELSE [loop EXCEPT ![g].pc = "poll",
                     ![g].found = {f \in File \ (objects \union getActiveIds) : file[f] = "live"}]
  /\ UNCHANGED <<store, uploads, queues, flags, handles, batch, counts>>

\* Mutant: the files found are queued without looking at the store again.
pollDBTwice(g) ==
  /\ loop[g].pc = "poll"
  /\ LET fresh == SetToSeq(loop[g].found)
     IN  /\ uploads' = [f \in File |-> IF f \in ToSet(fresh) THEN "active" ELSE uploads[f]]
         /\ polled' = polled \o fresh
         /\ Goto(g, IF explicit \o polled' # <<>> THEN "top" ELSE Waits(g))
  /\ UNCHANGED <<store, explicit, draining, flags, handles, batch, counts>>

pollDB(g) ==
  /\ loop[g].pc = "poll"
  /\ LET fresh == IF Stale(g) THEN <<>> ELSE notActive(loop[g].found)
         waiting == explicit \o polled \o fresh # <<>>
     IN \/ /\ waiting \/ ~(loop[g].last /\ Waits(g) = "idle")
           /\ uploads' = [f \in File |-> IF f \in ToSet(fresh) THEN "active" ELSE uploads[f]]
           /\ polled' = polled \o fresh
           /\ Goto(g, IF waiting /\ ~Stale(g) THEN "top" ELSE Waits(g))
           /\ UNCHANGED <<handles, batch, hazard>>
        \/ /\ ~waiting /\ loop[g].last /\ Waits(g) = "idle"
           /\ Flush(g, uploads, batch, [NoLoop EXCEPT !.pc = "flush"])
           /\ UNCHANGED polled
  /\ UNCHANGED <<store, explicit, draining, flags, acts, fails>>

\* Mutant: the poll before the flush is taken for any other.
TimeoutForgets(g) ==
  /\ loop[g].pc \in {"idle", "sleep"}
  /\ loop' = [loop EXCEPT ![g].pc = IF @ = "idle" THEN "query" ELSE "top"]
  /\ UNCHANGED <<store, uploads, queues, flags, handles, batch, counts>>

\* waitForWorkOrTimeout times out: with a batch open, the poll before its flush.
Timeout(g) ==
  /\ loop[g].pc \in {"idle", "sleep"}
  /\ loop' = [loop EXCEPT ![g].pc = IF @ = "idle" THEN "query" ELSE "top",
                          ![g].last = loop[g].pc = "idle"]
  /\ UNCHANGED <<store, uploads, queues, flags, handles, batch, counts>>

(***************************************************************************)
(* processEntries, processEntry and processWindow.                         *)
(***************************************************************************)
Rest(g) == SubSeq(loop[g].entries, loop[g].next, Len(loop[g].entries))
Entry(g) == loop[g].entries[loop[g].next]
Ready(g) == loop[g].pc = "entries" /\ ~Stale(g) /\ ~suspended /\ Rest(g) # <<>>
Advanced(l) == [l EXCEPT !.pc = "entries", !.next = @ + l.window, !.window = 0]

\* The entries left by a suspension are queued again; a stale loop drops its own.
EntriesEnd(g) ==
  /\ loop[g].pc = "entries" /\ ~Ready(g)
  /\ explicit' = IF Stale(g) THEN explicit ELSE Rest(g) \o explicit
  /\ draining' = IF draining = g THEN 0 ELSE draining
  /\ loop' = [loop EXCEPT ![g] = [NoLoop EXCEPT !.pc = "top"]]
  /\ UNCHANGED <<store, uploads, polled, flags, handles, batch, counts>>

\* Entries join the batch's files before the packer is asked to add them.
Adding(g, b, bs, n) ==
  LET es == SubSeq(loop[g].entries, loop[g].next, loop[g].next + n - 1) IN
  /\ batch' = [bs EXCEPT ![b].files = @ \o es]
  /\ uploads' = setStatus(uploads, ToSet(es))
  /\ loop' = [loop EXCEPT ![g].pc = "add", ![g].fly = es, ![g].window = n, ![g].batch = b]

processWindow(g) ==
  /\ Ready(g) /\ current # 0
  /\ \E n \in 1 .. Len(Rest(g)) : Adding(g, current, batch, n)
  /\ UNCHANGED <<store, queues, flags, handles, counts>>

\* The flush before an add that would fill a slab badly.
PreFlush(g) ==
  /\ Ready(g) /\ current # 0 /\ batch[current].files # <<>>
  /\ Flush(g, uploads, batch, [loop[g] EXCEPT !.pc = "flush", !.last = TRUE])
  /\ UNCHANGED <<store, queues, flags, acts, fails>>

Open(g) ==
  /\ Ready(g) /\ current = 0
  /\ Goto(g, "open")
  /\ UNCHANGED <<store, uploads, queues, flags, handles, batch, counts>>

\* uploadPacked returns: a packer nobody waits for is cancelled.
Opened(g) ==
  /\ loop[g].pc = "open"
  /\ IF Stale(g) THEN Goto(g, "entries") /\ UNCHANGED <<current, batch, uploads>>
     ELSE \E b \in Batch :
            /\ batch[b].phase = "none" /\ \A c \in 1 .. (b - 1) : batch[c].phase # "none"
            /\ current' = b
            /\ Adding(g, b, [batch EXCEPT ![b] = [NoBatch EXCEPT !.phase = "open"]], 1)
  /\ UNCHANGED <<store, queues, flags, uploading, flushing, counts>>

OpenFails(g) ==
  /\ loop[g].pc = "open" /\ Fail
  /\ uploads' = IF Stale(g) THEN uploads ELSE failEntry(uploads, {Entry(g)}, FALSE)
  /\ loop' = [loop EXCEPT ![g] = Advanced([@ EXCEPT !.window = 1])]
  /\ UNCHANGED <<store, queues, flags, handles, batch, acts, hazard>>

\* Mutant: a file whose add failed stays in the batch.
SettledKept(b, fly, ok) ==
  IF ok THEN [batch EXCEPT ![b].added = Append(@, Head(fly))] ELSE batch

\* The entries in flight are the last of the batch's files.
Settled(b, fly, ok) ==
  IF ok THEN [batch EXCEPT ![b].added = Append(@, Head(fly))]
  ELSE [batch EXCEPT ![b].files = RemoveAt(@, Len(@) - Len(fly) + 1)]

\* The next add under way settles.  After the last, the batch may be flushed for
\* its slabs, before the drain counts the entries as added, or for its age.
AddSettles(g) ==
  LET e == Head(loop[g].fly)
      b == loop[g].batch
      rest == [loop[g] EXCEPT !.fly = Tail(@)]
  IN
  /\ loop[g].pc = "add"
  /\ IF Stale(g) \/ current # b
     THEN /\ loop' = [loop EXCEPT ![g] = Advanced([@ EXCEPT !.fly = <<>>])]
          /\ UNCHANGED <<uploads, handles, batch, hazard, fails>>
     ELSE \E ok \in BOOLEAN :
          LET bs == Settled(b, loop[g].fly, ok)
              up == IF ok THEN setStatus(uploads, {e}) ELSE failEntry(uploads, {e}, FALSE)
          IN
          /\ IF ok THEN UNCHANGED fails ELSE Fail
          /\ \/ /\ batch' = bs /\ uploads' = up
                /\ loop' = [loop EXCEPT ![g] = IF rest.fly = <<>> THEN Advanced(rest) ELSE rest]
                /\ UNCHANGED <<handles, hazard>>
             \/ /\ rest.fly = <<>>
                /\ \E l \in {rest, Advanced(rest)} : Flush(g, up, bs, [l EXCEPT !.pc = "flush"])
  /\ UNCHANGED <<store, queues, flags, acts>>

(***************************************************************************)
(* uploadBatch and saveBatchObjects, beside which the loop only waits.     *)
(***************************************************************************)
\* The flush returns to the loop that asked for it: between entries, before the
\* packer of the next one is made, or at an idle batch.
Returned(g) ==
  LET l == loop[g] IN
  IF l.entries = <<>> THEN [NoLoop EXCEPT !.pc = "top"]
  ELSE IF ~l.last THEN Advanced(l)
  ELSE IF Stale(g) THEN Advanced([l EXCEPT !.last = FALSE])
  ELSE [l EXCEPT !.pc = "open", !.last = FALSE]

\* Work on b ends.
Ends(b) ==
  /\ batch' = [batch EXCEPT ![b] = NoBatch]
  /\ uploading' = 0
  /\ flushing' = IF flushing = b THEN 0 ELSE flushing
  /\ loop' = [g \in Gen |-> IF loop[g].pc = "flush" /\ loop[g].batch = b THEN Returned(g) ELSE loop[g]]

\* The record is one statement, and an object needs the row of its file.
Refused(b) ==
  /\ batch[b].phase = "pin" /\ batch[b].at > Len(batch[b].files)
  /\ \E f \in batch[b].won : file[f] = "gone"

\* An error of the whole batch, which reaches entries queued anew meanwhile.
BatchFails(b) ==
  LET ids == ToSet(batch[b].files)
      anew == ids \cap (ToSet(explicit) \union ToSet(polled))
  IN
  /\ batch[b].phase \notin {"none", "open"}
  /\ batch[b].phase = "pin" => batch[b].at \notin 2 .. Len(batch[b].files)
  /\ IF Refused(b) \/ (batch[b].phase = "finalize" /\ batch[b].cancelled) THEN UNCHANGED fails ELSE Fail
  /\ \E refused \in {FALSE, suspended} : uploads' = failEntry(uploads, ids, refused)
  /\ hazard' = hazard \union (IF anew # {} THEN {"requeued"} ELSE {})
                      \union (IF batch[b].phase = "pin" /\ batch[b].won # {} THEN {"unrecorded"} ELSE {})
  /\ Ends(b)
  /\ UNCHANGED <<store, queues, flags, current, acts>>

Finalize(b) ==
  /\ batch[b].phase = "finalize" /\ ~batch[b].cancelled
  /\ batch' = [batch EXCEPT ![b].phase = "pin"]
  /\ UNCHANGED <<store, uploads, queues, flags, handles, loop, counts>>

\* The file at each position is pinned with the object at that position, unless its row
\* is gone.  The tries of one pin are of one object.  A failure comes before the pin, or
\* after the indexer has stored it: an answer lost, or an error in what is made of it.
Pin(b) ==
  LET at == batch[b].at
      f == batch[b].files[at]
      after == [batch[b] EXCEPT !.at = @ + 1]
      Stored == /\ pins' = [pins EXCEPT ![f] = @ + 1]
                /\ swapped' = swapped \union ({f} \ {batch[b].added[at]})
      Fails == /\ \E refused \in {FALSE, suspended} : uploads' = failEntry(uploads, {f}, refused)
               /\ batch' = [batch EXCEPT ![b] = after]
  IN
  /\ batch[b].phase = "pin" /\ at <= Len(batch[b].files)
  /\ \/ /\ at > Len(batch[b].added)
        /\ uploads' = failEntry(uploads, {f}, FALSE)
        /\ batch' = [batch EXCEPT ![b] = after]
        /\ UNCHANGED <<pins, swapped, fails, hazard>>
     \/ /\ at <= Len(batch[b].added) /\ file[f] = "gone"
        /\ batch' = [batch EXCEPT ![b] = [after EXCEPT !.gone = @ \union {f}]]
        /\ UNCHANGED <<uploads, pins, swapped, fails, hazard>>
     \/ /\ at <= Len(batch[b].added) /\ file[f] # "gone" /\ Stored
        /\ batch' = [batch EXCEPT ![b] = [after EXCEPT !.won = @ \union {f}]]
        /\ UNCHANGED <<uploads, fails, hazard>>
     \/ /\ at <= Len(batch[b].added) /\ file[f] # "gone" /\ Stored /\ Fail /\ Fails
        /\ hazard' = hazard \union {"unrecorded"}
     \/ /\ at <= Len(batch[b].added) /\ Fail /\ Fails
        /\ UNCHANGED <<pins, swapped, hazard>>
  /\ UNCHANGED <<file, objects, queues, flags, handles, loop, acts>>

Record(b) ==
  /\ batch[b].phase = "pin" /\ batch[b].at > Len(batch[b].files) /\ ~Refused(b)
  /\ objects' = objects \union batch[b].won
  /\ batch' = [batch EXCEPT ![b].phase = "remove"]
  /\ UNCHANGED <<file, pins, swapped, uploads, queues, flags, handles, loop, counts>>

RemoveUploads(b) ==
  /\ batch[b].phase = "remove"
  /\ uploads' = removeMany(uploads, batch[b].won \union batch[b].gone)
  /\ Ends(b)
  /\ UNCHANGED <<store, queues, flags, current, counts>>

(***************************************************************************)
(* Shutdown and restart, suspend and resume, the user.                     *)
(***************************************************************************)
Remainder == IF draining = 0 THEN <<>> ELSE Rest(draining)

Shutdown ==
  /\ Act /\ ~shut.on
  /\ active' = FALSE
  /\ LET pinning == IF uploading = 0 THEN {} ELSE ToSet(batch[uploading].files)
         held == ToSet(explicit) \union ToSet(polled) \union ToSet(Remainder)
                   \union IF current = 0 THEN {} ELSE ToSet(batch[current].files)
     IN  /\ uploads' = removeMany(uploads, held \ pinning)
         /\ shut' = [on |-> TRUE, ids |-> pinning, batch |-> flushing]
  /\ batch' = [b \in Batch |-> IF b = current THEN NoBatch
                               ELSE IF b = uploading THEN [batch[b] EXCEPT !.cancelled = TRUE]
                               ELSE batch[b]]
  /\ explicit' = <<>> /\ polled' = <<>> /\ draining' = 0 /\ current' = 0
  /\ loop' = Woken(loop, {"parked", "idle", "sleep"})
  /\ UNCHANGED <<store, suspended, generation, uploading, flushing, fails, hazard>>

\* Mutant: the flush is not waited for.
ShutdownReturnsEarly(clear) ==
  /\ shut.on
  /\ shut' = [on |-> FALSE, ids |-> {}, batch |-> 0]
  /\ uploads' = IF clear THEN [f \in File |-> "none"]
                ELSE removeMany(uploads, shut.ids \ ToSet(explicit))
  /\ UNCHANGED <<store, queues, active, suspended, generation, handles, batch, loop, counts>>

\* The flush is over.  Cancel uploads then clears the whole store.
ShutdownReturns(clear) ==
  /\ shut.on /\ shut.batch \notin {b \in Batch : batch[b].phase # "none"}
  /\ shut' = [on |-> FALSE, ids |-> {}, batch |-> 0]
  /\ uploads' = IF clear THEN [f \in File |-> "none"]
                ELSE removeMany(uploads, shut.ids \ ToSet(explicit))
  /\ hazard' = IF clear /\ explicit # <<>> THEN hazard \union {"cleared"} ELSE hazard
  /\ UNCHANGED <<store, queues, active, suspended, generation, handles, batch, loop, acts, fails>>

\* Its callers wait for shutdown() first.
initialize ==
  /\ ~active /\ ~shut.on /\ generation < MaxGen
  /\ active' = TRUE /\ generation' = generation + 1
  /\ loop' = [loop EXCEPT ![generation + 1].pc = "top"]
  /\ UNCHANGED <<store, uploads, queues, suspended, shut, handles, batch, counts>>

suspend ==
  /\ Act /\ ~suspended
  /\ suspended' = TRUE
  /\ loop' = Woken(loop, {"idle", "sleep"})
  /\ UNCHANGED <<store, uploads, queues, active, generation, shut, handles, batch, fails, hazard>>

resume ==
  /\ suspended
  /\ suspended' = FALSE
  /\ loop' = Woken(loop, {"parked"})
  /\ UNCHANGED <<store, uploads, queues, active, generation, shut, handles, batch, counts>>

enqueue(f) ==
  /\ Act /\ file[f] = "live" /\ f \notin objects /\ f \notin getActiveIds
  /\ uploads' = [uploads EXCEPT ![f] = "active"]
  /\ explicit' = Append(explicit, f)
  /\ loop' = Woken(loop, {"idle", "sleep"})
  /\ UNCHANGED <<store, polled, draining, flags, handles, batch, fails, hazard>>

\* The files that wait or are worked on, in the order they go: those of a batch
\* not yet pinned, the entries of the drain not yet added, the queues.
Working(b) ==
  IF b = 0 \/ (batch[b].phase = "finalize" /\ batch[b].cancelled) THEN <<>>
  ELSE SubSeq(batch[b].files, batch[b].at, Len(batch[b].files))
Unadded ==
  IF draining = 0 THEN <<>>
  ELSE LET l == loop[draining] IN SubSeq(l.entries, l.next + l.window, Len(l.entries))
Pipeline == Working(uploading) \o Working(current) \o Unadded \o explicit \o polled

\* The files whose pin is over, in a batch that is not.
Done == IF uploading = 0 THEN {} ELSE batch[uploading].won \union batch[uploading].gone

Edit(f, from, to) ==
  /\ Act /\ file[f] \in from
  /\ file' = [file EXCEPT ![f] = to]
  /\ UNCHANGED <<objects, pins, swapped, queues, flags, handles, batch, loop, fails>>

\* The entry in the store goes; a file that is queued or packed stays there.
Discard(f, from, to) ==
  /\ Edit(f, from, to)
  /\ uploads' = removeMany(uploads, {f})
  /\ hazard' = IF f \in ToSet(Pipeline) \union Done THEN hazard \union {"dropped"} ELSE hazard

Trash(f) == Discard(f, {"live"}, "trashed")
Delete(f) == Discard(f, {"live", "trashed"}, "deleted")
Restore(f) == Edit(f, {"trashed"}, "live") /\ UNCHANGED <<uploads, hazard>>

\* An unavailable file is removed: its row, the objects of the row, not its entry.
deleteWithThumbnails(f) ==
  /\ Act /\ file[f] = "live"
  /\ file' = [file EXCEPT ![f] = "gone"]
  /\ objects' = objects \ {f}
  /\ UNCHANGED <<pins, swapped, uploads, queues, flags, handles, batch, loop, fails, hazard>>

(***************************************************************************)
(* The specification.                                                      *)
(***************************************************************************)
Init ==
  /\ file = [f \in File |-> "live"] /\ objects = {}
  /\ pins = [f \in File |-> 0] /\ swapped = {}
  /\ uploads = [f \in File |-> "none"]
  /\ explicit = <<>> /\ polled = <<>> /\ draining = 0
  /\ active = TRUE /\ suspended = FALSE /\ generation = 1
  /\ current = 0 /\ uploading = 0 /\ flushing = 0
  /\ batch = [b \in Batch |-> NoBatch]
  /\ loop = [g \in Gen |-> IF g = 1 THEN [NoLoop EXCEPT !.pc = "top"] ELSE NoLoop]
  /\ shut = [on |-> FALSE, ids |-> {}, batch |-> 0]
  /\ acts = 0 /\ fails = 0 /\ hazard = {}

LoopStep(g) ==
  \/ Top(g) \/ Query(g) \/ pollDB(g) \/ Timeout(g) \/ EntriesEnd(g)
  \/ PreFlush(g) \/ processWindow(g) \/ Open(g) \/ Opened(g) \/ AddSettles(g)

BatchStep(b) == Finalize(b) \/ BatchFails(b) \/ Pin(b) \/ Record(b) \/ RemoveUploads(b)

User ==
  \/ Shutdown \/ suspend
  \/ \E f \in File : enqueue(f) \/ Trash(f) \/ Restore(f) \/ Delete(f) \/ deleteWithThumbnails(f)

Next ==
  \/ \E g \in Gen : LoopStep(g) \/ Gated(g) \/ PollSkip(g) \/ OpenFails(g)
  \/ \E b \in Batch : BatchStep(b)
  \/ \E clear \in BOOLEAN : ShutdownReturns(clear)
  \/ initialize \/ resume \/ User

Spec == Init /\ [][Next]_vars

\* Awaits of the SDK, the database and the timers come back; the account, the
\* connection and the sync gate are not in the way of every turn of the loop.
FairSpec ==
  /\ Spec
  /\ WF_vars(\E g \in Gen : LoopStep(g)) /\ WF_vars(\E b \in Batch : BatchStep(b))
  /\ SF_vars(\E g \in Gen : Top(g)) /\ SF_vars(\E g \in Gen : Query(g))

(***************************************************************************)
(* Properties.                                                             *)
(***************************************************************************)
\* A file is never in two places at once, of the batches, the entries of the
\* drain and the queues, so it is not packed twice: notActive looks at the store
\* again after the query of pollDB, and whatever removes an entry of the store has
\* taken the file out of its place, except for three races.  An entry that counts
\* as active is held by one of the places, or by a shutdown about to remove it:
\* the poll passes over the active entries, and one that nothing holds would keep
\* its file from ever being uploaded.  And no batch is left that nothing holds.
HeldOnce ==
  /\ hazard \cap {"dropped", "cleared", "requeued"} = {} =>
       IsInjective(Pipeline) /\ ToSet(Pipeline) \cap Done = {}
  /\ getActiveIds \subseteq ToSet(Pipeline) \union Done \union shut.ids
  /\ \A b \in Batch : batch[b].phase # "none" => b \in {current, uploading}

\* A file is pinned to the network once, over restarts and suspensions, since
\* shutdown() waits for the flush that a cancel no longer stops.  But a pin that the
\* indexer stored and no object records is made again, when its answer is lost or its
\* batch fails.
PinnedOnce == hazard \subseteq {"suspended"} => \A f \in File : pins[f] <= 1

\* A file is pinned with its own object: finalize returns the objects of the adds
\* that succeeded, and batch.files loses the file of an add that failed.
PinnedAsItself == swapped = {}

\* With the uploader running, a file that stays in the library is uploaded.
UploadsEventually ==
  \A f \in File : <>[](active /\ ~suspended /\ file[f] = "live") => <>(f \in objects)
=============================================================================
