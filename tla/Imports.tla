------------------------------- MODULE Imports -------------------------------
(***************************************************************************)
(* The import scanner, beside everything of LocalCopies: ticks that        *)
(* recover and claim rows of import_files, the jobs that copy, hash and    *)
(* add the claimed files, and the users, folder deletes, suspensions and   *)
(* kills that cross them (packages/core/src/services/importScanner.ts,     *)
(* db/operations/imports.ts, finalizeImportFile).                          *)
(*                                                                         *)
(* A claim carries a token, and a row is written only under it.  A copy    *)
(* the tick stopped waiting for goes on by itself, so bytes may be put in  *)
(* place by the job of a claim that was lost.                              *)
(***************************************************************************)
EXTENDS LocalCopies

CONSTANTS
  Importing, \* the files with a row in import_files at first
  Source,    \* the content of each file, or at the source of each import
  Dedup,     \* imports that drop a file whose content the folder has already
  Classify,  \* the type a file's bytes have, which its row may not
  Empty,     \* the content of an empty file
  MaxTries   \* IMPORT_MAX_ATTEMPTS

ASSUME ImportsAssumption ==
  /\ Importing \subseteq File /\ Source \in [File -> Content]
  /\ Dedup \subseteq File
  /\ Classify \in [File -> Type]
  /\ Empty \in Content
  /\ MaxTries \in Nat \ {0}

VARIABLES
  staged,      \* imports whose source is the app's own copy, which is moved
  src,         \* the bytes at the source of each import
  job,         \* processRow under each claim, from await to await
  tick,        \* runScan
  reclaimAll,  \* the scanner's reclaimAll
  folder,      \* whether the folder the imports go to is there
  drop         \* deleteAndTrashFiles

scanner == <<staged, src, job, tick, reclaimAll>>
drops == <<folder, drop>>
vars == <<copies, scanner, drops>>

Owns(t) == imp[job[t].f].state = "active" /\ imp[job[t].f].token = t
Waited(t) == job[t].live /\ job[t].pc \notin {"free", "over"}
Copying == {t \in Token : job[t].pc \in {"copy", "temp", "placed"}}

ImportsTypeOK ==
  /\ staged \subseteq Importing /\ src \in [File -> Content \union {"none"}]
  /\ job \in [Token -> [f : File, type : Type, got : Bytes, live : BOOLEAN,
                        pc : {"free", "start", "resolve", "copy", "temp", "placed", "hash",
                              "hashed", "moved", "final", "dup", "over"}]]
  \* The claim columns are set just while a row is claimed.
  /\ \A f \in File : imp[f].state = "active" <=> imp[f].token # 0
  /\ tick \in [on : BOOLEAN, aborted : BOOLEAN, cand : SUBSET File]
  /\ reclaimAll \in BOOLEAN /\ folder \in BOOLEAN
  /\ drop \in [pc : {"idle", "fail", "bytes"}, rows : SUBSET (File \X Type)]

NoTick == [on |-> FALSE, aborted |-> FALSE, cand |-> {}]
NoDrop == [pc |-> "idle", rows |-> {}]

Goto(t, pc) == job' = [job EXCEPT ![t].pc = pc]
Over(j) == [j EXCEPT !.pc = "over", !.got = "none", !.live = FALSE]
Ends(t) == job' = [job EXCEPT ![t] = Over(@)]

\* Rows as the scanner and the user leave them.
\* Mutant: the claim is not cleared.
SettledClaimed(row, state, dead) == [row EXCEPT !.state = state, !.dead = dead]
Settled(row, state, dead) == [row EXCEPT !.state = state, !.token = 0, !.dead = dead]
Counted(row, exhausted) ==
  Settled([row EXCEPT !.tries = @ + 1],
          IF row.tries + 1 >= MaxTries THEN exhausted ELSE "pending", FALSE)

\* A write under the claim: nothing if the row has lost it.
Under(t, row) == imp' = IF Owns(t) THEN [imp EXCEPT ![job[t].f] = row] ELSE imp

(***************************************************************************)
(* A tick: resetStale, the candidates, their claims in turn.               *)
(***************************************************************************)
resetStaleImportFiles(stale) ==
  imp' = [f \in File |-> IF f \in stale THEN [imp[f] EXCEPT !.state = "pending", !.token = 0]
                         ELSE imp[f]]

\* The first tick, and one after a suspension, take back every claim.
TickBegin ==
  /\ ~tick.on /\ \E f \in File : InFlight(f)
  /\ LET active == {f \in File : imp[f].state = "active"}
     IN  \E stale \in IF reclaimAll THEN {active} ELSE SUBSET active :
           /\ resetStaleImportFiles(stale)
           /\ tick' = [NoTick EXCEPT !.on = TRUE,
                         !.cand = stale \union {f \in File : imp[f].state = "pending"}]
  /\ reclaimAll' = FALSE
  /\ UNCHANGED <<file, fs, obj, indexer, bytes, passes, sent, mobile, acts, hazard, staged, src, job, drops>>

\* Backoff, pressure, a claim refused, an import gone: the row waits.
Skip(f) ==
  /\ tick.on /\ f \in tick.cand
  /\ tick' = [tick EXCEPT !.cand = @ \ {f}]
  /\ UNCHANGED <<copies, staged, src, job, reclaimAll, drops>>

Fresh(t) == job[t].pc = "free" /\ \A u \in 1 .. (t - 1) : job[u].pc # "free"

Claim(f, t) ==
  /\ tick.on /\ ~tick.aborted /\ f \in tick.cand /\ Fresh(t)
  /\ imp[f].state = "pending"
  /\ imp' = [imp EXCEPT ![f].state = "active", ![f].token = t]
  /\ tick' = [tick EXCEPT !.cand = @ \ {f}]
  /\ job' = [job EXCEPT ![t] = [f |-> f, type |-> imp[f].type, got |-> "none",
                                 live |-> TRUE, pc |-> "start"]]
  /\ hazard' = IF \E u \in Copying : job[u].f = f /\ f \in staged
               THEN hazard \union {"movedUnrecorded"} ELSE hazard
  /\ UNCHANGED <<file, fs, obj, indexer, bytes, passes, sent, mobile, acts, staged, src, reclaimAll, drops>>

\* runScan returns: no job is waited for, though an abandoned copy may still run.
TickEnd ==
  /\ tick.on /\ (tick.cand = {} \/ tick.aborted)
  /\ \A t \in Token : ~Waited(t)
  /\ tick' = NoTick
  /\ reclaimAll' = tick.aborted
  /\ UNCHANGED <<copies, staged, src, job, drops>>

\* A suspension: copies and hashes under way are left, the rest finish their step.
Abort ==
  /\ Act /\ tick.on /\ ~tick.aborted
  /\ tick' = [tick EXCEPT !.aborted = TRUE]
  /\ job' = [t \in Token |->
               IF job[t].pc = "hash" THEN Over(job[t])
               ELSE [job[t] EXCEPT !.live = @ /\ t \notin Copying]]
  /\ UNCHANGED <<tables, bytes, passes, sent, mobile, hazard, staged, src, reclaimAll, drops>>

(***************************************************************************)
(* A job.                                                                  *)
(***************************************************************************)
kept == <<staged, file, obj, indexer, passes, sent, mobile, acts, tick, reclaimAll, drops>>

\* Bytes of an earlier copy are hashed as they are; moveBytesBack finds them
\* at another type.
JobStart(t) ==
  LET f == job[t].f
      y == job[t].type
      other == {z \in Type : disk[f][z] # "none"}
  IN
  /\ job[t].pc = "start"
  /\ IF tick.aborted THEN Ends(t) /\ UNCHANGED disk
     ELSE IF f \notin fs \/ other = {} THEN Goto(t, "resolve") /\ UNCHANGED disk
     ELSE /\ Goto(t, "hash")
          /\ IF disk[f][y] # "none" THEN UNCHANGED disk
             ELSE \E z \in other : disk' = [disk EXCEPT ![f][y] = disk[f][z], ![f][z] = "none"]
  /\ UNCHANGED <<kept, imp, fs, temp, src, hazard>>

\* A tick aborted meanwhile starts the copy all the same, and waits for nothing.
Resolve(t) ==
  /\ job[t].pc = "resolve"
  /\ IF src[job[t].f] = "none"
     THEN Under(t, Settled(imp[job[t].f], "unavailable", TRUE)) /\ Ends(t)
     ELSE /\ job' = [job EXCEPT ![t].pc = "copy", ![t].live = ~tick.aborted]
          /\ UNCHANGED imp
  /\ UNCHANGED <<kept, fs, bytes, src, hazard>>

\* The bytes reach the slot for a job that has lost its claim, perhaps for a file
\* already added.
Late(t) == IF Owns(t) THEN {} ELSE {"latePublish"}

\* The bytes leave the source: to this claim's temp in the mobile app, which
\* hashes a copy as it makes it, to the slot on Node.
Copy(t) ==
  LET f == job[t].f IN
  /\ job[t].pc = "copy" /\ src[f] # "none"
  /\ src' = [src EXCEPT ![f] = IF f \in staged THEN "none" ELSE @]
  /\ \/ /\ mobile
        /\ temp' = temp \union {<<f, t, src[f]>>}
        /\ job' = [job EXCEPT ![t].pc = "temp",
                              ![t].got = IF f \in staged THEN "none" ELSE src[f]]
        /\ UNCHANGED <<disk, hazard>>
     \/ /\ ~mobile
        /\ disk' = [disk EXCEPT ![f][job[t].type] = src[f]]
        /\ Goto(t, "placed")
        /\ hazard' = hazard \union Late(t)
        /\ UNCHANGED temp
  /\ UNCHANGED <<kept, imp, fs>>

\* A suspension cancels a native copy, not a move.
CancelCopy(t) ==
  /\ job[t].pc = "copy" /\ ~job[t].live
  /\ mobile /\ job[t].f \notin staged
  /\ Ends(t)
  /\ UNCHANGED <<kept, imp, fs, bytes, src, hazard>>

Publish(t) ==
  /\ job[t].pc = "temp"
  /\ \E b \in Bytes :
       /\ <<job[t].f, t, b>> \in temp
       /\ disk' = [disk EXCEPT ![job[t].f][job[t].type] = b]
       /\ temp' = temp \ {<<job[t].f, t, b>>}
  /\ Goto(t, "placed")
  /\ hazard' = hazard \union Late(t)
  /\ UNCHANGED <<kept, imp, fs, src>>

\* recordCopiedMeta; a hash taken in the copy is not taken again.
Record(t) ==
  /\ job[t].pc = "placed"
  /\ fs' = fs \union {job[t].f}
  /\ IF ~job[t].live THEN Ends(t)
     ELSE Goto(t, IF job[t].got # "none" THEN "hashed" ELSE "hash")
  /\ hazard' = hazard \union Late(t)
  /\ UNCHANGED <<kept, imp, bytes, src>>

\* The suspension cuts its transaction off, and the row stays active.
RecordCut(t) ==
  /\ job[t].pc = "placed" /\ tick.aborted
  /\ Ends(t)
  /\ hazard' = IF job[t].f \in staged THEN hazard \union {"movedUnrecorded"} ELSE hazard
  /\ UNCHANGED <<kept, imp, fs, bytes, src>>

Hash(t) ==
  /\ job[t].pc = "hash" /\ disk[job[t].f][job[t].type] # "none"
  /\ job' = [job EXCEPT ![t].pc = "hashed", ![t].got = disk[job[t].f][job[t].type]]
  /\ UNCHANGED <<kept, imp, fs, bytes, src, hazard>>

\* An empty file is refused for good, its bytes first.
RefuseEmpty(t) ==
  /\ job[t].pc = "hashed" /\ job[t].got = Empty
  /\ removeNow(job[t].f, job[t].type)
  /\ Under(t, Settled(imp[job[t].f], "failed", TRUE))
  /\ Ends(t)
  /\ UNCHANGED <<kept, temp, src, hazard>>

\* renameToType: neither path existing is an error (JobFails).
Rename(t) ==
  LET f == job[t].f
      y == job[t].type
      z == Classify[f]
  IN
  /\ job[t].pc = "hashed" /\ job[t].got # Empty
  /\ y = z \/ \E w \in {y, z} : disk[f][w] # "none"
  /\ disk' = IF disk[f][y] = "none" THEN disk
             ELSE [disk EXCEPT ![f][y] = "none", ![f][z] = disk[f][y]]
  /\ Goto(t, "moved")
  /\ UNCHANGED <<kept, imp, fs, temp, src, hazard>>

RecordHash(t) ==
  /\ job[t].pc = "moved"
  /\ Under(t, [imp[job[t].f] EXCEPT !.hash = job[t].got, !.type = Classify[job[t].f]])
  /\ Goto(t, "final")
  /\ UNCHANGED <<kept, fs, bytes, src, hazard>>

Duplicates(f) == {g \in File : file[g].state = "live" /\ file[g].hash = imp[f].hash}

\* finalizeImportFile, one transaction.
Finalize(t) ==
  LET f == job[t].f IN
  /\ job[t].pc = "final" /\ (folder \/ ~Owns(t))
  /\ CASE ~Owns(t) -> Ends(t) /\ UNCHANGED <<imp, file>>
       [] Owns(t) /\ f \in Dedup /\ Duplicates(f) # {} ->
            /\ imp' = [imp EXCEPT ![f] = Settled(@, "duplicate", FALSE)]
            /\ Goto(t, "dup") /\ UNCHANGED file
       [] OTHER ->
            /\ file' = [file EXCEPT ![f] = [state |-> "live", type |-> imp[f].type,
                                            hash |-> imp[f].hash, current |-> TRUE]]
            /\ imp' = [imp EXCEPT ![f] = Settled(@, "added", FALSE)]
            /\ Ends(t)
  /\ UNCHANGED <<fs, obj, indexer, bytes, passes, sent, mobile, acts, hazard,
                 staged, src, tick, reclaimAll, drops>>

CleanDuplicate(t) ==
  /\ job[t].pc = "dup"
  /\ removeNow(job[t].f, Classify[job[t].f])
  /\ Ends(t)
  /\ UNCHANGED <<kept, imp, temp, src, hazard>>

\* An error, a stall, a refusal below the critical floor, a folder that is gone.
JobFails(t) ==
  LET f == job[t].f IN
  /\ Waited(t) /\ job[t].pc # "dup"
  /\ job[t].pc \in {"temp", "placed"} => f \notin staged
  /\ Under(t, Counted(imp[f], IF job[t].pc = "resolve" THEN "unavailable" ELSE "failed"))
  /\ Ends(t)
  /\ UNCHANGED <<kept, fs, bytes, src, hazard>>

\* The source went before the copy began; but for library media that is final.
CopyFindsNothing(t) ==
  /\ job[t].pc = "copy" /\ src[job[t].f] = "none"
  /\ IF job[t].live THEN Under(t, Settled(imp[job[t].f], "unavailable", TRUE)) ELSE UNCHANGED imp
  /\ Ends(t)
  /\ UNCHANGED <<kept, fs, bytes, src, hazard>>

JobStep(t) ==
  \/ JobStart(t) \/ Resolve(t) \/ Copy(t) \/ CancelCopy(t) \/ Publish(t)
  \/ Record(t) \/ RecordCut(t) \/ Hash(t) \/ RefuseEmpty(t) \/ Rename(t)
  \/ RecordHash(t) \/ Finalize(t) \/ CleanDuplicate(t) \/ JobFails(t) \/ CopyFindsNothing(t)

(***************************************************************************)
(* The user, the process, and the delete of the imports' folder.           *)
(***************************************************************************)
EditRow(f, row) ==
  /\ Act
  /\ imp' = [imp EXCEPT ![f] = row]
  /\ UNCHANGED <<file, fs, obj, indexer, bytes, passes, sent, mobile, hazard,
                 staged, job, tick, reclaimAll, drops>>

\* Mutant: the state is not compared.
CancelAny(f) ==
  imp[f].state # "none" /\ EditRow(f, Settled(imp[f], "cancelled", FALSE)) /\ UNCHANGED src

Cancel(f) ==
  InFlight(f) /\ EditRow(f, Settled(imp[f], "cancelled", FALSE)) /\ UNCHANGED src

rependTerminalImportFiles(f) ==
  /\ Act
  /\ imp[f].state \in {"failed", "unavailable"} /\ ~imp[f].dead
  /\ imp' = [imp EXCEPT ![f].state = "pending", ![f].tries = 0]
  /\ hazard' = IF f \in staged THEN hazard \union {"retried"} ELSE hazard
  /\ UNCHANGED <<file, fs, obj, indexer, bytes, passes, sent, mobile, scanner, drops>>

\* deleteImport: the row, then what is left of a staged source.
DeleteImport(f) ==
  /\ imp[f].state # "none"
  /\ EditRow(f, Settled(imp[f], "none", FALSE))
  /\ src' = [src EXCEPT ![f] = IF f \in staged THEN "none" ELSE @]

\* The user edits or removes the original.
EditSource(f) ==
  /\ Act /\ InFlight(f) /\ f \notin staged
  /\ src' \in {[src EXCEPT ![f] = b] : b \in (Content \union {"none"}) \ {src[f]}}
  /\ UNCHANGED <<tables, bytes, passes, sent, mobile, hazard, staged, job, tick, reclaimAll, drops>>

\* A kill.  A copy under way leaves part of the bytes at the slot on Node.
Kill ==
  /\ Act
  /\ LET cut == {t \in Token : job[t].pc = "copy" /\ ~mobile /\ job[t].f \notin staged}
         moved == {t \in Copying : job[t].f \in staged /\ job[t].pc # "copy"}
     IN  /\ \E part \in SUBSET cut :
              disk' = [f \in File |-> [y \in Type |->
                         IF \E t \in part : job[t].f = f /\ job[t].type = y
                         THEN "part" ELSE disk[f][y]]]
         /\ hazard' = hazard \union (IF moved = {} THEN {} ELSE {"movedUnrecorded"})
                               \union (IF owed # {} \/ evict.pc = "row" THEN {"leftHalfway"} ELSE {})
                               \union UNION {Late(t) : t \in cut}
  /\ job' = [t \in Token |-> IF job[t].pc = "free" THEN job[t] ELSE Over(job[t])]
  /\ tick' = NoTick /\ reclaimAll' = TRUE /\ drop' = NoDrop
  /\ holder' = [f \in File |-> "free"] /\ owed' = {}
  /\ dl' = [f \in File |-> [dl[f] EXCEPT !.pc = "none"]]
  /\ scan' = NoScan /\ evict' = NoEvict
  /\ UNCHANGED <<tables, temp, sent, mobile, staged, src, folder>>

\* deleteAndTrashFiles: the rows in flight are read, then failed whatever they
\* have become, then lose their bytes, then the folder goes.
DropRead ==
  /\ Act /\ folder /\ drop.pc = "idle"
  /\ drop' = [pc |-> "fail", rows |-> {<<f, imp[f].type>> : f \in {g \in File : InFlight(g)}}]
  /\ UNCHANGED <<tables, bytes, passes, sent, mobile, hazard, scanner, folder>>

failImportFilesInDirectory ==
  /\ drop.pc = "fail"
  /\ drop' = [drop EXCEPT !.pc = "bytes"]
  /\ LET ids == {r[1] : r \in drop.rows}
     IN  /\ imp' = [f \in File |-> IF f \in ids /\ imp[f].state # "none"
                                   THEN Settled(imp[f], "failed", TRUE) ELSE imp[f]]
         /\ hazard' = IF \E f \in ids : file[f].state # "none"
                      THEN hazard \union {"failedAdded"} ELSE hazard
  /\ UNCHANGED <<file, fs, obj, indexer, bytes, passes, sent, mobile, acts, scanner, folder>>

DropBytes(r) ==
  /\ drop.pc = "bytes" /\ r \in drop.rows
  /\ removeNow(r[1], r[2])
  /\ drop' = [drop EXCEPT !.rows = @ \ {r}]
  /\ UNCHANGED <<imp, file, obj, indexer, temp, passes, sent, mobile, acts, hazard, scanner, folder>>

deleteDirectoryAndTrashFiles ==
  /\ drop.pc = "bytes" /\ drop.rows = {}
  /\ drop' = NoDrop /\ folder' = FALSE
  /\ file' = [f \in File |-> IF file[f].state = "live" THEN [file[f] EXCEPT !.state = "trashed"]
                             ELSE file[f]]
  /\ UNCHANGED <<imp, fs, obj, indexer, bytes, passes, sent, mobile, acts, hazard, scanner>>

Drop == failImportFilesInDirectory \/ (\E r \in drop.rows : DropBytes(r)) \/ deleteDirectoryAndTrashFiles

(***************************************************************************)
(* The specification.                                                      *)
(***************************************************************************)
\* Import rows to drain, and perhaps files that were here before, uploaded or not.
Init ==
  \E here \in SUBSET (File \ Importing), row \in [Importing -> Type] :
    LET typeOf(f) == IF f \in Importing THEN row[f] ELSE Classify[f] IN
    /\ imp = [f \in File |-> [state |-> IF f \in Importing THEN "pending" ELSE "none", token |-> 0,
                              type |-> typeOf(f), hash |-> "none", tries |-> 0, dead |-> FALSE]]
    /\ file = [f \in File |-> [state |-> IF f \in here THEN "live" ELSE "none", type |-> typeOf(f),
                               hash |-> IF f \in here THEN Source[f] ELSE "none", current |-> TRUE]]
    /\ staged \in SUBSET Importing
    /\ src = [f \in File |-> IF f \in Importing THEN Source[f] ELSE "none"]
    /\ fs = here
    /\ disk = [f \in File |-> [y \in Type |-> IF f \in here /\ y = typeOf(f) THEN Source[f] ELSE "none"]]
    /\ indexer \in Indexer
    /\ \E up \in SUBSET here : obj = [f \in File |-> IF f \in up THEN {indexer} ELSE {}]
    /\ sent = [f \in File |-> file[f].hash]
    /\ temp = {} /\ mobile \in BOOLEAN
    /\ holder = [f \in File |-> "free"]
    /\ dl = [f \in File |-> [pc |-> "none", type |-> typeOf(f)]]
    /\ owed = {} /\ scan = NoScan /\ evict = NoEvict
    /\ acts = (IF here = {} THEN 0 ELSE 1) /\ hazard = {}
    /\ job = [t \in Token |-> [f |-> CHOOSE f \in File : TRUE, type |-> CHOOSE y \in Type : TRUE,
                               got |-> "none", live |-> FALSE, pc |-> "free"]]
    /\ tick = NoTick /\ reclaimAll = TRUE
    /\ folder = TRUE /\ drop = NoDrop

Busy == {t \in Token : job[t].pc \notin {"free", "over"}}

Scanner ==
  \/ TickBegin \/ TickEnd
  \/ \E f \in File : Skip(f) \/ \E t \in Token : Claim(f, t)
  \/ \E t \in Token : JobStep(t)

Next ==
  \/ CopiesNext /\ UNCHANGED <<scanner, drops>>
  \/ ScanList(Busy) /\ UNCHANGED <<scanner, drops>>
  \/ Scanner
  \/ \E f \in File : Cancel(f) \/ rependTerminalImportFiles(f) \/ DeleteImport(f) \/ EditSource(f)
  \/ Abort \/ Kill \/ DropRead \/ Drop

Spec == Init /\ [][Next]_vars

(***************************************************************************)
(* Properties.  Each excuses only the races it names.                      *)
(***************************************************************************)
TypeOK == CopiesTypeOK /\ ImportsTypeOK

\* A file no indexer holds still has its bytes on the device, wherever they are.
LastCopyKept ==
  hazard \cap {"judgedEarly", "failedAdded", "latePublish"} = {} =>
    \A f \in File : Exists(f) /\ obj[f] = {} => Whole(f)

\* What was uploaded is what the file's hash says.
SentIsWhole ==
  hazard \cap {"judgedEarly", "partRecorded", "rewritten", "latePublish"} = {} =>
    \A f \in File : Exists(f) /\ obj[f] # {} => sent[f] = file[f].hash

\* Eviction takes the copy of a file only while the connected indexer has it.
EvictsOnlyBackedUp ==
  [][\A f \in File : holder'[f] = "evict" /\ holder[f] # "evict" /\ ~evict.any
       => indexer \in obj[f] \/ "switched" \in hazard]_vars

\* A file shown as on the device has bytes at its slot, but while eviction holds
\* its lock: no download, removal and fs row cross each other.
OnDeviceHasBytes ==
  hazard \subseteq {"movedUnrecorded", "switched", "retried"} =>
    \A f \in fs : Exists(f) /\ holder[f] # "evict" => Slot(f) # "none"

\* A staged import's bytes exist somewhere until it is added or given up, and its
\* source is never found gone.
StagedKept ==
  hazard \cap {"movedUnrecorded", "failedAdded", "retried"} = {} =>
    \A f \in staged \cap Importing :
      /\ InFlight(f) => \/ src[f] # "none"
                        \/ \E y \in Type : disk[f][y] # "none"
                        \/ \E e \in temp : e[1] = f
      /\ ~(imp[f].state = "unavailable" /\ imp[f].dead)

\* A row is marked added just when its file exists, and no other way of settling
\* it, not a cancel nor a late failure, leaves a file behind.
AddedMeansFile ==
  "failedAdded" \notin hazard =>
    \A f \in Importing :
      imp[f].state # "none" => (imp[f].state = "added" <=> file[f].state # "none")
=============================================================================
