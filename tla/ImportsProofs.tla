---------------------------- MODULE ImportsProofs ----------------------------
(***************************************************************************)
(* For any files, types, bytes, claims and bounds, and in every order of   *)
(* imports, downloads, eviction, the orphan scanner, type changes and      *)
(* deletions: what the library says it has on the device is there, what is *)
(* uploaded is whole, and the only copy of a file is not removed, but for  *)
(* the races the properties name.                                          *)
(*                                                                         *)
(* Each action is first put as what it does to the variables, record by    *)
(* record (XDoes), and shown to do that and to keep the types (XStep), so  *)
(* that Steps speaks for all of Next.  The invariants then take one step   *)
(* for each action.  What each is for:                                     *)
(*   Unmade, Locks, Backed, Moves: what downloads, the lock, eviction and  *)
(*     the moves owed to a type change may be in the middle of;            *)
(*   Claims, Rows, Dropped: who owns an import row, and that the file of a *)
(*     claim is not there yet;                                             *)
(*   Hashed, Hashes, InPlace: that the bytes a job hashed are where the    *)
(*     file it finalizes will look for them;                               *)
(*   Sound: that what a slot holds is the file's, or part of it;           *)
(*   Listed, Last: that the scanner knows the slot of an only copy;        *)
(*   Quiet: that without a race a file's bytes are at its slot alone;      *)
(*   Staged: that a staged file's bytes are always in someone's hands.     *)
(* None is inductive alone, and their conjunction, Invariants, is.         *)
(***************************************************************************)
EXTENDS Imports, TLAPS

\* What the provers may take over a leaf that names none.
USE SMTT(30), ZenonT(30), SMTT(60)

-----------------------------------------------------------------------------
(* Records, and what each action does to them.                             *)

ImportState == {"none", "pending", "active", "added", "duplicate",
                "unavailable", "failed", "cancelled"}
FileState == {"none", "live", "trashed", "deleted"}
JobPc == {"free", "start", "resolve", "copy", "temp", "placed", "hash",
          "hashed", "moved", "final", "dup", "over"}
ImportRow == [state : ImportState,
              token : {0} \union Token, type : Type, hash : Bytes, tries : Nat, dead : BOOLEAN]
FileRow == [state : FileState, type : Type, hash : Bytes, current : BOOLEAN]
DownloadRow == [pc : {"none", "wait", "write", "wrote"}, type : Type]
ScanState == [pc : {"idle", "judge", "entries"}, orphans : SUBSET File,
              list : SUBSET (File \X Type), present : SUBSET (File \X Type),
              live : SUBSET (File \X Type), temps : SUBSET (File \X Token \X Bytes)]
EvictState == [pc : {"idle", "rows", "try", "row"}, rows : SUBSET (File \X Type),
               any : BOOLEAN, on : {<<>>} \union File \X Type]
JobRow == [f : File, type : Type, got : Bytes, live : BOOLEAN,
           pc : JobPc]
TickState == [on : BOOLEAN, aborted : BOOLEAN, cand : SUBSET File]
DropState == [pc : {"idle", "fail", "bytes"}, rows : SUBSET (File \X Type)]

\* The claim columns are set just while a row is claimed.
Paired == \A f \in File : imp[f].state = "active" <=> imp[f].token # 0

\* The type invariant of the module Imports, by the variables' rows.
Types ==
  /\ imp \in [File -> ImportRow] /\ file \in [File -> FileRow] /\ fs \subseteq File
  /\ obj \in [File -> SUBSET Indexer] /\ indexer \in Indexer /\ sent \in [File -> Bytes]
  /\ disk \in [File -> [Type -> Bytes]] /\ temp \subseteq File \X Token \X Bytes
  /\ mobile \in BOOLEAN /\ holder \in [File -> {"free", "download", "evict"}]
  /\ dl \in [File -> DownloadRow] /\ owed \subseteq File \X Type \X (Type \union {"none"})
  /\ scan \in ScanState /\ evict \in EvictState
  /\ evict.pc \in {"try", "row"} => evict.on # <<>>
  /\ acts \in 0 .. MaxActs /\ hazard \subseteq Races
  /\ staged \subseteq Importing /\ src \in [File -> Content \union {"none"}]
  /\ job \in [Token -> JobRow]
  /\ Paired
  /\ tick \in TickState /\ reclaimAll \in BOOLEAN /\ folder \in BOOLEAN /\ drop \in DropState

\* A new value by its fields, those of the other files, claims and rows being kept.
FileIs(f, state, type, hash, current) ==
  /\ file' \in [File -> FileRow] /\ \A g \in File \ {f} : file'[g] = file[g]
  /\ file'[f].state = state /\ file'[f].type = type
  /\ file'[f].hash = hash /\ file'[f].current = current
DlIs(f, pc, type) ==
  /\ dl' \in [File -> DownloadRow] /\ \A g \in File \ {f} : dl'[g] = dl[g]
  /\ dl'[f].pc = pc /\ dl'[f].type = type
RowIs(f, state, token, dead) ==
  /\ imp'[f].state = state /\ imp'[f].token = token /\ imp'[f].dead = dead
  /\ imp'[f].type = imp[f].type /\ imp'[f].hash = imp[f].hash
ImpIs(f, state, token, dead) ==
  /\ imp' \in [File -> ImportRow] /\ \A g \in File \ {f} : imp'[g] = imp[g]
  /\ RowIs(f, state, token, dead)
Settles(t, state, dead) ==
  \/ ~Owns(t) /\ imp' = imp
  \/ Owns(t) /\ ImpIs(job[t].f, state, 0, dead)
JobIs(t, pc, got, live) ==
  /\ job' \in [Token -> JobRow] /\ \A u \in Token \ {t} : job'[u] = job[u]
  /\ job'[t].f = job[t].f /\ job'[t].type = job[t].type
  /\ job'[t].pc = pc /\ job'[t].got = got /\ job'[t].live = live
ScanIs(pc, list, present, temps, orphans, live) ==
  /\ scan' \in ScanState /\ scan'.pc = pc /\ scan'.list = list /\ scan'.present = present
  /\ scan'.temps = temps /\ scan'.orphans = orphans /\ scan'.live = live
ScansOn(f, y, present) ==
  ScanIs("entries", scan.list \ {<<f, y>>}, present, scan.temps, scan.orphans, scan.live)
EvictIs(pc, rows, any, on) ==
  /\ evict' \in EvictState /\ evict'.pc = pc /\ evict'.rows = rows
  /\ evict'.any = any /\ evict'.on = on

GetFileUriDoes(f) ==
  /\ Exists(f) /\ getFsFileUri(f, file[f].type)
  /\ UNCHANGED <<imp, file, obj, sent, indexer, disk, temp, mobile, holder, dl, owed, scan,
                evict, staged, src, job, tick, drop>>

DownloadStartDoes(f) ==
  /\ Exists(f) /\ dl[f].pc = "none"
  /\ \/ Slot(f) = file[f].hash /\ fs' = fs \union {f} /\ dl' = dl
     \/ obj[f] # {} /\ DlIs(f, "wait", file[f].type) /\ fs' = fs
  /\ UNCHANGED <<imp, file, obj, sent, indexer, disk, temp, mobile, holder, owed, scan, evict,
                hazard, staged, src, job, tick, drop>>

DownloadOpensDoes(f) ==
  /\ dl[f].pc = "wait" /\ holder[f] = "free"
  /\ holder' = [holder EXCEPT ![f] = "download"] /\ DlIs(f, "write", dl[f].type)
  /\ disk' = IF mobile THEN disk ELSE [disk EXCEPT ![f][dl[f].type] = "part"]
  /\ hazard' = IF ~mobile /\ f \in fs THEN hazard \union {"rewritten"} ELSE hazard
  /\ UNCHANGED <<imp, file, fs, obj, sent, indexer, temp, mobile, owed, scan, evict, staged,
                src, job, tick, drop>>

DownloadArrivesDoes(f) ==
  /\ dl[f].pc = "write" /\ DlIs(f, "wrote", dl[f].type)
  /\ disk' = [disk EXCEPT ![f][dl[f].type] = file[f].hash]
  /\ UNCHANGED <<imp, file, fs, obj, sent, indexer, temp, mobile, holder, owed, scan, evict,
                hazard, staged, src, job, tick, drop>>

DownloadRecordsDoes(f) ==
  /\ dl[f].pc = "wrote" /\ DlIs(f, "none", dl[f].type)
  /\ holder' = [holder EXCEPT ![f] = "free"]
  /\ fs' = fs \union {f} /\ hazard' = hazard \union Recorded(Slot(f))
  /\ UNCHANGED <<imp, file, obj, sent, indexer, disk, temp, mobile, owed, scan, evict, staged,
                src, job, tick, drop>>

DownloadStopsDoes(f) ==
  /\ dl[f].pc \in {"wait", "write"} /\ DlIs(f, "none", dl[f].type)
  /\ holder' = IF dl[f].pc = "write" THEN [holder EXCEPT ![f] = "free"] ELSE holder
  /\ \/ disk' = disk
     \/ dl[f].pc = "write" /\ ~mobile /\ disk' = [disk EXCEPT ![f][dl[f].type] = "none"]
  /\ UNCHANGED <<imp, file, fs, obj, sent, indexer, temp, mobile, owed, scan, evict, hazard,
                staged, src, job, tick, drop>>

EditDoes(f) ==
  /\ Exists(f)
  /\ \E s \in {"live", "trashed"}, c \in BOOLEAN : FileIs(f, s, file[f].type, file[f].hash, c)
  /\ UNCHANGED <<imp, fs, obj, sent, indexer, disk, temp, mobile, holder, dl, owed, scan, evict,
                hazard, staged, src, job, tick, drop>>

TombstoneDoes(f) ==
  /\ Exists(f) /\ FileIs(f, "deleted", file[f].type, file[f].hash, file[f].current)
  /\ owed' = owed \union {<<f, file[f].type, "none">>}
  /\ UNCHANGED <<imp, fs, obj, sent, indexer, disk, temp, mobile, holder, dl, scan, evict,
                hazard, staged, src, job, tick, drop>>

UploadDoes(f) ==
  /\ file[f].state = "live" /\ f \in fs /\ Slot(f) # "none"
  /\ obj' = [obj EXCEPT ![f] = obj[f] \union {indexer}]
  /\ sent' = [sent EXCEPT ![f] = Slot(f)]
  /\ UNCHANGED <<imp, file, fs, indexer, disk, temp, mobile, holder, dl, owed, scan, evict,
                hazard, staged, src, job, tick, drop>>

RetypeDoes(f, y) ==
  /\ file[f].state = "live" /\ y # file[f].type /\ \A m \in owed : m[1] # f
  /\ FileIs(f, "live", y, file[f].hash, file[f].current)
  /\ owed' = owed \union {<<f, file[f].type, y>>}
  /\ hazard' = hazard \union {"retyped"} \union (IF f \in fs THEN Recorded(disk[f][y]) ELSE {})
                      \union (IF \E e \in scan.list : e[1] = f THEN {"judgedEarly"} ELSE {})
  /\ UNCHANGED <<imp, fs, obj, sent, indexer, disk, temp, mobile, holder, dl, scan, evict,
                staged, src, job, tick, drop>>

removeTombstonedDoes(f, y) ==
  /\ <<f, y, "none">> \in owed /\ owed' = owed \ {<<f, y, "none">>}
  /\ removeNow(f, y)
  /\ UNCHANGED <<imp, file, obj, sent, indexer, temp, mobile, holder, dl, scan, evict, hazard,
                staged, src, job, tick, drop>>

retypeFileDoes(f, y, z) ==
  /\ <<f, y, z>> \in owed /\ z # "none" /\ owed' = owed \ {<<f, y, z>>}
  /\ \/ /\ disk[f][y] # "none"
        /\ disk' = [disk EXCEPT ![f][z] = disk[f][y], ![f][y] = "none"]
        /\ hazard' = hazard \union (IF f \in fs THEN Recorded(disk[f][y]) ELSE {})
        /\ file' = file
     \/ UNCHANGED <<disk, file, hazard>>
     \/ /\ disk[f][y] = "none" /\ disk[f][z] = "none"
        /\ FileIs(f, file[f].state, y, file[f].hash, file[f].current)
        /\ UNCHANGED <<disk, hazard>>
  /\ UNCHANGED <<imp, fs, obj, sent, indexer, temp, mobile, holder, dl, scan, evict, staged,
                src, job, tick, drop>>

ScanListDoes ==
  /\ scan.pc = "idle"
  /\ \E list \in SUBSET (File \X Type), temps \in SUBSET temp :
       /\ ScanIs("judge", list, list, temps, {}, {})
       /\ \A f \in File, y \in Type : <<f, y>> \in list <=> disk[f][y] # "none"
  /\ UNCHANGED <<imp, file, fs, obj, sent, indexer, disk, temp, mobile, holder, dl, owed, evict,
                hazard, staged, src, job, tick, drop>>

ScanJudgeDoes ==
  /\ scan.pc = "judge"
  /\ \E orphans \in SUBSET File, live \in SUBSET (File \X Type), temps \in SUBSET scan.temps :
       /\ ScanIs("entries", scan.list, scan.present, temps, orphans, live)
       /\ \A f \in orphans : ~InFlight(f)
       /\ \A f \in File, y \in Type : <<f, y>> \in live => Exists(f) /\ y = file[f].type
       /\ \A e \in temps : ~InFlight(e[1])
  /\ UNCHANGED <<imp, file, fs, obj, sent, indexer, disk, temp, mobile, holder, dl, owed, evict,
                hazard, staged, src, job, tick, drop>>

RemoveTempDoes ==
  /\ scan.pc = "entries"
  /\ \E e \in scan.temps :
       /\ ScanIs("entries", scan.list, scan.present, scan.temps \ {e}, scan.orphans, scan.live)
       /\ temp' = temp \ {e}
  /\ UNCHANGED <<imp, file, fs, obj, sent, indexer, disk, mobile, holder, dl, owed, evict,
                hazard, staged, src, job, tick, drop>>

ScanEntryDoes(f, y) ==
  /\ scan.pc = "entries" /\ <<f, y>> \in scan.list
  /\ \/ ScansOn(f, y, scan.present) /\ UNCHANGED <<disk, fs, hazard>>
     \/ /\ \A z \in Type : <<f, z>> \notin scan.live
        /\ f \in scan.orphans /\ ScansOn(f, y, scan.present)
        /\ removeNow(f, y) /\ hazard' = hazard \union Misjudged(f)
     \/ /\ <<f, y>> \in scan.live /\ ScansOn(f, y, scan.present)
        /\ getFsFileUri(f, y) /\ disk' = disk
     \/ \E z \in Type \ {y} :
          /\ <<f, z>> \in scan.live /\ <<f, z>> \in scan.present
          /\ ScansOn(f, y, scan.present \ {<<f, y>>})
          /\ disk' = [disk EXCEPT ![f][y] = "none"] /\ UNCHANGED <<fs, hazard>>
     \/ \E z \in Type \ {y} :
          /\ <<f, z>> \in scan.live /\ <<f, z>> \notin scan.present
          /\ disk[f][y] # "none" \/ disk[f][z] # "none"
          /\ ScansOn(f, y, scan.present \union {<<f, z>>})
          /\ disk' = IF disk[f][y] = "none" THEN disk
                     ELSE [disk EXCEPT ![f][z] = disk[f][y], ![f][y] = "none"]
          /\ fs' = fs \union {f} /\ hazard' = hazard \union Recorded(disk'[f][file[f].type])
  /\ UNCHANGED <<imp, file, obj, sent, indexer, temp, mobile, holder, dl, owed, evict, staged,
                src, job, tick, drop>>

ScanEndDoes ==
  /\ scan.pc = "entries" /\ ScanIs("idle", {}, {}, {}, {}, {})
  /\ fs' \subseteq fs /\ \A f \in fs \ fs' : f \in scan.orphans
  /\ hazard \subseteq hazard'
  /\ UNCHANGED <<imp, file, obj, sent, indexer, disk, temp, mobile, holder, dl, owed, evict,
                staged, src, job, tick, drop>>

EvictReadDoes ==
  /\ evict.pc = "idle"
  /\ \E any \in BOOLEAN, rows \in SUBSET (File \X Type) :
       /\ EvictIs("rows", rows, any, <<>>)
       /\ \A f \in File, y \in Type : <<f, y>> \in rows =>
            Exists(f) /\ y = file[f].type /\ (any => obj[f] # {})
  /\ UNCHANGED <<imp, file, fs, obj, sent, indexer, disk, temp, mobile, holder, dl, owed, scan,
                hazard, staged, src, job, tick, drop>>

EvictCountDoes(f, y) ==
  /\ evict.pc = "rows" /\ <<f, y>> \in evict.rows
  /\ \/ /\ evict.any \/ indexer \in obj[f]
        /\ EvictIs("try", evict.rows \ {<<f, y>>}, evict.any, <<f, y>>)
     \/ EvictIs("rows", evict.rows \ {<<f, y>>}, evict.any, <<>>)
  /\ UNCHANGED <<imp, file, fs, obj, sent, indexer, disk, temp, mobile, holder, dl, owed, scan,
                hazard, staged, src, job, tick, drop>>

EvictTryDoes(f, y) ==
  /\ evict.pc = "try" /\ evict.on = <<f, y>>
  /\ \/ EvictIs("rows", evict.rows, evict.any, <<>>) /\ UNCHANGED <<holder, disk>>
     \/ /\ holder[f] = "free" /\ EvictIs("row", evict.rows, evict.any, <<f, y>>)
        /\ holder' = [holder EXCEPT ![f] = "evict"]
        /\ disk' = [disk EXCEPT ![f][y] = "none"]
  /\ UNCHANGED <<imp, file, fs, obj, sent, indexer, temp, mobile, dl, owed, scan, hazard,
                staged, src, job, tick, drop>>

EvictRowDoes(f, y) ==
  /\ evict.pc = "row" /\ evict.on = <<f, y>>
  /\ EvictIs("rows", evict.rows, evict.any, <<>>)
  /\ holder' = [holder EXCEPT ![f] = "free"] /\ fs' = fs \ {f}
  /\ UNCHANGED <<imp, file, obj, sent, indexer, disk, temp, mobile, dl, owed, scan, hazard,
                staged, src, job, tick, drop>>

EvictEndDoes ==
  /\ evict.pc = "rows" /\ EvictIs("idle", {}, FALSE, <<>>)
  /\ UNCHANGED <<imp, file, fs, obj, sent, indexer, disk, temp, mobile, holder, dl, owed, scan,
                hazard, staged, src, job, tick, drop>>

SwitchIndexerDoes ==
  /\ hazard' = IF evict.pc = "try" THEN hazard \union {"switched"} ELSE hazard
  /\ UNCHANGED <<imp, file, fs, obj, sent, disk, temp, mobile, holder, dl, owed, scan, evict,
                staged, src, job, tick, drop>>

TickBeginDoes ==
  /\ ~tick.on /\ tick'.on
  /\ \A f \in File : \/ imp'[f] = imp[f]
                     \/ imp[f].state = "active" /\ RowIs(f, "pending", 0, imp[f].dead)
  /\ UNCHANGED <<file, fs, obj, sent, indexer, disk, temp, mobile, holder, dl, owed, scan,
                evict, hazard, staged, src, job, drop>>

TickDoes ==
  /\ tick'.on = tick.on \/ \A t \in Token : ~Waited(t)
  /\ UNCHANGED <<imp, file, fs, obj, sent, indexer, disk, temp, mobile, holder, dl, owed, scan,
                evict, hazard, staged, src, job, drop>>

ClaimDoes(f, t) ==
  /\ tick.on /\ tick'.on /\ imp[f].state = "pending" /\ job[t].pc = "free"
  /\ ImpIs(f, "active", t, imp[f].dead)
  /\ \A u \in Token \ {t} : job'[u] = job[u]
  /\ job'[t].f = f /\ job'[t].type = imp[f].type /\ job'[t].pc = "start"
  /\ job'[t].live /\ job'[t].got = "none"
  /\ hazard' = IF \E u \in Copying : job[u].f = f /\ f \in staged
               THEN hazard \union {"movedUnrecorded"} ELSE hazard
  /\ UNCHANGED <<file, fs, obj, sent, indexer, disk, temp, mobile, holder, dl, owed, scan,
                evict, staged, src, drop>>

JobStartDoes(t) ==
  /\ job[t].pc = "start"
  /\ \/ JobIs(t, "over", "none", FALSE) /\ disk' = disk
     \/ /\ job[t].f \notin fs \/ \A y \in Type : disk[job[t].f][y] = "none"
        /\ JobIs(t, "resolve", job[t].got, job[t].live) /\ disk' = disk
     \/ /\ job[t].f \in fs /\ JobIs(t, "hash", job[t].got, job[t].live)
        /\ \/ disk' = disk
           \/ \E y \in Type :
                /\ disk[job[t].f][y] # "none" /\ disk[job[t].f][job[t].type] = "none"
                /\ disk' = [disk EXCEPT ![job[t].f][job[t].type] = disk[job[t].f][y],
                                        ![job[t].f][y] = "none"]
  /\ UNCHANGED <<imp, file, fs, obj, sent, indexer, temp, mobile, holder, dl, owed, scan, evict,
                hazard, staged, src, tick, drop>>

ResolveDoes(t) ==
  /\ job[t].pc = "resolve"
  /\ \/ /\ src[job[t].f] = "none" /\ JobIs(t, "over", "none", FALSE)
        /\ Settles(t, "unavailable", TRUE)
     \/ /\ src[job[t].f] # "none" /\ imp' = imp
        /\ \E live \in BOOLEAN : JobIs(t, "copy", job[t].got, live)
  /\ UNCHANGED <<file, fs, obj, sent, indexer, disk, temp, mobile, holder, dl, owed, scan,
                evict, hazard, staged, src, tick, drop>>

CopyDoes(t) ==
  /\ job[t].pc = "copy" /\ src[job[t].f] # "none"
  /\ src' = [src EXCEPT ![job[t].f] = IF job[t].f \in staged THEN "none" ELSE src[job[t].f]]
  /\ \/ /\ temp' = temp \union {<<job[t].f, t, src[job[t].f]>>} /\ UNCHANGED <<disk, hazard>>
        /\ JobIs(t, "temp", IF job[t].f \in staged THEN "none" ELSE src[job[t].f], job[t].live)
     \/ /\ ~mobile /\ disk' = [disk EXCEPT ![job[t].f][job[t].type] = src[job[t].f]]
        /\ JobIs(t, "placed", job[t].got, job[t].live)
        /\ hazard' = hazard \union Late(t) /\ temp' = temp
  /\ UNCHANGED <<imp, file, fs, obj, sent, indexer, mobile, holder, dl, owed, scan, evict,
                staged, tick, drop>>

CancelCopyDoes(t) ==
  /\ job[t].pc = "copy" /\ job[t].f \notin staged /\ JobIs(t, "over", "none", FALSE)
  /\ UNCHANGED <<imp, file, fs, obj, sent, indexer, disk, temp, mobile, holder, dl, owed, scan,
                evict, hazard, staged, src, tick, drop>>

PublishDoes(t) ==
  /\ job[t].pc = "temp" /\ JobIs(t, "placed", job[t].got, job[t].live)
  /\ \E b \in Bytes :
       /\ <<job[t].f, t, b>> \in temp /\ temp' = temp \ {<<job[t].f, t, b>>}
       /\ disk' = [disk EXCEPT ![job[t].f][job[t].type] = b]
  /\ hazard' = hazard \union Late(t)
  /\ UNCHANGED <<imp, file, fs, obj, sent, indexer, mobile, holder, dl, owed, scan, evict,
                staged, src, tick, drop>>

RecordDoes(t) ==
  /\ job[t].pc = "placed" /\ fs' = fs \union {job[t].f} /\ hazard' = hazard \union Late(t)
  /\ \/ ~job[t].live /\ JobIs(t, "over", "none", FALSE)
     \/ job[t].live /\ job[t].got # "none" /\ JobIs(t, "hashed", job[t].got, TRUE)
     \/ job[t].live /\ JobIs(t, "hash", job[t].got, TRUE)
  /\ UNCHANGED <<imp, file, obj, sent, indexer, disk, temp, mobile, holder, dl, owed, scan,
                evict, staged, src, tick, drop>>

RecordCutDoes(t) ==
  /\ job[t].pc = "placed" /\ JobIs(t, "over", "none", FALSE)
  /\ hazard' = IF job[t].f \in staged THEN hazard \union {"movedUnrecorded"} ELSE hazard
  /\ UNCHANGED <<imp, file, fs, obj, sent, indexer, disk, temp, mobile, holder, dl, owed, scan,
                evict, staged, src, tick, drop>>

HashDoes(t) ==
  /\ job[t].pc = "hash" /\ disk[job[t].f][job[t].type] # "none"
  /\ JobIs(t, "hashed", disk[job[t].f][job[t].type], job[t].live)
  /\ UNCHANGED <<imp, file, fs, obj, sent, indexer, disk, temp, mobile, holder, dl, owed, scan,
                evict, hazard, staged, src, tick, drop>>

RefuseEmptyDoes(t) ==
  /\ job[t].pc = "hashed" /\ removeNow(job[t].f, job[t].type)
  /\ Settles(t, "failed", TRUE) /\ JobIs(t, "over", "none", FALSE)
  /\ UNCHANGED <<file, obj, sent, indexer, temp, mobile, holder, dl, owed, scan, evict, hazard,
                staged, src, tick, drop>>

RenameDoes(t) ==
  /\ job[t].pc = "hashed" /\ JobIs(t, "moved", job[t].got, job[t].live)
  /\ disk' = IF disk[job[t].f][job[t].type] = "none" THEN disk
             ELSE [disk EXCEPT ![job[t].f][job[t].type] = "none",
                               ![job[t].f][Classify[job[t].f]] = disk[job[t].f][job[t].type]]
  /\ UNCHANGED <<imp, file, fs, obj, sent, indexer, temp, mobile, holder, dl, owed, scan, evict,
                hazard, staged, src, tick, drop>>

RecordHashDoes(t) ==
  /\ job[t].pc = "moved" /\ JobIs(t, "final", job[t].got, job[t].live)
  /\ \/ ~Owns(t) /\ imp' = imp
     \/ /\ Owns(t) /\ imp' \in [File -> ImportRow] /\ \A f \in File \ {job[t].f} : imp'[f] = imp[f]
        /\ imp'[job[t].f].state = "active" /\ imp'[job[t].f].token = t
        /\ imp'[job[t].f].type = Classify[job[t].f] /\ imp'[job[t].f].hash = job[t].got
        /\ imp'[job[t].f].dead = imp[job[t].f].dead
  /\ UNCHANGED <<file, fs, obj, sent, indexer, disk, temp, mobile, holder, dl, owed, scan,
                evict, hazard, staged, src, tick, drop>>

FinalizeDoes(t) ==
  /\ job[t].pc = "final"
  /\ \/ ~Owns(t) /\ JobIs(t, "over", "none", FALSE) /\ UNCHANGED <<imp, file>>
     \/ /\ Owns(t) /\ ImpIs(job[t].f, "duplicate", 0, FALSE) /\ file' = file
        /\ JobIs(t, "dup", job[t].got, job[t].live)
     \/ /\ Owns(t) /\ ImpIs(job[t].f, "added", 0, FALSE) /\ JobIs(t, "over", "none", FALSE)
        /\ FileIs(job[t].f, "live", imp[job[t].f].type, imp[job[t].f].hash, TRUE)
  /\ UNCHANGED <<fs, obj, sent, indexer, disk, temp, mobile, holder, dl, owed, scan, evict,
                hazard, staged, src, tick, drop>>

CleanDuplicateDoes(t) ==
  /\ job[t].pc = "dup" /\ removeNow(job[t].f, Classify[job[t].f])
  /\ JobIs(t, "over", "none", FALSE)
  /\ UNCHANGED <<imp, file, obj, sent, indexer, temp, mobile, holder, dl, owed, scan, evict,
                hazard, staged, src, tick, drop>>

JobFailsDoes(t) ==
  /\ Waited(t) /\ job[t].pc # "dup"
  /\ job[t].pc \in {"temp", "placed"} => job[t].f \notin staged
  /\ \E s \in {"pending", "failed", "unavailable"} : Settles(t, s, FALSE)
  /\ JobIs(t, "over", "none", FALSE)
  /\ UNCHANGED <<file, fs, obj, sent, indexer, disk, temp, mobile, holder, dl, owed, scan,
                evict, hazard, staged, src, tick, drop>>

CopyFindsNothingDoes(t) ==
  /\ job[t].pc = "copy" /\ src[job[t].f] = "none" /\ JobIs(t, "over", "none", FALSE)
  /\ \/ job[t].live /\ Settles(t, "unavailable", TRUE)
     \/ imp' = imp
  /\ UNCHANGED <<file, fs, obj, sent, indexer, disk, temp, mobile, holder, dl, owed, scan,
                evict, hazard, staged, src, tick, drop>>

GiveUpDoes(f) ==
  /\ imp[f].state # "none" /\ \A g \in File \ {f} : src'[g] = src[g]
  /\ \/ InFlight(f) /\ ImpIs(f, "cancelled", 0, FALSE)
     \/ ImpIs(f, "none", 0, FALSE)
  /\ UNCHANGED <<file, fs, obj, sent, indexer, disk, temp, mobile, holder, dl, owed, scan,
                evict, hazard, staged, job, tick, drop>>

RependDoes(f) ==
  /\ imp[f].state \in {"failed", "unavailable"} /\ ~imp[f].dead
  /\ ImpIs(f, "pending", imp[f].token, imp[f].dead)
  /\ hazard' = IF f \in staged THEN hazard \union {"retried"} ELSE hazard
  /\ UNCHANGED <<file, fs, obj, sent, indexer, disk, temp, mobile, holder, dl, owed, scan,
                evict, staged, src, job, tick, drop>>

EditSourceDoes(f) ==
  /\ f \notin staged /\ \A g \in File \ {f} : src'[g] = src[g]
  /\ UNCHANGED <<imp, file, fs, obj, sent, indexer, disk, temp, mobile, holder, dl, owed, scan,
                evict, hazard, staged, job, tick, drop>>

AbortDoes ==
  /\ tick'.on = tick.on
  /\ \A t \in Token : /\ job'[t].f = job[t].f /\ job'[t].type = job[t].type
                      /\ \/ job[t].pc = "hash" /\ job'[t].pc = "over" /\ ~job'[t].live
                         \/ /\ job'[t].pc = job[t].pc /\ job'[t].got = job[t].got
                            /\ job'[t].live <=> job[t].live /\ t \notin Copying
  /\ UNCHANGED <<imp, file, fs, obj, sent, indexer, disk, temp, mobile, holder, dl, owed, scan,
                evict, hazard, staged, src, drop>>

KillDoes ==
  /\ hazard \subseteq hazard'
  /\ \A f \in File, y \in Type :
       \/ disk'[f][y] = disk[f][y]
       \/ /\ disk'[f][y] = "part"
          /\ \E t \in Token : /\ job[t].pc = "copy" /\ job[t].f = f /\ job[t].type = y
                              /\ Late(t) \subseteq hazard'
  /\ \A f \in File, y \in Type : disk[f][y] # "none" => disk'[f][y] # "none"
  /\ (\E t \in Copying : job[t].f \in staged /\ job[t].pc # "copy") => "movedUnrecorded" \in hazard'
  /\ owed # {} \/ evict.pc = "row" => "leftHalfway" \in hazard'
  /\ \A t \in Token : /\ job'[t].f = job[t].f /\ job'[t].type = job[t].type
                      /\ job[t].pc = "free" => job'[t] = job[t]
                      /\ job[t].pc # "free" => job'[t].pc = "over" /\ ~job'[t].live
  /\ tick'.on = FALSE /\ drop'.pc = "idle" /\ owed' = {}
  /\ \A f \in File : holder'[f] = "free" /\ dl'[f].pc = "none"
  /\ ScanIs("idle", {}, {}, {}, {}, {}) /\ EvictIs("idle", {}, FALSE, <<>>)
  /\ UNCHANGED <<imp, file, fs, obj, sent, indexer, temp, mobile, staged, src>>

DropReadDoes ==
  /\ drop'.pc = "fail"
  /\ UNCHANGED <<imp, file, fs, obj, sent, indexer, disk, temp, mobile, holder, dl, owed, scan,
                evict, hazard, staged, src, job, tick>>

failImportDoes ==
  /\ drop'.rows = drop.rows /\ drop'.pc = "bytes"
  /\ \A f \in File :
       \/ /\ imp'[f] = imp[f]
          /\ imp[f].state = "none" \/ \A r \in drop.rows : r[1] # f
       \/ RowIs(f, "failed", 0, TRUE) /\ imp[f].state # "none"
  /\ hazard \subseteq hazard'
  /\ \A r \in drop.rows : file[r[1]].state # "none" => "failedAdded" \in hazard'
  /\ \A f \in File : (\A r \in drop.rows : r[1] # f) => imp'[f] = imp[f]
  /\ UNCHANGED <<file, fs, obj, sent, indexer, disk, temp, mobile, holder, dl, owed, scan,
                evict, staged, src, job, tick>>

DropBytesDoes(f, y) ==
  /\ drop.pc = "bytes" /\ <<f, y>> \in drop.rows
  /\ removeNow(f, y) /\ drop'.pc = "bytes" /\ drop'.rows \subseteq drop.rows
  /\ UNCHANGED <<imp, file, obj, sent, indexer, temp, mobile, holder, dl, owed, scan, evict,
                hazard, staged, src, job, tick>>

deleteDirectoryDoes ==
  /\ drop'.pc = "idle"
  /\ \A f \in File : /\ file'[f].type = file[f].type /\ file'[f].hash = file[f].hash
                     /\ file'[f].state = IF file[f].state = "live" THEN "trashed" ELSE file[f].state
  /\ UNCHANGED <<imp, fs, obj, sent, indexer, disk, temp, mobile, holder, dl, owed, scan, evict,
                hazard, staged, src, job, tick>>

-----------------------------------------------------------------------------
(* Records after EXCEPT, and each action.                                   *)

\* A job's new record, by its fields.
LEMMA JobBecomes ==
  ASSUME Types, NEW t \in Token, NEW q \in JobRow, job' = [job EXCEPT ![t] = q],
         q.f = job[t].f, q.type = job[t].type
  PROVE  JobIs(t, q.pc, q.got, q.live)
BY DEF Types, JobIs

\* A job goes on, keeping what it has.
LEMMA Goes ==
  ASSUME Types, NEW t \in Token, NEW pc \in JobPc,
         Goto(t, pc)
  PROVE  JobIs(t, pc, job[t].got, job[t].live)
PROOF
<1>1. job \in [Token -> JobRow] /\ job[t] \in JobRow
  BY DEF Types
<1>2. PICK q : q = [job[t] EXCEPT !.pc = pc]
  OBVIOUS
<1>3. /\ q \in JobRow /\ q.f = job[t].f /\ q.type = job[t].type
      /\ <<q.pc, q.got, q.live>> = <<pc, job[t].got, job[t].live>>
  BY <1>1, <1>2 DEF JobRow, JobPc, Bytes
<1>4. job' = [job EXCEPT ![t] = q]
  BY <1>1, <1>2 DEF Goto
<1>5. JobIs(t, q.pc, q.got, q.live)
  BY <1>1, <1>3, <1>4, JobBecomes
<1>6. QED
  BY <1>3, <1>5

\* A job ends.
LEMMA EndsIt ==
  ASSUME Types, NEW t \in Token,
         Ends(t)
  PROVE  JobIs(t, "over", "none", FALSE)
PROOF
<1>1. job \in [Token -> JobRow] /\ job[t] \in JobRow
  BY DEF Types
<1>2. PICK q : q = [job[t] EXCEPT !.pc = "over", !.got = "none", !.live = FALSE]
  OBVIOUS
<1>3. /\ q \in JobRow /\ q.f = job[t].f /\ q.type = job[t].type
      /\ <<q.pc, q.got, q.live>> = <<"over", "none", FALSE>>
  BY <1>1, <1>2 DEF JobRow, JobPc, Bytes
<1>4. job' = [job EXCEPT ![t] = q]
  BY <1>1, <1>2 DEF Ends, Over
<1>5. JobIs(t, q.pc, q.got, q.live)
  BY <1>1, <1>3, <1>4, JobBecomes
<1>6. QED
  BY <1>3, <1>5

\* A job goes on with a hash.
LEMMA GoesWith ==
  ASSUME Types, NEW t \in Token, NEW pc \in JobPc, NEW got \in Bytes,
         job' = [job EXCEPT ![t].pc = pc, ![t].got = got]
  PROVE  JobIs(t, pc, got, job[t].live)
PROOF
<1>1. job \in [Token -> JobRow] /\ job[t] \in JobRow
  BY DEF Types
<1>2. PICK q : q = [job[t] EXCEPT !.pc = pc, !.got = got]
  OBVIOUS
<1>3. /\ q \in JobRow /\ q.f = job[t].f /\ q.type = job[t].type
      /\ <<q.pc, q.got, q.live>> = <<pc, got, job[t].live>>
  BY <1>1, <1>2 DEF JobRow, JobPc, Bytes
<1>4. job' = [job EXCEPT ![t] = q]
  BY <1>1, <1>2
<1>5. JobIs(t, q.pc, q.got, q.live)
  BY <1>1, <1>3, <1>4, JobBecomes
<1>6. QED
  BY <1>3, <1>5

\* A job goes on, waited for or not.
LEMMA GoesOn ==
  ASSUME Types, NEW t \in Token, NEW pc \in JobPc, NEW live \in BOOLEAN,
         job' = [job EXCEPT ![t].pc = pc, ![t].live = live]
  PROVE  JobIs(t, pc, job[t].got, live)
PROOF
<1>1. job \in [Token -> JobRow] /\ job[t] \in JobRow
  BY DEF Types
<1>2. PICK q : q = [job[t] EXCEPT !.pc = pc, !.live = live]
  OBVIOUS
<1>3. /\ q \in JobRow /\ q.f = job[t].f /\ q.type = job[t].type
      /\ <<q.pc, q.got, q.live>> = <<pc, job[t].got, live>>
  BY <1>1, <1>2 DEF JobRow, JobPc, Bytes
<1>4. job' = [job EXCEPT ![t] = q]
  BY <1>1, <1>2
<1>5. JobIs(t, q.pc, q.got, q.live)
  BY <1>1, <1>3, <1>4, JobBecomes
<1>6. QED
  BY <1>3, <1>5

\* A settled row, by its fields.
LEMMA ImportRows ==
  ASSUME NEW r \in ImportRow, NEW state \in ImportState, NEW dead \in BOOLEAN, NEW q,
         q = Settled(r, state, dead)
  PROVE  /\ q \in ImportRow /\ q.state = state /\ q.token = 0 /\ q.dead = dead
         /\ q.type = r.type /\ q.hash = r.hash
BY DEF ImportRow, Settled

\* A new import row, by its fields.
LEMMA RowBecomes ==
  ASSUME Types, NEW f \in File, NEW r \in ImportRow, imp' = [imp EXCEPT ![f] = r],
         r.type = imp[f].type, r.hash = imp[f].hash
  PROVE  ImpIs(f, r.state, r.token, r.dead)
BY DEF Types, ImpIs, RowIs

\* A row is settled.
LEMMA SettlesRow ==
  ASSUME Types, NEW f \in File, NEW state \in ImportState, NEW dead \in BOOLEAN,
         imp' = [imp EXCEPT ![f] = Settled(imp[f], state, dead)]
  PROVE  ImpIs(f, state, 0, dead)
PROOF
<1>1. imp[f] \in ImportRow
  BY DEF Types
<1>2. PICK q : q = Settled(imp[f], state, dead)
  OBVIOUS
<1>3. /\ q \in ImportRow /\ q.state = state /\ q.token = 0 /\ q.dead = dead
      /\ q.type = imp[f].type /\ q.hash = imp[f].hash
  BY <1>1, <1>2, ImportRows
<1>4. ImpIs(f, q.state, q.token, q.dead)
  BY <1>2, <1>3, RowBecomes
<1>5. QED
  BY <1>3, <1>4

\* A row is settled under a claim, or left alone if the claim is lost.
LEMMA SettlesUnder ==
  ASSUME Types, NEW t \in Token, NEW state \in ImportState, NEW dead \in BOOLEAN,
         Under(t, Settled(imp[job[t].f], state, dead))
  PROVE  Settles(t, state, dead)
PROOF
<1>1. job[t].f \in File
  BY DEF Types, JobRow
<1>2. CASE Owns(t)
  <2>1. imp' = [imp EXCEPT ![job[t].f] = Settled(imp[job[t].f], state, dead)]
    BY <1>2 DEF Under
  <2>2. QED
    BY <1>1, <1>2, <2>1, SettlesRow DEF Settles
<1>3. CASE ~Owns(t)
  BY <1>3 DEF Under, Settles
<1>4. QED
  BY <1>2, <1>3

\* An attempt is counted, and the last one settles the row.
LEMMA CountsUnder ==
  ASSUME Types, NEW t \in Token, NEW exhausted \in {"failed", "unavailable"},
         Under(t, Counted(imp[job[t].f], exhausted))
  PROVE  \E state \in {"pending", exhausted} : Settles(t, state, FALSE)
PROOF
<1>1. job[t].f \in File /\ imp[job[t].f] \in ImportRow /\ imp[job[t].f].tries \in Nat
  BY DEF Types, JobRow, ImportRow
<1>2. PICK r : r = [imp[job[t].f] EXCEPT !.tries = imp[job[t].f].tries + 1]
  OBVIOUS
<1>3. r \in ImportRow /\ r.type = imp[job[t].f].type /\ r.hash = imp[job[t].f].hash
  BY <1>1, <1>2 DEF ImportRow
<1>4. PICK state \in {"pending", exhausted} :
        state = IF imp[job[t].f].tries + 1 >= MaxTries THEN exhausted ELSE "pending"
  OBVIOUS
<1>5. PICK q : q = Settled(r, state, FALSE)
  OBVIOUS
<1>6. Counted(imp[job[t].f], exhausted) = q
  BY <1>2, <1>4, <1>5 DEF Counted
<1>7. /\ q \in ImportRow /\ q.state = state /\ q.token = 0 /\ q.dead = FALSE
      /\ q.type = r.type /\ q.hash = r.hash
  <2>1. state \in ImportState
    BY <1>4 DEF ImportState
  <2>2. QED
    BY <1>3, <1>5, <2>1 DEF ImportRow, Settled
<1>8. CASE Owns(t)
  <2>1. imp' = [imp EXCEPT ![job[t].f] = q]
    BY <1>6, <1>8 DEF Under
  <2>2. ImpIs(job[t].f, q.state, q.token, q.dead)
    BY <1>1, <1>3, <1>7, <2>1, RowBecomes
  <2>3. Settles(t, state, FALSE)
    BY <1>7, <1>8, <2>2 DEF Settles
  <2>4. QED
    BY <1>4, <2>3
<1>9. CASE ~Owns(t)
  BY <1>4, <1>9 DEF Under, Settles
<1>10. QED
  BY <1>8, <1>9

\* A new file record, by its fields.
LEMMA FileBecomes ==
  ASSUME Types, NEW f \in File, NEW state \in FileState, NEW type \in Type, NEW hash \in Bytes,
         NEW current \in BOOLEAN, NEW q,
         q = [state |-> state, type |-> type, hash |-> hash, current |-> current],
         file' = [file EXCEPT ![f] = q]
  PROVE  FileIs(f, state, type, hash, current)
BY DEF Types, FileIs, FileRow

\* A type change, and its undoing.
LEMMA FileRetypes ==
  ASSUME Types, NEW f \in File, NEW y \in Type, file' = [file EXCEPT ![f].type = y]
  PROVE  FileIs(f, file[f].state, y, file[f].hash, file[f].current)
PROOF
<1>1. file \in [File -> FileRow] /\ file[f] \in FileRow
  BY DEF Types
<1>2. PICK q : q = [file[f] EXCEPT !.type = y]
  OBVIOUS
<1>3. /\ q \in FileRow /\ q.state = file[f].state /\ q.type = y /\ q.hash = file[f].hash
      /\ q.current = file[f].current
  BY <1>1, <1>2 DEF FileRow
<1>4. file' = [file EXCEPT ![f] = q]
  BY <1>2
<1>5. QED
  BY <1>1, <1>3, <1>4 DEF FileIs

\* The scanner's new state, by its fields.
LEMMA ScanBecomes ==
  ASSUME Types, NEW pc \in {"idle", "judge", "entries"}, NEW list \in SUBSET (File \X Type),
         NEW present \in SUBSET (File \X Type), NEW temps \in SUBSET (File \X Token \X Bytes),
         NEW orphans \in SUBSET File, NEW live \in SUBSET (File \X Type),
         scan' = [pc |-> pc, list |-> list, present |-> present, temps |-> temps,
                  orphans |-> orphans, live |-> live]
  PROVE  ScanIs(pc, list, present, temps, orphans, live)
BY DEF ScanIs, ScanState

\* Eviction's new state, by its fields.
LEMMA EvictBecomes ==
  ASSUME Types, NEW pc \in {"idle", "rows", "try", "row"}, NEW rows \in SUBSET (File \X Type),
         NEW any \in BOOLEAN, NEW on \in {<<>>} \union File \X Type,
         evict' = [pc |-> pc, rows |-> rows, any |-> any, on |-> on]
  PROVE  EvictIs(pc, rows, any, on)
BY DEF EvictIs, EvictState

\* A download goes on.
LEMMA DlBecomes ==
  ASSUME Types, NEW f \in File, NEW pc \in {"none", "wait", "write", "wrote"},
         dl' = [dl EXCEPT ![f].pc = pc]
  PROVE  DlIs(f, pc, dl[f].type)
PROOF
<1>1. dl \in [File -> DownloadRow] /\ dl[f] \in DownloadRow
  BY DEF Types
<1>2. PICK q : q = [dl[f] EXCEPT !.pc = pc]
  OBVIOUS
<1>3. q \in DownloadRow /\ q.pc = pc /\ q.type = dl[f].type
  BY <1>1, <1>2 DEF DownloadRow
<1>4. dl' = [dl EXCEPT ![f] = q]
  BY <1>2
<1>5. QED
  BY <1>1, <1>3, <1>4 DEF DlIs

\* An act is within the bound.
LEMMA Acts ==
  ASSUME Types, Act
  PROVE  acts' \in 0 .. MaxActs
BY CopiesAssumption DEF Types, Act

\* The claim columns stay paired when a row is given up.
LEMMA ClaimsPair ==
  ASSUME Types, NEW f \in File, NEW state, NEW dead, state # "active", ImpIs(f, state, 0, dead)
  PROVE  imp' \in [File -> ImportRow] /\ Paired'
BY DEF Types, ImpIs, RowIs, Paired

\* The claim columns stay paired when a job settles its row.
LEMMA SettlesPair ==
  ASSUME Types, NEW t \in Token, NEW state, NEW dead, state # "active", Settles(t, state, dead)
  PROVE  imp' \in [File -> ImportRow] /\ Paired'
PROOF
<1>1. job[t].f \in File
  BY DEF Types, JobRow
<1>2. CASE Owns(t) /\ ImpIs(job[t].f, state, 0, dead)
  BY <1>1, <1>2, ClaimsPair
<1>3. CASE imp' = imp
  BY <1>3 DEF Types, Paired
<1>4. QED
  BY <1>2, <1>3 DEF Settles

\* Bytes put at a slot, and bytes moved from one slot to another.
LEMMA DiskSet ==
  ASSUME Types, NEW f \in File, NEW y \in Type, NEW b \in Bytes
  PROVE  [disk EXCEPT ![f][y] = b] \in [File -> [Type -> Bytes]]
BY DEF Types

\* Bytes removed leave a disk.
LEMMA DiskCleared ==
  ASSUME Types, NEW f \in File, NEW y \in Type
  PROVE  [disk EXCEPT ![f][y] = "none"] \in [File -> [Type -> Bytes]]
BY DEF Types, Bytes

\* Bytes moved leave a disk.
LEMMA DiskMoved ==
  ASSUME Types, NEW f \in File, NEW y \in Type, NEW z \in Type
  PROVE  /\ [disk EXCEPT ![f][z] = disk[f][y], ![f][y] = "none"] \in [File -> [Type -> Bytes]]
         /\ [disk EXCEPT ![f][y] = "none", ![f][z] = disk[f][y]] \in [File -> [Type -> Bytes]]
BY ZenonT(60) DEF Types, Bytes

\* The races an action adds are among those named.
LEMMA RacesNamed ==
  /\ \A b : Recorded(b) \subseteq Races
  /\ \A f : Misjudged(f) \subseteq Races
  /\ \A t : Late(t) \subseteq Races
BY DEF Recorded, Misjudged, Late, Races

\* What a lookup of the file on the device does.
LEMMA GetFileUriStep ==
  ASSUME Types, NEW f \in File, GetFileUri(f), UNCHANGED <<scanner, drops>>
  PROVE  Types' /\ GetFileUriDoes(f)
PROOF
<1>1. acts' \in 0 .. MaxActs
  BY Acts DEF GetFileUri, Act, getFsFileUri, Recorded, passes, bytes, scanner, drops
<1>2. fs' \subseteq File
  BY DEF GetFileUri, Act, getFsFileUri, Recorded, passes, bytes, scanner, drops, Types
<1>3. hazard' \subseteq Races
  BY RacesNamed DEF GetFileUri, Act, getFsFileUri, Recorded, passes, bytes, scanner, drops,
    Types
<1>4. GetFileUriDoes(f)
  BY <1>1, <1>2, <1>3 DEF GetFileUri, Act, getFsFileUri, Recorded, passes, bytes, scanner,
    drops, GetFileUriDoes
<1>5. Types'
  BY <1>1, <1>2, <1>3 DEF GetFileUri, Act, getFsFileUri, Recorded, passes, bytes, scanner,
    drops, Types, Paired
<1>6. QED
  BY <1>4, <1>5

\* What the start of a download does.
LEMMA DownloadStartStep ==
  ASSUME Types, NEW f \in File, DownloadStart(f), UNCHANGED <<scanner, drops>>
  PROVE  Types' /\ DownloadStartDoes(f)
PROOF
<1>1. acts' \in 0 .. MaxActs
  BY Acts DEF DownloadStart, Act, bytes, scanner, drops
<1>2. dl' = dl \/ DlIs(f, "wait", file[f].type)
  BY DEF DownloadStart, Act, bytes, scanner, drops, Types, Paired, DlIs, DownloadRow, FileRow
<1>3. dl' \in [File -> DownloadRow]
  BY <1>2 DEF Types, DlIs
<1>4. fs' \subseteq File
  BY DEF DownloadStart, Act, bytes, scanner, drops, Types
<1>5. DownloadStartDoes(f)
  BY <1>2 DEF DownloadStart, Act, bytes, scanner, drops, DownloadStartDoes, Types, DlIs,
    DownloadRow, FileRow
<1>6. Types'
  BY <1>1, <1>2, <1>3, <1>4 DEF DownloadStart, Act, bytes, scanner, drops, Types, Paired, DlIs
<1>7. QED
  BY <1>5, <1>6

\* What a download that takes the lock and opens its file does.
LEMMA DownloadOpensStep ==
  ASSUME Types, NEW f \in File, DownloadOpens(f), UNCHANGED <<scanner, drops>>
  PROVE  Types' /\ DownloadOpensDoes(f)
PROOF
<1>1. DlIs(f, "write", dl[f].type)
  BY DlBecomes DEF DownloadOpens, Opened, tables, scanner, drops
<1>2. dl[f].type \in Type
  BY DEF Types, DownloadRow
<1>3. disk' \in [File -> [Type -> Bytes]]
  BY <1>2, DiskSet DEF DownloadOpens, Opened, tables, scanner, drops, Types, Bytes
<1>4. holder' \in [File -> {"free", "download", "evict"}]
  BY DEF DownloadOpens, Opened, tables, scanner, drops, Types
<1>5. hazard' \subseteq Races
  BY DEF DownloadOpens, Opened, tables, scanner, drops, Types, Races
<1>6. DownloadOpensDoes(f)
  BY <1>1, <1>2, <1>3, <1>4, <1>5 DEF DownloadOpens, Opened, tables, scanner, drops,
    DownloadOpensDoes
<1>7. Types'
  BY <1>1, <1>2, <1>3, <1>4, <1>5 DEF DownloadOpens, Opened, tables, scanner, drops, Types,
    Paired, DlIs
<1>8. QED
  BY <1>6, <1>7

\* What the last bytes of a download does.
LEMMA DownloadArrivesStep ==
  ASSUME Types, NEW f \in File, DownloadArrives(f), UNCHANGED <<scanner, drops>>
  PROVE  Types' /\ DownloadArrivesDoes(f)
PROOF
<1>1. DlIs(f, "wrote", dl[f].type)
  BY DlBecomes DEF DownloadArrives, tables, scanner, drops
<1>2. dl[f].type \in Type /\ file[f].hash \in Bytes
  BY DEF Types, DownloadRow, FileRow
<1>3. disk' \in [File -> [Type -> Bytes]]
  BY <1>2, DiskSet DEF DownloadArrives, tables, scanner, drops, Types
<1>4. DownloadArrivesDoes(f)
  BY <1>1, <1>2, <1>3 DEF DownloadArrives, tables, scanner, drops, DownloadArrivesDoes
<1>5. Types'
  BY <1>1, <1>2, <1>3 DEF DownloadArrives, tables, scanner, drops, Types, Paired, DlIs
<1>6. QED
  BY <1>4, <1>5

\* What the record of a download does.
LEMMA DownloadRecordsStep ==
  ASSUME Types, NEW f \in File, DownloadRecords(f), UNCHANGED <<scanner, drops>>
  PROVE  Types' /\ DownloadRecordsDoes(f)
PROOF
<1>1. DlIs(f, "none", dl[f].type)
  BY DlBecomes DEF DownloadRecords, bytes, Recorded, scanner, drops
<1>2. holder' \in [File -> {"free", "download", "evict"}]
  BY DEF DownloadRecords, bytes, Recorded, scanner, drops, Types
<1>3. fs' \subseteq File
  BY DEF DownloadRecords, bytes, Recorded, scanner, drops, Types
<1>4. hazard' \subseteq Races
  BY RacesNamed DEF DownloadRecords, bytes, Recorded, scanner, drops, Types
<1>5. DownloadRecordsDoes(f)
  BY <1>1, <1>2, <1>3, <1>4 DEF DownloadRecords, bytes, Recorded, scanner, drops,
    DownloadRecordsDoes
<1>6. Types'
  BY <1>1, <1>2, <1>3, <1>4 DEF DownloadRecords, bytes, Recorded, scanner, drops, Types, Paired,
    DlIs
<1>7. QED
  BY <1>5, <1>6

\* What a download that fails or is cancelled does.
LEMMA DownloadStopsStep ==
  ASSUME Types, NEW f \in File, DownloadStops(f), UNCHANGED <<scanner, drops>>
  PROVE  Types' /\ DownloadStopsDoes(f)
PROOF
<1>1. DlIs(f, "none", dl[f].type)
  BY DlBecomes DEF DownloadStops, tables, scanner, drops
<1>2. dl[f].type \in Type
  BY DEF Types, DownloadRow
<1>3. [disk EXCEPT ![f][dl[f].type] = "none"] \in [File -> [Type -> Bytes]]
  BY <1>2, DiskCleared
<1>4. disk' = disk \/ disk' = [disk EXCEPT ![f][dl[f].type] = "none"]
  BY DEF DownloadStops, tables, scanner, drops
<1>5. disk' \in [File -> [Type -> Bytes]]
  BY <1>3, <1>4 DEF Types
<1>6. holder' \in [File -> {"free", "download", "evict"}]
  BY DEF DownloadStops, tables, scanner, drops, Types
<1>7. holder' = IF dl[f].pc = "write" THEN [holder EXCEPT ![f] = "free"] ELSE holder
  BY DEF DownloadStops, tables, scanner, drops, Types
<1>8. DownloadStopsDoes(f)
  BY <1>1, <1>2, <1>3, <1>4, <1>5, <1>6, <1>7 DEF DownloadStops, tables, scanner, drops,
    DownloadStopsDoes
<1>9. Types'
  BY <1>1, <1>2, <1>3, <1>4, <1>5, <1>6, <1>7 DEF DownloadStops, tables, scanner, drops, Types,
    Paired, DlIs
<1>10. QED
  BY <1>8, <1>9

\* What a move to the trash does.
LEMMA TrashStep ==
  ASSUME Types, NEW f \in File, Trash(f), UNCHANGED <<scanner, drops>>
  PROVE  Types' /\ EditDoes(f)
PROOF
<1>1. acts' \in 0 .. MaxActs
  BY Acts DEF Trash, EditFile, Act, bytes, passes, scanner, drops
<1>2. FileIs(f, "trashed", file[f].type, file[f].hash, file[f].current)
  BY DEF Trash, EditFile, Act, bytes, passes, scanner, drops, Types, FileIs, FileRow, FileState
<1>3. file[f].current \in BOOLEAN
  BY DEF Types, FileRow
<1>4. EditDoes(f)
  BY <1>2, <1>3 DEF Trash, EditFile, Act, bytes, passes, scanner, drops, EditDoes, Exists
<1>5. Types'
  BY <1>1, <1>2, <1>3 DEF Trash, EditFile, Act, bytes, passes, scanner, drops, Types, Paired,
    FileIs
<1>6. QED
  BY <1>4, <1>5

\* What a restore does.
LEMMA RestoreStep ==
  ASSUME Types, NEW f \in File, Restore(f), UNCHANGED <<scanner, drops>>
  PROVE  Types' /\ EditDoes(f)
PROOF
<1>1. acts' \in 0 .. MaxActs
  BY Acts DEF Restore, EditFile, Act, bytes, passes, scanner, drops
<1>2. FileIs(f, "live", file[f].type, file[f].hash, file[f].current)
  BY DEF Restore, EditFile, Act, bytes, passes, scanner, drops, Types, FileIs, FileRow,
    FileState
<1>3. file[f].current \in BOOLEAN
  BY DEF Types, FileRow
<1>4. EditDoes(f)
  BY <1>2, <1>3 DEF Restore, EditFile, Act, bytes, passes, scanner, drops, EditDoes, Exists
<1>5. Types'
  BY <1>1, <1>2, <1>3 DEF Restore, EditFile, Act, bytes, passes, scanner, drops, Types, Paired,
    FileIs
<1>6. QED
  BY <1>4, <1>5

\* What a newer version does.
LEMMA SupersedeStep ==
  ASSUME Types, NEW f \in File, Supersede(f), UNCHANGED <<scanner, drops>>
  PROVE  Types' /\ EditDoes(f)
PROOF
<1>1. acts' \in 0 .. MaxActs
  BY Acts DEF Supersede, EditFile, Act, bytes, passes, scanner, drops
<1>2. FileIs(f, "live", file[f].type, file[f].hash, ~file[f].current)
  BY DEF Supersede, EditFile, Act, bytes, passes, scanner, drops, Types, FileIs, FileRow,
    FileState
<1>3. (~file[f].current) \in BOOLEAN
  OBVIOUS
<1>4. EditDoes(f)
  BY <1>2, <1>3 DEF Supersede, EditFile, Act, bytes, passes, scanner, drops, EditDoes, Exists
<1>5. Types'
  BY <1>1, <1>2, <1>3 DEF Supersede, EditFile, Act, bytes, passes, scanner, drops, Types,
    Paired, FileIs
<1>6. QED
  BY <1>4, <1>5

\* What a deletion does.
LEMMA TombstoneStep ==
  ASSUME Types, NEW f \in File, Tombstone(f), UNCHANGED <<scanner, drops>>
  PROVE  Types' /\ TombstoneDoes(f)
PROOF
<1>1. acts' \in 0 .. MaxActs
  BY Acts DEF Tombstone, Act, bytes, scanner, drops
<1>2. FileIs(f, "deleted", file[f].type, file[f].hash, file[f].current)
  BY DEF Tombstone, Act, bytes, scanner, drops, Types, FileIs, FileRow, FileState
<1>3. owed' \subseteq File \X Type \X (Type \union {"none"})
  BY DEF Tombstone, Act, bytes, scanner, drops, Types, FileRow
<1>4. TombstoneDoes(f)
  BY <1>1, <1>2, <1>3 DEF Tombstone, Act, bytes, scanner, drops, TombstoneDoes
<1>5. Types'
  BY <1>1, <1>2, <1>3 DEF Tombstone, Act, bytes, scanner, drops, Types, Paired, FileIs
<1>6. QED
  BY <1>4, <1>5

\* What an upload does.
LEMMA UploadStep ==
  ASSUME Types, NEW f \in File, Upload(f), UNCHANGED <<scanner, drops>>
  PROVE  Types' /\ UploadDoes(f)
PROOF
<1>1. obj' \in [File -> SUBSET Indexer]
  BY DEF Upload, bytes, passes, scanner, drops, Types
<1>2. sent' \in [File -> Bytes]
  BY DEF Upload, bytes, passes, scanner, drops, Types, Slot, FileRow
<1>3. UploadDoes(f)
  BY <1>1, <1>2 DEF Upload, bytes, passes, scanner, drops, UploadDoes
<1>4. Types'
  BY <1>1, <1>2 DEF Upload, bytes, passes, scanner, drops, Types, Paired
<1>5. QED
  BY <1>3, <1>4

\* What a change of type does.
LEMMA RetypeStep ==
  ASSUME Types, NEW f \in File, NEW y \in Type, Retype(f, y), UNCHANGED <<scanner, drops>>
  PROVE  Types' /\ RetypeDoes(f, y)
PROOF
<1>1. acts' \in 0 .. MaxActs
  BY Acts DEF Retype, Act, Recorded, bytes, scanner, drops
<1>2. FileIs(f, "live", y, file[f].hash, file[f].current)
  BY DEF Retype, Act, Recorded, bytes, scanner, drops, Types, FileIs, FileRow, FileState
<1>3. owed' \subseteq File \X Type \X (Type \union {"none"})
  BY DEF Retype, Act, Recorded, bytes, scanner, drops, Types, FileRow
<1>4. hazard' \subseteq Races
  BY DEF Retype, Act, Recorded, bytes, scanner, drops, Types, Races
<1>5. RetypeDoes(f, y)
  BY <1>1, <1>2, <1>3, <1>4 DEF Retype, Act, Recorded, bytes, scanner, drops, RetypeDoes
<1>6. Types'
  BY <1>1, <1>2, <1>3, <1>4 DEF Retype, Act, Recorded, bytes, scanner, drops, Types, Paired,
    FileIs
<1>7. QED
  BY <1>5, <1>6

\* What the removal owed to a deletion does.
LEMMA removeTombstonedStep ==
  ASSUME Types, NEW f \in File, NEW y \in Type, removeTombstoned(f, y), UNCHANGED <<scanner,
    drops>>
  PROVE  Types' /\ removeTombstonedDoes(f, y)
PROOF
<1>1. disk' \in [File -> [Type -> Bytes]]
  BY DiskCleared DEF removeTombstoned, removeNow, scanner, drops
<1>2. owed' \subseteq File \X Type \X (Type \union {"none"})
  BY DEF removeTombstoned, removeNow, scanner, drops, Types
<1>3. fs' \subseteq File
  BY DEF removeTombstoned, removeNow, scanner, drops, Types
<1>4. removeTombstonedDoes(f, y)
  BY <1>1, <1>2, <1>3 DEF removeTombstoned, removeNow, scanner, drops, removeTombstonedDoes
<1>5. Types'
  BY <1>1, <1>2, <1>3 DEF removeTombstoned, removeNow, scanner, drops, Types, Paired
<1>6. QED
  BY <1>4, <1>5

\* What the move owed to a change of type does.
LEMMA retypeFileStep ==
  ASSUME Types, NEW f \in File, NEW y \in Type, NEW z \in Type \union {"none"}, retypeFile(f, y,
    z), UNCHANGED <<scanner, drops>>
  PROVE  Types' /\ retypeFileDoes(f, y, z)
PROOF
<1>1. z \in Type /\ <<f, y, z>> \in owed
  BY DEF retypeFile, Types
<1>2. owed' \subseteq File \X Type \X (Type \union {"none"})
  BY DEF retypeFile, Types
<1>3. UNCHANGED <<imp, fs, obj, indexer, temp, holder, dl, scan, evict, sent, mobile, acts>>
  BY DEF retypeFile
<1>4. UNCHANGED <<staged, src, job, tick, reclaimAll, folder, drop>>
  BY DEF scanner, drops
<1>5. owed' = owed \ {<<f, y, z>>} /\ z # "none"
  BY DEF retypeFile
<1>6. CASE disk[f][y] # "none"
  <2>1. /\ disk' = [disk EXCEPT ![f][z] = disk[f][y], ![f][y] = "none"] /\ file' = file
        /\ hazard' = hazard \union (IF f \in fs THEN Recorded(disk[f][y]) ELSE {})
    BY <1>6 DEF retypeFile
  <2>2. disk' \in [File -> [Type -> Bytes]]
    BY <1>1, <2>1, DiskMoved
  <2>3. hazard' \subseteq Races
    BY <2>1, RacesNamed DEF Types
  <2>4. retypeFileDoes(f, y, z)
    BY <1>1, <1>3, <1>4, <1>5, <1>6, <2>1 DEF retypeFileDoes
  <2>5. QED
    BY <1>2, <1>3, <1>4, <2>1, <2>2, <2>3, <2>4 DEF Types, Paired
<1>7. CASE disk[f][y] = "none" /\ disk[f][z] # "none"
  <2>1. disk' = disk /\ file' = file /\ hazard' = hazard
    BY <1>7 DEF retypeFile
  <2>2. retypeFileDoes(f, y, z)
    BY <1>1, <1>3, <1>4, <1>5, <2>1 DEF retypeFileDoes
  <2>3. QED
    BY <1>2, <1>3, <1>4, <2>1, <2>2 DEF Types, Paired
<1>8. CASE disk[f][y] = "none" /\ disk[f][z] = "none"
  <2>1. disk' = disk /\ file' = [file EXCEPT ![f].type = y] /\ hazard' = hazard
    BY <1>8 DEF retypeFile
  <2>2. FileIs(f, file[f].state, y, file[f].hash, file[f].current)
    BY <2>1, FileRetypes
  <2>3. retypeFileDoes(f, y, z)
    BY <1>1, <1>3, <1>4, <1>5, <1>8, <2>1, <2>2 DEF retypeFileDoes
  <2>4. file' \in [File -> FileRow]
    BY <2>2 DEF FileIs
  <2>5. QED
    BY <1>2, <1>3, <1>4, <2>1, <2>3, <2>4 DEF Types, Paired
<1>9. QED
  BY <1>6, <1>7, <1>8

\* What a switch of indexer does.
LEMMA SwitchIndexerStep ==
  ASSUME Types, SwitchIndexer, UNCHANGED <<scanner, drops>>
  PROVE  Types' /\ SwitchIndexerDoes
PROOF
<1>1. acts' \in 0 .. MaxActs
  BY Acts DEF SwitchIndexer, Act, bytes, passes, scanner, drops
<1>2. indexer' \in Indexer
  BY DEF SwitchIndexer, Act, bytes, passes, scanner, drops
<1>3. hazard' \subseteq Races
  BY DEF SwitchIndexer, Act, bytes, passes, scanner, drops, Types, Races
<1>4. SwitchIndexerDoes
  BY <1>1, <1>2, <1>3 DEF SwitchIndexer, Act, bytes, passes, scanner, drops, SwitchIndexerDoes
<1>5. Types'
  BY <1>1, <1>2, <1>3 DEF SwitchIndexer, Act, bytes, passes, scanner, drops, Types, Paired
<1>6. QED
  BY <1>4, <1>5

\* What the scanner's listing does.
LEMMA ScanListStep ==
  ASSUME Types, ScanList(Busy), UNCHANGED <<scanner, drops>>
  PROVE  Types' /\ ScanListDoes
PROOF
<1>1. acts' \in 0 .. MaxActs
  BY Acts DEF ScanList, NoScan, Act, tables, bytes, Busy, scanner, drops
<1>2. PICK list \in SUBSET (File \X Type) : list = {e \in File \X Type : disk[e[1]][e[2]] #
  "none"}
  OBVIOUS
<1>3. PICK temps \in SUBSET temp : temps = {e \in temp : e[2] \notin Busy}
  OBVIOUS
<1>4. scan' = [pc |-> "judge", list |-> list, present |-> list, temps |-> temps, orphans |-> {},
  live |-> {}]
  BY <1>2, <1>3 DEF ScanList, NoScan
<1>5. temps \in SUBSET (File \X Token \X Bytes)
  BY <1>3 DEF Types
<1>6. ScanIs("judge", list, list, temps, {}, {})
  BY <1>4, <1>5, ScanBecomes
<1>7. \A f \in File, y \in Type : <<f, y>> \in list <=> disk[f][y] # "none"
  BY <1>2
<1>8. scan' \in ScanState
  BY <1>6 DEF ScanIs
<1>9. ScanListDoes
  BY <1>6, <1>7 DEF ScanList, NoScan, Act, tables, bytes, Busy, scanner, drops, ScanListDoes
<1>10. Types'
  BY <1>1, <1>8 DEF ScanList, NoScan, Act, tables, bytes, Busy, scanner, drops, Types, Paired
<1>11. QED
  BY <1>9, <1>10

\* What the scanner's look at the records does.
LEMMA ScanJudgeStep ==
  ASSUME Types, ScanJudge, UNCHANGED <<scanner, drops>>
  PROVE  Types' /\ ScanJudgeDoes
PROOF
<1>1. scan \in ScanState
  BY DEF Types
<1>2. PICK orphans \in SUBSET File : orphans = queryOrphanedFileIds({e[1] : e \in scan.list})
  BY <1>1 DEF ScanState, queryOrphanedFileIds
<1>3. PICK live \in SUBSET (File \X Type) : live = {<<f, file[f].type>> : f \in {g \in {e[1] : e
  \in scan.list} : Exists(g)}}
  <2>1. PICK ids \in SUBSET File : ids = {g \in {e[1] : e \in scan.list} : Exists(g)}
    BY <1>1 DEF ScanState
  <2>2. \A f \in ids : <<f, file[f].type>> \in File \X Type
    BY DEF Types, FileRow
  <2>3. {<<f, file[f].type>> : f \in ids} \in SUBSET (File \X Type)
    BY <2>2
  <2>4. QED
    BY <2>1, <2>3
<1>4. PICK temps \in SUBSET scan.temps : temps = {e \in scan.temps : ~InFlight(e[1])}
  OBVIOUS
<1>5. scan' = [scan EXCEPT !.pc = "entries", !.orphans = orphans, !.live = live, !.temps =
  temps]
  BY <1>2, <1>3, <1>4 DEF ScanJudge
<1>6. temps \in SUBSET (File \X Token \X Bytes)
  BY <1>1, <1>4 DEF ScanState
<1>7. ScanIs("entries", scan.list, scan.present, temps, orphans, live)
  BY <1>1, <1>5, <1>6 DEF ScanIs, ScanState
<1>8. \A f \in orphans : ~InFlight(f)
  BY <1>2 DEF queryOrphanedFileIds
<1>9. \A f \in File, y \in Type : <<f, y>> \in live => Exists(f) /\ y = file[f].type
  BY <1>3
<1>10. \A e \in temps : ~InFlight(e[1])
  BY <1>4
<1>11. scan' \in ScanState
  BY <1>7 DEF ScanIs
<1>12. ScanJudgeDoes
  BY <1>7, <1>8, <1>9, <1>10 DEF ScanJudge, queryOrphanedFileIds, tables, bytes, scanner, drops,
    ScanJudgeDoes
<1>13. Types'
  BY <1>11 DEF ScanJudge, queryOrphanedFileIds, tables, bytes, scanner, drops, Types, Paired
<1>14. QED
  BY <1>12, <1>13

\* What the scanner's removal of a temp does.
LEMMA RemoveTempStep ==
  ASSUME Types, NEW e \in scan.temps, scan.pc = "entries", RemoveTemp(e), UNCHANGED <<scanner,
    drops>>
  PROVE  Types' /\ RemoveTempDoes
PROOF
<1>1. scan \in ScanState
  BY DEF Types
<1>2. PICK temps \in SUBSET (File \X Token \X Bytes) : temps = scan.temps \ {e}
  BY <1>1 DEF ScanState
<1>3. scan' = [scan EXCEPT !.temps = temps]
  BY <1>2 DEF RemoveTemp
<1>4. ScanIs("entries", scan.list, scan.present, temps, scan.orphans, scan.live)
  BY <1>1, <1>3 DEF ScanIs, ScanState
<1>5. scan' \in ScanState
  BY <1>4 DEF ScanIs
<1>6. temp' \subseteq File \X Token \X Bytes
  BY DEF RemoveTemp, tables, scanner, drops, Types
<1>7. RemoveTempDoes
  BY <1>2, <1>4 DEF RemoveTemp, tables, scanner, drops, RemoveTempDoes
<1>8. Types'
  BY <1>5, <1>6 DEF RemoveTemp, tables, scanner, drops, Types, Paired
<1>9. QED
  BY <1>7, <1>8

\* What the scanner's visit of an entry does.
LEMMA ScanEntryStep ==
  ASSUME Types, NEW f \in File, NEW y \in Type, ScanEntry(f, y), UNCHANGED <<scanner, drops>>
  PROVE  Types' /\ ScanEntryDoes(f, y)
PROOF
<1>1. scan \in ScanState /\ <<f, y>> \in scan.list /\ scan.pc = "entries"
  BY ZenonT(60) DEF ScanEntry, Types
<1>2. PICK rest \in SUBSET (File \X Type) : rest = scan.list \ {<<f, y>>}
  BY <1>1 DEF ScanState
<1>3. PICK live \in SUBSET Type : live = {l[2] : l \in {l \in scan.live : l[1] = f}}
  <2>1. \A l \in scan.live : l[2] \in Type
    BY <1>1 DEF ScanState
  <2>2. {l[2] : l \in {l \in scan.live : l[1] = f}} \in SUBSET Type
    BY <2>1
  <2>3. QED
    BY <2>2
<1>4. \A z \in Type : z \in live <=> <<f, z>> \in scan.live
  BY <1>1, <1>3 DEF ScanState
<1>5. ASSUME NEW present \in SUBSET (File \X Type),
             scan' = [scan EXCEPT !.list = rest, !.present = present]
      PROVE  ScansOn(f, y, present) /\ scan' \in ScanState
  BY <1>1, <1>2, <1>5 DEF ScansOn, ScanIs, ScanState
<1>6. ASSUME scan' = [scan EXCEPT !.list = rest]
      PROVE  ScansOn(f, y, scan.present) /\ scan' \in ScanState
  BY <1>1, <1>2, <1>6 DEF ScansOn, ScanIs, ScanState
<1>7. PICK less \in SUBSET (File \X Type) : less = scan.present \ {<<f, y>>}
  BY <1>1 DEF ScanState
<1>8. UNCHANGED <<imp, file, obj, indexer, temp, holder, dl, owed, evict, sent, mobile, acts>>
  BY ZenonT(60) DEF ScanEntry
<1>9. UNCHANGED <<staged, src, job, tick, reclaimAll, folder, drop>>
  BY DEF scanner, drops
<1>10. ASSUME scan' \in ScanState, disk' \in [File -> [Type -> Bytes]], fs' \subseteq File,
              hazard' \subseteq Races
       PROVE  Types'
  BY <1>8, <1>9, <1>10 DEF Types, Paired
<1>11. CASE live = {} /\ f \notin scan.orphans /\ scan' = [scan EXCEPT !.list = rest]
            /\ UNCHANGED <<disk, fs, hazard>>
  BY <1>1, <1>6, <1>8, <1>9, <1>10, <1>11 DEF ScanEntryDoes, Types
<1>12. CASE /\ live = {} /\ f \in scan.orphans /\ scan' = [scan EXCEPT !.list = rest]
            /\ removeNow(f, y) /\ hazard' = hazard \union Misjudged(f)
  <2>1. ScansOn(f, y, scan.present) /\ scan' \in ScanState
    BY <1>6, <1>12
  <2>2. disk' \in [File -> [Type -> Bytes]] /\ fs' \subseteq File
    BY <1>12, DiskCleared DEF removeNow, Types
  <2>3. hazard' \subseteq Races
    BY <1>12, RacesNamed DEF Types
  <2>4. ScanEntryDoes(f, y)
    BY <1>1, <1>4, <1>8, <1>9, <1>12, <2>1 DEF ScanEntryDoes
  <2>5. QED
    BY <1>10, <2>1, <2>2, <2>3, <2>4
<1>13. CASE /\ y \in live /\ scan' = [scan EXCEPT !.list = rest] /\ UNCHANGED disk
            /\ IF f \in scan.orphans THEN getFsFileUri(f, y) ELSE UNCHANGED <<fs, hazard>>
  <2>1. ScansOn(f, y, scan.present) /\ scan' \in ScanState
    BY <1>6, <1>13
  <2>2. disk' \in [File -> [Type -> Bytes]] /\ fs' \subseteq File
    BY <1>13 DEF getFsFileUri, Types
  <2>3. hazard' \subseteq Races
    BY <1>13, RacesNamed DEF getFsFileUri, Types
  <2>4. ScanEntryDoes(f, y)
    BY <1>1, <1>4, <1>8, <1>9, <1>13, <2>1 DEF ScanEntryDoes
  <2>5. QED
    BY <1>10, <2>1, <2>2, <2>3, <2>4
<1>14. ASSUME NEW z \in live \ {y}, <<f, z>> \in scan.present,
              scan' = [scan EXCEPT !.list = rest, !.present = less],
              disk' = [disk EXCEPT ![f][y] = "none"], UNCHANGED <<fs, hazard>>
       PROVE  Types' /\ ScanEntryDoes(f, y)
  <2>1. ScansOn(f, y, less) /\ scan' \in ScanState
    BY <1>5, <1>14, ZenonT(60)
  <2>2. disk' \in [File -> [Type -> Bytes]]
    BY <1>14, DiskCleared
  <2>3. z \in Type \ {y} /\ <<f, z>> \in scan.live
    BY <1>4, <1>14
  <2>4. ScanEntryDoes(f, y)
    BY <1>1, <1>7, <1>8, <1>9, <1>14, <2>1, <2>3 DEF ScanEntryDoes
  <2>5. fs' \subseteq File /\ hazard' \subseteq Races
    BY <1>14 DEF Types
  <2>6. QED
    BY <1>10, <2>1, <2>2, <2>4, <2>5
<1>15. ASSUME NEW z \in live \ {y}, <<f, z>> \notin scan.present,
              disk[f][y] = "none", disk[f][z] = "none",
              scan' = [scan EXCEPT !.list = rest], UNCHANGED <<disk, fs, hazard>>
       PROVE  Types' /\ ScanEntryDoes(f, y)
  BY <1>1, <1>6, <1>8, <1>9, <1>10, <1>15 DEF ScanEntryDoes, Types
<1>16. ASSUME NEW z \in live \ {y}, <<f, z>> \notin scan.present,
              ~(disk[f][y] = "none" /\ disk[f][z] = "none"),
              scan' = [scan EXCEPT !.list = rest, !.present = scan.present \union {<<f, z>>}],
              disk' = IF disk[f][y] = "none" THEN disk
                      ELSE [disk EXCEPT ![f][z] = disk[f][y], ![f][y] = "none"],
              fs' = fs \union {f}, hazard' = hazard \union Recorded(disk'[f][file[f].type])
       PROVE  Types' /\ ScanEntryDoes(f, y)
  <2>1. z \in Type \ {y} /\ <<f, z>> \in scan.live
    BY <1>4, <1>16
  <2>2. PICK more \in SUBSET (File \X Type) : more = scan.present \union {<<f, z>>}
    BY <1>1, <2>1 DEF ScanState
  <2>3. ScansOn(f, y, more) /\ scan' \in ScanState
    BY <1>5, <1>16, <2>2, ZenonT(60)
  <2>4. disk' \in [File -> [Type -> Bytes]]
    BY <1>16, <2>1, DiskMoved DEF Types
  <2>5. fs' \subseteq File
    BY <1>16 DEF Types
  <2>6. hazard' \subseteq Races
    BY <1>16, RacesNamed DEF Types
  <2>7. ScanEntryDoes(f, y)
    BY <1>1, <1>8, <1>9, <1>16, <2>1, <2>2, <2>3 DEF ScanEntryDoes
  <2>8. QED
    BY <1>10, <2>3, <2>4, <2>5, <2>6, <2>7
<1>17. QED
  BY <1>2, <1>3, <1>7, <1>11, <1>12, <1>13, <1>14, <1>15, <1>16, ZenonT(60) DEF ScanEntry

\* What the scanner's last rows does.
LEMMA ScanEndStep ==
  ASSUME Types, ScanEnd, UNCHANGED <<scanner, drops>>
  PROVE  Types' /\ ScanEndDoes
PROOF
<1>1. ScanIs("idle", {}, {}, {}, {}, {})
  BY ScanBecomes DEF ScanEnd, NoScan
<1>2. PICK dropped \in SUBSET File : dropped = scan.orphans \ {l[1] : l \in scan.live}
  BY DEF Types, ScanState
<1>3. fs' = fs \ dropped /\ hazard' = hazard \union UNION {Misjudged(f) : f \in dropped}
  BY <1>2 DEF ScanEnd
<1>4. hazard' \subseteq Races
  BY <1>3, RacesNamed DEF Types
<1>5. fs' \subseteq File
  BY <1>3 DEF Types
<1>6. scan' \in ScanState
  BY <1>1 DEF ScanIs
<1>7. \A f \in fs \ fs' : f \in scan.orphans
  BY <1>2, <1>3
<1>8. fs' \subseteq fs /\ hazard \subseteq hazard'
  BY <1>3
<1>9. ScanEndDoes
  BY <1>1, <1>7, <1>8 DEF ScanEnd, NoScan, Misjudged, bytes, scanner, drops, ScanEndDoes
<1>10. Types'
  BY <1>4, <1>5, <1>6 DEF ScanEnd, NoScan, Misjudged, bytes, scanner, drops, Types, Paired
<1>11. QED
  BY <1>9, <1>10

\* What eviction's read of its candidates does.
LEMMA EvictReadStep ==
  ASSUME Types, NEW any \in BOOLEAN, EvictRead(any), UNCHANGED <<scanner, drops>>
  PROVE  Types' /\ EvictReadDoes
PROOF
<1>1. acts' \in 0 .. MaxActs
  BY Acts DEF EvictRead, Evictable, NoEvict, Act, tables, bytes, scanner, drops
<1>2. PICK rows \in SUBSET (File \X Type) : rows = {<<f, file[f].type>> : f \in Evictable(any)}
  <2>1. \A f \in Evictable(any) : <<f, file[f].type>> \in File \X Type
    BY DEF Types, Evictable, FileRow
  <2>2. {<<f, file[f].type>> : f \in Evictable(any)} \in SUBSET (File \X Type)
    BY <2>1
  <2>3. QED
    BY <2>2
<1>3. evict' = [pc |-> "rows", rows |-> rows, any |-> any, on |-> <<>>]
  BY <1>2 DEF EvictRead, NoEvict
<1>4. EvictIs("rows", rows, any, <<>>)
  BY <1>3, EvictBecomes
<1>5. \A f \in File, y \in Type : <<f, y>> \in rows => Exists(f) /\ y = file[f].type /\ (any =>
  obj[f] # {})
  BY <1>2 DEF Evictable
<1>6. EvictReadDoes
  BY <1>4, <1>5 DEF EvictRead, Evictable, NoEvict, Act, tables, bytes, scanner, drops,
    EvictReadDoes
<1>7. Types'
  BY <1>1, <1>4 DEF EvictRead, tables, bytes, scanner, drops, Types, Paired, EvictIs
<1>8. QED
  BY <1>6, <1>7

\* What eviction's look at the indexers of a candidate does.
LEMMA EvictCountStep ==
  ASSUME Types, NEW f \in File, NEW y \in Type, EvictCount(<<f, y>>), UNCHANGED <<scanner,
    drops>>
  PROVE  Types' /\ EvictCountDoes(f, y)
PROOF
<1>1. evict \in EvictState
  BY DEF Types
<1>2. PICK rows \in SUBSET (File \X Type) : rows = evict.rows \ {<<f, y>>}
  BY <1>1 DEF EvictState
<1>3. PICK on \in {<<>>} \union File \X Type : on = IF evict.any \/ indexer \in obj[f] THEN <<f,
  y>> ELSE <<>>
  OBVIOUS
<1>4. PICK pc \in {"try", "rows"} : pc = IF evict.any \/ indexer \in obj[f] THEN "try" ELSE
  "rows"
  OBVIOUS
<1>5. evict' = [evict EXCEPT !.rows = rows, !.on = on, !.pc = pc]
  BY <1>2, <1>3, <1>4 DEF EvictCount
<1>6. EvictIs(pc, rows, evict.any, on)
  BY <1>1, <1>5 DEF EvictIs, EvictState
<1>7. pc = "try" => on # <<>>
  BY <1>3, <1>4
<1>8. EvictCountDoes(f, y)
  BY <1>2, <1>3, <1>4, <1>6 DEF EvictCount, tables, bytes, scanner, drops, EvictCountDoes
<1>9. Types'
  BY <1>4, <1>6, <1>7 DEF EvictCount, tables, bytes, scanner, drops, Types, Paired, EvictIs
<1>10. QED
  BY <1>8, <1>9

\* What eviction's try for the lock does.
LEMMA EvictTryStep ==
  ASSUME Types, NEW f \in File, NEW y \in Type, evict.on = <<f, y>>, EvictTry, UNCHANGED
    <<scanner, drops>>
  PROVE  Types' /\ EvictTryDoes(f, y)
PROOF
<1>1. evict \in EvictState
  BY DEF Types
<1>2. evict' = [evict EXCEPT !.pc = "rows", !.on = <<>>] => EvictIs("rows", evict.rows,
  evict.any, <<>>)
  BY <1>1 DEF EvictIs, EvictState
<1>3. evict' = [evict EXCEPT !.pc = "row"] => EvictIs("row", evict.rows, evict.any, <<f, y>>)
  BY <1>1 DEF EvictIs, EvictState
<1>4. EvictIs("rows", evict.rows, evict.any, <<>>) \/ EvictIs("row", evict.rows, evict.any, <<f,
  y>>)
  BY <1>2, <1>3 DEF EvictTry
<1>5. disk' = disk \/ disk' = [disk EXCEPT ![f][y] = "none"]
  BY DEF EvictTry
<1>6. disk' \in [File -> [Type -> Bytes]]
  <2>1. [disk EXCEPT ![f][y] = "none"] \in [File -> [Type -> Bytes]]
    BY DiskCleared
  <2>2. disk \in [File -> [Type -> Bytes]]
    BY DEF Types
  <2>3. QED
    BY <1>5, <2>1, <2>2
<1>7. holder' \in [File -> {"free", "download", "evict"}]
  BY DEF EvictTry, Types
<1>8. EvictTryDoes(f, y)
  BY <1>2, <1>3 DEF EvictTry, tables, scanner, drops, EvictTryDoes
<1>9. Types'
  BY <1>4, <1>6, <1>7 DEF EvictTry, tables, scanner, drops, Types, Paired, EvictIs
<1>10. QED
  BY <1>8, <1>9

\* What eviction's removal of the fs row does.
LEMMA EvictRowStep ==
  ASSUME Types, NEW f \in File, NEW y \in Type, evict.on = <<f, y>>, EvictRow, UNCHANGED
    <<scanner, drops>>
  PROVE  Types' /\ EvictRowDoes(f, y)
PROOF
<1>1. evict \in EvictState
  BY DEF Types
<1>2. evict' = [evict EXCEPT !.pc = "rows", !.on = <<>>]
  BY DEF EvictRow
<1>3. EvictIs("rows", evict.rows, evict.any, <<>>)
  BY <1>1, <1>2 DEF EvictIs, EvictState
<1>4. holder' \in [File -> {"free", "download", "evict"}]
  BY DEF EvictRow, Types
<1>5. fs' \subseteq File
  BY DEF EvictRow, Types
<1>6. EvictRowDoes(f, y)
  BY <1>1, <1>2, <1>3, <1>4, <1>5 DEF EvictRow, bytes, scanner, drops, EvictRowDoes
<1>7. Types'
  BY <1>3, <1>4, <1>5 DEF EvictRow, bytes, scanner, drops, Types, Paired, EvictIs
<1>8. QED
  BY <1>6, <1>7

\* What the end of an eviction does.
LEMMA EvictEndStep ==
  ASSUME Types, EvictEnd, UNCHANGED <<scanner, drops>>
  PROVE  Types' /\ EvictEndDoes
PROOF
<1>1. EvictIs("idle", {}, FALSE, <<>>)
  BY EvictBecomes DEF EvictEnd, NoEvict
<1>2. EvictEndDoes
  BY <1>1 DEF EvictEnd, NoEvict, tables, bytes, scanner, drops, EvictEndDoes
<1>3. Types'
  BY <1>1 DEF EvictEnd, NoEvict, tables, bytes, scanner, drops, Types, Paired, EvictIs
<1>4. QED
  BY <1>2, <1>3

\* What the beginning of a tick does.
LEMMA TickBeginStep ==
  ASSUME Types, TickBegin
  PROVE  Types' /\ TickBeginDoes
PROOF
<1>1. PICK stale \in SUBSET {f \in File : imp[f].state = "active"} :
        /\ imp' = [f \in File |-> IF f \in stale THEN [imp[f] EXCEPT !.state = "pending", !.token = 0]
                                  ELSE imp[f]]
        /\ tick' = [NoTick EXCEPT !.on = TRUE,
                      !.cand = stale \union {f \in File : imp[f].state = "pending"}]
  BY ZenonT(60) DEF TickBegin, resetStaleImportFiles
<1>2. \A f \in File :
        /\ imp[f] \in ImportRow
        /\ [imp[f] EXCEPT !.state = "pending", !.token = 0] \in ImportRow
        /\ [imp[f] EXCEPT !.state = "pending", !.token = 0].state = "pending"
        /\ [imp[f] EXCEPT !.state = "pending", !.token = 0].token = 0
        /\ [imp[f] EXCEPT !.state = "pending", !.token = 0].dead = imp[f].dead
        /\ [imp[f] EXCEPT !.state = "pending", !.token = 0].type = imp[f].type
        /\ [imp[f] EXCEPT !.state = "pending", !.token = 0].hash = imp[f].hash
  BY DEF Types, Paired, ImportRow, ImportState
<1>3. imp' \in [File -> ImportRow]
  BY <1>1, <1>2, ZenonT(60)
<1>4. \A f \in File : \/ imp'[f] = imp[f]
                      \/ imp[f].state = "active" /\ RowIs(f, "pending", 0, imp[f].dead)
  BY <1>1, <1>2, ZenonT(60) DEF RowIs
<1>5. Paired'
  BY <1>4 DEF Types, RowIs, Paired
<1>6. PICK cand \in SUBSET File : cand = stale \union {f \in File : imp[f].state = "pending"}
  BY <1>1, ZenonT(60)
<1>7. tick' = [on |-> TRUE, aborted |-> FALSE, cand |-> cand]
  BY <1>1, <1>6, ZenonT(60) DEF NoTick
<1>8. tick' \in TickState /\ tick'.on
  BY <1>7 DEF TickState
<1>9. TickBeginDoes
  BY <1>4, <1>8 DEF TickBegin, bytes, passes, drops, TickBeginDoes
<1>10. Types'
  BY <1>3, <1>5, <1>8 DEF TickBegin, bytes, passes, drops, Types
<1>11. QED
  BY <1>9, <1>10

\* What the end of a tick does.
LEMMA TickEndStep ==
  ASSUME Types, TickEnd
  PROVE  Types' /\ TickDoes
PROOF
<1>1. tick' \in TickState
  BY DEF TickEnd, NoTick, TickState
<1>2. reclaimAll' \in BOOLEAN
  BY DEF TickEnd, Types, TickState
<1>3. TickDoes
  BY <1>1, <1>2 DEF TickEnd, NoTick, copies, tables, bytes, passes, drops, scanner, TickDoes
<1>4. Types'
  BY <1>1, <1>2 DEF TickEnd, copies, tables, bytes, passes, drops, Types, Paired
<1>5. QED
  BY <1>3, <1>4

\* What a candidate skipped does.
LEMMA SkipStep ==
  ASSUME Types, NEW f \in File, Skip(f)
  PROVE  Types' /\ TickDoes
PROOF
<1>1. PICK cand \in SUBSET File : cand = tick.cand \ {f}
  BY DEF Types, TickState
<1>2. tick' = [tick EXCEPT !.cand = cand]
  BY <1>1 DEF Skip
<1>3. tick' \in TickState /\ tick'.on = tick.on
  BY <1>2 DEF Types, TickState
<1>4. TickDoes
  BY <1>1, <1>2, <1>3 DEF Skip, copies, tables, bytes, passes, drops, scanner, TickDoes
<1>5. Types'
  BY <1>3 DEF Skip, copies, tables, bytes, passes, drops, Types, Paired
<1>6. QED
  BY <1>4, <1>5

\* What a claim does.
LEMMA ClaimStep ==
  ASSUME Types, NEW f \in File, NEW t \in Token, Claim(f, t)
  PROVE  Types' /\ ClaimDoes(f, t)
PROOF
<1>1. imp[f] \in ImportRow /\ imp[f].state = "pending" /\ imp[f].type \in Type
  BY DEF Claim, Types, ImportRow
<1>2. PICK q : q = [imp[f] EXCEPT !.state = "active", !.token = t]
  OBVIOUS
<1>3. /\ q \in ImportRow /\ q.state = "active" /\ q.token = t /\ q.dead = imp[f].dead
      /\ q.type = imp[f].type /\ q.hash = imp[f].hash
  BY <1>1, <1>2 DEF ImportRow, ImportState
<1>4. imp' = [imp EXCEPT ![f] = q]
  BY <1>2 DEF Claim, Types
<1>5. ImpIs(f, "active", t, imp[f].dead)
  BY <1>3, <1>4 DEF Types, ImpIs, RowIs, Paired
<1>6. t # 0
  BY DEF Token
<1>7. Paired'
  BY <1>5, <1>6 DEF Types, ImpIs, RowIs, Paired
<1>8. PICK r : r = [f |-> f, type |-> imp[f].type, got |-> "none", live |-> TRUE, pc |-> "start"]
  OBVIOUS
<1>9. r \in JobRow /\ r.f = f /\ r.type = imp[f].type /\ r.got = "none" /\ r.live /\ r.pc = "start"
  BY <1>1, <1>8 DEF JobRow, JobPc, Bytes
<1>10. job' = [job EXCEPT ![t] = r]
  BY <1>8 DEF Claim
<1>11. /\ job' \in [Token -> JobRow] /\ job'[t].f = f /\ job'[t].type = imp[f].type
       /\ job'[t].pc = "start" /\ job'[t].live /\ job'[t].got = "none"
       /\ \A u \in Token \ {t} : job'[u] = job[u]
  BY <1>9, <1>10 DEF Types
<1>12. PICK cand \in SUBSET File : cand = tick.cand \ {f}
  BY DEF Types, TickState
<1>13. tick' = [tick EXCEPT !.cand = cand]
  BY <1>12 DEF Claim
<1>14. tick' \in TickState /\ tick'.on = tick.on
  BY <1>13 DEF Types, TickState
<1>15. hazard' \subseteq Races
  BY DEF Claim, Types, Races
<1>16. job[t].pc = "free" /\ tick.on
  BY DEF Claim, Fresh
<1>17. ClaimDoes(f, t)
  BY <1>1, <1>5, <1>11, <1>14, <1>16 DEF Claim, bytes, passes, drops, ClaimDoes
<1>18. Types'
  BY <1>5, <1>7, <1>11, <1>14, <1>15 DEF Claim, bytes, passes, drops, Types, ImpIs
<1>19. QED
  BY <1>17, <1>18

\* What the first step of a job does.
LEMMA JobStartStep ==
  ASSUME Types, NEW t \in Token, JobStart(t)
  PROVE  Types' /\ JobStartDoes(t)
PROOF
<1>1. job[t] \in JobRow /\ job[t].f \in File /\ job[t].type \in Type /\ job[t].pc = "start"
  BY DEF Types, JobRow, JobStart
<1>2. /\ UNCHANGED <<staged, file, obj, indexer, sent, mobile, acts, tick, reclaimAll, folder, drop>>
      /\ UNCHANGED <<holder, dl, owed, scan, evict, imp, fs, temp, src, hazard>>
  BY DEF JobStart, kept, passes, drops
<1>3. ASSUME NEW pc \in JobPc, Goto(t, pc)
      PROVE  JobIs(t, pc, job[t].got, job[t].live)
  BY <1>3, Goes
<1>4. ASSUME disk' \in [File -> [Type -> Bytes]], job' \in [Token -> JobRow]
      PROVE  Types'
  BY <1>2, <1>4 DEF Types, Paired
<1>5. CASE Ends(t) /\ UNCHANGED disk
  <2>1. JobIs(t, "over", "none", FALSE)
    BY <1>5, EndsIt
  <2>2. JobStartDoes(t)
    BY <1>1, <1>2, <1>5, <2>1 DEF JobStartDoes
  <2>3. QED
    BY <1>4, <1>5, <2>1, <2>2 DEF JobIs, Types
<1>6. CASE /\ job[t].f \notin fs \/ {z \in Type : disk[job[t].f][z] # "none"} = {}
           /\ Goto(t, "resolve") /\ UNCHANGED disk
  <2>1. JobIs(t, "resolve", job[t].got, job[t].live)
    BY <1>3, <1>6 DEF JobPc
  <2>2. job[t].f \notin fs \/ \A y \in Type : disk[job[t].f][y] = "none"
    BY <1>6
  <2>3. JobStartDoes(t)
    BY <1>1, <1>2, <1>6, <2>1, <2>2 DEF JobStartDoes
  <2>4. QED
    BY <1>4, <1>6, <2>1, <2>3 DEF JobIs, Types
<1>7. CASE /\ job[t].f \in fs /\ Goto(t, "hash")
           /\ \/ UNCHANGED disk
              \/ \E z \in Type :
                   /\ disk[job[t].f][z] # "none" /\ disk[job[t].f][job[t].type] = "none"
                   /\ disk' = [disk EXCEPT ![job[t].f][job[t].type] = disk[job[t].f][z],
                                           ![job[t].f][z] = "none"]
  <2>1. JobIs(t, "hash", job[t].got, job[t].live)
    BY <1>3, <1>7 DEF JobPc
  <2>2. disk' \in [File -> [Type -> Bytes]]
    <3>1. \A z \in Type : [disk EXCEPT ![job[t].f][job[t].type] = disk[job[t].f][z],
                                     ![job[t].f][z] = "none"] \in [File -> [Type -> Bytes]]
      BY <1>1, DiskMoved
    <3>2. disk \in [File -> [Type -> Bytes]]
      BY DEF Types
    <3>3. CASE UNCHANGED disk
      BY <3>2, <3>3
    <3>4. CASE \E z \in Type : disk' = [disk EXCEPT ![job[t].f][job[t].type] = disk[job[t].f][z],
                                                  ![job[t].f][z] = "none"]
      BY <3>1, <3>4
    <3>5. QED
      BY <1>7, <3>3, <3>4
  <2>3. JobStartDoes(t)
    BY <1>1, <1>2, <1>7, <2>1 DEF JobStartDoes
  <2>4. QED
    BY <1>4, <2>1, <2>2, <2>3 DEF JobIs
<1>8. QED
  BY <1>5, <1>6, <1>7 DEF JobStart

\* What a job's look for its source does.
LEMMA ResolveStep ==
  ASSUME Types, NEW t \in Token, Resolve(t)
  PROVE  Types' /\ ResolveDoes(t)
PROOF
<1>1. job[t].f \in File /\ tick.aborted \in BOOLEAN
  BY DEF Types, JobRow, TickState
<1>2. /\ UNCHANGED <<staged, file, obj, indexer, sent, mobile, acts, tick, reclaimAll, folder, drop>>
      /\ UNCHANGED <<holder, dl, owed, scan, evict, fs, disk, temp, src, hazard>>
  BY DEF Resolve, kept, passes, drops, bytes
<1>3. CASE src[job[t].f] = "none"
  <2>1. JobIs(t, "over", "none", FALSE)
    BY <1>3, EndsIt DEF Resolve
  <2>2. Settles(t, "unavailable", TRUE)
    BY <1>3, SettlesUnder DEF Resolve, ImportState
  <2>3. imp' \in [File -> ImportRow] /\ Paired'
    BY <2>2, SettlesPair
  <2>4. ResolveDoes(t)
    BY <1>2, <1>3, <2>1, <2>2 DEF Resolve, ResolveDoes
  <2>5. QED
    BY <1>2, <2>1, <2>3, <2>4 DEF JobIs, Types
<1>4. CASE src[job[t].f] # "none"
  <2>1. JobIs(t, "copy", job[t].got, ~tick.aborted)
    BY <1>1, <1>4, GoesOn DEF Resolve, JobPc
  <2>2. ResolveDoes(t)
    BY <1>1, <1>2, <1>4, <2>1 DEF Resolve, ResolveDoes
  <2>3. QED
    BY <1>2, <1>4, <2>1, <2>2 DEF Resolve, JobIs, Types, Paired
<1>5. QED
  BY <1>3, <1>4

\* What a copy does.
LEMMA CopyStep ==
  ASSUME Types, NEW t \in Token, Copy(t)
  PROVE  Types' /\ CopyDoes(t)
PROOF
<1>1. job[t].f \in File /\ job[t].type \in Type /\ src[job[t].f] \in Bytes
  BY DEF Types, JobRow, Bytes
<1>2. UNCHANGED <<staged, file, obj, indexer, sent, mobile, acts, tick, reclaimAll, folder, drop, holder, dl, owed,
                  scan, evict, imp, fs>>
  BY DEF Copy, kept, passes, drops
<1>3. src' \in [File -> Content \union {"none"}]
  BY <1>1 DEF Copy, Types
<1>4. ASSUME disk' \in [File -> [Type -> Bytes]], job' \in [Token -> JobRow],
             temp' \subseteq File \X Token \X Bytes, hazard' \subseteq Races
      PROVE  Types'
  BY <1>2, <1>3, <1>4 DEF Types, Paired
<1>5. CASE /\ temp' = temp \union {<<job[t].f, t, src[job[t].f]>>}
           /\ job' = [job EXCEPT ![t].pc = "temp",
                                 ![t].got = IF job[t].f \in staged THEN "none" ELSE src[job[t].f]]
           /\ UNCHANGED <<disk, hazard>>
  <2>1. PICK got \in Bytes : got = IF job[t].f \in staged THEN "none" ELSE src[job[t].f]
    BY <1>1 DEF Bytes
  <2>2. JobIs(t, "temp", got, job[t].live)
    BY <1>5, <2>1, GoesWith DEF JobPc
  <2>3. CopyDoes(t)
    BY <1>2, <1>5, <2>1, <2>2 DEF Copy, CopyDoes
  <2>4. temp' \subseteq File \X Token \X Bytes
    BY <1>1, <1>5 DEF Types
  <2>5. QED
    BY <1>4, <1>5, <2>2, <2>3, <2>4 DEF JobIs, Types
<1>6. CASE /\ ~mobile /\ disk' = [disk EXCEPT ![job[t].f][job[t].type] = src[job[t].f]]
           /\ Goto(t, "placed") /\ hazard' = hazard \union Late(t) /\ UNCHANGED temp
  <2>1. JobIs(t, "placed", job[t].got, job[t].live)
    BY <1>6, Goes DEF JobPc
  <2>2. CopyDoes(t)
    BY <1>2, <1>6, <2>1 DEF Copy, CopyDoes
  <2>3. disk' \in [File -> [Type -> Bytes]]
    BY <1>1, <1>6, DiskSet
  <2>4. hazard' \subseteq Races
    BY <1>6, RacesNamed DEF Types
  <2>5. QED
    BY <1>4, <1>6, <2>1, <2>2, <2>3, <2>4 DEF JobIs, Types
<1>7. QED
  BY <1>5, <1>6 DEF Copy

\* What a copy cancelled does.
LEMMA CancelCopyStep ==
  ASSUME Types, NEW t \in Token, CancelCopy(t)
  PROVE  Types' /\ CancelCopyDoes(t)
PROOF
<1>1. JobIs(t, "over", "none", FALSE)
  BY EndsIt DEF CancelCopy
<1>2. CancelCopyDoes(t)
  BY <1>1 DEF CancelCopy, Ends, Over, bytes, kept, passes, drops, scanner, CancelCopyDoes
<1>3. Types'
  BY <1>1 DEF CancelCopy, Ends, Over, bytes, kept, passes, drops, scanner, Types, Paired, JobIs
<1>4. QED
  BY <1>2, <1>3

\* What a temp renamed to its place does.
LEMMA PublishStep ==
  ASSUME Types, NEW t \in Token, Publish(t)
  PROVE  Types' /\ PublishDoes(t)
PROOF
<1>1. JobIs(t, "placed", job[t].got, job[t].live)
  BY Goes DEF Publish, JobPc
<1>2. job[t].f \in File /\ job[t].type \in Type
  BY DEF Types, JobRow
<1>3. disk' \in [File -> [Type -> Bytes]]
  BY <1>2, DiskSet DEF Publish
<1>4. temp' \subseteq File \X Token \X Bytes
  BY DEF Publish, Types
<1>5. hazard' \subseteq Races
  BY RacesNamed DEF Publish, Types
<1>6. PublishDoes(t)
  BY <1>1, <1>2, <1>3, <1>4, <1>5 DEF Publish, Goto, Late, kept, passes, drops, scanner,
    PublishDoes
<1>7. Types'
  BY <1>1, <1>2, <1>3, <1>4, <1>5 DEF Publish, Goto, Late, kept, passes, drops, scanner, Types,
    Paired, JobIs
<1>8. QED
  BY <1>6, <1>7

\* What the fs row of a copy does.
LEMMA RecordStep ==
  ASSUME Types, NEW t \in Token, Record(t)
  PROVE  Types' /\ RecordDoes(t)
PROOF
<1>1. job[t].f \in File
  BY DEF Types, JobRow
<1>2. /\ UNCHANGED <<staged, file, obj, indexer, sent, mobile, acts, tick, reclaimAll, folder, drop>>
      /\ UNCHANGED <<holder, dl, owed, scan, evict, imp, disk, temp, src>>
  BY DEF Record, kept, passes, drops, bytes
<1>3. fs' \subseteq File /\ hazard' \subseteq Races
  BY <1>1, RacesNamed DEF Record, Types
<1>4. \/ ~job[t].live /\ JobIs(t, "over", "none", FALSE)
      \/ job[t].live /\ job[t].got # "none" /\ JobIs(t, "hashed", job[t].got, job[t].live)
      \/ job[t].live /\ JobIs(t, "hash", job[t].got, job[t].live)
  <2>1. CASE ~job[t].live
    BY <2>1, EndsIt DEF Record
  <2>2. CASE job[t].live /\ job[t].got # "none"
    BY <2>2, Goes DEF Record, JobPc
  <2>3. CASE job[t].live /\ job[t].got = "none"
    BY <2>3, Goes DEF Record, JobPc
  <2>4. QED
    BY <2>1, <2>2, <2>3
<1>5. job[t].live => job[t].live = TRUE
  BY DEF Types, JobRow
<1>6. RecordDoes(t)
  BY <1>2, <1>4, <1>5 DEF Record, RecordDoes
<1>7. job' \in [Token -> JobRow]
  BY <1>4 DEF JobIs
<1>8. Types'
  BY <1>2, <1>3, <1>7 DEF Types, Paired
<1>9. QED
  BY <1>6, <1>8

\* What a copy recorded by nobody does.
LEMMA RecordCutStep ==
  ASSUME Types, NEW t \in Token, RecordCut(t)
  PROVE  Types' /\ RecordCutDoes(t)
PROOF
<1>1. JobIs(t, "over", "none", FALSE)
  BY EndsIt DEF RecordCut
<1>2. hazard' \subseteq Races
  BY DEF RecordCut, Types, Races
<1>3. RecordCutDoes(t)
  BY <1>1, <1>2 DEF RecordCut, Ends, Over, bytes, kept, passes, drops, scanner, RecordCutDoes
<1>4. Types'
  BY <1>1, <1>2 DEF RecordCut, Ends, Over, bytes, kept, passes, drops, scanner, Types, Paired,
    JobIs
<1>5. QED
  BY <1>3, <1>4

\* What a hash does.
LEMMA HashStep ==
  ASSUME Types, NEW t \in Token, Hash(t)
  PROVE  Types' /\ HashDoes(t)
PROOF
<1>1. job[t].f \in File /\ job[t].type \in Type
  BY DEF Types, JobRow
<1>2. disk[job[t].f][job[t].type] \in Bytes
  BY <1>1 DEF Types
<1>3. JobIs(t, "hashed", disk[job[t].f][job[t].type], job[t].live)
  BY <1>2, GoesWith DEF Hash, JobPc
<1>4. HashDoes(t)
  BY <1>1, <1>2, <1>3 DEF Hash, bytes, kept, passes, drops, scanner, HashDoes
<1>5. Types'
  BY <1>1, <1>2, <1>3 DEF Hash, bytes, kept, passes, drops, scanner, Types, Paired, JobIs
<1>6. QED
  BY <1>4, <1>5

\* What an empty source refused does.
LEMMA RefuseEmptyStep ==
  ASSUME Types, NEW t \in Token, RefuseEmpty(t)
  PROVE  Types' /\ RefuseEmptyDoes(t)
PROOF
<1>1. JobIs(t, "over", "none", FALSE)
  BY EndsIt DEF RefuseEmpty
<1>2. Settles(t, "failed", TRUE)
  BY SettlesUnder DEF RefuseEmpty, ImportState
<1>3. imp' \in [File -> ImportRow] /\ Paired'
  BY <1>2, SettlesPair
<1>4. job[t].f \in File /\ job[t].type \in Type
  BY DEF Types, JobRow
<1>5. disk' \in [File -> [Type -> Bytes]]
  BY <1>4, DiskCleared DEF RefuseEmpty, removeNow
<1>6. fs' \subseteq File
  BY DEF RefuseEmpty, removeNow, Types
<1>7. RefuseEmptyDoes(t)
  BY <1>1, <1>2 DEF RefuseEmpty, RefuseEmptyDoes, kept, passes, drops
<1>8. Types'
  BY <1>1, <1>3, <1>5, <1>6 DEF RefuseEmpty, kept, passes, drops, Types, JobIs
<1>9. QED
  BY <1>7, <1>8

\* What a move to the type found does.
LEMMA RenameStep ==
  ASSUME Types, NEW t \in Token, Rename(t)
  PROVE  Types' /\ RenameDoes(t)
PROOF
<1>1. JobIs(t, "moved", job[t].got, job[t].live)
  BY Goes DEF Rename, JobPc
<1>2. job[t].f \in File /\ job[t].type \in Type /\ Classify[job[t].f] \in Type
  BY ImportsAssumption DEF Types, JobRow
<1>3. disk' \in [File -> [Type -> Bytes]]
  BY <1>2, DiskMoved DEF Rename, Types
<1>4. RenameDoes(t)
  BY <1>1, <1>2, <1>3 DEF Rename, Goto, kept, passes, drops, scanner, RenameDoes
<1>5. Types'
  BY <1>1, <1>2, <1>3 DEF Rename, Goto, kept, passes, drops, scanner, Types, Paired, JobIs
<1>6. QED
  BY <1>4, <1>5

\* What the hash written to the row does.
LEMMA RecordHashStep ==
  ASSUME Types, NEW t \in Token, RecordHash(t)
  PROVE  Types' /\ RecordHashDoes(t)
PROOF
<1>1. JobIs(t, "final", job[t].got, job[t].live)
  BY Goes DEF RecordHash, JobPc
<1>2. job[t].f \in File /\ job[t].got \in Bytes /\ Classify[job[t].f] \in Type /\ imp[job[t].f] \in ImportRow
  BY ImportsAssumption DEF Types, JobRow
<1>3. PICK q : q = [imp[job[t].f] EXCEPT !.hash = job[t].got, !.type = Classify[job[t].f]]
  OBVIOUS
<1>4. /\ q \in ImportRow /\ q.state = imp[job[t].f].state /\ q.token = imp[job[t].f].token
      /\ q.dead = imp[job[t].f].dead /\ q.type = Classify[job[t].f] /\ q.hash = job[t].got
  BY <1>2, <1>3 DEF ImportRow
<1>5. Owns(t) => imp' = [imp EXCEPT ![job[t].f] = q]
  BY <1>3 DEF RecordHash, Under
<1>6. ~Owns(t) => imp' = imp
  BY DEF RecordHash, Under
<1>7. imp' \in [File -> ImportRow]
  BY <1>2, <1>4, <1>5, <1>6 DEF Types
<1>8. Owns(t) => imp'[job[t].f] = q /\ \A f \in File \ {job[t].f} : imp'[f] = imp[f]
  BY <1>2, <1>5 DEF Types
<1>9. Paired'
  BY <1>2, <1>4, <1>6, <1>8 DEF Types, Paired
<1>10. RecordHashDoes(t)
  BY <1>1, <1>4, <1>6, <1>7, <1>8 DEF RecordHash, RecordHashDoes, kept, passes, drops, bytes, Owns
<1>11. Types'
  BY <1>1, <1>7, <1>9 DEF RecordHash, kept, passes, drops, bytes, Types, JobIs
<1>12. QED
  BY <1>10, <1>11

\* What a finalize does.
LEMMA FinalizeStep ==
  ASSUME Types, NEW t \in Token, Finalize(t)
  PROVE  Types' /\ FinalizeDoes(t)
PROOF
<1>1. job[t].f \in File /\ imp[job[t].f] \in ImportRow /\ job[t].pc = "final"
  BY DEF Types, JobRow, Finalize
<1>2. /\ UNCHANGED <<staged, obj, indexer, sent, mobile, acts, tick, reclaimAll, folder, drop>>
      /\ UNCHANGED <<holder, dl, owed, scan, evict, fs, disk, temp, src, hazard>>
  BY DEF Finalize, passes, drops, bytes
<1>3. ASSUME imp' \in [File -> ImportRow], file' \in [File -> FileRow], job' \in [Token -> JobRow],
             Paired'
      PROVE  Types'
  BY <1>2, <1>3 DEF Types
<1>4. CASE ~Owns(t) /\ Ends(t) /\ UNCHANGED <<imp, file>>
  <2>1. JobIs(t, "over", "none", FALSE)
    BY <1>4, EndsIt
  <2>2. FinalizeDoes(t)
    BY <1>1, <1>2, <1>4, <2>1 DEF FinalizeDoes
  <2>3. QED
    BY <1>3, <1>4, <2>1, <2>2 DEF JobIs, Types, Paired
<1>5. CASE /\ Owns(t) /\ imp' = [imp EXCEPT ![job[t].f] = Settled(imp[job[t].f], "duplicate", FALSE)]
           /\ Goto(t, "dup") /\ UNCHANGED file
  <2>1. JobIs(t, "dup", job[t].got, job[t].live)
    BY <1>5, Goes DEF JobPc
  <2>2. ImpIs(job[t].f, "duplicate", 0, FALSE)
    BY <1>1, <1>5, SettlesRow DEF ImportState
  <2>3. FinalizeDoes(t)
    BY <1>1, <1>2, <1>5, <2>1, <2>2 DEF FinalizeDoes
  <2>4. QED
    BY <1>1, <1>3, <1>5, <2>1, <2>2, <2>3, ClaimsPair DEF JobIs, Types
<1>6. CASE /\ Owns(t)
           /\ file' = [file EXCEPT ![job[t].f] = [state |-> "live", type |-> imp[job[t].f].type,
                                                 hash |-> imp[job[t].f].hash, current |-> TRUE]]
           /\ imp' = [imp EXCEPT ![job[t].f] = Settled(imp[job[t].f], "added", FALSE)]
           /\ Ends(t)
  <2>1. JobIs(t, "over", "none", FALSE)
    BY <1>6, EndsIt
  <2>2. ImpIs(job[t].f, "added", 0, FALSE)
    BY <1>1, <1>6, SettlesRow DEF ImportState
  <2>3. imp[job[t].f].type \in Type /\ imp[job[t].f].hash \in Bytes /\ "live" \in FileState
    BY <1>1 DEF ImportRow, FileState
  <2>4. FileIs(job[t].f, "live", imp[job[t].f].type, imp[job[t].f].hash, TRUE)
    BY <1>1, <1>6, <2>3, FileBecomes
  <2>5. FinalizeDoes(t)
    BY <1>1, <1>2, <1>6, <2>1, <2>2, <2>4 DEF FinalizeDoes
  <2>6. QED
    BY <1>1, <1>3, <2>1, <2>2, <2>4, <2>5, ClaimsPair DEF JobIs, FileIs
<1>7. QED
  BY <1>4, <1>5, <1>6 DEF Finalize

\* What the removal of a duplicate's bytes does.
LEMMA CleanDuplicateStep ==
  ASSUME Types, NEW t \in Token, CleanDuplicate(t)
  PROVE  Types' /\ CleanDuplicateDoes(t)
PROOF
<1>1. JobIs(t, "over", "none", FALSE)
  BY EndsIt DEF CleanDuplicate
<1>2. job[t].f \in File /\ Classify[job[t].f] \in Type
  BY ImportsAssumption DEF Types, JobRow
<1>3. disk' \in [File -> [Type -> Bytes]]
  BY <1>2, DiskCleared DEF CleanDuplicate, removeNow
<1>4. fs' \subseteq File
  BY DEF CleanDuplicate, removeNow, Types
<1>5. CleanDuplicateDoes(t)
  BY <1>1 DEF CleanDuplicate, CleanDuplicateDoes, kept, passes, drops
<1>6. Types'
  BY <1>1, <1>3, <1>4 DEF CleanDuplicate, kept, passes, drops, Types, Paired, JobIs
<1>7. QED
  BY <1>5, <1>6

\* What a job that fails does.
LEMMA JobFailsStep ==
  ASSUME Types, NEW t \in Token, JobFails(t)
  PROVE  Types' /\ JobFailsDoes(t)
PROOF
<1>1. JobIs(t, "over", "none", FALSE)
  BY EndsIt DEF JobFails
<1>2. PICK exhausted \in {"failed", "unavailable"} : Under(t, Counted(imp[job[t].f], exhausted))
  BY DEF JobFails
<1>3. PICK s \in {"pending", "failed", "unavailable"} : Settles(t, s, FALSE)
  BY <1>2, CountsUnder
<1>4. imp' \in [File -> ImportRow] /\ Paired'
  BY <1>3, SettlesPair
<1>5. JobFailsDoes(t)
  BY <1>1, <1>3 DEF JobFails, JobFailsDoes, kept, passes, drops, bytes
<1>6. Types'
  BY <1>1, <1>4 DEF JobFails, kept, passes, drops, bytes, Types, JobIs
<1>7. QED
  BY <1>5, <1>6

\* What a copy that finds no source does.
LEMMA CopyFindsNothingStep ==
  ASSUME Types, NEW t \in Token, CopyFindsNothing(t)
  PROVE  Types' /\ CopyFindsNothingDoes(t)
PROOF
<1>1. JobIs(t, "over", "none", FALSE)
  BY EndsIt DEF CopyFindsNothing
<1>2. imp' = imp \/ (job[t].live /\ Settles(t, "unavailable", TRUE))
  BY SettlesUnder DEF CopyFindsNothing, ImportState
<1>3. imp' \in [File -> ImportRow] /\ Paired'
  BY <1>2, SettlesPair DEF Types, Paired
<1>4. CopyFindsNothingDoes(t)
  BY <1>1, <1>2 DEF CopyFindsNothing, CopyFindsNothingDoes, kept, passes, drops, bytes
<1>5. Types'
  BY <1>1, <1>3 DEF CopyFindsNothing, kept, passes, drops, bytes, Types, JobIs
<1>6. QED
  BY <1>4, <1>5

\* What the user's cancel does.
LEMMA CancelStep ==
  ASSUME Types, NEW f \in File, Cancel(f)
  PROVE  Types' /\ GiveUpDoes(f)
PROOF
<1>1. acts' \in 0 .. MaxActs
  BY Acts DEF Cancel, EditRow
<1>2. ImpIs(f, "cancelled", 0, FALSE)
  BY SettlesRow DEF Cancel, EditRow, ImportState
<1>3. imp' \in [File -> ImportRow] /\ Paired'
  BY <1>2, ClaimsPair
<1>4. imp[f].state # "none"
  BY DEF Cancel, InFlight
<1>5. GiveUpDoes(f)
  BY <1>2, <1>4 DEF Cancel, EditRow, Act, Settled, bytes, passes, drops, scanner, GiveUpDoes
<1>6. Types'
  BY <1>1, <1>3 DEF Cancel, EditRow, bytes, passes, drops, Types
<1>7. QED
  BY <1>5, <1>6

\* What the deletion of an import does.
LEMMA DeleteImportStep ==
  ASSUME Types, NEW f \in File, DeleteImport(f)
  PROVE  Types' /\ GiveUpDoes(f)
PROOF
<1>1. acts' \in 0 .. MaxActs
  BY Acts DEF DeleteImport, EditRow
<1>2. ImpIs(f, "none", 0, FALSE)
  BY SettlesRow DEF DeleteImport, EditRow, ImportState
<1>3. imp' \in [File -> ImportRow] /\ Paired'
  BY <1>2, ClaimsPair
<1>4. src' \in [File -> Content \union {"none"}]
  BY DEF DeleteImport, Types
<1>5. \A g \in File \ {f} : src'[g] = src[g]
  BY DEF DeleteImport, Types
<1>6. GiveUpDoes(f)
  BY <1>2, <1>5 DEF DeleteImport, EditRow, bytes, passes, drops, GiveUpDoes
<1>7. Types'
  BY <1>1, <1>3, <1>4 DEF DeleteImport, EditRow, bytes, passes, drops, Types
<1>8. QED
  BY <1>6, <1>7

\* What a retry of settled imports does.
LEMMA rependTerminalImportFilesStep ==
  ASSUME Types, NEW f \in File, rependTerminalImportFiles(f)
  PROVE  Types' /\ RependDoes(f)
PROOF
<1>1. acts' \in 0 .. MaxActs
  BY Acts DEF rependTerminalImportFiles
<1>2. imp[f] \in ImportRow
  BY DEF Types
<1>3. PICK q : q = [imp[f] EXCEPT !.state = "pending", !.tries = 0]
  OBVIOUS
<1>4. /\ q \in ImportRow /\ q.state = "pending" /\ q.token = imp[f].token /\ q.dead = imp[f].dead
      /\ q.type = imp[f].type /\ q.hash = imp[f].hash
  BY <1>2, <1>3 DEF ImportRow, ImportState
<1>5. imp' = [imp EXCEPT ![f] = q]
  BY <1>3 DEF rependTerminalImportFiles, Types
<1>6. ImpIs(f, "pending", imp[f].token, imp[f].dead)
  BY <1>4, <1>5 DEF Types, ImpIs, RowIs, Paired
<1>7. Paired'
  BY <1>6 DEF Types, ImpIs, RowIs, rependTerminalImportFiles, Paired
<1>8. hazard' \subseteq Races
  BY DEF rependTerminalImportFiles, Types, Races
<1>9. RependDoes(f)
  BY <1>6 DEF rependTerminalImportFiles, RependDoes, bytes, passes, scanner, drops
<1>10. Types'
  BY <1>1, <1>6, <1>7, <1>8 DEF rependTerminalImportFiles, bytes, passes, scanner, drops, Types, ImpIs
<1>11. QED
  BY <1>9, <1>10

\* What an edit of a source does.
LEMMA EditSourceStep ==
  ASSUME Types, NEW f \in File, EditSource(f)
  PROVE  Types' /\ EditSourceDoes(f)
PROOF
<1>1. acts' \in 0 .. MaxActs
  BY Acts DEF EditSource
<1>2. src' \in [File -> Content \union {"none"}]
  BY DEF EditSource, Types
<1>3. \A g \in File \ {f} : src'[g] = src[g]
  BY DEF EditSource, Types
<1>4. EditSourceDoes(f)
  BY <1>3 DEF EditSource, EditSourceDoes, tables, bytes, passes, drops
<1>5. Types'
  BY <1>1, <1>2 DEF EditSource, Types, Paired, tables, bytes, passes, drops
<1>6. QED
  BY <1>4, <1>5

\* What an abort of the tick does.
LEMMA AbortStep ==
  ASSUME Types, Abort
  PROVE  Types' /\ AbortDoes
PROOF
<1>1. acts' \in 0 .. MaxActs
  BY Acts DEF Abort
<1>2. tick' \in TickState /\ tick'.on = tick.on
  BY DEF Abort, Types, TickState
<1>3. \A t \in Token :
        LET over == Over(job[t])
            left == [job[t] EXCEPT !.live = job[t].live /\ t \notin Copying]
        IN  /\ job[t] \in JobRow
            /\ over \in JobRow /\ over.f = job[t].f /\ over.type = job[t].type
            /\ over.pc = "over" /\ ~over.live
            /\ left \in JobRow /\ left.f = job[t].f /\ left.type = job[t].type
            /\ left.pc = job[t].pc /\ left.got = job[t].got
            /\ left.live <=> job[t].live /\ t \notin Copying
  BY ZenonT(60) DEF Types, Over, JobRow, JobPc, Bytes
<1>4. job' = [t \in Token |-> IF job[t].pc = "hash" THEN Over(job[t])
                              ELSE [job[t] EXCEPT !.live = job[t].live /\ t \notin Copying]]
  BY DEF Abort
<1>5. job' \in [Token -> JobRow]
  BY <1>3, <1>4
<1>6. \A t \in Token : /\ job'[t].f = job[t].f /\ job'[t].type = job[t].type
                       /\ \/ job[t].pc = "hash" /\ job'[t].pc = "over" /\ ~job'[t].live
                          \/ /\ job'[t].pc = job[t].pc /\ job'[t].got = job[t].got
                             /\ job'[t].live <=> job[t].live /\ t \notin Copying
  BY <1>3, <1>4
<1>7. AbortDoes
  BY <1>2, <1>6 DEF Abort, AbortDoes, tables, bytes, passes, drops
<1>8. Types'
  BY <1>1, <1>2, <1>5 DEF Abort, Types, Paired, tables, bytes, passes, drops
<1>9. QED
  BY <1>7, <1>8

\* A job that is over, by its fields.
LEMMA OverRow ==
  ASSUME NEW r \in JobRow
  PROVE  /\ Over(r) \in JobRow /\ Over(r).f = r.f /\ Over(r).type = r.type
         /\ Over(r).pc = "over" /\ ~Over(r).live
BY DEF Over, JobRow, JobPc, Bytes

\* What the death of the process does.
LEMMA KillStep ==
  ASSUME Types, Kill
  PROVE  Types' /\ KillDoes
PROOF
<1>1. acts' \in 0 .. MaxActs
  BY Acts DEF Kill
<1>2. /\ UNCHANGED <<imp, file, fs, obj, indexer, temp, sent, mobile, staged, src, folder>>
      /\ reclaimAll' = TRUE /\ owed' = {} /\ tick' = NoTick /\ drop' = NoDrop
      /\ scan' = NoScan /\ evict' = NoEvict /\ holder' = [f \in File |-> "free"]
      /\ dl' = [f \in File |-> [dl[f] EXCEPT !.pc = "none"]]
      /\ job' = [t \in Token |-> IF job[t].pc = "free" THEN job[t] ELSE Over(job[t])]
  BY DEF Kill, tables
<1>3. tick' \in TickState /\ tick'.on = FALSE /\ drop' \in DropState /\ drop'.pc = "idle"
  BY <1>2 DEF NoTick, NoDrop, TickState, DropState
<1>4. ScanIs("idle", {}, {}, {}, {}, {})
  BY <1>2, ScanBecomes DEF NoScan
<1>5. EvictIs("idle", {}, FALSE, <<>>)
  BY <1>2, EvictBecomes DEF NoEvict
<1>6. /\ holder' \in [File -> {"free", "download", "evict"}] /\ dl' \in [File -> DownloadRow]
      /\ \A f \in File : holder'[f] = "free" /\ dl'[f].pc = "none"
  BY <1>2 DEF Types, DownloadRow
<1>7. \A t \in Token : /\ job[t] \in JobRow /\ Over(job[t]) \in JobRow
                       /\ Over(job[t]).f = job[t].f /\ Over(job[t]).type = job[t].type
                       /\ Over(job[t]).pc = "over" /\ ~Over(job[t]).live
  BY OverRow DEF Types
<1>8. job' \in [Token -> JobRow]
  BY <1>2, <1>7
<1>9. ASSUME NEW t \in Token
      PROVE  /\ job'[t].f = job[t].f /\ job'[t].type = job[t].type
             /\ job[t].pc = "free" => job'[t] = job[t]
             /\ job[t].pc # "free" => job'[t].pc = "over" /\ ~job'[t].live
  BY <1>2, <1>7
<1>10. PICK part \in SUBSET Token :
         /\ \A t \in part : job[t].pc = "copy"
         /\ disk' = [f \in File |-> [y \in Type |->
                       IF \E t \in part : job[t].f = f /\ job[t].type = y THEN "part" ELSE disk[f][y]]]
         /\ \A t \in part : Late(t) \subseteq hazard'
  <2>1. PICK cut \in SUBSET Token : cut = {t \in Token : job[t].pc = "copy" /\ ~mobile /\ job[t].f \notin staged}
    OBVIOUS
  <2>2. PICK part \in SUBSET cut :
          disk' = [f \in File |-> [y \in Type |->
                     IF \E t \in part : job[t].f = f /\ job[t].type = y THEN "part" ELSE disk[f][y]]]
    BY <2>1 DEF Kill
  <2>3. UNION {Late(t) : t \in cut} \subseteq hazard'
    BY <2>1 DEF Kill
  <2>4. \A t \in part : job[t].pc = "copy" /\ Late(t) \subseteq hazard'
    BY <2>1, <2>3
  <2>5. part \in SUBSET Token
    OBVIOUS
  <2>6. QED
    BY <2>2, <2>4, <2>5
<1>11. disk' \in [File -> [Type -> Bytes]]
  BY <1>10 DEF Types, Bytes
<1>12. \A f \in File, y \in Type :
         \/ disk'[f][y] = disk[f][y]
         \/ /\ disk'[f][y] = "part"
            /\ \E t \in Token : /\ job[t].pc = "copy" /\ job[t].f = f /\ job[t].type = y
                                /\ Late(t) \subseteq hazard'
  BY <1>10
<1>13. /\ hazard' \subseteq Races /\ hazard \subseteq hazard'
       /\ owed # {} \/ evict.pc = "row" => "leftHalfway" \in hazard'
       /\ (\E t \in Copying : job[t].f \in staged /\ job[t].pc # "copy") => "movedUnrecorded" \in hazard'
  BY RacesNamed DEF Kill, Types, Races
<1>14. \A f \in File, y \in Type : disk[f][y] # "none" => disk'[f][y] # "none"
  BY <1>12
<1>15. KillDoes
  BY <1>2, <1>3, <1>4, <1>5, <1>6, <1>9, <1>12, <1>13, <1>14 DEF KillDoes
<1>16. Types'
  BY <1>1, <1>2, <1>3, <1>4, <1>5, <1>6, <1>8, <1>11, <1>13 DEF Types, Paired, ScanIs, EvictIs
<1>17. QED
  BY <1>15, <1>16

\* What the read of the rows a folder takes with it does.
LEMMA DropReadStep ==
  ASSUME Types, DropRead
  PROVE  Types' /\ DropReadDoes
PROOF
<1>1. acts' \in 0 .. MaxActs
  BY Acts DEF DropRead
<1>2. PICK rows \in SUBSET (File \X Type) : rows = {<<f, imp[f].type>> : f \in {g \in File :
  InFlight(g)}}
  <2>1. \A f \in {g \in File : InFlight(g)} : <<f, imp[f].type>> \in File \X Type
    BY DEF Types, ImportRow
  <2>2. {<<f, imp[f].type>> : f \in {g \in File : InFlight(g)}} \in SUBSET (File \X Type)
    BY <2>1
  <2>3. QED
    BY <2>2
<1>3. drop' = [pc |-> "fail", rows |-> rows]
  BY <1>2 DEF DropRead
<1>4. drop' \in DropState /\ drop'.pc = "fail"
  BY <1>3 DEF DropState
<1>5. DropReadDoes
  BY <1>4 DEF DropRead, Act, tables, bytes, passes, scanner, drops, DropReadDoes
<1>6. Types'
  BY <1>1, <1>4 DEF DropRead, tables, bytes, passes, scanner, Types, Paired
<1>7. QED
  BY <1>5, <1>6

\* What the failing of a folder's imports does.
LEMMA failImportStep ==
  ASSUME Types, failImportFilesInDirectory
  PROVE  Types' /\ failImportDoes
PROOF
<1>1. drop \in DropState /\ drop.pc = "fail" /\ drop' = [drop EXCEPT !.pc = "bytes"]
  BY DEF failImportFilesInDirectory, Types
<1>2. drop' \in DropState /\ drop'.rows = drop.rows /\ drop'.pc = "bytes"
  BY <1>1 DEF DropState
<1>3. PICK ids \in SUBSET File : ids = {r[1] : r \in drop.rows}
  <2>1. \A r \in drop.rows : r[1] \in File
    BY <1>1 DEF DropState
  <2>2. {r[1] : r \in drop.rows} \in SUBSET File
    BY <2>1
  <2>3. QED
    BY <2>2
<1>4. /\ imp' = [f \in File |-> IF f \in ids /\ imp[f].state # "none"
                                THEN Settled(imp[f], "failed", TRUE) ELSE imp[f]]
      /\ hazard' = IF \E f \in ids : file[f].state # "none" THEN hazard \union {"failedAdded"} ELSE hazard
  BY <1>3 DEF failImportFilesInDirectory
<1>5. \A f \in File : /\ imp[f] \in ImportRow /\ Settled(imp[f], "failed", TRUE) \in ImportRow
                      /\ Settled(imp[f], "failed", TRUE).state = "failed"
                      /\ Settled(imp[f], "failed", TRUE).token = 0
                      /\ Settled(imp[f], "failed", TRUE).dead = TRUE
                      /\ Settled(imp[f], "failed", TRUE).type = imp[f].type
                      /\ Settled(imp[f], "failed", TRUE).hash = imp[f].hash
  BY DEF Types, Paired, ImportRow, ImportState, Settled
<1>6. imp' \in [File -> ImportRow]
  BY <1>4, <1>5
<1>7. \A f \in File : \/ imp'[f] = imp[f] /\ (imp[f].state = "none" \/ f \notin ids)
                      \/ f \in ids /\ RowIs(f, "failed", 0, TRUE) /\ imp[f].state # "none"
  BY <1>4, <1>5 DEF RowIs
<1>8. Paired'
  BY <1>7 DEF Types, RowIs, Paired
<1>9. \A f \in File : f \in ids <=> \E r \in drop.rows : r[1] = f
  BY <1>3
<1>10. hazard' \subseteq Races /\ hazard \subseteq hazard'
  BY <1>4 DEF Types, Races
<1>11. \A r \in drop.rows : file[r[1]].state # "none" => "failedAdded" \in hazard'
  BY <1>3, <1>4
<1>12. \A f \in File : \/ /\ imp'[f] = imp[f]
                          /\ imp[f].state = "none" \/ \A r \in drop.rows : r[1] # f
                       \/ RowIs(f, "failed", 0, TRUE) /\ imp[f].state # "none"
  BY <1>7, <1>9
<1>13. \A f \in File : (\A r \in drop.rows : r[1] # f) => imp'[f] = imp[f]
  BY <1>7, <1>9
<1>14. failImportDoes
  BY <1>2, <1>10, <1>11, <1>12, <1>13 DEF failImportDoes, failImportFilesInDirectory, bytes, passes, scanner
<1>15. Types'
  BY <1>2, <1>6, <1>8, <1>10 DEF failImportFilesInDirectory, bytes, passes, scanner, Types
<1>16. QED
  BY <1>14, <1>15

\* What the removal of their bytes does.
LEMMA DropBytesStep ==
  ASSUME Types, NEW f \in File, NEW y \in Type, DropBytes(<<f, y>>)
  PROVE  Types' /\ DropBytesDoes(f, y)
PROOF
<1>1. PICK rows \in SUBSET (File \X Type) : rows = drop.rows \ {<<f, y>>}
  BY DEF Types, DropState
<1>2. drop' = [drop EXCEPT !.rows = rows]
  BY <1>1 DEF DropBytes
<1>3. drop' \in DropState /\ drop'.rows = rows /\ drop'.pc = drop.pc
  BY <1>2 DEF Types, DropState
<1>4. removeNow(f, y)
  BY DEF DropBytes
<1>5. disk' \in [File -> [Type -> Bytes]]
  BY <1>4, DiskCleared DEF removeNow
<1>6. fs' \subseteq File
  BY <1>4 DEF removeNow, Types
<1>7. DropBytesDoes(f, y)
  BY <1>1, <1>3, <1>4 DEF DropBytes, passes, scanner, DropBytesDoes
<1>8. Types'
  BY <1>3, <1>5, <1>6 DEF DropBytes, passes, scanner, Types, Paired
<1>9. QED
  BY <1>7, <1>8

\* What the trashing of a folder's files does.
LEMMA deleteDirectoryStep ==
  ASSUME Types, deleteDirectoryAndTrashFiles
  PROVE  Types' /\ deleteDirectoryDoes
PROOF
<1>1. drop' \in DropState /\ drop'.pc = "idle"
  BY DEF deleteDirectoryAndTrashFiles, NoDrop, DropState
<1>2. \A f \in File : /\ file[f] \in FileRow /\ [file[f] EXCEPT !.state = "trashed"] \in FileRow
                      /\ [file[f] EXCEPT !.state = "trashed"].state = "trashed"
                      /\ [file[f] EXCEPT !.state = "trashed"].type = file[f].type
                      /\ [file[f] EXCEPT !.state = "trashed"].hash = file[f].hash
  BY DEF Types, FileRow, FileState
<1>3. file' = [f \in File |-> IF file[f].state = "live" THEN [file[f] EXCEPT !.state = "trashed"]
                              ELSE file[f]]
  BY DEF deleteDirectoryAndTrashFiles
<1>4. file' \in [File -> FileRow]
  BY <1>2, <1>3
<1>5. \A f \in File : /\ file'[f].type = file[f].type /\ file'[f].hash = file[f].hash
                      /\ file'[f].state = IF file[f].state = "live" THEN "trashed" ELSE file[f].state
  BY <1>2, <1>3
<1>6. deleteDirectoryDoes
  BY <1>1, <1>5 DEF deleteDirectoryAndTrashFiles, deleteDirectoryDoes, bytes, passes, scanner
<1>7. Types'
  BY <1>1, <1>4 DEF deleteDirectoryAndTrashFiles, bytes, passes, scanner, Types, Paired
<1>8. QED
  BY <1>6, <1>7

\* A step, by what it does.
Effect ==
  \/ \E f \in File :
       \/ GetFileUriDoes(f) \/ DownloadStartDoes(f) \/ DownloadOpensDoes(f) \/ DownloadArrivesDoes(f)
       \/ DownloadRecordsDoes(f) \/ DownloadStopsDoes(f) \/ EditDoes(f) \/ TombstoneDoes(f)
       \/ UploadDoes(f) \/ GiveUpDoes(f) \/ RependDoes(f) \/ EditSourceDoes(f)
  \/ \E f \in File, y \in Type :
       \/ RetypeDoes(f, y) \/ removeTombstonedDoes(f, y) \/ ScanEntryDoes(f, y) \/ EvictCountDoes(f, y)
       \/ EvictTryDoes(f, y) \/ EvictRowDoes(f, y) \/ DropBytesDoes(f, y)
  \/ \E f \in File, y \in Type, z \in Type \union {"none"} :
       \/ retypeFileDoes(f, y, z)
  \/ \E t \in Token :
       \/ JobStartDoes(t) \/ ResolveDoes(t) \/ CopyDoes(t) \/ CancelCopyDoes(t)
       \/ PublishDoes(t) \/ RecordDoes(t) \/ RecordCutDoes(t) \/ HashDoes(t)
       \/ RefuseEmptyDoes(t) \/ RenameDoes(t) \/ RecordHashDoes(t) \/ FinalizeDoes(t)
       \/ CleanDuplicateDoes(t) \/ JobFailsDoes(t) \/ CopyFindsNothingDoes(t)
  \/ \E f \in File, t \in Token :
       \/ ClaimDoes(f, t)
  \/ ScanJudgeDoes \/ RemoveTempDoes \/ ScanEndDoes \/ EvictReadDoes \/ EvictEndDoes
  \/ SwitchIndexerDoes \/ ScanListDoes \/ TickBeginDoes \/ TickDoes \/ AbortDoes
  \/ KillDoes \/ DropReadDoes \/ failImportDoes \/ deleteDirectoryDoes

\* Every step keeps the type invariant, and does one of these things.
LEMMA Steps ==
  ASSUME Types, [Next]_vars
  PROVE  Types' /\ Effect
PROOF
<1>1. ASSUME NEW f \in File, GetFileUri(f), UNCHANGED <<scanner, drops>>
      PROVE  Types' /\ Effect
  BY <1>1, GetFileUriStep DEF Effect
<1>2. ASSUME NEW f \in File, DownloadStart(f), UNCHANGED <<scanner, drops>>
      PROVE  Types' /\ Effect
  BY <1>2, DownloadStartStep DEF Effect
<1>3. ASSUME NEW f \in File, DownloadOpens(f), UNCHANGED <<scanner, drops>>
      PROVE  Types' /\ Effect
  BY <1>3, DownloadOpensStep DEF Effect
<1>4. ASSUME NEW f \in File, DownloadArrives(f), UNCHANGED <<scanner, drops>>
      PROVE  Types' /\ Effect
  BY <1>4, DownloadArrivesStep DEF Effect
<1>5. ASSUME NEW f \in File, DownloadRecords(f), UNCHANGED <<scanner, drops>>
      PROVE  Types' /\ Effect
  BY <1>5, DownloadRecordsStep DEF Effect
<1>6. ASSUME NEW f \in File, DownloadStops(f), UNCHANGED <<scanner, drops>>
      PROVE  Types' /\ Effect
  BY <1>6, DownloadStopsStep DEF Effect
<1>7. ASSUME NEW f \in File, Trash(f), UNCHANGED <<scanner, drops>>
      PROVE  Types' /\ Effect
  BY <1>7, TrashStep DEF Effect
<1>8. ASSUME NEW f \in File, Restore(f), UNCHANGED <<scanner, drops>>
      PROVE  Types' /\ Effect
  BY <1>8, RestoreStep DEF Effect
<1>9. ASSUME NEW f \in File, Supersede(f), UNCHANGED <<scanner, drops>>
      PROVE  Types' /\ Effect
  BY <1>9, SupersedeStep DEF Effect
<1>10. ASSUME NEW f \in File, Tombstone(f), UNCHANGED <<scanner, drops>>
      PROVE  Types' /\ Effect
  BY <1>10, TombstoneStep DEF Effect
<1>11. ASSUME NEW f \in File, Upload(f), UNCHANGED <<scanner, drops>>
      PROVE  Types' /\ Effect
  BY <1>11, UploadStep DEF Effect
<1>12. ASSUME NEW f \in File, NEW y \in Type, Retype(f, y), UNCHANGED <<scanner, drops>>
      PROVE  Types' /\ Effect
  BY <1>12, RetypeStep DEF Effect
<1>13. ASSUME NEW f \in File, NEW y \in Type, removeTombstoned(f, y), UNCHANGED <<scanner, drops>>
      PROVE  Types' /\ Effect
  BY <1>13, removeTombstonedStep DEF Effect
<1>14. ASSUME ScanJudge, UNCHANGED <<scanner, drops>>
      PROVE  Types' /\ Effect
  BY <1>14, ScanJudgeStep DEF Effect
<1>15. ASSUME NEW e \in scan.temps, scan.pc = "entries", RemoveTemp(e), UNCHANGED <<scanner, drops>>
      PROVE  Types' /\ Effect
  BY <1>15, RemoveTempStep DEF Effect
<1>16. ASSUME NEW f \in File, NEW y \in Type, ScanEntry(f, y), UNCHANGED <<scanner, drops>>
      PROVE  Types' /\ Effect
  BY <1>16, ScanEntryStep DEF Effect
<1>17. ASSUME ScanEnd, UNCHANGED <<scanner, drops>>
      PROVE  Types' /\ Effect
  BY <1>17, ScanEndStep DEF Effect
<1>18. ASSUME NEW any \in BOOLEAN, EvictRead(any), UNCHANGED <<scanner, drops>>
      PROVE  Types' /\ Effect
  BY <1>18, EvictReadStep DEF Effect
<1>19. ASSUME NEW f \in File, NEW y \in Type, EvictCount(<<f, y>>), UNCHANGED <<scanner, drops>>
      PROVE  Types' /\ Effect
  BY <1>19, EvictCountStep DEF Effect
<1>20. ASSUME NEW f \in File, NEW y \in Type, evict.on = <<f, y>>, EvictTry, UNCHANGED <<scanner, drops>>
      PROVE  Types' /\ Effect
  BY <1>20, EvictTryStep DEF Effect
<1>21. ASSUME NEW f \in File, NEW y \in Type, evict.on = <<f, y>>, EvictRow, UNCHANGED <<scanner, drops>>
      PROVE  Types' /\ Effect
  BY <1>21, EvictRowStep DEF Effect
<1>22. ASSUME EvictEnd, UNCHANGED <<scanner, drops>>
      PROVE  Types' /\ Effect
  BY <1>22, EvictEndStep DEF Effect
<1>23. ASSUME NEW f \in File, NEW y \in Type, NEW z \in Type \union {"none"}, retypeFile(f, y, z), UNCHANGED <<scanner, drops>>
      PROVE  Types' /\ Effect
  BY <1>23, retypeFileStep DEF Effect
<1>24. ASSUME SwitchIndexer, UNCHANGED <<scanner, drops>>
      PROVE  Types' /\ Effect
  BY <1>24, SwitchIndexerStep DEF Effect
<1>25. ASSUME ScanList(Busy), UNCHANGED <<scanner, drops>>
      PROVE  Types' /\ Effect
  BY <1>25, ScanListStep DEF Effect
<1>26. ASSUME TickBegin
      PROVE  Types' /\ Effect
  BY <1>26, TickBeginStep DEF Effect
<1>27. ASSUME TickEnd
      PROVE  Types' /\ Effect
  BY <1>27, TickEndStep DEF Effect
<1>28. ASSUME NEW f \in File, Skip(f)
      PROVE  Types' /\ Effect
  BY <1>28, SkipStep DEF Effect
<1>29. ASSUME NEW f \in File, NEW t \in Token, Claim(f, t)
      PROVE  Types' /\ Effect
  BY <1>29, ClaimStep DEF Effect
<1>30. ASSUME NEW t \in Token, JobStart(t)
      PROVE  Types' /\ Effect
  BY <1>30, JobStartStep DEF Effect
<1>31. ASSUME NEW t \in Token, Resolve(t)
      PROVE  Types' /\ Effect
  BY <1>31, ResolveStep DEF Effect
<1>32. ASSUME NEW t \in Token, Copy(t)
      PROVE  Types' /\ Effect
  BY <1>32, CopyStep DEF Effect
<1>33. ASSUME NEW t \in Token, CancelCopy(t)
      PROVE  Types' /\ Effect
  BY <1>33, CancelCopyStep DEF Effect
<1>34. ASSUME NEW t \in Token, Publish(t)
      PROVE  Types' /\ Effect
  BY <1>34, PublishStep DEF Effect
<1>35. ASSUME NEW t \in Token, Record(t)
      PROVE  Types' /\ Effect
  BY <1>35, RecordStep DEF Effect
<1>36. ASSUME NEW t \in Token, RecordCut(t)
      PROVE  Types' /\ Effect
  BY <1>36, RecordCutStep DEF Effect
<1>37. ASSUME NEW t \in Token, Hash(t)
      PROVE  Types' /\ Effect
  BY <1>37, HashStep DEF Effect
<1>38. ASSUME NEW t \in Token, RefuseEmpty(t)
      PROVE  Types' /\ Effect
  BY <1>38, RefuseEmptyStep DEF Effect
<1>39. ASSUME NEW t \in Token, Rename(t)
      PROVE  Types' /\ Effect
  BY <1>39, RenameStep DEF Effect
<1>40. ASSUME NEW t \in Token, RecordHash(t)
      PROVE  Types' /\ Effect
  BY <1>40, RecordHashStep DEF Effect
<1>41. ASSUME NEW t \in Token, Finalize(t)
      PROVE  Types' /\ Effect
  BY <1>41, FinalizeStep DEF Effect
<1>42. ASSUME NEW t \in Token, CleanDuplicate(t)
      PROVE  Types' /\ Effect
  BY <1>42, CleanDuplicateStep DEF Effect
<1>43. ASSUME NEW t \in Token, JobFails(t)
      PROVE  Types' /\ Effect
  BY <1>43, JobFailsStep DEF Effect
<1>44. ASSUME NEW t \in Token, CopyFindsNothing(t)
      PROVE  Types' /\ Effect
  BY <1>44, CopyFindsNothingStep DEF Effect
<1>45. ASSUME NEW f \in File, Cancel(f)
      PROVE  Types' /\ Effect
  BY <1>45, CancelStep DEF Effect
<1>46. ASSUME NEW f \in File, rependTerminalImportFiles(f)
      PROVE  Types' /\ Effect
  BY <1>46, rependTerminalImportFilesStep DEF Effect
<1>47. ASSUME NEW f \in File, DeleteImport(f)
      PROVE  Types' /\ Effect
  BY <1>47, DeleteImportStep DEF Effect
<1>48. ASSUME NEW f \in File, EditSource(f)
      PROVE  Types' /\ Effect
  BY <1>48, EditSourceStep DEF Effect
<1>49. ASSUME Abort
      PROVE  Types' /\ Effect
  BY <1>49, AbortStep DEF Effect
<1>50. ASSUME Kill
      PROVE  Types' /\ Effect
  BY <1>50, KillStep DEF Effect
<1>51. ASSUME DropRead
      PROVE  Types' /\ Effect
  BY <1>51, DropReadStep DEF Effect
<1>52. ASSUME failImportFilesInDirectory
      PROVE  Types' /\ Effect
  BY <1>52, failImportStep DEF Effect
<1>53. ASSUME NEW f \in File, NEW y \in Type, DropBytes(<<f, y>>)
      PROVE  Types' /\ Effect
  BY <1>53, DropBytesStep DEF Effect
<1>54. ASSUME deleteDirectoryAndTrashFiles
      PROVE  Types' /\ Effect
  BY <1>54, deleteDirectoryStep DEF Effect
<1>55. ASSUME NEW f \in File, GetFileUri(f) \/ DownloadStart(f) \/ Download(f) \/ UserStep(f),
              UNCHANGED <<scanner, drops>>
       PROVE  Types' /\ Effect
  BY <1>55, <1>1, <1>2, <1>3, <1>4, <1>5, <1>6, <1>7, <1>8, <1>9, <1>10, <1>11, <1>12, <1>13 DEF
    Download, UserStep
<1>56. ASSUME ScanStep, UNCHANGED <<scanner, drops>>
       PROVE  Types' /\ Effect
  <2>1. CASE \E e \in scan.list : ScanEntry(e[1], e[2])
    <3>1. PICK e \in scan.list : ScanEntry(e[1], e[2])
      BY <2>1
    <3>2. e[1] \in File /\ e[2] \in Type
      BY DEF Types, ScanState
    <3>3. QED
      BY <1>56, <3>1, <3>2, <1>16
  <2>2. CASE scan.pc = "entries" /\ \E e \in scan.temps : RemoveTemp(e)
    BY <1>56, <2>2, <1>15
  <2>3. QED
    BY <1>56, <2>1, <2>2, <1>14, <1>17 DEF ScanStep
<1>57. ASSUME EvictStep, UNCHANGED <<scanner, drops>>
       PROVE  Types' /\ Effect
  <2>1. CASE \E r \in evict.rows : EvictCount(r)
    <3>1. PICK r \in evict.rows : EvictCount(r)
      BY <2>1
    <3>2. PICK f \in File, y \in Type : r = <<f, y>>
      BY DEF Types, EvictState
    <3>3. QED
      BY <1>57, <3>1, <3>2, <1>19
  <2>2. CASE EvictTry \/ EvictRow
    <3>1. PICK f \in File, y \in Type : evict.on = <<f, y>>
      BY <2>2 DEF EvictTry, EvictRow, Types, EvictState
    <3>2. QED
      BY <1>57, <2>2, <3>1, <1>20, <1>21
  <2>3. QED
    BY <1>57, <2>1, <2>2, <1>22 DEF EvictStep
<1>58. ASSUME NEW m \in owed, retypeFile(m[1], m[2], m[3]), UNCHANGED <<scanner, drops>>
       PROVE  Types' /\ Effect
  <2>1. m[1] \in File /\ m[2] \in Type /\ m[3] \in Type \union {"none"}
    BY DEF Types
  <2>2. QED
    BY <1>58, <2>1, <1>23
<1>59. CASE CopiesNext /\ UNCHANGED <<scanner, drops>>
  BY <1>59, <1>55, <1>56, <1>57, <1>58, <1>18, <1>24 DEF CopiesNext
<1>60. ASSUME NEW t \in Token, JobStep(t)
       PROVE  Types' /\ Effect
  BY <1>60, <1>30, <1>31, <1>32, <1>33, <1>34, <1>35, <1>36, <1>37, <1>38, <1>39, <1>40, <1>41,
    <1>42, <1>43, <1>44 DEF JobStep
<1>61. CASE Scanner
  BY <1>61, <1>60, <1>26, <1>27, <1>28, <1>29 DEF Scanner
<1>62. CASE Drop
  <2>1. CASE \E r \in drop.rows : DropBytes(r)
    <3>1. PICK r \in drop.rows : DropBytes(r)
      BY <2>1
    <3>2. PICK f \in File, y \in Type : r = <<f, y>>
      BY DEF Types, DropState
    <3>3. QED
      BY <3>1, <3>2, <1>53
  <2>2. QED
    BY <1>62, <2>1, <1>52, <1>54 DEF Drop
<1>63. CASE UNCHANGED vars
  <2>1. UNCHANGED <<tables, disk, temp, passes, sent, mobile, acts, hazard, scanner, drops>>
    BY <1>63 DEF vars, copies, bytes
  <2>2. TickDoes
    BY <2>1 DEF tables, passes, scanner, drops, TickDoes
  <2>3. Types'
    BY <2>1 DEF tables, passes, scanner, drops, Types, Paired
  <2>4. QED
    BY <2>2, <2>3 DEF Effect
<1>64. QED
  BY <1>59, <1>61, <1>62, <1>63, <1>25, <1>45, <1>46, <1>47, <1>48, <1>49, <1>50, <1>51 DEF Next

\* Where everything starts: rows to import, and files there with their bytes in
\* place, and nothing under way.
Begun ==
  /\ \A f \in File :
       /\ imp[f].state \in {"none", "pending"} /\ imp[f].token = 0
       /\ f \in Importing => imp[f].state = "pending" /\ file[f].state = "none"
       /\ f \notin Importing => imp[f].state = "none"
       /\ file[f].state = "none" => f \notin fs /\ obj[f] = {} /\ \A y \in Type : disk[f][y] = "none"
       /\ file[f].state # "none" =>
            /\ file[f].hash # "none" /\ sent[f] = file[f].hash /\ Slot(f) = file[f].hash
            /\ \A y \in Type \ {file[f].type} : disk[f][y] = "none"
       /\ dl[f].pc = "none" /\ holder[f] = "free"
  /\ \A f \in staged : src[f] # "none"
  /\ \A t \in Token : job[t].pc = "free" /\ ~job[t].live
  /\ temp = {} /\ owed = {} /\ hazard = {} /\ drop.pc = "idle"
  /\ scan.pc = "idle" /\ scan.list = {} /\ scan.present = {} /\ scan.live = {}
  /\ evict.pc = "idle" /\ evict.rows = {}

\* The first state has its types, and nothing is under way in it.
LEMMA InitTypes ==
  ASSUME Init
  PROVE  Types /\ Begun
PROOF
<1>1. PICK here \in SUBSET (File \ Importing), row \in [Importing -> Type] :
        /\ imp = [f \in File |-> [state |-> IF f \in Importing THEN "pending" ELSE "none", token |-> 0,
                    type |-> IF f \in Importing THEN row[f] ELSE Classify[f], hash |-> "none",
                    tries |-> 0, dead |-> FALSE]]
        /\ file = [f \in File |-> [state |-> IF f \in here THEN "live" ELSE "none",
                     type |-> IF f \in Importing THEN row[f] ELSE Classify[f],
                     hash |-> IF f \in here THEN Source[f] ELSE "none", current |-> TRUE]]
        /\ staged \in SUBSET Importing
        /\ src = [f \in File |-> IF f \in Importing THEN Source[f] ELSE "none"]
        /\ fs = here
        /\ disk = [f \in File |-> [y \in Type |->
                     IF f \in here /\ y = IF f \in Importing THEN row[f] ELSE Classify[f]
                     THEN Source[f] ELSE "none"]]
        /\ indexer \in Indexer
        /\ \E up \in SUBSET here : obj = [f \in File |-> IF f \in up THEN {indexer} ELSE {}]
        /\ sent = [f \in File |-> file[f].hash]
        /\ temp = {} /\ mobile \in BOOLEAN
        /\ holder = [f \in File |-> "free"]
        /\ dl = [f \in File |-> [pc |-> "none", type |-> IF f \in Importing THEN row[f] ELSE Classify[f]]]
        /\ owed = {} /\ scan = NoScan /\ evict = NoEvict
        /\ acts = (IF here = {} THEN 0 ELSE 1) /\ hazard = {}
        /\ job = [t \in Token |-> [f |-> CHOOSE f \in File : TRUE, type |-> CHOOSE y \in Type : TRUE,
                                   got |-> "none", live |-> FALSE, pc |-> "free"]]
        /\ tick = NoTick /\ reclaimAll = TRUE
        /\ folder = TRUE /\ drop = NoDrop
  BY DEF Init
<1>2. \A f \in File : /\ (IF f \in Importing THEN row[f] ELSE Classify[f]) \in Type
                      /\ Source[f] \in Content /\ Source[f] \in Bytes /\ "none" \in Bytes
  BY ImportsAssumption DEF Bytes
<1>3. imp \in [File -> ImportRow] /\ Paired
  BY <1>1, <1>2 DEF ImportRow, ImportState, Paired
<1>4. file \in [File -> FileRow]
  BY <1>1, <1>2 DEF FileRow, FileState
<1>5. sent \in [File -> Bytes]
  BY <1>1, <1>4 DEF FileRow
<1>6. obj \in [File -> SUBSET Indexer] /\ indexer \in Indexer
  BY <1>1
<1>7. disk \in [File -> [Type -> Bytes]]
  BY <1>1, <1>2
<1>8. src \in [File -> Content \union {"none"}]
  BY <1>1, <1>2
<1>9. dl \in [File -> DownloadRow]
  BY <1>1, <1>2 DEF DownloadRow
<1>10. scan \in ScanState /\ tick \in TickState /\ drop \in DropState
  BY <1>1 DEF NoScan, NoTick, NoDrop, ScanState, TickState, DropState
<1>11. evict \in EvictState /\ (evict.pc \in {"try", "row"} => evict.on # <<>>)
  BY <1>1 DEF NoEvict, EvictState
<1>12. acts \in 0 .. MaxActs
  BY <1>1, CopiesAssumption
<1>13. PICK f0 : f0 = CHOOSE f \in File : TRUE
  OBVIOUS
<1>14. PICK y0 : y0 = CHOOSE y \in Type : TRUE
  OBVIOUS
<1>15. f0 \in File /\ y0 \in Type
  <2>1. PICK f \in File : TRUE
    BY CopiesAssumption
  <2>2. Classify[f] \in Type
    BY ImportsAssumption
  <2>3. QED
    BY <1>13, <1>14, <2>1, <2>2
<1>16. job = [t \in Token |-> [f |-> f0, type |-> y0, got |-> "none", live |-> FALSE, pc |-> "free"]]
  BY <1>1, <1>13, <1>14
<1>17. [f |-> f0, type |-> y0, got |-> "none", live |-> FALSE, pc |-> "free"] \in JobRow
  BY <1>15 DEF JobRow, JobPc, Bytes
<1>18. job \in [Token -> JobRow]
  BY <1>16, <1>17
<1>19. /\ fs \subseteq File /\ temp \subseteq File \X Token \X Bytes /\ mobile \in BOOLEAN
       /\ holder \in [File -> {"free", "download", "evict"}]
       /\ owed \subseteq File \X Type \X (Type \union {"none"}) /\ hazard \subseteq Races
       /\ staged \subseteq Importing /\ reclaimAll \in BOOLEAN /\ folder \in BOOLEAN
  BY <1>1
<1>20. Types
  BY <1>3, <1>4, <1>5, <1>6, <1>7, <1>8, <1>9, <1>10, <1>11, <1>12, <1>18, <1>19 DEF Types
<1>21. ASSUME NEW f \in File
       PROVE  /\ imp[f].state \in {"none", "pending"} /\ imp[f].token = 0
              /\ f \in Importing => imp[f].state = "pending" /\ file[f].state = "none"
              /\ f \notin Importing => imp[f].state = "none"
              /\ dl[f].pc = "none" /\ holder[f] = "free"
  BY <1>1
<1>22. ASSUME NEW f \in File, file[f].state = "none"
       PROVE  f \notin fs /\ obj[f] = {} /\ \A y \in Type : disk[f][y] = "none"
  BY <1>1, <1>22
<1>23. ASSUME NEW f \in File, file[f].state # "none"
       PROVE  /\ file[f].hash # "none" /\ sent[f] = file[f].hash /\ Slot(f) = file[f].hash
              /\ \A y \in Type \ {file[f].type} : disk[f][y] = "none"
  <2>1. f \in here /\ f \notin Importing /\ file[f].hash = Source[f] /\ file[f].type = Classify[f]
    BY <1>1, <1>23
  <2>2. file[f].type \in Type /\ sent[f] = file[f].hash
    BY <1>1, <1>2, <2>1
  <2>3. \A y \in Type : disk[f][y] = IF y = Classify[f] THEN Source[f] ELSE "none"
    BY <1>1, <2>1
  <2>4. Source[f] # "none"
    BY <1>2, CopiesAssumption
  <2>5. QED
    BY <2>1, <2>2, <2>3, <2>4 DEF Slot
<1>24. \A f \in staged : src[f] # "none"
  BY <1>1, <1>2, CopiesAssumption, ImportsAssumption
<1>25. \A t \in Token : job[t].pc = "free" /\ ~job[t].live
  BY <1>16
<1>26. /\ temp = {} /\ owed = {} /\ hazard = {} /\ drop.pc = "idle"
       /\ scan.pc = "idle" /\ scan.list = {} /\ scan.present = {} /\ scan.live = {}
       /\ evict.pc = "idle" /\ evict.rows = {}
  BY <1>1 DEF NoScan, NoEvict, NoDrop
<1>27. Begun
  BY <1>21, <1>22, <1>23, <1>24, <1>25, <1>26 DEF Begun
<1>28. QED
  BY <1>20, <1>27

\* The types of the proofs are those of the modules.
LEMMA TypesAreTypes == Types <=> TypeOK
PROOF
<1>1. /\ scan \in ScanState <=>
           scan \in [pc : {"idle", "judge", "entries"}, orphans : SUBSET File,
                     list : SUBSET (File \X Type), present : SUBSET (File \X Type),
                     live : SUBSET (File \X Type), temps : SUBSET (File \X Token \X Bytes)]
      /\ evict \in EvictState <=>
           evict \in [pc : {"idle", "rows", "try", "row"}, rows : SUBSET (File \X Type),
                      any : BOOLEAN, on : {<<>>} \union File \X Type]
  BY DEF ScanState, EvictState
<1>2. QED
  BY DEF Types, Paired, TypeOK, CopiesTypeOK, ImportsTypeOK, ImportRow, ImportState, FileRow, FileState,
    DownloadRow, ScanState, EvictState, JobRow, JobPc, TickState, DropState

\* Every variable keeps its type: in particular an import's claim columns are set
\* just while its row is claimed, and an eviction that tries a file has one.
THEOREM ImportsTypeCorrect == Spec => []TypeOK
PROOF
<1>1. Init => Types
  BY InitTypes
<1>2. Types /\ [Next]_vars => Types'
  BY Steps
<1>3. Spec => []Types
  BY <1>1, <1>2, PTL DEF Spec
<1>4. QED
  BY <1>3, TypesAreTypes, PTL

-----------------------------------------------------------------------------
(* The invariants.                                                          *)

\* A file that is not there yet has no object, no download, no lock, no change of
\* place owed, and is in no list of the scanner's or of eviction's.
Unmade ==
  \A f \in File : file[f].state = "none" =>
    /\ obj[f] = {} /\ dl[f].pc = "none" /\ holder[f] = "free"
    /\ \A y \in Type : /\ <<f, y>> \notin scan.live \union evict.rows
                       /\ evict.pc \in {"try", "row"} => evict.on # <<f, y>>
                       /\ \A z \in Type \union {"none"} : <<f, y, z>> \notin owed

\* The lock is held by whoever is between its two steps under it.
Locks ==
  \A f \in File :
    /\ dl[f].pc \in {"write", "wrote"} <=> holder[f] = "download"
    /\ holder[f] = "evict" <=> evict.pc = "row" /\ \E y \in Type : evict.on = <<f, y>>

\* What is downloaded or evicted is on some indexer, and on the connected one but
\* for a switch since it was counted.
Backed ==
  /\ \A f \in File : dl[f].pc # "none" => obj[f] # {}
  /\ \A f \in File, y \in Type :
       /\ evict.any /\ <<f, y>> \in evict.rows => obj[f] # {}
       /\ evict.pc \in {"try", "row"} /\ evict.on = <<f, y>> => obj[f] # {}
       /\ evict.pc = "try" /\ ~evict.any /\ evict.on = <<f, y>> =>
            indexer \in obj[f] \/ "switched" \in hazard

\* Only a deleted file's bytes are owed a removal, and a move is one from a type
\* to another.
Moves ==
  \A f \in File, y \in Type :
    /\ <<f, y, y>> \notin owed
    /\ <<f, y, "none">> \in owed => file[f].state = "deleted"

\* A row that nobody will take up again.
Gone(row) ==
  row.state \notin {"pending", "active"} /\ (row.state \in {"failed", "unavailable"} => row.dead)

\* A claimed row names its job.  A job is waited for in a tick, while its file is
\* not there, and it owns its row but for one given up or found a duplicate; a job
\* nobody waits for is a copy that goes on by itself.
Claims ==
  /\ \A f \in File, t \in Token : imp[f].token = t => job[t].pc # "free" /\ job[t].f = f
  /\ \A t \in Token :
       /\ job[t].live => job[t].pc \notin {"free", "over"}
       /\ job[t].pc = "dup" => ~Owns(t)
       /\ job[t].pc \notin {"free", "over"} /\ ~job[t].live => t \in Copying
       /\ Waited(t) => /\ tick.on /\ file[job[t].f].state = "none"
                       /\ Owns(t) \/ Gone(imp[job[t].f])

\* A file's import is added, deleted, or failed for good.
Rows ==
  \A f \in File :
    /\ file[f].state # "none" =>
         imp[f].state \in {"none", "added"} \/ (imp[f].state = "failed" /\ imp[f].dead)
    /\ imp[f].state = "added" => file[f].state # "none"

\* Rows failed with their folder stay so, and unless one of them was added have no
\* file.
Dropped ==
  drop.pc = "bytes" =>
    \A f \in File, y \in Type : <<f, y>> \in drop.rows =>
      /\ Gone(imp[f]) /\ imp[f].state # "added"
      /\ "failedAdded" \notin hazard => file[f].state = "none"

\* What a job knows of its bytes: of its temp, its hash, and the type it has them
\* at.
Hashed ==
  \A t \in Token :
    /\ \A f \in File : <<f, t, "none">> \notin temp
    /\ job[t].pc \in {"start", "resolve", "copy"} => job[t].got = "none"
    /\ job[t].pc \in {"free", "start", "resolve", "copy"} =>
         \A f \in File, b \in Bytes : <<f, t, b>> \notin temp
    /\ job[t].pc = "temp" /\ job[t].got # "none" =>
         \A f \in File, b \in Bytes : <<f, t, b>> \in temp => b = job[t].got
    /\ job[t].pc \in {"hashed", "moved", "final"} => job[t].got # "none"
    /\ Owns(t) /\ job[t].pc \notin {"final", "over"} => job[t].type = imp[job[t].f].type
    /\ Owns(t) /\ job[t].pc = "final" =>
         imp[job[t].f].hash = job[t].got /\ imp[job[t].f].type = Classify[job[t].f]
    /\ Waited(t) /\ job[t].pc \notin {"final", "dup"} =>
         job[t].type \in {imp[job[t].f].type, Classify[job[t].f]}

\* A file is not there without a hash.
Hashes == \A f \in File : Exists(f) => file[f].hash # "none"

\* The bytes a claim's hash was taken from are where its job has put them, and a
\* file that is not there has bytes at no type but the row's and its own.
ClaimInPlace(t) ==
  LET d == disk[job[t].f] IN
  /\ job[t].pc = "placed" /\ job[t].got # "none" => d[job[t].type] = job[t].got
  /\ job[t].pc = "hashed" => d[job[t].type] = job[t].got
  /\ job[t].pc \in {"moved", "final"} => d[Classify[job[t].f]] = job[t].got
  /\ job[t].pc = "moved" => job[t].type = Classify[job[t].f] \/ d[job[t].type] = "none"
AtItsTypes(f) ==
  file[f].state = "none" => \A y \in Type \ {imp[f].type, Classify[f]} : disk[f][y] = "none"
InPlace ==
  hazard \cap {"judgedEarly", "latePublish"} = {} =>
    (\A t \in Token : Owns(t) => ClaimInPlace(t)) /\ \A f \in File : AtItsTypes(f)

\* The bytes of a file are its own or part of them, and only whole where an fs row
\* shows them.
SoundAt(f) ==
  /\ \A y \in Type : disk[f][y] \in {"none", "part", file[f].hash}
  /\ f \in fs => Slot(f) \in {"none", file[f].hash}
  /\ obj[f] # {} => sent[f] = file[f].hash
Sound ==
  hazard \cap {"judgedEarly", "partRecorded", "rewritten", "latePublish"} = {} =>
    \A f \in File : Exists(f) => SoundAt(f)

\* The scanner believes present what it has yet to visit.
Listed == scan.list \subseteq scan.present

\* The only copy of a file no indexer holds is whole and in one slot, and where the
\* scanner has more than that slot on its lists, it knows the file's type.
OneCopy(f) == \E y \in Type : /\ disk[f][y] = file[f].hash
                              /\ \A z \in Type \ {y} : disk[f][z] = "none"
ScanKnows(f) ==
  \A y, z \in Type : <<f, y>> \in scan.list /\ <<f, z>> \in scan.present /\ y # z =>
    /\ Slot(f) # "none"
    /\ \A w \in Type : <<f, w>> \in scan.live => w = file[f].type
    /\ \A v \in Type, w \in Type \union {"none"} : <<f, v, w>> \notin owed
Last ==
  hazard \cap {"judgedEarly", "failedAdded", "latePublish"} = {} =>
    \A f \in File : Exists(f) /\ obj[f] = {} => OneCopy(f) /\ ScanKnows(f)

\* While no race but these has happened, a file's bytes are at its slot alone, and
\* everything under way names that slot.
QuietAt(f) ==
  /\ \A y \in Type \ {file[f].type} : disk[f][y] = "none"
  /\ f \in fs /\ holder[f] # "evict" => Slot(f) # "none"
  /\ dl[f].pc # "none" => dl[f].type = file[f].type
  /\ dl[f].pc = "write" /\ ~mobile => f \notin fs /\ Slot(f) = "part"
  /\ dl[f].pc = "wrote" => Slot(f) # "none"
  /\ \A y \in Type : /\ <<f, y>> \in scan.live \union evict.rows => y = file[f].type
                     /\ evict.pc \in {"try", "row"} /\ evict.on = <<f, y>> => y = file[f].type
Quiet ==
  hazard \subseteq {"movedUnrecorded", "switched", "retried"} =>
    /\ \A f \in File, y, z \in Type : <<f, y, z>> \notin owed
    /\ \A f \in File : Exists(f) => QuietAt(f)

\* A staged import in flight whose source is gone has its bytes recorded, or in the
\* hands of the one job that can still copy it.
Held(f) == \E y \in Type : disk[f][y] # "none"
Carried(f, t) ==
  /\ job[t].f = f
  /\ \/ job[t].pc = "placed" /\ Held(f)
     \/ job[t].pc = "temp" /\ \E b \in Bytes : <<f, t, b>> \in temp
StagedAt(f) ==
  /\ InFlight(f) /\ src[f] = "none" => (f \in fs /\ Held(f)) \/ \E t \in Token : Carried(f, t)
  /\ ~(imp[f].state = "unavailable" /\ imp[f].dead)
  /\ scan.pc = "entries" =>
       /\ f \in scan.orphans => ~InFlight(f)
       /\ \A t \in Token, b \in Bytes : <<f, t, b>> \in scan.temps => ~InFlight(f)
Alone(t) ==
  /\ \A u \in Token \ {t} : job[u].f = job[t].f => job[u].pc \notin {"copy", "temp", "placed"}
  /\ job[t].pc \in {"resolve", "copy"} => src[job[t].f] # "none"
Staged ==
  hazard \cap {"movedUnrecorded", "failedAdded", "retried"} = {} =>
    /\ \A f \in staged : StagedAt(f)
    /\ \A t \in Token : job[t].f \in staged /\ Owns(t) => Alone(t)

-----------------------------------------------------------------------------
(* Each is kept by every action.                                            *)

\* The file of a claim is not there, a claimed row has one job, and every job but
\* an abandoned copy is waited for.
LEMMA Owners ==
  ASSUME Types, Claims, Rows
  PROVE  /\ \A t \in Token : Owns(t) => file[job[t].f].state = "none"
         /\ \A t, u \in Token : Owns(t) /\ u # t /\ job[u].f = job[t].f => ~Owns(u) /\ ~Waited(u)
         /\ \A t \in Token : job[t].pc \in {"start", "resolve", "hash", "hashed", "moved", "final", "dup"}
              => Waited(t)
         /\ \A t, u \in Token : Waited(t) /\ job[u].f = job[t].f /\ u # t => ~Owns(u)
         /\ \A t \in Token : Waited(t) => file[job[t].f].state = "none"
PROOF
<1>1. \A t \in Token : job[t].f \in File
  BY DEF Types, JobRow
<1>2. \A t \in Token : Owns(t) => file[job[t].f].state = "none"
  BY <1>1 DEF Rows, Owns
<1>3. \A t, u \in Token : Owns(t) /\ u # t /\ job[u].f = job[t].f => ~Owns(u) /\ ~Waited(u)
  BY <1>1 DEF Claims, Owns, Gone
<1>4. \A t \in Token : job[t].pc \in {"start", "resolve", "hash", "hashed", "moved", "final", "dup"}
        => Waited(t)
  BY DEF Claims, Waited, Copying
<1>5. \A t \in Token : Waited(t) => file[job[t].f].state = "none"
  BY DEF Claims
<1>6. QED
  BY <1>2, <1>3, <1>4, <1>5

\* Bytes moved between two slots of a file.
LEMMA MovedBytes ==
  ASSUME NEW d \in [File -> [Type -> Bytes]], NEW f \in File, NEW y \in Type, NEW z \in Type,
         NEW b \in Bytes, y # z,
         NEW e, e = [d EXCEPT ![f][z] = b, ![f][y] = "none"]
  PROVE  /\ e[f][z] = b /\ e[f][y] = "none"
         /\ \A w \in Type \ {y, z} : e[f][w] = d[f][w]
         /\ \A g \in File \ {f} : e[g] = d[g]
BY DEF Bytes

\* Bytes written at a slot of a file.
LEMMA WrittenBytes ==
  ASSUME NEW d \in [File -> [Type -> Bytes]], NEW f \in File, NEW y \in Type, NEW b,
         NEW e, e = [d EXCEPT ![f][y] = b]
  PROVE  /\ e[f][y] = b
         /\ \A w \in Type \ {y} : e[f][w] = d[f][w]
         /\ \A g \in File \ {f} : e[g] = d[g]
OBVIOUS

\* Nothing is done to a file that is not there.
LEMMA UnmadeKept ==
  ASSUME Types, Types', Unmade, Moves, Effect
  PROVE  Unmade'
PROOF
<1>1. file \in [File -> FileRow] /\ obj \in [File -> SUBSET Indexer] /\ dl \in [File ->
  DownloadRow] /\ holder \in [File -> {"free", "download", "evict"}]
  BY DEF Types
<1>2. scan \in ScanState /\ evict \in EvictState /\ "none" \notin Type /\ indexer \in Indexer
  BY CopiesAssumption DEF Types
<1>3. ASSUME NEW f \in File, GetFileUriDoes(f)
      PROVE  Unmade'
  BY <1>3, <1>1, <1>2 DEF GetFileUriDoes, getFsFileUri, Unmade, Exists, Moves
<1>4. ASSUME NEW f \in File, DownloadStartDoes(f)
      PROVE  Unmade'
  BY <1>4, <1>1, <1>2 DEF DownloadStartDoes, DlIs, Unmade, Exists, Moves
<1>5. ASSUME NEW f \in File, DownloadOpensDoes(f)
      PROVE  Unmade'
  BY <1>5, <1>1, <1>2 DEF DownloadOpensDoes, DlIs, Unmade, Exists, Moves
<1>6. ASSUME NEW f \in File, DownloadArrivesDoes(f)
      PROVE  Unmade'
  BY <1>6, <1>1, <1>2 DEF DownloadArrivesDoes, DlIs, Unmade, Exists, Moves
<1>7. ASSUME NEW f \in File, DownloadRecordsDoes(f)
      PROVE  Unmade'
  BY <1>7, <1>1, <1>2 DEF DownloadRecordsDoes, DlIs, Recorded, Unmade, Exists, Moves
<1>8. ASSUME NEW f \in File, DownloadStopsDoes(f)
      PROVE  Unmade'
  BY <1>8, <1>1, <1>2 DEF DownloadStopsDoes, DlIs, Unmade, Exists, Moves
<1>9. ASSUME NEW f \in File, EditDoes(f)
      PROVE  Unmade'
  BY <1>9, <1>1, <1>2 DEF EditDoes, FileIs, Unmade, Exists, Moves
<1>10. ASSUME NEW f \in File, TombstoneDoes(f)
      PROVE  Unmade'
  BY <1>10, <1>1, <1>2 DEF TombstoneDoes, FileIs, Unmade, Exists, Moves
<1>11. ASSUME NEW f \in File, UploadDoes(f)
      PROVE  Unmade'
  BY <1>11, <1>1, <1>2 DEF UploadDoes, Unmade, Exists, Moves
<1>12. ASSUME NEW f \in File, NEW y \in Type, RetypeDoes(f, y)
      PROVE  Unmade'
  BY <1>12, <1>1, <1>2 DEF RetypeDoes, FileIs, Recorded, Unmade, Exists, Moves
<1>13. ASSUME NEW f \in File, NEW y \in Type, removeTombstonedDoes(f, y)
      PROVE  Unmade'
  BY <1>13, <1>1, <1>2 DEF removeTombstonedDoes, removeNow, Unmade, Exists, Moves
<1>14. ASSUME ScanJudgeDoes
      PROVE  Unmade'
  BY <1>14, <1>1, <1>2 DEF ScanJudgeDoes, ScanIs, Unmade, Exists, Moves
<1>15. ASSUME RemoveTempDoes
      PROVE  Unmade'
  BY <1>15, <1>1, <1>2 DEF RemoveTempDoes, ScanIs, Unmade, Exists, Moves
<1>16. ASSUME NEW f \in File, NEW y \in Type, ScanEntryDoes(f, y)
      PROVE  Unmade'
  BY <1>16, <1>1, <1>2 DEF ScanEntryDoes, Misjudged, Recorded, ScanIs, ScansOn, getFsFileUri,
    removeNow, Unmade, Exists, Moves
<1>17. ASSUME ScanEndDoes
      PROVE  Unmade'
  BY <1>17, <1>1, <1>2 DEF ScanEndDoes, ScanIs, Unmade, Exists, Moves
<1>18. ASSUME EvictReadDoes
      PROVE  Unmade'
  BY <1>18, <1>1, <1>2 DEF EvictReadDoes, EvictIs, Unmade, Exists, Moves
<1>19. ASSUME NEW f \in File, NEW y \in Type, EvictCountDoes(f, y)
      PROVE  Unmade'
  BY <1>19, <1>1, <1>2 DEF EvictCountDoes, EvictIs, Unmade, Exists, Moves
<1>20. ASSUME NEW f \in File, NEW y \in Type, EvictTryDoes(f, y)
      PROVE  Unmade'
  <2>1. file[f].state # "none"
    BY <1>20 DEF EvictTryDoes, Unmade
  <2>2. /\ \A g \in File \ {f} : holder'[g] = holder[g]
        /\ evict'.rows = evict.rows
        /\ evict'.pc \in {"try", "row"} => evict'.on = <<f, y>>
        /\ UNCHANGED <<file, obj, dl, owed, scan>>
    BY <1>1, <1>20 DEF EvictTryDoes, EvictIs
  <2>3. QED
    BY <2>1, <2>2 DEF Unmade
<1>21. ASSUME NEW f \in File, NEW y \in Type, EvictRowDoes(f, y)
      PROVE  Unmade'
  BY <1>21, <1>1, <1>2 DEF EvictRowDoes, EvictIs, Unmade, Exists, Moves
<1>22. ASSUME EvictEndDoes
      PROVE  Unmade'
  BY <1>22, <1>1, <1>2 DEF EvictEndDoes, EvictIs, Unmade, Exists, Moves
<1>23. ASSUME NEW f \in File, NEW y \in Type, NEW z \in Type \union {"none"}, retypeFileDoes(f,
  y, z)
      PROVE  Unmade'
  BY <1>23, <1>1, <1>2 DEF retypeFileDoes, FileIs, Recorded, Unmade, Exists, Moves
<1>24. ASSUME SwitchIndexerDoes
      PROVE  Unmade'
  BY <1>24, <1>1, <1>2 DEF SwitchIndexerDoes, Unmade, Exists, Moves
<1>25. ASSUME ScanListDoes
      PROVE  Unmade'
  BY <1>25, <1>1, <1>2 DEF ScanListDoes, ScanIs, Unmade, Exists, Moves
<1>26. ASSUME TickBeginDoes
      PROVE  Unmade'
  BY <1>26, <1>1, <1>2 DEF TickBeginDoes, RowIs, Unmade, Exists, Moves
<1>27. ASSUME TickDoes
      PROVE  Unmade'
  BY <1>27, <1>1, <1>2 DEF TickDoes, Unmade, Exists, Moves
<1>28. ASSUME NEW f \in File, NEW t \in Token, ClaimDoes(f, t)
      PROVE  Unmade'
  BY <1>28, <1>1, <1>2 DEF ClaimDoes, ImpIs, RowIs, Unmade, Exists, Moves
<1>29. ASSUME NEW t \in Token, JobStartDoes(t)
      PROVE  Unmade'
  BY <1>29, <1>1, <1>2 DEF JobStartDoes, JobIs, Unmade, Exists, Moves
<1>30. ASSUME NEW t \in Token, ResolveDoes(t)
      PROVE  Unmade'
  BY <1>30, <1>1, <1>2 DEF ResolveDoes, ImpIs, JobIs, RowIs, Settles, Unmade, Exists, Moves
<1>31. ASSUME NEW t \in Token, CopyDoes(t)
      PROVE  Unmade'
  BY <1>31, <1>1, <1>2 DEF CopyDoes, JobIs, Late, Unmade, Exists, Moves
<1>32. ASSUME NEW t \in Token, CancelCopyDoes(t)
      PROVE  Unmade'
  BY <1>32, <1>1, <1>2 DEF CancelCopyDoes, JobIs, Unmade, Exists, Moves
<1>33. ASSUME NEW t \in Token, PublishDoes(t)
      PROVE  Unmade'
  BY <1>33, <1>1, <1>2 DEF PublishDoes, JobIs, Late, Unmade, Exists, Moves
<1>34. ASSUME NEW t \in Token, RecordDoes(t)
      PROVE  Unmade'
  BY <1>34, <1>1, <1>2 DEF RecordDoes, JobIs, Late, Unmade, Exists, Moves
<1>35. ASSUME NEW t \in Token, RecordCutDoes(t)
      PROVE  Unmade'
  BY <1>35, <1>1, <1>2 DEF RecordCutDoes, JobIs, Unmade, Exists, Moves
<1>36. ASSUME NEW t \in Token, HashDoes(t)
      PROVE  Unmade'
  BY <1>36, <1>1, <1>2 DEF HashDoes, JobIs, Unmade, Exists, Moves
<1>37. ASSUME NEW t \in Token, RefuseEmptyDoes(t)
      PROVE  Unmade'
  BY <1>37, <1>1, <1>2 DEF RefuseEmptyDoes, ImpIs, JobIs, RowIs, Settles, removeNow, Unmade,
    Exists, Moves
<1>38. ASSUME NEW t \in Token, RenameDoes(t)
      PROVE  Unmade'
  BY <1>38, <1>1, <1>2 DEF RenameDoes, JobIs, Unmade, Exists, Moves
<1>39. ASSUME NEW t \in Token, RecordHashDoes(t)
      PROVE  Unmade'
  BY <1>39, <1>1, <1>2 DEF RecordHashDoes, JobIs, Unmade, Exists, Moves
<1>40. ASSUME NEW t \in Token, FinalizeDoes(t)
      PROVE  Unmade'
  BY <1>40, <1>1, <1>2 DEF FinalizeDoes, FileIs, ImpIs, JobIs, RowIs, Unmade, Exists, Moves
<1>41. ASSUME NEW t \in Token, CleanDuplicateDoes(t)
      PROVE  Unmade'
  BY <1>41, <1>1, <1>2 DEF CleanDuplicateDoes, JobIs, removeNow, Unmade, Exists, Moves
<1>42. ASSUME NEW t \in Token, JobFailsDoes(t)
      PROVE  Unmade'
  BY <1>42, <1>1, <1>2 DEF JobFailsDoes, ImpIs, JobIs, RowIs, Settles, Unmade, Exists, Moves
<1>43. ASSUME NEW t \in Token, CopyFindsNothingDoes(t)
      PROVE  Unmade'
  BY <1>43, <1>1, <1>2 DEF CopyFindsNothingDoes, ImpIs, JobIs, RowIs, Settles, Unmade, Exists,
    Moves
<1>44. ASSUME NEW f \in File, GiveUpDoes(f)
      PROVE  Unmade'
  BY <1>44, <1>1, <1>2 DEF GiveUpDoes, ImpIs, RowIs, Unmade, Exists, Moves
<1>45. ASSUME NEW f \in File, RependDoes(f)
      PROVE  Unmade'
  BY <1>45, <1>1, <1>2 DEF RependDoes, ImpIs, RowIs, Unmade, Exists, Moves
<1>46. ASSUME NEW f \in File, EditSourceDoes(f)
      PROVE  Unmade'
  BY <1>46, <1>1, <1>2 DEF EditSourceDoes, Unmade, Exists, Moves
<1>47. ASSUME AbortDoes
      PROVE  Unmade'
  BY <1>47, <1>1, <1>2 DEF AbortDoes, Unmade, Exists, Moves
<1>48. ASSUME KillDoes
      PROVE  Unmade'
  BY <1>48, <1>1, <1>2 DEF KillDoes, EvictIs, Late, ScanIs, Unmade, Exists, Moves
<1>49. ASSUME DropReadDoes
      PROVE  Unmade'
  BY <1>49, <1>1, <1>2 DEF DropReadDoes, Unmade, Exists, Moves
<1>50. ASSUME failImportDoes
      PROVE  Unmade'
  BY <1>50, <1>1, <1>2 DEF failImportDoes, RowIs, Unmade, Exists, Moves
<1>51. ASSUME NEW f \in File, NEW y \in Type, DropBytesDoes(f, y)
      PROVE  Unmade'
  BY <1>51, <1>1, <1>2 DEF DropBytesDoes, removeNow, Unmade, Exists, Moves
<1>52. ASSUME deleteDirectoryDoes
      PROVE  Unmade'
  BY <1>52, <1>1, <1>2 DEF deleteDirectoryDoes, Unmade, Exists, Moves
<1>53. QED
  BY <1>3, <1>4, <1>5, <1>6, <1>7, <1>8, <1>9, <1>10, <1>11, <1>12, <1>13, <1>14, <1>15, <1>16,
    <1>17, <1>18, <1>19, <1>20, <1>21, <1>22, <1>23, <1>24, <1>25, <1>26, <1>27, <1>28, <1>29,
    <1>30, <1>31, <1>32, <1>33, <1>34, <1>35, <1>36, <1>37, <1>38, <1>39, <1>40, <1>41, <1>42,
    <1>43, <1>44, <1>45, <1>46, <1>47, <1>48, <1>49, <1>50, <1>51, <1>52 DEF Effect

\* The lock goes with the steps under it.
LEMMA LocksKept ==
  ASSUME Types, Types', Locks, Effect
  PROVE  Locks'
PROOF
<1>1. file \in [File -> FileRow] /\ obj \in [File -> SUBSET Indexer] /\ dl \in [File ->
  DownloadRow] /\ holder \in [File -> {"free", "download", "evict"}]
  BY DEF Types
<1>2. scan \in ScanState /\ evict \in EvictState /\ "none" \notin Type /\ indexer \in Indexer
  BY CopiesAssumption DEF Types
<1>3. ASSUME NEW f \in File, GetFileUriDoes(f)
      PROVE  Locks'
  BY <1>3, <1>1, <1>2 DEF GetFileUriDoes, getFsFileUri, Locks
<1>4. ASSUME NEW f \in File, DownloadStartDoes(f)
      PROVE  Locks'
  BY <1>4, <1>1, <1>2 DEF DownloadStartDoes, DlIs, Locks
<1>5. ASSUME NEW f \in File, DownloadOpensDoes(f)
      PROVE  Locks'
  BY <1>5, <1>1, <1>2 DEF DownloadOpensDoes, DlIs, Locks
<1>6. ASSUME NEW f \in File, DownloadArrivesDoes(f)
      PROVE  Locks'
  BY <1>6, <1>1, <1>2 DEF DownloadArrivesDoes, DlIs, Locks
<1>7. ASSUME NEW f \in File, DownloadRecordsDoes(f)
      PROVE  Locks'
  BY <1>7, <1>1, <1>2 DEF DownloadRecordsDoes, DlIs, Recorded, Locks
<1>8. ASSUME NEW f \in File, DownloadStopsDoes(f)
      PROVE  Locks'
  BY <1>8, <1>1, <1>2 DEF DownloadStopsDoes, DlIs, Locks
<1>9. ASSUME NEW f \in File, EditDoes(f)
      PROVE  Locks'
  BY <1>9, <1>1, <1>2 DEF EditDoes, FileIs, Locks
<1>10. ASSUME NEW f \in File, TombstoneDoes(f)
      PROVE  Locks'
  BY <1>10, <1>1, <1>2 DEF TombstoneDoes, FileIs, Locks
<1>11. ASSUME NEW f \in File, UploadDoes(f)
      PROVE  Locks'
  BY <1>11, <1>1, <1>2 DEF UploadDoes, Locks
<1>12. ASSUME NEW f \in File, NEW y \in Type, RetypeDoes(f, y)
      PROVE  Locks'
  BY <1>12, <1>1, <1>2 DEF RetypeDoes, FileIs, Recorded, Locks
<1>13. ASSUME NEW f \in File, NEW y \in Type, removeTombstonedDoes(f, y)
      PROVE  Locks'
  BY <1>13, <1>1, <1>2 DEF removeTombstonedDoes, removeNow, Locks
<1>14. ASSUME ScanJudgeDoes
      PROVE  Locks'
  BY <1>14, <1>1, <1>2 DEF ScanJudgeDoes, ScanIs, Locks
<1>15. ASSUME RemoveTempDoes
      PROVE  Locks'
  BY <1>15, <1>1, <1>2 DEF RemoveTempDoes, ScanIs, Locks
<1>16. ASSUME NEW f \in File, NEW y \in Type, ScanEntryDoes(f, y)
      PROVE  Locks'
  BY <1>16, <1>1, <1>2 DEF ScanEntryDoes, Misjudged, Recorded, ScanIs, ScansOn, getFsFileUri,
    removeNow, Locks
<1>17. ASSUME ScanEndDoes
      PROVE  Locks'
  BY <1>17, <1>1, <1>2 DEF ScanEndDoes, ScanIs, Locks
<1>18. ASSUME EvictReadDoes
      PROVE  Locks'
  BY <1>18, <1>1, <1>2 DEF EvictReadDoes, EvictIs, Locks
<1>19. ASSUME NEW f \in File, NEW y \in Type, EvictCountDoes(f, y)
      PROVE  Locks'
  BY <1>19, <1>1, <1>2 DEF EvictCountDoes, EvictIs, Locks
<1>20. ASSUME NEW f \in File, NEW y \in Type, EvictTryDoes(f, y)
      PROVE  Locks'
  BY <1>20, <1>1, <1>2 DEF EvictTryDoes, EvictIs, Locks
<1>21. ASSUME NEW f \in File, NEW y \in Type, EvictRowDoes(f, y)
      PROVE  Locks'
  BY <1>21, <1>1, <1>2 DEF EvictRowDoes, EvictIs, Locks
<1>22. ASSUME EvictEndDoes
      PROVE  Locks'
  BY <1>22, <1>1, <1>2 DEF EvictEndDoes, EvictIs, Locks
<1>23. ASSUME NEW f \in File, NEW y \in Type, NEW z \in Type \union {"none"}, retypeFileDoes(f,
  y, z)
      PROVE  Locks'
  BY <1>23, <1>1, <1>2 DEF retypeFileDoes, FileIs, Recorded, Locks
<1>24. ASSUME SwitchIndexerDoes
      PROVE  Locks'
  BY <1>24, <1>1, <1>2 DEF SwitchIndexerDoes, Locks
<1>25. ASSUME ScanListDoes
      PROVE  Locks'
  BY <1>25, <1>1, <1>2 DEF ScanListDoes, ScanIs, Locks
<1>26. ASSUME TickBeginDoes
      PROVE  Locks'
  BY <1>26, <1>1, <1>2 DEF TickBeginDoes, RowIs, Locks
<1>27. ASSUME TickDoes
      PROVE  Locks'
  BY <1>27, <1>1, <1>2 DEF TickDoes, Locks
<1>28. ASSUME NEW f \in File, NEW t \in Token, ClaimDoes(f, t)
      PROVE  Locks'
  BY <1>28, <1>1, <1>2 DEF ClaimDoes, ImpIs, RowIs, Locks
<1>29. ASSUME NEW t \in Token, JobStartDoes(t)
      PROVE  Locks'
  BY <1>29, <1>1, <1>2 DEF JobStartDoes, JobIs, Locks
<1>30. ASSUME NEW t \in Token, ResolveDoes(t)
      PROVE  Locks'
  BY <1>30, <1>1, <1>2 DEF ResolveDoes, ImpIs, JobIs, RowIs, Settles, Locks
<1>31. ASSUME NEW t \in Token, CopyDoes(t)
      PROVE  Locks'
  BY <1>31, <1>1, <1>2 DEF CopyDoes, JobIs, Late, Locks
<1>32. ASSUME NEW t \in Token, CancelCopyDoes(t)
      PROVE  Locks'
  BY <1>32, <1>1, <1>2 DEF CancelCopyDoes, JobIs, Locks
<1>33. ASSUME NEW t \in Token, PublishDoes(t)
      PROVE  Locks'
  BY <1>33, <1>1, <1>2 DEF PublishDoes, JobIs, Late, Locks
<1>34. ASSUME NEW t \in Token, RecordDoes(t)
      PROVE  Locks'
  BY <1>34, <1>1, <1>2 DEF RecordDoes, JobIs, Late, Locks
<1>35. ASSUME NEW t \in Token, RecordCutDoes(t)
      PROVE  Locks'
  BY <1>35, <1>1, <1>2 DEF RecordCutDoes, JobIs, Locks
<1>36. ASSUME NEW t \in Token, HashDoes(t)
      PROVE  Locks'
  BY <1>36, <1>1, <1>2 DEF HashDoes, JobIs, Locks
<1>37. ASSUME NEW t \in Token, RefuseEmptyDoes(t)
      PROVE  Locks'
  BY <1>37, <1>1, <1>2 DEF RefuseEmptyDoes, ImpIs, JobIs, RowIs, Settles, removeNow, Locks
<1>38. ASSUME NEW t \in Token, RenameDoes(t)
      PROVE  Locks'
  BY <1>38, <1>1, <1>2 DEF RenameDoes, JobIs, Locks
<1>39. ASSUME NEW t \in Token, RecordHashDoes(t)
      PROVE  Locks'
  BY <1>39, <1>1, <1>2 DEF RecordHashDoes, JobIs, Locks
<1>40. ASSUME NEW t \in Token, FinalizeDoes(t)
      PROVE  Locks'
  BY <1>40, <1>1, <1>2 DEF FinalizeDoes, FileIs, ImpIs, JobIs, RowIs, Locks
<1>41. ASSUME NEW t \in Token, CleanDuplicateDoes(t)
      PROVE  Locks'
  BY <1>41, <1>1, <1>2 DEF CleanDuplicateDoes, JobIs, removeNow, Locks
<1>42. ASSUME NEW t \in Token, JobFailsDoes(t)
      PROVE  Locks'
  BY <1>42, <1>1, <1>2 DEF JobFailsDoes, ImpIs, JobIs, RowIs, Settles, Locks
<1>43. ASSUME NEW t \in Token, CopyFindsNothingDoes(t)
      PROVE  Locks'
  BY <1>43, <1>1, <1>2 DEF CopyFindsNothingDoes, ImpIs, JobIs, RowIs, Settles, Locks
<1>44. ASSUME NEW f \in File, GiveUpDoes(f)
      PROVE  Locks'
  BY <1>44, <1>1, <1>2 DEF GiveUpDoes, ImpIs, RowIs, Locks
<1>45. ASSUME NEW f \in File, RependDoes(f)
      PROVE  Locks'
  BY <1>45, <1>1, <1>2 DEF RependDoes, ImpIs, RowIs, Locks
<1>46. ASSUME NEW f \in File, EditSourceDoes(f)
      PROVE  Locks'
  BY <1>46, <1>1, <1>2 DEF EditSourceDoes, Locks
<1>47. ASSUME AbortDoes
      PROVE  Locks'
  BY <1>47, <1>1, <1>2 DEF AbortDoes, Locks
<1>48. ASSUME KillDoes
      PROVE  Locks'
  BY <1>48, <1>1, <1>2 DEF KillDoes, EvictIs, Late, ScanIs, Locks
<1>49. ASSUME DropReadDoes
      PROVE  Locks'
  BY <1>49, <1>1, <1>2 DEF DropReadDoes, Locks
<1>50. ASSUME failImportDoes
      PROVE  Locks'
  BY <1>50, <1>1, <1>2 DEF failImportDoes, RowIs, Locks
<1>51. ASSUME NEW f \in File, NEW y \in Type, DropBytesDoes(f, y)
      PROVE  Locks'
  BY <1>51, <1>1, <1>2 DEF DropBytesDoes, removeNow, Locks
<1>52. ASSUME deleteDirectoryDoes
      PROVE  Locks'
  BY <1>52, <1>1, <1>2 DEF deleteDirectoryDoes, Locks
<1>53. QED
  BY <1>3, <1>4, <1>5, <1>6, <1>7, <1>8, <1>9, <1>10, <1>11, <1>12, <1>13, <1>14, <1>15, <1>16,
    <1>17, <1>18, <1>19, <1>20, <1>21, <1>22, <1>23, <1>24, <1>25, <1>26, <1>27, <1>28, <1>29,
    <1>30, <1>31, <1>32, <1>33, <1>34, <1>35, <1>36, <1>37, <1>38, <1>39, <1>40, <1>41, <1>42,
    <1>43, <1>44, <1>45, <1>46, <1>47, <1>48, <1>49, <1>50, <1>51, <1>52 DEF Effect

\* An object is never lost, and is looked for before the copy is given up.
LEMMA BackedKept ==
  ASSUME Types, Types', Backed, Unmade, Effect
  PROVE  Backed'
PROOF
<1>1. file \in [File -> FileRow] /\ obj \in [File -> SUBSET Indexer] /\ dl \in [File ->
  DownloadRow] /\ holder \in [File -> {"free", "download", "evict"}]
  BY DEF Types
<1>2. scan \in ScanState /\ evict \in EvictState /\ "none" \notin Type /\ indexer \in Indexer
  BY CopiesAssumption DEF Types
<1>3. ASSUME NEW f \in File, GetFileUriDoes(f)
      PROVE  Backed'
  BY <1>3, <1>1, <1>2 DEF GetFileUriDoes, getFsFileUri, Backed
<1>4. ASSUME NEW f \in File, DownloadStartDoes(f)
      PROVE  Backed'
  BY <1>4, <1>1, <1>2 DEF DownloadStartDoes, DlIs, Backed
<1>5. ASSUME NEW f \in File, DownloadOpensDoes(f)
      PROVE  Backed'
  BY <1>5, <1>1, <1>2 DEF DownloadOpensDoes, DlIs, Backed
<1>6. ASSUME NEW f \in File, DownloadArrivesDoes(f)
      PROVE  Backed'
  BY <1>6, <1>1, <1>2 DEF DownloadArrivesDoes, DlIs, Backed
<1>7. ASSUME NEW f \in File, DownloadRecordsDoes(f)
      PROVE  Backed'
  BY <1>7, <1>1, <1>2 DEF DownloadRecordsDoes, DlIs, Recorded, Backed
<1>8. ASSUME NEW f \in File, DownloadStopsDoes(f)
      PROVE  Backed'
  BY <1>8, <1>1, <1>2 DEF DownloadStopsDoes, DlIs, Backed
<1>9. ASSUME NEW f \in File, EditDoes(f)
      PROVE  Backed'
  BY <1>9, <1>1, <1>2 DEF EditDoes, FileIs, Backed
<1>10. ASSUME NEW f \in File, TombstoneDoes(f)
      PROVE  Backed'
  BY <1>10, <1>1, <1>2 DEF TombstoneDoes, FileIs, Backed
<1>11. ASSUME NEW f \in File, UploadDoes(f)
      PROVE  Backed'
  BY <1>11, <1>1, <1>2 DEF UploadDoes, Backed
<1>12. ASSUME NEW f \in File, NEW y \in Type, RetypeDoes(f, y)
      PROVE  Backed'
  BY <1>12, <1>1, <1>2 DEF RetypeDoes, FileIs, Recorded, Backed
<1>13. ASSUME NEW f \in File, NEW y \in Type, removeTombstonedDoes(f, y)
      PROVE  Backed'
  BY <1>13, <1>1, <1>2 DEF removeTombstonedDoes, removeNow, Backed
<1>14. ASSUME ScanJudgeDoes
      PROVE  Backed'
  BY <1>14, <1>1, <1>2 DEF ScanJudgeDoes, ScanIs, Backed
<1>15. ASSUME RemoveTempDoes
      PROVE  Backed'
  BY <1>15, <1>1, <1>2 DEF RemoveTempDoes, ScanIs, Backed
<1>16. ASSUME NEW f \in File, NEW y \in Type, ScanEntryDoes(f, y)
      PROVE  Backed'
  BY <1>16, <1>1, <1>2 DEF ScanEntryDoes, Misjudged, Recorded, ScanIs, ScansOn, getFsFileUri,
    removeNow, Backed
<1>17. ASSUME ScanEndDoes
      PROVE  Backed'
  BY <1>17, <1>1, <1>2 DEF ScanEndDoes, ScanIs, Backed
<1>18. ASSUME EvictReadDoes
      PROVE  Backed'
  BY <1>18, <1>1, <1>2 DEF EvictReadDoes, EvictIs, Backed
<1>19. ASSUME NEW f \in File, NEW y \in Type, EvictCountDoes(f, y)
      PROVE  Backed'
  BY <1>19, <1>1, <1>2 DEF EvictCountDoes, EvictIs, Backed
<1>20. ASSUME NEW f \in File, NEW y \in Type, EvictTryDoes(f, y)
      PROVE  Backed'
  BY <1>20, <1>1, <1>2 DEF EvictTryDoes, EvictIs, Backed
<1>21. ASSUME NEW f \in File, NEW y \in Type, EvictRowDoes(f, y)
      PROVE  Backed'
  BY <1>21, <1>1, <1>2 DEF EvictRowDoes, EvictIs, Backed
<1>22. ASSUME EvictEndDoes
      PROVE  Backed'
  BY <1>22, <1>1, <1>2 DEF EvictEndDoes, EvictIs, Backed
<1>23. ASSUME NEW f \in File, NEW y \in Type, NEW z \in Type \union {"none"}, retypeFileDoes(f,
  y, z)
      PROVE  Backed'
  BY <1>23, <1>1, <1>2 DEF retypeFileDoes, FileIs, Recorded, Backed
<1>24. ASSUME SwitchIndexerDoes
      PROVE  Backed'
  BY <1>24, <1>1, <1>2 DEF SwitchIndexerDoes, Backed
<1>25. ASSUME ScanListDoes
      PROVE  Backed'
  BY <1>25, <1>1, <1>2 DEF ScanListDoes, ScanIs, Backed
<1>26. ASSUME TickBeginDoes
      PROVE  Backed'
  BY <1>26, <1>1, <1>2 DEF TickBeginDoes, RowIs, Backed
<1>27. ASSUME TickDoes
      PROVE  Backed'
  BY <1>27, <1>1, <1>2 DEF TickDoes, Backed
<1>28. ASSUME NEW f \in File, NEW t \in Token, ClaimDoes(f, t)
      PROVE  Backed'
  BY <1>28, <1>1, <1>2 DEF ClaimDoes, ImpIs, RowIs, Backed
<1>29. ASSUME NEW t \in Token, JobStartDoes(t)
      PROVE  Backed'
  BY <1>29, <1>1, <1>2 DEF JobStartDoes, JobIs, Backed
<1>30. ASSUME NEW t \in Token, ResolveDoes(t)
      PROVE  Backed'
  BY <1>30, <1>1, <1>2 DEF ResolveDoes, ImpIs, JobIs, RowIs, Settles, Backed
<1>31. ASSUME NEW t \in Token, CopyDoes(t)
      PROVE  Backed'
  BY <1>31, <1>1, <1>2 DEF CopyDoes, JobIs, Late, Backed
<1>32. ASSUME NEW t \in Token, CancelCopyDoes(t)
      PROVE  Backed'
  BY <1>32, <1>1, <1>2 DEF CancelCopyDoes, JobIs, Backed
<1>33. ASSUME NEW t \in Token, PublishDoes(t)
      PROVE  Backed'
  BY <1>33, <1>1, <1>2 DEF PublishDoes, JobIs, Late, Backed
<1>34. ASSUME NEW t \in Token, RecordDoes(t)
      PROVE  Backed'
  BY <1>34, <1>1, <1>2 DEF RecordDoes, JobIs, Late, Backed
<1>35. ASSUME NEW t \in Token, RecordCutDoes(t)
      PROVE  Backed'
  BY <1>35, <1>1, <1>2 DEF RecordCutDoes, JobIs, Backed
<1>36. ASSUME NEW t \in Token, HashDoes(t)
      PROVE  Backed'
  BY <1>36, <1>1, <1>2 DEF HashDoes, JobIs, Backed
<1>37. ASSUME NEW t \in Token, RefuseEmptyDoes(t)
      PROVE  Backed'
  BY <1>37, <1>1, <1>2 DEF RefuseEmptyDoes, ImpIs, JobIs, RowIs, Settles, removeNow, Backed
<1>38. ASSUME NEW t \in Token, RenameDoes(t)
      PROVE  Backed'
  BY <1>38, <1>1, <1>2 DEF RenameDoes, JobIs, Backed
<1>39. ASSUME NEW t \in Token, RecordHashDoes(t)
      PROVE  Backed'
  BY <1>39, <1>1, <1>2 DEF RecordHashDoes, JobIs, Backed
<1>40. ASSUME NEW t \in Token, FinalizeDoes(t)
      PROVE  Backed'
  BY <1>40, <1>1, <1>2 DEF FinalizeDoes, FileIs, ImpIs, JobIs, RowIs, Backed
<1>41. ASSUME NEW t \in Token, CleanDuplicateDoes(t)
      PROVE  Backed'
  BY <1>41, <1>1, <1>2 DEF CleanDuplicateDoes, JobIs, removeNow, Backed
<1>42. ASSUME NEW t \in Token, JobFailsDoes(t)
      PROVE  Backed'
  BY <1>42, <1>1, <1>2 DEF JobFailsDoes, ImpIs, JobIs, RowIs, Settles, Backed
<1>43. ASSUME NEW t \in Token, CopyFindsNothingDoes(t)
      PROVE  Backed'
  BY <1>43, <1>1, <1>2 DEF CopyFindsNothingDoes, ImpIs, JobIs, RowIs, Settles, Backed
<1>44. ASSUME NEW f \in File, GiveUpDoes(f)
      PROVE  Backed'
  BY <1>44, <1>1, <1>2 DEF GiveUpDoes, ImpIs, RowIs, Backed
<1>45. ASSUME NEW f \in File, RependDoes(f)
      PROVE  Backed'
  BY <1>45, <1>1, <1>2 DEF RependDoes, ImpIs, RowIs, Backed
<1>46. ASSUME NEW f \in File, EditSourceDoes(f)
      PROVE  Backed'
  BY <1>46, <1>1, <1>2 DEF EditSourceDoes, Backed
<1>47. ASSUME AbortDoes
      PROVE  Backed'
  BY <1>47, <1>1, <1>2 DEF AbortDoes, Backed
<1>48. ASSUME KillDoes
      PROVE  Backed'
  BY <1>48, <1>1, <1>2 DEF KillDoes, EvictIs, Late, ScanIs, Backed
<1>49. ASSUME DropReadDoes
      PROVE  Backed'
  BY <1>49, <1>1, <1>2 DEF DropReadDoes, Backed
<1>50. ASSUME failImportDoes
      PROVE  Backed'
  BY <1>50, <1>1, <1>2 DEF failImportDoes, RowIs, Backed
<1>51. ASSUME NEW f \in File, NEW y \in Type, DropBytesDoes(f, y)
      PROVE  Backed'
  BY <1>51, <1>1, <1>2 DEF DropBytesDoes, removeNow, Backed
<1>52. ASSUME deleteDirectoryDoes
      PROVE  Backed'
  BY <1>52, <1>1, <1>2 DEF deleteDirectoryDoes, Backed
<1>53. QED
  BY <1>3, <1>4, <1>5, <1>6, <1>7, <1>8, <1>9, <1>10, <1>11, <1>12, <1>13, <1>14, <1>15, <1>16,
    <1>17, <1>18, <1>19, <1>20, <1>21, <1>22, <1>23, <1>24, <1>25, <1>26, <1>27, <1>28, <1>29,
    <1>30, <1>31, <1>32, <1>33, <1>34, <1>35, <1>36, <1>37, <1>38, <1>39, <1>40, <1>41, <1>42,
    <1>43, <1>44, <1>45, <1>46, <1>47, <1>48, <1>49, <1>50, <1>51, <1>52 DEF Effect

\* A removal is owed by a delete alone.
LEMMA MovesKept ==
  ASSUME Types, Types', Moves, Claims, Effect
  PROVE  Moves'
PROOF
<1>1. file \in [File -> FileRow] /\ obj \in [File -> SUBSET Indexer] /\ dl \in [File ->
  DownloadRow] /\ holder \in [File -> {"free", "download", "evict"}]
  BY DEF Types
<1>2. scan \in ScanState /\ evict \in EvictState /\ "none" \notin Type /\ indexer \in Indexer
  BY CopiesAssumption DEF Types
<1>3. ASSUME NEW f \in File, GetFileUriDoes(f)
      PROVE  Moves'
  BY <1>3, <1>1, <1>2, ZenonT(60) DEF GetFileUriDoes, getFsFileUri, Moves, Exists
<1>4. ASSUME NEW f \in File, DownloadStartDoes(f)
      PROVE  Moves'
  BY <1>4, <1>1, <1>2, ZenonT(60) DEF DownloadStartDoes, DlIs, Moves, Exists
<1>5. ASSUME NEW f \in File, DownloadOpensDoes(f)
      PROVE  Moves'
  BY <1>5, <1>1, <1>2, ZenonT(60) DEF DownloadOpensDoes, DlIs, Moves, Exists
<1>6. ASSUME NEW f \in File, DownloadArrivesDoes(f)
      PROVE  Moves'
  BY <1>6, <1>1, <1>2, ZenonT(60) DEF DownloadArrivesDoes, DlIs, Moves, Exists
<1>7. ASSUME NEW f \in File, DownloadRecordsDoes(f)
      PROVE  Moves'
  BY <1>7, <1>1, <1>2, ZenonT(60) DEF DownloadRecordsDoes, DlIs, Recorded, Moves, Exists
<1>8. ASSUME NEW f \in File, DownloadStopsDoes(f)
      PROVE  Moves'
  BY <1>8, <1>1, <1>2, ZenonT(60) DEF DownloadStopsDoes, DlIs, Moves, Exists
<1>9. ASSUME NEW f \in File, EditDoes(f)
      PROVE  Moves'
  BY <1>9, <1>1, <1>2, ZenonT(60) DEF EditDoes, FileIs, Moves, Exists
<1>10. ASSUME NEW f \in File, TombstoneDoes(f)
      PROVE  Moves'
  BY <1>10, <1>1, <1>2, ZenonT(60) DEF TombstoneDoes, FileIs, Moves, Exists
<1>11. ASSUME NEW f \in File, UploadDoes(f)
      PROVE  Moves'
  BY <1>11, <1>1, <1>2, ZenonT(60) DEF UploadDoes, Moves, Exists
<1>12. ASSUME NEW f \in File, NEW y \in Type, RetypeDoes(f, y)
      PROVE  Moves'
  BY <1>12, <1>1, <1>2, ZenonT(60) DEF RetypeDoes, FileIs, Recorded, Moves, Exists
<1>13. ASSUME NEW f \in File, NEW y \in Type, removeTombstonedDoes(f, y)
      PROVE  Moves'
  BY <1>13, <1>1, <1>2, ZenonT(60) DEF removeTombstonedDoes, removeNow, Moves, Exists
<1>14. ASSUME ScanJudgeDoes
      PROVE  Moves'
  BY <1>14, <1>1, <1>2, ZenonT(60) DEF ScanJudgeDoes, ScanIs, Moves, Exists
<1>15. ASSUME RemoveTempDoes
      PROVE  Moves'
  BY <1>15, <1>1, <1>2, ZenonT(60) DEF RemoveTempDoes, ScanIs, Moves, Exists
<1>16. ASSUME NEW f \in File, NEW y \in Type, ScanEntryDoes(f, y)
      PROVE  Moves'
  BY <1>16, <1>1, <1>2, ZenonT(60) DEF ScanEntryDoes, Misjudged, Recorded, ScanIs, ScansOn,
    getFsFileUri,
    removeNow, Moves, Exists
<1>17. ASSUME ScanEndDoes
      PROVE  Moves'
  BY <1>17, <1>1, <1>2, ZenonT(60) DEF ScanEndDoes, ScanIs, Moves, Exists
<1>18. ASSUME EvictReadDoes
      PROVE  Moves'
  BY <1>18, <1>1, <1>2, ZenonT(60) DEF EvictReadDoes, EvictIs, Moves, Exists
<1>19. ASSUME NEW f \in File, NEW y \in Type, EvictCountDoes(f, y)
      PROVE  Moves'
  BY <1>19, <1>1, <1>2, ZenonT(60) DEF EvictCountDoes, EvictIs, Moves, Exists
<1>20. ASSUME NEW f \in File, NEW y \in Type, EvictTryDoes(f, y)
      PROVE  Moves'
  BY <1>20, <1>1, <1>2, ZenonT(60) DEF EvictTryDoes, EvictIs, Moves, Exists
<1>21. ASSUME NEW f \in File, NEW y \in Type, EvictRowDoes(f, y)
      PROVE  Moves'
  BY <1>21, <1>1, <1>2, ZenonT(60) DEF EvictRowDoes, EvictIs, Moves, Exists
<1>22. ASSUME EvictEndDoes
      PROVE  Moves'
  BY <1>22, <1>1, <1>2, ZenonT(60) DEF EvictEndDoes, EvictIs, Moves, Exists
<1>23. ASSUME NEW f \in File, NEW y \in Type, NEW z \in Type \union {"none"}, retypeFileDoes(f,
  y, z)
      PROVE  Moves'
  BY <1>23, <1>1, <1>2, ZenonT(60) DEF retypeFileDoes, FileIs, Recorded, Moves, Exists
<1>24. ASSUME SwitchIndexerDoes
      PROVE  Moves'
  BY <1>24, <1>1, <1>2, ZenonT(60) DEF SwitchIndexerDoes, Moves, Exists
<1>25. ASSUME ScanListDoes
      PROVE  Moves'
  BY <1>25, <1>1, <1>2, ZenonT(60) DEF ScanListDoes, ScanIs, Moves, Exists
<1>26. ASSUME TickBeginDoes
      PROVE  Moves'
  BY <1>26, <1>1, <1>2, ZenonT(60) DEF TickBeginDoes, RowIs, Moves, Exists
<1>27. ASSUME TickDoes
      PROVE  Moves'
  BY <1>27, <1>1, <1>2, ZenonT(60) DEF TickDoes, Moves, Exists
<1>28. ASSUME NEW f \in File, NEW t \in Token, ClaimDoes(f, t)
      PROVE  Moves'
  BY <1>28, <1>1, <1>2, ZenonT(60) DEF ClaimDoes, ImpIs, RowIs, Moves, Exists
<1>29. ASSUME NEW t \in Token, JobStartDoes(t)
      PROVE  Moves'
  BY <1>29, <1>1, <1>2, ZenonT(60) DEF JobStartDoes, JobIs, Moves, Exists
<1>30. ASSUME NEW t \in Token, ResolveDoes(t)
      PROVE  Moves'
  BY <1>30, <1>1, <1>2, ZenonT(60) DEF ResolveDoes, ImpIs, JobIs, RowIs, Settles, Moves, Exists
<1>31. ASSUME NEW t \in Token, CopyDoes(t)
      PROVE  Moves'
  BY <1>31, <1>1, <1>2, ZenonT(60) DEF CopyDoes, JobIs, Late, Moves, Exists
<1>32. ASSUME NEW t \in Token, CancelCopyDoes(t)
      PROVE  Moves'
  BY <1>32, <1>1, <1>2, ZenonT(60) DEF CancelCopyDoes, JobIs, Moves, Exists
<1>33. ASSUME NEW t \in Token, PublishDoes(t)
      PROVE  Moves'
  BY <1>33, <1>1, <1>2, ZenonT(60) DEF PublishDoes, JobIs, Late, Moves, Exists
<1>34. ASSUME NEW t \in Token, RecordDoes(t)
      PROVE  Moves'
  BY <1>34, <1>1, <1>2, ZenonT(60) DEF RecordDoes, JobIs, Late, Moves, Exists
<1>35. ASSUME NEW t \in Token, RecordCutDoes(t)
      PROVE  Moves'
  BY <1>35, <1>1, <1>2, ZenonT(60) DEF RecordCutDoes, JobIs, Moves, Exists
<1>36. ASSUME NEW t \in Token, HashDoes(t)
      PROVE  Moves'
  BY <1>36, <1>1, <1>2, ZenonT(60) DEF HashDoes, JobIs, Moves, Exists
<1>37. ASSUME NEW t \in Token, RefuseEmptyDoes(t)
      PROVE  Moves'
  BY <1>37, <1>1, <1>2, ZenonT(60) DEF RefuseEmptyDoes, ImpIs, JobIs, RowIs, Settles,
    removeNow, Moves,
    Exists
<1>38. ASSUME NEW t \in Token, RenameDoes(t)
      PROVE  Moves'
  BY <1>38, <1>1, <1>2, ZenonT(60) DEF RenameDoes, JobIs, Moves, Exists
<1>39. ASSUME NEW t \in Token, RecordHashDoes(t)
      PROVE  Moves'
  BY <1>39, <1>1, <1>2, ZenonT(60) DEF RecordHashDoes, JobIs, Moves, Exists
<1>40. ASSUME NEW t \in Token, FinalizeDoes(t)
      PROVE  Moves'
  <2>1. job[t].f \in File
    BY DEF Types, JobRow
  <2>2. file[job[t].f].state = "none"
    BY <1>40 DEF FinalizeDoes, Claims, Waited, Copying
  <2>3. owed' = owed /\ \A f \in File : file[f].state # "none" => file'[f] = file[f]
    BY <1>40, <2>1, <2>2 DEF FinalizeDoes, FileIs
  <2>4. QED
    BY <2>3, ZenonT(60) DEF Moves
<1>41. ASSUME NEW t \in Token, CleanDuplicateDoes(t)
      PROVE  Moves'
  BY <1>41, <1>1, <1>2, ZenonT(60) DEF CleanDuplicateDoes, JobIs, removeNow, Moves, Exists
<1>42. ASSUME NEW t \in Token, JobFailsDoes(t)
      PROVE  Moves'
  BY <1>42, <1>1, <1>2, ZenonT(60) DEF JobFailsDoes, ImpIs, JobIs, RowIs, Settles, Moves, Exists
<1>43. ASSUME NEW t \in Token, CopyFindsNothingDoes(t)
      PROVE  Moves'
  BY <1>43, <1>1, <1>2, ZenonT(60) DEF CopyFindsNothingDoes, ImpIs, JobIs, RowIs, Settles,
    Moves, Exists
<1>44. ASSUME NEW f \in File, GiveUpDoes(f)
      PROVE  Moves'
  BY <1>44, <1>1, <1>2, ZenonT(60) DEF GiveUpDoes, ImpIs, RowIs, Moves, Exists
<1>45. ASSUME NEW f \in File, RependDoes(f)
      PROVE  Moves'
  BY <1>45, <1>1, <1>2, ZenonT(60) DEF RependDoes, ImpIs, RowIs, Moves, Exists
<1>46. ASSUME NEW f \in File, EditSourceDoes(f)
      PROVE  Moves'
  BY <1>46, <1>1, <1>2, ZenonT(60) DEF EditSourceDoes, Moves, Exists
<1>47. ASSUME AbortDoes
      PROVE  Moves'
  BY <1>47, <1>1, <1>2, ZenonT(60) DEF AbortDoes, Moves, Exists
<1>48. ASSUME KillDoes
      PROVE  Moves'
  BY <1>48, <1>1, <1>2 DEF KillDoes, EvictIs, Late, ScanIs, Moves, Exists
<1>49. ASSUME DropReadDoes
      PROVE  Moves'
  BY <1>49, <1>1, <1>2, ZenonT(60) DEF DropReadDoes, Moves, Exists
<1>50. ASSUME failImportDoes
      PROVE  Moves'
  BY <1>50, <1>1, <1>2, ZenonT(60) DEF failImportDoes, RowIs, Moves, Exists
<1>51. ASSUME NEW f \in File, NEW y \in Type, DropBytesDoes(f, y)
      PROVE  Moves'
  BY <1>51, <1>1, <1>2, ZenonT(60) DEF DropBytesDoes, removeNow, Moves, Exists
<1>52. ASSUME deleteDirectoryDoes
      PROVE  Moves'
  BY <1>52, <1>1, <1>2, ZenonT(60) DEF deleteDirectoryDoes, Moves, Exists
<1>53. QED
  BY <1>3, <1>4, <1>5, <1>6, <1>7, <1>8, <1>9, <1>10, <1>11, <1>12, <1>13, <1>14, <1>15, <1>16,
    <1>17, <1>18, <1>19, <1>20, <1>21, <1>22, <1>23, <1>24, <1>25, <1>26, <1>27, <1>28, <1>29,
    <1>30, <1>31, <1>32, <1>33, <1>34, <1>35, <1>36, <1>37, <1>38, <1>39, <1>40, <1>41, <1>42,
    <1>43, <1>44, <1>45, <1>46, <1>47, <1>48, <1>49, <1>50, <1>51, <1>52 DEF Effect

\* A job that goes on, or is let go, while rows, files and the tick stay: it must not
\* be waited for if it was not, nor be let go but in a copy or at its end.
LEMMA ClaimsOfAJob ==
  ASSUME Types, Claims, NEW t \in Token,
         job'[t].f = job[t].f, \A u \in Token \ {t} : job'[u] = job[u],
         imp' = imp, file' = file, tick' = tick, job'[t].pc \notin {"free", "dup"},
         job'[t].live => job[t].live /\ job'[t].pc # "over",
         job'[t].pc # "over" /\ ~job'[t].live => job'[t].pc \in {"copy", "temp", "placed"}
  PROVE  Claims'
PROOF
<1>1. \A f \in File, u \in Token : imp'[f].token = u => job'[u].pc # "free" /\ job'[u].f = f
  <2> SUFFICES ASSUME NEW f \in File, NEW u \in Token, imp'[f].token = u
               PROVE  job'[u].pc # "free" /\ job'[u].f = f
    OBVIOUS
  <2>1. job[u].pc # "free" /\ job[u].f = f  BY DEF Claims
  <2> QED  BY <2>1
<1>2. ASSUME NEW u \in Token
      PROVE  /\ job'[u].live => job'[u].pc \notin {"free", "over"}
             /\ job'[u].pc = "dup" => ~Owns(u)'
             /\ job'[u].pc \notin {"free", "over"} /\ ~job'[u].live => (u \in Copying)'
             /\ Waited(u)' => /\ tick'.on /\ file'[job'[u].f].state = "none"
                              /\ Owns(u)' \/ Gone(imp'[job'[u].f])
  <2>1. CASE u = t
    <3>1. job[t].live => /\ job[t].pc \notin {"free", "over"}
                         /\ tick.on /\ file[job[t].f].state = "none"
                         /\ Owns(t) \/ Gone(imp[job[t].f])
      BY DEF Claims, Waited
    <3>2. Owns(t)' <=> Owns(t)  BY DEF Owns
    <3> QED  BY <2>1, <3>1, <3>2 DEF Waited, Copying
  <2>2. CASE u # t
    <3>1. job'[u] = job[u]  BY <2>2
    <3> QED  BY <3>1 DEF Claims, Owns, Waited, Copying
  <2> QED  BY <2>1, <2>2
<1> QED  BY <1>1, <1>2 DEF Claims

\* Claims and what is waited for.
LEMMA ClaimsKept ==
  ASSUME Types, Types', Claims, Rows, Effect
  PROVE  Claims'
PROOF
<1>1. file \in [File -> FileRow] /\ imp \in [File -> ImportRow] /\ job \in [Token -> JobRow] /\
  tick \in TickState
  BY DEF Types
<1>2. \A t \in Token : job[t].f \in File /\ job[t].type \in Type /\ job[t].got \in Bytes
  BY DEF Types, JobRow
<1>3. \A f \in File : imp[f].state = "active" <=> imp[f].token # 0
  BY DEF Types, Paired
<1>4. 0 \notin Token /\ Importing \subseteq File
  BY ImportsAssumption DEF Token
<1>5. ASSUME NEW f \in File, GetFileUriDoes(f)
      PROVE  Claims'
  BY <1>5, <1>1, <1>2, <1>3, <1>4 DEF GetFileUriDoes, getFsFileUri, Claims, Gone, InFlight,
    Rows, Exists, Owns, Waited, Copying
<1>6. ASSUME NEW f \in File, DownloadStartDoes(f)
      PROVE  Claims'
  BY <1>6, <1>1, <1>2, <1>3, <1>4 DEF DownloadStartDoes, DlIs, Claims, Gone, InFlight, Rows,
    Exists, Owns, Waited, Copying
<1>7. ASSUME NEW f \in File, DownloadOpensDoes(f)
      PROVE  Claims'
  BY <1>7, <1>1, <1>2, <1>3, <1>4 DEF DownloadOpensDoes, DlIs, Claims, Gone, InFlight, Rows,
    Exists, Owns, Waited, Copying
<1>8. ASSUME NEW f \in File, DownloadArrivesDoes(f)
      PROVE  Claims'
  BY <1>8, <1>1, <1>2, <1>3, <1>4 DEF DownloadArrivesDoes, DlIs, Claims, Gone, InFlight, Rows,
    Exists, Owns, Waited, Copying
<1>9. ASSUME NEW f \in File, DownloadRecordsDoes(f)
      PROVE  Claims'
  BY <1>9, <1>1, <1>2, <1>3, <1>4 DEF DownloadRecordsDoes, DlIs, Recorded, Claims, Gone,
    InFlight, Rows, Exists, Owns, Waited, Copying
<1>10. ASSUME NEW f \in File, DownloadStopsDoes(f)
      PROVE  Claims'
  BY <1>10, <1>1, <1>2, <1>3, <1>4 DEF DownloadStopsDoes, DlIs, Claims, Gone, InFlight, Rows,
    Exists, Owns, Waited, Copying
<1>11. ASSUME NEW f \in File, EditDoes(f)
      PROVE  Claims'
  BY <1>11, <1>1, <1>2, <1>3, <1>4 DEF EditDoes, FileIs, Claims, Gone, InFlight, Rows, Exists,
    Owns, Waited, Copying
<1>12. ASSUME NEW f \in File, TombstoneDoes(f)
      PROVE  Claims'
  BY <1>12, <1>1, <1>2, <1>3, <1>4 DEF TombstoneDoes, FileIs, Claims, Gone, InFlight, Rows,
    Exists, Owns, Waited, Copying
<1>13. ASSUME NEW f \in File, UploadDoes(f)
      PROVE  Claims'
  BY <1>13, <1>1, <1>2, <1>3, <1>4 DEF UploadDoes, Claims, Gone, InFlight, Rows, Exists, Owns,
    Waited, Copying
<1>14. ASSUME NEW f \in File, NEW y \in Type, RetypeDoes(f, y)
      PROVE  Claims'
  BY <1>14, <1>1, <1>2, <1>3, <1>4 DEF RetypeDoes, FileIs, Recorded, Claims, Gone, InFlight,
    Rows, Exists, Owns, Waited, Copying
<1>15. ASSUME NEW f \in File, NEW y \in Type, removeTombstonedDoes(f, y)
      PROVE  Claims'
  BY <1>15, <1>1, <1>2, <1>3, <1>4 DEF removeTombstonedDoes, removeNow, Claims, Gone, InFlight,
    Rows, Exists, Owns, Waited, Copying
<1>16. ASSUME ScanJudgeDoes
      PROVE  Claims'
  BY <1>16, <1>1, <1>2, <1>3, <1>4 DEF ScanJudgeDoes, ScanIs, Claims, Gone, InFlight, Rows,
    Exists, Owns, Waited, Copying
<1>17. ASSUME RemoveTempDoes
      PROVE  Claims'
  BY <1>17, <1>1, <1>2, <1>3, <1>4 DEF RemoveTempDoes, ScanIs, Claims, Gone, InFlight, Rows,
    Exists, Owns, Waited, Copying
<1>18. ASSUME NEW f \in File, NEW y \in Type, ScanEntryDoes(f, y)
      PROVE  Claims'
  BY <1>18, <1>1, <1>2, <1>3, <1>4 DEF ScanEntryDoes, Misjudged, Recorded, ScanIs, ScansOn,
    getFsFileUri, removeNow, Claims, Gone, InFlight, Rows, Exists, Owns, Waited, Copying
<1>19. ASSUME ScanEndDoes
      PROVE  Claims'
  BY <1>19, <1>1, <1>2, <1>3, <1>4 DEF ScanEndDoes, ScanIs, Claims, Gone, InFlight, Rows,
    Exists, Owns, Waited, Copying
<1>20. ASSUME EvictReadDoes
      PROVE  Claims'
  BY <1>20, <1>1, <1>2, <1>3, <1>4 DEF EvictReadDoes, EvictIs, Claims, Gone, InFlight, Rows,
    Exists, Owns, Waited, Copying
<1>21. ASSUME NEW f \in File, NEW y \in Type, EvictCountDoes(f, y)
      PROVE  Claims'
  BY <1>21, <1>1, <1>2, <1>3, <1>4 DEF EvictCountDoes, EvictIs, Claims, Gone, InFlight, Rows,
    Exists, Owns, Waited, Copying
<1>22. ASSUME NEW f \in File, NEW y \in Type, EvictTryDoes(f, y)
      PROVE  Claims'
  BY <1>22, <1>1, <1>2, <1>3, <1>4 DEF EvictTryDoes, EvictIs, Claims, Gone, InFlight, Rows,
    Exists, Owns, Waited, Copying
<1>23. ASSUME NEW f \in File, NEW y \in Type, EvictRowDoes(f, y)
      PROVE  Claims'
  BY <1>23, <1>1, <1>2, <1>3, <1>4 DEF EvictRowDoes, EvictIs, Claims, Gone, InFlight, Rows,
    Exists, Owns, Waited, Copying
<1>24. ASSUME EvictEndDoes
      PROVE  Claims'
  BY <1>24, <1>1, <1>2, <1>3, <1>4 DEF EvictEndDoes, EvictIs, Claims, Gone, InFlight, Rows,
    Exists, Owns, Waited, Copying
<1>25. ASSUME NEW f \in File, NEW y \in Type, NEW z \in Type \union {"none"}, retypeFileDoes(f,
  y, z)
      PROVE  Claims'
  BY <1>25, <1>1, <1>2, <1>3, <1>4 DEF retypeFileDoes, FileIs, Recorded, Claims, Gone, InFlight,
    Rows, Exists, Owns, Waited, Copying
<1>26. ASSUME SwitchIndexerDoes
      PROVE  Claims'
  BY <1>26, <1>1, <1>2, <1>3, <1>4 DEF SwitchIndexerDoes, Claims, Gone, InFlight, Rows, Exists,
    Owns, Waited, Copying
<1>27. ASSUME ScanListDoes
      PROVE  Claims'
  BY <1>27, <1>1, <1>2, <1>3, <1>4 DEF ScanListDoes, ScanIs, Claims, Gone, InFlight, Rows,
    Exists, Owns, Waited, Copying
<1>28. ASSUME TickBeginDoes
      PROVE  Claims'
  BY <1>28, <1>1, <1>2, <1>3, <1>4 DEF TickBeginDoes, RowIs, Claims, Gone, InFlight, Rows,
    Exists, Owns, Waited, Copying
<1>29. ASSUME TickDoes
      PROVE  Claims'
  BY <1>29, <1>1, <1>2, <1>3, <1>4 DEF TickDoes, Claims, Gone, InFlight, Rows, Exists, Owns,
    Waited, Copying
<1>30. ASSUME NEW f \in File, NEW t \in Token, ClaimDoes(f, t)
      PROVE  Claims'
  <2>1. /\ tick'.on /\ file' = file /\ imp[f].state = "pending" /\ job[t].pc = "free"
        /\ imp'[f].state = "active" /\ imp'[f].token = t
        /\ \A g \in File \ {f} : imp'[g] = imp[g]
        /\ \A u \in Token \ {t} : job'[u] = job[u]
        /\ job'[t].f = f /\ job'[t].pc = "start" /\ job'[t].live
    BY <1>30 DEF ClaimDoes, ImpIs, RowIs
  <2>2. \A g \in File : imp[g].token # t
    BY <2>1 DEF Claims
  <2>3. file[f].state = "none"
    BY <2>1 DEF Rows
  <2>4. \A g \in File, u \in Token : imp'[g].token = u => job'[u].pc # "free" /\ job'[u].f = g
    <3> SUFFICES ASSUME NEW g \in File, NEW u \in Token, imp'[g].token = u
                 PROVE  job'[u].pc # "free" /\ job'[u].f = g
      OBVIOUS
    <3>1. CASE g = f
      BY <3>1, <2>1
    <3>2. CASE g # f
      <4>1. imp[g].token = u  BY <3>2, <2>1
      <4>2. u # t  BY <4>1, <2>2
      <4>3. job[u].pc # "free" /\ job[u].f = g  BY <4>1 DEF Claims
      <4> QED  BY <4>2, <4>3, <2>1
    <3> QED  BY <3>1, <3>2
  <2>5. ASSUME NEW u \in Token
        PROVE  /\ job'[u].live => job'[u].pc \notin {"free", "over"}
               /\ job'[u].pc = "dup" => ~Owns(u)'
               /\ job'[u].pc \notin {"free", "over"} /\ ~job'[u].live => (u \in Copying)'
               /\ Waited(u)' => /\ tick'.on /\ file'[job'[u].f].state = "none"
                                /\ Owns(u)' \/ Gone(imp'[job'[u].f])
    <3>1. CASE u = t
      BY <3>1, <2>1, <2>3 DEF Owns, Waited
    <3>2. CASE u # t
      <4>1. job'[u] = job[u] /\ job[u].f \in File  BY <3>2, <2>1, <1>2
      <4>2. CASE job[u].f = f
        <5>1. imp'[f].token # u  BY <3>2, <2>1
        <5>2. ~Owns(u) /\ ~Gone(imp[f])  BY <4>2, <2>1 DEF Owns, Gone
        <5> QED  BY <4>1, <4>2, <5>1, <5>2 DEF Claims, Owns, Waited, Copying
      <4>3. CASE job[u].f # f
        <5>1. imp'[job[u].f] = imp[job[u].f]  BY <4>1, <4>3, <2>1
        <5> QED  BY <4>1, <5>1, <2>1 DEF Claims, Owns, Waited, Copying
      <4> QED  BY <4>2, <4>3
    <3> QED  BY <3>1, <3>2
  <2> QED  BY <2>4, <2>5 DEF Claims
<1>31. ASSUME NEW t \in Token, JobStartDoes(t)
      PROVE  Claims'
  <2>1. job[t].live
    <3>1. job[t].pc = "start"  BY <1>31 DEF JobStartDoes
    <3> QED  BY <3>1 DEF Claims, Copying
  <2>2. imp' = imp /\ file' = file /\ tick' = tick
    BY <1>31 DEF JobStartDoes
  <2>3. /\ job'[t].f = job[t].f /\ \A u \in Token \ {t} : job'[u] = job[u]
        /\ \/ job'[t].pc = "over" /\ ~job'[t].live
           \/ job'[t].pc \in {"resolve", "hash"} /\ job'[t].live = job[t].live
    BY <1>31 DEF JobStartDoes, JobIs
  <2>4. /\ job'[t].pc \notin {"free", "dup"}
        /\ job'[t].live => job[t].live /\ job'[t].pc # "over"
        /\ job'[t].pc # "over" /\ ~job'[t].live => job'[t].pc \in {"copy", "temp", "placed"}
    BY <2>1, <2>3
  <2> QED  BY <2>2, <2>3, <2>4, ClaimsOfAJob
<1>32. ASSUME NEW t \in Token, ResolveDoes(t)
      PROVE  Claims'
  BY <1>32, <1>1, <1>2, <1>3, <1>4 DEF ResolveDoes, ImpIs, JobIs, RowIs, Settles, Claims, Gone,
    InFlight, Rows, Exists, Owns, Waited, Copying
<1>33. ASSUME NEW t \in Token, CopyDoes(t)
      PROVE  Claims'
  BY <1>33, <1>1, <1>2, <1>3, <1>4 DEF CopyDoes, JobIs, Late, Claims, Gone, InFlight, Rows,
    Exists, Owns, Waited, Copying
<1>34. ASSUME NEW t \in Token, CancelCopyDoes(t)
      PROVE  Claims'
  BY <1>34, <1>1, <1>2, <1>3, <1>4 DEF CancelCopyDoes, JobIs, Claims, Gone, InFlight, Rows,
    Exists, Owns, Waited, Copying
<1>35. ASSUME NEW t \in Token, PublishDoes(t)
      PROVE  Claims'
  BY <1>35, <1>1, <1>2, <1>3, <1>4 DEF PublishDoes, JobIs, Late, Claims, Gone, InFlight, Rows,
    Exists, Owns, Waited, Copying
<1>36. ASSUME NEW t \in Token, RecordDoes(t)
      PROVE  Claims'
  BY <1>36, <1>1, <1>2, <1>3, <1>4 DEF RecordDoes, JobIs, Late, Claims, Gone, InFlight, Rows,
    Exists, Owns, Waited, Copying
<1>37. ASSUME NEW t \in Token, RecordCutDoes(t)
      PROVE  Claims'
  BY <1>37, <1>1, <1>2, <1>3, <1>4 DEF RecordCutDoes, JobIs, Claims, Gone, InFlight, Rows,
    Exists, Owns, Waited, Copying
<1>38. ASSUME NEW t \in Token, HashDoes(t)
      PROVE  Claims'
  <2>1. job[t].live
    BY <1>38 DEF HashDoes, Claims, Copying
  <2>2. imp' = imp /\ file' = file /\ tick' = tick
    BY <1>38 DEF HashDoes
  <2>3. /\ job'[t].f = job[t].f /\ \A u \in Token \ {t} : job'[u] = job[u]
        /\ job'[t].pc = "hashed" /\ job'[t].live = job[t].live
    BY <1>38 DEF HashDoes, JobIs
  <2> QED  BY <2>1, <2>2, <2>3, ClaimsOfAJob
<1>39. ASSUME NEW t \in Token, RefuseEmptyDoes(t)
      PROVE  Claims'
  BY <1>39, <1>1, <1>2, <1>3, <1>4 DEF RefuseEmptyDoes, ImpIs, JobIs, RowIs, Settles, removeNow,
    Claims, Gone, InFlight, Rows, Exists, Owns, Waited, Copying
<1>40. ASSUME NEW t \in Token, RenameDoes(t)
      PROVE  Claims'
  BY <1>40, <1>1, <1>2, <1>3, <1>4 DEF RenameDoes, JobIs, Claims, Gone, InFlight, Rows, Exists,
    Owns, Waited, Copying
<1>41. ASSUME NEW t \in Token, RecordHashDoes(t)
      PROVE  Claims'
  BY <1>41, <1>1, <1>2, <1>3, <1>4 DEF RecordHashDoes, JobIs, Claims, Gone, InFlight, Rows,
    Exists, Owns, Waited, Copying
<1>42. ASSUME NEW t \in Token, FinalizeDoes(t)
      PROVE  Claims'
  <2>1. CASE ~Owns(t)
    <3>1. /\ job'[t].pc = "over" /\ ~job'[t].live /\ job'[t].f = job[t].f
          /\ \A u \in Token \ {t} : job'[u] = job[u]
      BY <1>42, <2>1 DEF FinalizeDoes, JobIs
    <3>2. imp' = imp /\ file' = file /\ tick' = tick
      BY <1>42, <2>1 DEF FinalizeDoes
    <3>3. \A f \in File, u \in Token : imp'[f].token = u => job'[u].pc # "free" /\ job'[u].f = f
      BY <3>1, <3>2 DEF Claims
    <3>4. ASSUME NEW u \in Token
          PROVE  /\ job'[u].live => job'[u].pc \notin {"free", "over"}
                 /\ job'[u].pc = "dup" => ~Owns(u)'
                 /\ job'[u].pc \notin {"free", "over"} /\ ~job'[u].live => (u \in Copying)'
                 /\ Waited(u)' => /\ tick'.on /\ file'[job'[u].f].state = "none"
                                  /\ Owns(u)' \/ Gone(imp'[job'[u].f])
      <4>1. CASE u = t  BY <4>1, <3>1 DEF Waited
      <4>2. CASE u # t
        <5>1. job'[u] = job[u]  BY <4>2, <3>1
        <5> QED  BY <5>1, <3>2 DEF Claims, Owns, Waited, Copying
      <4> QED  BY <4>1, <4>2
    <3> QED  BY <3>3, <3>4 DEF Claims
  <2>2. CASE Owns(t)
    <3> DEFINE c == job[t].f
    <3>1. c \in File /\ imp[c].state = "active" /\ imp[c].token = t
      BY <2>2, <1>2 DEF Owns
    <3>2. job[t].pc = "final" /\ job[t].live
      BY <1>42 DEF FinalizeDoes, Claims, Copying
    <3>3. /\ imp'[c].state \in {"duplicate", "added"} /\ imp'[c].token = 0
          /\ \A g \in File \ {c} : imp'[g] = imp[g] /\ file'[g] = file[g]
          /\ tick' = tick
      BY <1>42, <2>2 DEF FinalizeDoes, ImpIs, RowIs, FileIs
    <3>4. job'[t].f = c /\ \A u \in Token \ {t} : job'[u] = job[u]
      BY <1>42, <2>2 DEF FinalizeDoes, JobIs
    <3>5. \/ job'[t].pc = "over" /\ ~job'[t].live
          \/ job'[t].pc = "dup" /\ job'[t].live /\ file' = file /\ imp'[c].state = "duplicate"
      BY <1>42, <2>2, <3>2 DEF FinalizeDoes, ImpIs, RowIs, JobIs
    <3>6. \A u \in Token \ {t} : job[u].f = c => ~Owns(u) /\ ~Waited(u)
      BY <3>1 DEF Claims, Owns, Gone
    <3> HIDE DEF c
    <3>7. \A f \in File, u \in Token : imp'[f].token = u => job'[u].pc # "free" /\ job'[u].f = f
      <4> SUFFICES ASSUME NEW f \in File, NEW u \in Token, imp'[f].token = u
                   PROVE  job'[u].pc # "free" /\ job'[u].f = f
        OBVIOUS
      <4>1. f # c  BY <3>3, <1>4
      <4>2. imp[f].token = u  BY <4>1, <3>3
      <4>3. job[u].pc # "free" /\ job[u].f = f  BY <4>2 DEF Claims
      <4>4. u # t  BY <4>1, <4>3 DEF c
      <4> QED  BY <4>3, <4>4, <3>4
    <3>8. ASSUME NEW u \in Token, u # t
          PROVE  /\ job'[u].live => job'[u].pc \notin {"free", "over"}
                 /\ job'[u].pc = "dup" => ~Owns(u)'
                 /\ job'[u].pc \notin {"free", "over"} /\ ~job'[u].live => (u \in Copying)'
                 /\ Waited(u)' => /\ tick'.on /\ file'[job'[u].f].state = "none"
                                  /\ Owns(u)' \/ Gone(imp'[job'[u].f])
      <4>1. job'[u] = job[u] /\ job[u].f \in File  BY <3>4, <3>8, <1>2
      <4>2. CASE job[u].f = c
        BY <4>1, <4>2, <3>3, <3>6, <3>8 DEF Claims, Owns, Waited, Copying
      <4>3. CASE job[u].f # c
        <5>1. imp'[job[u].f] = imp[job[u].f] /\ file'[job[u].f] = file[job[u].f]
          BY <4>1, <4>3, <3>3
        <5> QED  BY <4>1, <5>1, <3>3 DEF Claims, Owns, Waited, Copying
      <4> QED  BY <4>2, <4>3
    <3>9. /\ job'[t].live => job'[t].pc \notin {"free", "over"}
          /\ job'[t].pc = "dup" => ~Owns(t)'
          /\ job'[t].pc \notin {"free", "over"} /\ ~job'[t].live => (t \in Copying)'
          /\ Waited(t)' => /\ tick'.on /\ file'[job'[t].f].state = "none"
                           /\ Owns(t)' \/ Gone(imp'[job'[t].f])
      <4>1. tick.on /\ file[c].state = "none"  BY <3>2 DEF Claims, Waited, c
      <4>2. imp'[c].state # "active"  BY <3>3
      <4> QED  BY <3>3, <3>4, <3>5, <4>1, <4>2 DEF Owns, Waited, Gone
    <3> QED  BY <3>7, <3>8, <3>9 DEF Claims
  <2>3. QED
    BY <2>1, <2>2
<1>43. ASSUME NEW t \in Token, CleanDuplicateDoes(t)
      PROVE  Claims'
  BY <1>43, <1>1, <1>2, <1>3, <1>4 DEF CleanDuplicateDoes, JobIs, removeNow, Claims, Gone,
    InFlight, Rows, Exists, Owns, Waited, Copying
<1>44. ASSUME NEW t \in Token, JobFailsDoes(t)
      PROVE  Claims'
  BY <1>44, <1>1, <1>2, <1>3, <1>4 DEF JobFailsDoes, ImpIs, JobIs, RowIs, Settles, Claims, Gone,
    InFlight, Rows, Exists, Owns, Waited, Copying
<1>45. ASSUME NEW t \in Token, CopyFindsNothingDoes(t)
      PROVE  Claims'
  BY <1>45, <1>1, <1>2, <1>3, <1>4 DEF CopyFindsNothingDoes, ImpIs, JobIs, RowIs, Settles,
    Claims, Gone, InFlight, Rows, Exists, Owns, Waited, Copying
<1>46. ASSUME NEW f \in File, GiveUpDoes(f)
      PROVE  Claims'
  BY <1>46, <1>1, <1>2, <1>3, <1>4 DEF GiveUpDoes, ImpIs, RowIs, Claims, Gone, InFlight, Rows,
    Exists, Owns, Waited, Copying
<1>47. ASSUME NEW f \in File, RependDoes(f)
      PROVE  Claims'
  BY <1>47, <1>1, <1>2, <1>3, <1>4 DEF RependDoes, ImpIs, RowIs, Claims, Gone, InFlight, Rows,
    Exists, Owns, Waited, Copying
<1>48. ASSUME NEW f \in File, EditSourceDoes(f)
      PROVE  Claims'
  BY <1>48, <1>1, <1>2, <1>3, <1>4 DEF EditSourceDoes, Claims, Gone, InFlight, Rows, Exists,
    Owns, Waited, Copying
<1>49. ASSUME AbortDoes
      PROVE  Claims'
  BY <1>49, <1>1, <1>2, <1>3, <1>4 DEF AbortDoes, Claims, Gone, InFlight, Rows, Exists, Owns,
    Waited, Copying
<1>50. ASSUME KillDoes
      PROVE  Claims'
  BY <1>50, <1>1, <1>2, <1>3, <1>4 DEF KillDoes, EvictIs, Late, ScanIs, Claims, Gone, InFlight,
    Rows, Exists, Owns, Waited, Copying
<1>51. ASSUME DropReadDoes
      PROVE  Claims'
  BY <1>51, <1>1, <1>2, <1>3, <1>4 DEF DropReadDoes, Claims, Gone, InFlight, Rows, Exists, Owns,
    Waited, Copying
<1>52. ASSUME failImportDoes
      PROVE  Claims'
  BY <1>52, <1>1, <1>2, <1>3, <1>4 DEF failImportDoes, RowIs, Claims, Gone, InFlight, Rows,
    Exists, Owns, Waited, Copying
<1>53. ASSUME NEW f \in File, NEW y \in Type, DropBytesDoes(f, y)
      PROVE  Claims'
  BY <1>53, <1>1, <1>2, <1>3, <1>4 DEF DropBytesDoes, removeNow, Claims, Gone, InFlight, Rows,
    Exists, Owns, Waited, Copying
<1>54. ASSUME deleteDirectoryDoes
      PROVE  Claims'
  BY <1>54, <1>1, <1>2, <1>3, <1>4 DEF deleteDirectoryDoes, Claims, Gone, InFlight, Rows,
    Exists, Owns, Waited, Copying
<1>55. QED
  BY <1>5, <1>6, <1>7, <1>8, <1>9, <1>10, <1>11, <1>12, <1>13, <1>14, <1>15, <1>16, <1>17,
    <1>18, <1>19, <1>20, <1>21, <1>22, <1>23, <1>24, <1>25, <1>26, <1>27, <1>28, <1>29, <1>30,
    <1>31, <1>32, <1>33, <1>34, <1>35, <1>36, <1>37, <1>38, <1>39, <1>40, <1>41, <1>42, <1>43,
    <1>44, <1>45, <1>46, <1>47, <1>48, <1>49, <1>50, <1>51, <1>52, <1>53, <1>54 DEF Effect

\* Rows and files.
LEMMA RowsKept ==
  ASSUME Types, Types', Claims, Rows, Effect
  PROVE  Rows'
PROOF
<1>1. file \in [File -> FileRow] /\ imp \in [File -> ImportRow] /\ job \in [Token -> JobRow] /\
  tick \in TickState
  BY DEF Types
<1>2. \A t \in Token : job[t].f \in File /\ job[t].type \in Type /\ job[t].got \in Bytes
  BY DEF Types, JobRow
<1>3. \A f \in File : imp[f].state = "active" <=> imp[f].token # 0
  BY DEF Types, Paired
<1>4. 0 \notin Token /\ Importing \subseteq File
  BY ImportsAssumption DEF Token
<1>5. ASSUME NEW f \in File, GetFileUriDoes(f)
      PROVE  Rows'
  BY <1>5, <1>1, <1>2, <1>3, <1>4 DEF GetFileUriDoes, getFsFileUri, Claims, Gone, InFlight,
    Rows, Exists, Owns, Waited, Copying
<1>6. ASSUME NEW f \in File, DownloadStartDoes(f)
      PROVE  Rows'
  BY <1>6, <1>1, <1>2, <1>3, <1>4 DEF DownloadStartDoes, DlIs, Claims, Gone, InFlight, Rows,
    Exists, Owns, Waited, Copying
<1>7. ASSUME NEW f \in File, DownloadOpensDoes(f)
      PROVE  Rows'
  BY <1>7, <1>1, <1>2, <1>3, <1>4 DEF DownloadOpensDoes, DlIs, Claims, Gone, InFlight, Rows,
    Exists, Owns, Waited, Copying
<1>8. ASSUME NEW f \in File, DownloadArrivesDoes(f)
      PROVE  Rows'
  BY <1>8, <1>1, <1>2, <1>3, <1>4 DEF DownloadArrivesDoes, DlIs, Claims, Gone, InFlight, Rows,
    Exists, Owns, Waited, Copying
<1>9. ASSUME NEW f \in File, DownloadRecordsDoes(f)
      PROVE  Rows'
  BY <1>9, <1>1, <1>2, <1>3, <1>4 DEF DownloadRecordsDoes, DlIs, Recorded, Claims, Gone,
    InFlight, Rows, Exists, Owns, Waited, Copying
<1>10. ASSUME NEW f \in File, DownloadStopsDoes(f)
      PROVE  Rows'
  BY <1>10, <1>1, <1>2, <1>3, <1>4 DEF DownloadStopsDoes, DlIs, Claims, Gone, InFlight, Rows,
    Exists, Owns, Waited, Copying
<1>11. ASSUME NEW f \in File, EditDoes(f)
      PROVE  Rows'
  BY <1>11, <1>1, <1>2, <1>3, <1>4 DEF EditDoes, FileIs, Claims, Gone, InFlight, Rows, Exists,
    Owns, Waited, Copying
<1>12. ASSUME NEW f \in File, TombstoneDoes(f)
      PROVE  Rows'
  BY <1>12, <1>1, <1>2, <1>3, <1>4 DEF TombstoneDoes, FileIs, Claims, Gone, InFlight, Rows,
    Exists, Owns, Waited, Copying
<1>13. ASSUME NEW f \in File, UploadDoes(f)
      PROVE  Rows'
  BY <1>13, <1>1, <1>2, <1>3, <1>4 DEF UploadDoes, Claims, Gone, InFlight, Rows, Exists, Owns,
    Waited, Copying
<1>14. ASSUME NEW f \in File, NEW y \in Type, RetypeDoes(f, y)
      PROVE  Rows'
  BY <1>14, <1>1, <1>2, <1>3, <1>4 DEF RetypeDoes, FileIs, Recorded, Claims, Gone, InFlight,
    Rows, Exists, Owns, Waited, Copying
<1>15. ASSUME NEW f \in File, NEW y \in Type, removeTombstonedDoes(f, y)
      PROVE  Rows'
  BY <1>15, <1>1, <1>2, <1>3, <1>4 DEF removeTombstonedDoes, removeNow, Claims, Gone, InFlight,
    Rows, Exists, Owns, Waited, Copying
<1>16. ASSUME ScanJudgeDoes
      PROVE  Rows'
  BY <1>16, <1>1, <1>2, <1>3, <1>4 DEF ScanJudgeDoes, ScanIs, Claims, Gone, InFlight, Rows,
    Exists, Owns, Waited, Copying
<1>17. ASSUME RemoveTempDoes
      PROVE  Rows'
  BY <1>17, <1>1, <1>2, <1>3, <1>4 DEF RemoveTempDoes, ScanIs, Claims, Gone, InFlight, Rows,
    Exists, Owns, Waited, Copying
<1>18. ASSUME NEW f \in File, NEW y \in Type, ScanEntryDoes(f, y)
      PROVE  Rows'
  BY <1>18, <1>1, <1>2, <1>3, <1>4 DEF ScanEntryDoes, Misjudged, Recorded, ScanIs, ScansOn,
    getFsFileUri, removeNow, Claims, Gone, InFlight, Rows, Exists, Owns, Waited, Copying
<1>19. ASSUME ScanEndDoes
      PROVE  Rows'
  BY <1>19, <1>1, <1>2, <1>3, <1>4 DEF ScanEndDoes, ScanIs, Claims, Gone, InFlight, Rows,
    Exists, Owns, Waited, Copying
<1>20. ASSUME EvictReadDoes
      PROVE  Rows'
  BY <1>20, <1>1, <1>2, <1>3, <1>4 DEF EvictReadDoes, EvictIs, Claims, Gone, InFlight, Rows,
    Exists, Owns, Waited, Copying
<1>21. ASSUME NEW f \in File, NEW y \in Type, EvictCountDoes(f, y)
      PROVE  Rows'
  BY <1>21, <1>1, <1>2, <1>3, <1>4 DEF EvictCountDoes, EvictIs, Claims, Gone, InFlight, Rows,
    Exists, Owns, Waited, Copying
<1>22. ASSUME NEW f \in File, NEW y \in Type, EvictTryDoes(f, y)
      PROVE  Rows'
  BY <1>22, <1>1, <1>2, <1>3, <1>4 DEF EvictTryDoes, EvictIs, Claims, Gone, InFlight, Rows,
    Exists, Owns, Waited, Copying
<1>23. ASSUME NEW f \in File, NEW y \in Type, EvictRowDoes(f, y)
      PROVE  Rows'
  BY <1>23, <1>1, <1>2, <1>3, <1>4 DEF EvictRowDoes, EvictIs, Claims, Gone, InFlight, Rows,
    Exists, Owns, Waited, Copying
<1>24. ASSUME EvictEndDoes
      PROVE  Rows'
  BY <1>24, <1>1, <1>2, <1>3, <1>4 DEF EvictEndDoes, EvictIs, Claims, Gone, InFlight, Rows,
    Exists, Owns, Waited, Copying
<1>25. ASSUME NEW f \in File, NEW y \in Type, NEW z \in Type \union {"none"}, retypeFileDoes(f,
  y, z)
      PROVE  Rows'
  BY <1>25, <1>1, <1>2, <1>3, <1>4 DEF retypeFileDoes, FileIs, Recorded, Claims, Gone, InFlight,
    Rows, Exists, Owns, Waited, Copying
<1>26. ASSUME SwitchIndexerDoes
      PROVE  Rows'
  BY <1>26, <1>1, <1>2, <1>3, <1>4 DEF SwitchIndexerDoes, Claims, Gone, InFlight, Rows, Exists,
    Owns, Waited, Copying
<1>27. ASSUME ScanListDoes
      PROVE  Rows'
  BY <1>27, <1>1, <1>2, <1>3, <1>4 DEF ScanListDoes, ScanIs, Claims, Gone, InFlight, Rows,
    Exists, Owns, Waited, Copying
<1>28. ASSUME TickBeginDoes
      PROVE  Rows'
  BY <1>28, <1>1, <1>2, <1>3, <1>4 DEF TickBeginDoes, RowIs, Claims, Gone, InFlight, Rows,
    Exists, Owns, Waited, Copying
<1>29. ASSUME TickDoes
      PROVE  Rows'
  BY <1>29, <1>1, <1>2, <1>3, <1>4 DEF TickDoes, Claims, Gone, InFlight, Rows, Exists, Owns,
    Waited, Copying
<1>30. ASSUME NEW f \in File, NEW t \in Token, ClaimDoes(f, t)
      PROVE  Rows'
  BY <1>30, <1>1, <1>2, <1>3, <1>4 DEF ClaimDoes, ImpIs, RowIs, Claims, Gone, InFlight, Rows,
    Exists, Owns, Waited, Copying
<1>31. ASSUME NEW t \in Token, JobStartDoes(t)
      PROVE  Rows'
  BY <1>31, <1>1, <1>2, <1>3, <1>4 DEF JobStartDoes, JobIs, Claims, Gone, InFlight, Rows,
    Exists, Owns, Waited, Copying
<1>32. ASSUME NEW t \in Token, ResolveDoes(t)
      PROVE  Rows'
  BY <1>32, <1>1, <1>2, <1>3, <1>4 DEF ResolveDoes, ImpIs, JobIs, RowIs, Settles, Claims, Gone,
    InFlight, Rows, Exists, Owns, Waited, Copying
<1>33. ASSUME NEW t \in Token, CopyDoes(t)
      PROVE  Rows'
  BY <1>33, <1>1, <1>2, <1>3, <1>4 DEF CopyDoes, JobIs, Late, Claims, Gone, InFlight, Rows,
    Exists, Owns, Waited, Copying
<1>34. ASSUME NEW t \in Token, CancelCopyDoes(t)
      PROVE  Rows'
  BY <1>34, <1>1, <1>2, <1>3, <1>4 DEF CancelCopyDoes, JobIs, Claims, Gone, InFlight, Rows,
    Exists, Owns, Waited, Copying
<1>35. ASSUME NEW t \in Token, PublishDoes(t)
      PROVE  Rows'
  BY <1>35, <1>1, <1>2, <1>3, <1>4 DEF PublishDoes, JobIs, Late, Claims, Gone, InFlight, Rows,
    Exists, Owns, Waited, Copying
<1>36. ASSUME NEW t \in Token, RecordDoes(t)
      PROVE  Rows'
  BY <1>36, <1>1, <1>2, <1>3, <1>4 DEF RecordDoes, JobIs, Late, Claims, Gone, InFlight, Rows,
    Exists, Owns, Waited, Copying
<1>37. ASSUME NEW t \in Token, RecordCutDoes(t)
      PROVE  Rows'
  BY <1>37, <1>1, <1>2, <1>3, <1>4 DEF RecordCutDoes, JobIs, Claims, Gone, InFlight, Rows,
    Exists, Owns, Waited, Copying
<1>38. ASSUME NEW t \in Token, HashDoes(t)
      PROVE  Rows'
  BY <1>38, <1>1, <1>2, <1>3, <1>4 DEF HashDoes, JobIs, Claims, Gone, InFlight, Rows, Exists,
    Owns, Waited, Copying
<1>39. ASSUME NEW t \in Token, RefuseEmptyDoes(t)
      PROVE  Rows'
  BY <1>39, <1>1, <1>2, <1>3, <1>4 DEF RefuseEmptyDoes, ImpIs, JobIs, RowIs, Settles, removeNow,
    Claims, Gone, InFlight, Rows, Exists, Owns, Waited, Copying
<1>40. ASSUME NEW t \in Token, RenameDoes(t)
      PROVE  Rows'
  BY <1>40, <1>1, <1>2, <1>3, <1>4 DEF RenameDoes, JobIs, Claims, Gone, InFlight, Rows, Exists,
    Owns, Waited, Copying
<1>41. ASSUME NEW t \in Token, RecordHashDoes(t)
      PROVE  Rows'
  BY <1>41, <1>1, <1>2, <1>3, <1>4 DEF RecordHashDoes, JobIs, Claims, Gone, InFlight,
    Rows, Exists, Owns, Waited, Copying
<1>42. ASSUME NEW t \in Token, FinalizeDoes(t)
      PROVE  Rows'
  BY <1>42, <1>1, <1>2, <1>3, <1>4 DEF FinalizeDoes, FileIs, ImpIs, JobIs, RowIs, Claims, Gone,
    InFlight, Rows, Exists, Owns, Waited, Copying
<1>43. ASSUME NEW t \in Token, CleanDuplicateDoes(t)
      PROVE  Rows'
  BY <1>43, <1>1, <1>2, <1>3, <1>4 DEF CleanDuplicateDoes, JobIs, removeNow, Claims, Gone,
    InFlight, Rows, Exists, Owns, Waited, Copying
<1>44. ASSUME NEW t \in Token, JobFailsDoes(t)
      PROVE  Rows'
  BY <1>44, <1>1, <1>2, <1>3, <1>4 DEF JobFailsDoes, ImpIs, JobIs, RowIs, Settles, Claims, Gone,
    InFlight, Rows, Exists, Owns, Waited, Copying
<1>45. ASSUME NEW t \in Token, CopyFindsNothingDoes(t)
      PROVE  Rows'
  BY <1>45, <1>1, <1>2, <1>3, <1>4 DEF CopyFindsNothingDoes, ImpIs, JobIs, RowIs, Settles,
    Claims, Gone, InFlight, Rows, Exists, Owns, Waited, Copying
<1>46. ASSUME NEW f \in File, GiveUpDoes(f)
      PROVE  Rows'
  BY <1>46, <1>1, <1>2, <1>3, <1>4 DEF GiveUpDoes, ImpIs, RowIs, Claims, Gone, InFlight, Rows,
    Exists, Owns, Waited, Copying
<1>47. ASSUME NEW f \in File, RependDoes(f)
      PROVE  Rows'
  BY <1>47, <1>1, <1>2, <1>3, <1>4 DEF RependDoes, ImpIs, RowIs, Claims, Gone, InFlight, Rows,
    Exists, Owns, Waited, Copying
<1>48. ASSUME NEW f \in File, EditSourceDoes(f)
      PROVE  Rows'
  BY <1>48, <1>1, <1>2, <1>3, <1>4 DEF EditSourceDoes, Claims, Gone, InFlight, Rows, Exists,
    Owns, Waited, Copying
<1>49. ASSUME AbortDoes
      PROVE  Rows'
  BY <1>49, <1>1, <1>2, <1>3, <1>4 DEF AbortDoes, Claims, Gone, InFlight, Rows, Exists, Owns,
    Waited, Copying
<1>50. ASSUME KillDoes
      PROVE  Rows'
  BY <1>50, <1>1, <1>2, <1>3, <1>4 DEF KillDoes, EvictIs, Late, ScanIs, Claims, Gone, InFlight,
    Rows, Exists, Owns, Waited, Copying
<1>51. ASSUME DropReadDoes
      PROVE  Rows'
  BY <1>51, <1>1, <1>2, <1>3, <1>4 DEF DropReadDoes, Claims, Gone, InFlight, Rows, Exists, Owns,
    Waited, Copying
<1>52. ASSUME failImportDoes
      PROVE  Rows'
  BY <1>52, <1>1, <1>2, <1>3, <1>4 DEF failImportDoes, RowIs, Claims, Gone, InFlight, Rows,
    Exists, Owns, Waited, Copying
<1>53. ASSUME NEW f \in File, NEW y \in Type, DropBytesDoes(f, y)
      PROVE  Rows'
  BY <1>53, <1>1, <1>2, <1>3, <1>4 DEF DropBytesDoes, removeNow, Claims, Gone, InFlight, Rows,
    Exists, Owns, Waited, Copying
<1>54. ASSUME deleteDirectoryDoes
      PROVE  Rows'
  BY <1>54, <1>1, <1>2, <1>3, <1>4 DEF deleteDirectoryDoes, Claims, Gone, InFlight, Rows,
    Exists, Owns, Waited, Copying
<1>55. QED
  BY <1>5, <1>6, <1>7, <1>8, <1>9, <1>10, <1>11, <1>12, <1>13, <1>14, <1>15, <1>16, <1>17,
    <1>18, <1>19, <1>20, <1>21, <1>22, <1>23, <1>24, <1>25, <1>26, <1>27, <1>28, <1>29, <1>30,
    <1>31, <1>32, <1>33, <1>34, <1>35, <1>36, <1>37, <1>38, <1>39, <1>40, <1>41, <1>42, <1>43,
    <1>44, <1>45, <1>46, <1>47, <1>48, <1>49, <1>50, <1>51, <1>52, <1>53, <1>54 DEF Effect

\* Added means a file.
LEMMA AddedKept ==
  ASSUME Types, Types', Claims, Rows, AddedMeansFile, Effect
  PROVE  AddedMeansFile'
PROOF
<1>1. file \in [File -> FileRow] /\ imp \in [File -> ImportRow] /\ job \in [Token -> JobRow] /\
  tick \in TickState
  BY DEF Types
<1>2. \A t \in Token : job[t].f \in File /\ job[t].type \in Type /\ job[t].got \in Bytes
  BY DEF Types, JobRow
<1>3. \A f \in File : imp[f].state = "active" <=> imp[f].token # 0
  BY DEF Types, Paired
<1>4. 0 \notin Token /\ Importing \subseteq File
  BY ImportsAssumption DEF Token
<1>5. ASSUME NEW f \in File, GetFileUriDoes(f)
      PROVE  AddedMeansFile'
  BY <1>5, <1>1, <1>2, <1>3, <1>4 DEF GetFileUriDoes, getFsFileUri, Claims, Gone, InFlight,
    Rows, Exists, AddedMeansFile, Owns, Waited, Copying
<1>6. ASSUME NEW f \in File, DownloadStartDoes(f)
      PROVE  AddedMeansFile'
  BY <1>6, <1>1, <1>2, <1>3, <1>4 DEF DownloadStartDoes, DlIs, Claims, Gone, InFlight, Rows,
    Exists, AddedMeansFile, Owns, Waited, Copying
<1>7. ASSUME NEW f \in File, DownloadOpensDoes(f)
      PROVE  AddedMeansFile'
  BY <1>7, <1>1, <1>2, <1>3, <1>4 DEF DownloadOpensDoes, DlIs, Claims, Gone, InFlight, Rows,
    Exists, AddedMeansFile, Owns, Waited, Copying
<1>8. ASSUME NEW f \in File, DownloadArrivesDoes(f)
      PROVE  AddedMeansFile'
  BY <1>8, <1>1, <1>2, <1>3, <1>4 DEF DownloadArrivesDoes, DlIs, Claims, Gone, InFlight, Rows,
    Exists, AddedMeansFile, Owns, Waited, Copying
<1>9. ASSUME NEW f \in File, DownloadRecordsDoes(f)
      PROVE  AddedMeansFile'
  BY <1>9, <1>1, <1>2, <1>3, <1>4 DEF DownloadRecordsDoes, DlIs, Recorded, Claims, Gone,
    InFlight, Rows, Exists, AddedMeansFile, Owns, Waited, Copying
<1>10. ASSUME NEW f \in File, DownloadStopsDoes(f)
      PROVE  AddedMeansFile'
  BY <1>10, <1>1, <1>2, <1>3, <1>4 DEF DownloadStopsDoes, DlIs, Claims, Gone, InFlight, Rows,
    Exists, AddedMeansFile, Owns, Waited, Copying
<1>11. ASSUME NEW f \in File, EditDoes(f)
      PROVE  AddedMeansFile'
  BY <1>11, <1>1, <1>2, <1>3, <1>4 DEF EditDoes, FileIs, Claims, Gone, InFlight, Rows, Exists,
    AddedMeansFile, Owns, Waited, Copying
<1>12. ASSUME NEW f \in File, TombstoneDoes(f)
      PROVE  AddedMeansFile'
  BY <1>12, <1>1, <1>2, <1>3, <1>4 DEF TombstoneDoes, FileIs, Claims, Gone, InFlight, Rows,
    Exists, AddedMeansFile, Owns, Waited, Copying
<1>13. ASSUME NEW f \in File, UploadDoes(f)
      PROVE  AddedMeansFile'
  BY <1>13, <1>1, <1>2, <1>3, <1>4 DEF UploadDoes, Claims, Gone, InFlight, Rows, Exists,
    AddedMeansFile, Owns, Waited, Copying
<1>14. ASSUME NEW f \in File, NEW y \in Type, RetypeDoes(f, y)
      PROVE  AddedMeansFile'
  BY <1>14, <1>1, <1>2, <1>3, <1>4 DEF RetypeDoes, FileIs, Recorded, Claims, Gone, InFlight,
    Rows, Exists, AddedMeansFile, Owns, Waited, Copying
<1>15. ASSUME NEW f \in File, NEW y \in Type, removeTombstonedDoes(f, y)
      PROVE  AddedMeansFile'
  BY <1>15, <1>1, <1>2, <1>3, <1>4 DEF removeTombstonedDoes, removeNow, Claims, Gone, InFlight,
    Rows, Exists, AddedMeansFile, Owns, Waited, Copying
<1>16. ASSUME ScanJudgeDoes
      PROVE  AddedMeansFile'
  BY <1>16, <1>1, <1>2, <1>3, <1>4 DEF ScanJudgeDoes, ScanIs, Claims, Gone, InFlight, Rows,
    Exists, AddedMeansFile, Owns, Waited, Copying
<1>17. ASSUME RemoveTempDoes
      PROVE  AddedMeansFile'
  BY <1>17, <1>1, <1>2, <1>3, <1>4 DEF RemoveTempDoes, ScanIs, Claims, Gone, InFlight, Rows,
    Exists, AddedMeansFile, Owns, Waited, Copying
<1>18. ASSUME NEW f \in File, NEW y \in Type, ScanEntryDoes(f, y)
      PROVE  AddedMeansFile'
  BY <1>18, <1>1, <1>2, <1>3, <1>4, ZenonT(60) DEF ScanEntryDoes, Misjudged, Recorded, ScanIs,
    ScansOn, getFsFileUri, removeNow, Claims, Gone, InFlight, Rows, Exists, AddedMeansFile, Owns,
    Waited, Copying
<1>19. ASSUME ScanEndDoes
      PROVE  AddedMeansFile'
  BY <1>19, <1>1, <1>2, <1>3, <1>4 DEF ScanEndDoes, ScanIs, Claims, Gone, InFlight, Rows,
    Exists, AddedMeansFile, Owns, Waited, Copying
<1>20. ASSUME EvictReadDoes
      PROVE  AddedMeansFile'
  BY <1>20, <1>1, <1>2, <1>3, <1>4 DEF EvictReadDoes, EvictIs, Claims, Gone, InFlight, Rows,
    Exists, AddedMeansFile, Owns, Waited, Copying
<1>21. ASSUME NEW f \in File, NEW y \in Type, EvictCountDoes(f, y)
      PROVE  AddedMeansFile'
  BY <1>21, <1>1, <1>2, <1>3, <1>4 DEF EvictCountDoes, EvictIs, Claims, Gone, InFlight, Rows,
    Exists, AddedMeansFile, Owns, Waited, Copying
<1>22. ASSUME NEW f \in File, NEW y \in Type, EvictTryDoes(f, y)
      PROVE  AddedMeansFile'
  BY <1>22, <1>1, <1>2, <1>3, <1>4 DEF EvictTryDoes, EvictIs, Claims, Gone, InFlight, Rows,
    Exists, AddedMeansFile, Owns, Waited, Copying
<1>23. ASSUME NEW f \in File, NEW y \in Type, EvictRowDoes(f, y)
      PROVE  AddedMeansFile'
  BY <1>23, <1>1, <1>2, <1>3, <1>4 DEF EvictRowDoes, EvictIs, Claims, Gone, InFlight, Rows,
    Exists, AddedMeansFile, Owns, Waited, Copying
<1>24. ASSUME EvictEndDoes
      PROVE  AddedMeansFile'
  BY <1>24, <1>1, <1>2, <1>3, <1>4 DEF EvictEndDoes, EvictIs, Claims, Gone, InFlight, Rows,
    Exists, AddedMeansFile, Owns, Waited, Copying
<1>25. ASSUME NEW f \in File, NEW y \in Type, NEW z \in Type \union {"none"}, retypeFileDoes(f,
  y, z)
      PROVE  AddedMeansFile'
  BY <1>25, <1>1, <1>2, <1>3, <1>4 DEF retypeFileDoes, FileIs, Recorded, Claims, Gone, InFlight,
    Rows, Exists, AddedMeansFile, Owns, Waited, Copying
<1>26. ASSUME SwitchIndexerDoes
      PROVE  AddedMeansFile'
  BY <1>26, <1>1, <1>2, <1>3, <1>4 DEF SwitchIndexerDoes, Claims, Gone, InFlight, Rows, Exists,
    AddedMeansFile, Owns, Waited, Copying
<1>27. ASSUME ScanListDoes
      PROVE  AddedMeansFile'
  BY <1>27, <1>1, <1>2, <1>3, <1>4 DEF ScanListDoes, ScanIs, Claims, Gone, InFlight, Rows,
    Exists, AddedMeansFile, Owns, Waited, Copying
<1>28. ASSUME TickBeginDoes
      PROVE  AddedMeansFile'
  BY <1>28, <1>1, <1>2, <1>3, <1>4 DEF TickBeginDoes, RowIs, Claims, Gone, InFlight, Rows,
    Exists, AddedMeansFile, Owns, Waited, Copying
<1>29. ASSUME TickDoes
      PROVE  AddedMeansFile'
  BY <1>29, <1>1, <1>2, <1>3, <1>4 DEF TickDoes, Claims, Gone, InFlight, Rows, Exists,
    AddedMeansFile, Owns, Waited, Copying
<1>30. ASSUME NEW f \in File, NEW t \in Token, ClaimDoes(f, t)
      PROVE  AddedMeansFile'
  BY <1>30, <1>1, <1>2, <1>3, <1>4 DEF ClaimDoes, ImpIs, RowIs, Claims, Gone, InFlight, Rows,
    Exists, AddedMeansFile, Owns, Waited, Copying
<1>31. ASSUME NEW t \in Token, JobStartDoes(t)
      PROVE  AddedMeansFile'
  BY <1>31, <1>1, <1>2, <1>3, <1>4 DEF JobStartDoes, JobIs, Claims, Gone, InFlight, Rows,
    Exists, AddedMeansFile, Owns, Waited, Copying
<1>32. ASSUME NEW t \in Token, ResolveDoes(t)
      PROVE  AddedMeansFile'
  BY <1>32, <1>1, <1>2, <1>3, <1>4 DEF ResolveDoes, ImpIs, JobIs, RowIs, Settles, Claims, Gone,
    InFlight, Rows, Exists, AddedMeansFile, Owns, Waited, Copying
<1>33. ASSUME NEW t \in Token, CopyDoes(t)
      PROVE  AddedMeansFile'
  BY <1>33, <1>1, <1>2, <1>3, <1>4 DEF CopyDoes, JobIs, Late, Claims, Gone, InFlight, Rows,
    Exists, AddedMeansFile, Owns, Waited, Copying
<1>34. ASSUME NEW t \in Token, CancelCopyDoes(t)
      PROVE  AddedMeansFile'
  BY <1>34, <1>1, <1>2, <1>3, <1>4 DEF CancelCopyDoes, JobIs, Claims, Gone, InFlight, Rows,
    Exists, AddedMeansFile, Owns, Waited, Copying
<1>35. ASSUME NEW t \in Token, PublishDoes(t)
      PROVE  AddedMeansFile'
  BY <1>35, <1>1, <1>2, <1>3, <1>4 DEF PublishDoes, JobIs, Late, Claims, Gone, InFlight, Rows,
    Exists, AddedMeansFile, Owns, Waited, Copying
<1>36. ASSUME NEW t \in Token, RecordDoes(t)
      PROVE  AddedMeansFile'
  BY <1>36, <1>1, <1>2, <1>3, <1>4 DEF RecordDoes, JobIs, Late, Claims, Gone, InFlight, Rows,
    Exists, AddedMeansFile, Owns, Waited, Copying
<1>37. ASSUME NEW t \in Token, RecordCutDoes(t)
      PROVE  AddedMeansFile'
  BY <1>37, <1>1, <1>2, <1>3, <1>4 DEF RecordCutDoes, JobIs, Claims, Gone, InFlight, Rows,
    Exists, AddedMeansFile, Owns, Waited, Copying
<1>38. ASSUME NEW t \in Token, HashDoes(t)
      PROVE  AddedMeansFile'
  BY <1>38, <1>1, <1>2, <1>3, <1>4 DEF HashDoes, JobIs, Claims, Gone, InFlight, Rows, Exists,
    AddedMeansFile, Owns, Waited, Copying
<1>39. ASSUME NEW t \in Token, RefuseEmptyDoes(t)
      PROVE  AddedMeansFile'
  BY <1>39, <1>1, <1>2, <1>3, <1>4 DEF RefuseEmptyDoes, ImpIs, JobIs, RowIs, Settles, removeNow,
    Claims, Gone, InFlight, Rows, Exists, AddedMeansFile, Owns, Waited, Copying
<1>40. ASSUME NEW t \in Token, RenameDoes(t)
      PROVE  AddedMeansFile'
  BY <1>40, <1>1, <1>2, <1>3, <1>4 DEF RenameDoes, JobIs, Claims, Gone, InFlight, Rows, Exists,
    AddedMeansFile, Owns, Waited, Copying
<1>41. ASSUME NEW t \in Token, RecordHashDoes(t)
      PROVE  AddedMeansFile'
  BY <1>41, <1>1, <1>2, <1>3, <1>4 DEF RecordHashDoes, JobIs, Claims, Gone, InFlight,
    Rows, Exists, AddedMeansFile, Owns, Waited, Copying
<1>42. ASSUME NEW t \in Token, FinalizeDoes(t)
      PROVE  AddedMeansFile'
  BY <1>42, <1>1, <1>2, <1>3, <1>4 DEF FinalizeDoes, FileIs, ImpIs, JobIs, RowIs, Claims, Gone,
    InFlight, Rows, Exists, AddedMeansFile, Owns, Waited, Copying
<1>43. ASSUME NEW t \in Token, CleanDuplicateDoes(t)
      PROVE  AddedMeansFile'
  BY <1>43, <1>1, <1>2, <1>3, <1>4 DEF CleanDuplicateDoes, JobIs, removeNow, Claims, Gone,
    InFlight, Rows, Exists, AddedMeansFile, Owns, Waited, Copying
<1>44. ASSUME NEW t \in Token, JobFailsDoes(t)
      PROVE  AddedMeansFile'
  BY <1>44, <1>1, <1>2, <1>3, <1>4 DEF JobFailsDoes, ImpIs, JobIs, RowIs, Settles, Claims, Gone,
    InFlight, Rows, Exists, AddedMeansFile, Owns, Waited, Copying
<1>45. ASSUME NEW t \in Token, CopyFindsNothingDoes(t)
      PROVE  AddedMeansFile'
  BY <1>45, <1>1, <1>2, <1>3, <1>4 DEF CopyFindsNothingDoes, ImpIs, JobIs, RowIs, Settles,
    Claims, Gone, InFlight, Rows, Exists, AddedMeansFile, Owns, Waited, Copying
<1>46. ASSUME NEW f \in File, GiveUpDoes(f)
      PROVE  AddedMeansFile'
  BY <1>46, <1>1, <1>2, <1>3, <1>4 DEF GiveUpDoes, ImpIs, RowIs, Claims, Gone, InFlight, Rows,
    Exists, AddedMeansFile, Owns, Waited, Copying
<1>47. ASSUME NEW f \in File, RependDoes(f)
      PROVE  AddedMeansFile'
  BY <1>47, <1>1, <1>2, <1>3, <1>4 DEF RependDoes, ImpIs, RowIs, Claims, Gone, InFlight, Rows,
    Exists, AddedMeansFile, Owns, Waited, Copying
<1>48. ASSUME NEW f \in File, EditSourceDoes(f)
      PROVE  AddedMeansFile'
  BY <1>48, <1>1, <1>2, <1>3, <1>4 DEF EditSourceDoes, Claims, Gone, InFlight, Rows, Exists,
    AddedMeansFile, Owns, Waited, Copying
<1>49. ASSUME AbortDoes
      PROVE  AddedMeansFile'
  BY <1>49, <1>1, <1>2, <1>3, <1>4 DEF AbortDoes, Claims, Gone, InFlight, Rows, Exists,
    AddedMeansFile, Owns, Waited, Copying
<1>50. ASSUME KillDoes
      PROVE  AddedMeansFile'
  BY <1>50, <1>1, <1>2, <1>3, <1>4 DEF KillDoes, EvictIs, Late, ScanIs, Claims, Gone, InFlight,
    Rows, Exists, AddedMeansFile, Owns, Waited, Copying
<1>51. ASSUME DropReadDoes
      PROVE  AddedMeansFile'
  BY <1>51, <1>1, <1>2, <1>3, <1>4 DEF DropReadDoes, Claims, Gone, InFlight, Rows, Exists,
    AddedMeansFile, Owns, Waited, Copying
<1>52. ASSUME failImportDoes
      PROVE  AddedMeansFile'
  BY <1>52, <1>1, <1>2, <1>3, <1>4 DEF failImportDoes, RowIs, Claims, Gone, InFlight, Rows,
    Exists, AddedMeansFile, Owns, Waited, Copying
<1>53. ASSUME NEW f \in File, NEW y \in Type, DropBytesDoes(f, y)
      PROVE  AddedMeansFile'
  BY <1>53, <1>1, <1>2, <1>3, <1>4 DEF DropBytesDoes, removeNow, Claims, Gone, InFlight, Rows,
    Exists, AddedMeansFile, Owns, Waited, Copying
<1>54. ASSUME deleteDirectoryDoes
      PROVE  AddedMeansFile'
  BY <1>54, <1>1, <1>2, <1>3, <1>4 DEF deleteDirectoryDoes, Claims, Gone, InFlight, Rows,
    Exists, AddedMeansFile, Owns, Waited, Copying
<1>55. QED
  BY <1>5, <1>6, <1>7, <1>8, <1>9, <1>10, <1>11, <1>12, <1>13, <1>14, <1>15, <1>16, <1>17,
    <1>18, <1>19, <1>20, <1>21, <1>22, <1>23, <1>24, <1>25, <1>26, <1>27, <1>28, <1>29, <1>30,
    <1>31, <1>32, <1>33, <1>34, <1>35, <1>36, <1>37, <1>38, <1>39, <1>40, <1>41, <1>42, <1>43,
    <1>44, <1>45, <1>46, <1>47, <1>48, <1>49, <1>50, <1>51, <1>52, <1>53, <1>54 DEF Effect

\* The rows of a folder delete.
LEMMA DroppedKept ==
  ASSUME Types, Types', Claims, Rows, Dropped, Effect
  PROVE  Dropped'
PROOF
<1>1. file \in [File -> FileRow] /\ imp \in [File -> ImportRow] /\ job \in [Token -> JobRow] /\
  tick \in TickState
  BY DEF Types
<1>2. \A t \in Token : job[t].f \in File /\ job[t].type \in Type /\ job[t].got \in Bytes
  BY DEF Types, JobRow
<1>3. \A f \in File : imp[f].state = "active" <=> imp[f].token # 0
  BY DEF Types, Paired
<1>4. 0 \notin Token /\ Importing \subseteq File
  BY ImportsAssumption DEF Token
<1>5. ASSUME NEW f \in File, GetFileUriDoes(f)
      PROVE  Dropped'
  BY <1>5, <1>1, <1>2, <1>3, <1>4 DEF GetFileUriDoes, getFsFileUri, Claims, Gone, InFlight,
    Rows, Exists, Dropped, Owns, Waited, Copying
<1>6. ASSUME NEW f \in File, DownloadStartDoes(f)
      PROVE  Dropped'
  BY <1>6, <1>1, <1>2, <1>3, <1>4 DEF DownloadStartDoes, DlIs, Claims, Gone, InFlight, Rows,
    Exists, Dropped, Owns, Waited, Copying
<1>7. ASSUME NEW f \in File, DownloadOpensDoes(f)
      PROVE  Dropped'
  BY <1>7, <1>1, <1>2, <1>3, <1>4 DEF DownloadOpensDoes, DlIs, Claims, Gone, InFlight, Rows,
    Exists, Dropped, Owns, Waited, Copying
<1>8. ASSUME NEW f \in File, DownloadArrivesDoes(f)
      PROVE  Dropped'
  BY <1>8, <1>1, <1>2, <1>3, <1>4 DEF DownloadArrivesDoes, DlIs, Claims, Gone, InFlight, Rows,
    Exists, Dropped, Owns, Waited, Copying
<1>9. ASSUME NEW f \in File, DownloadRecordsDoes(f)
      PROVE  Dropped'
  BY <1>9, <1>1, <1>2, <1>3, <1>4 DEF DownloadRecordsDoes, DlIs, Recorded, Claims, Gone,
    InFlight, Rows, Exists, Dropped, Owns, Waited, Copying
<1>10. ASSUME NEW f \in File, DownloadStopsDoes(f)
      PROVE  Dropped'
  BY <1>10, <1>1, <1>2, <1>3, <1>4 DEF DownloadStopsDoes, DlIs, Claims, Gone, InFlight, Rows,
    Exists, Dropped, Owns, Waited, Copying
<1>11. ASSUME NEW f \in File, EditDoes(f)
      PROVE  Dropped'
  BY <1>11, <1>1, <1>2, <1>3, <1>4 DEF EditDoes, FileIs, Claims, Gone, InFlight, Rows, Exists,
    Dropped, Owns, Waited, Copying
<1>12. ASSUME NEW f \in File, TombstoneDoes(f)
      PROVE  Dropped'
  BY <1>12, <1>1, <1>2, <1>3, <1>4 DEF TombstoneDoes, FileIs, Claims, Gone, InFlight, Rows,
    Exists, Dropped, Owns, Waited, Copying
<1>13. ASSUME NEW f \in File, UploadDoes(f)
      PROVE  Dropped'
  BY <1>13, <1>1, <1>2, <1>3, <1>4 DEF UploadDoes, Claims, Gone, InFlight, Rows, Exists,
    Dropped, Owns, Waited, Copying
<1>14. ASSUME NEW f \in File, NEW y \in Type, RetypeDoes(f, y)
      PROVE  Dropped'
  BY <1>14, <1>1, <1>2, <1>3, <1>4 DEF RetypeDoes, FileIs, Recorded, Claims, Gone, InFlight,
    Rows, Exists, Dropped, Owns, Waited, Copying
<1>15. ASSUME NEW f \in File, NEW y \in Type, removeTombstonedDoes(f, y)
      PROVE  Dropped'
  BY <1>15, <1>1, <1>2, <1>3, <1>4 DEF removeTombstonedDoes, removeNow, Claims, Gone, InFlight,
    Rows, Exists, Dropped, Owns, Waited, Copying
<1>16. ASSUME ScanJudgeDoes
      PROVE  Dropped'
  BY <1>16, <1>1, <1>2, <1>3, <1>4 DEF ScanJudgeDoes, ScanIs, Claims, Gone, InFlight, Rows,
    Exists, Dropped, Owns, Waited, Copying
<1>17. ASSUME RemoveTempDoes
      PROVE  Dropped'
  BY <1>17, <1>1, <1>2, <1>3, <1>4 DEF RemoveTempDoes, ScanIs, Claims, Gone, InFlight, Rows,
    Exists, Dropped, Owns, Waited, Copying
<1>18. ASSUME NEW f \in File, NEW y \in Type, ScanEntryDoes(f, y)
      PROVE  Dropped'
  BY <1>18, <1>1, <1>2, <1>3, <1>4 DEF ScanEntryDoes, Misjudged, Recorded, ScanIs, ScansOn,
    getFsFileUri, removeNow, Claims, Gone, InFlight, Rows, Exists, Dropped, Owns, Waited,
    Copying
<1>19. ASSUME ScanEndDoes
      PROVE  Dropped'
  BY <1>19, <1>1, <1>2, <1>3, <1>4 DEF ScanEndDoes, ScanIs, Claims, Gone, InFlight, Rows,
    Exists, Dropped, Owns, Waited, Copying
<1>20. ASSUME EvictReadDoes
      PROVE  Dropped'
  BY <1>20, <1>1, <1>2, <1>3, <1>4 DEF EvictReadDoes, EvictIs, Claims, Gone, InFlight, Rows,
    Exists, Dropped, Owns, Waited, Copying
<1>21. ASSUME NEW f \in File, NEW y \in Type, EvictCountDoes(f, y)
      PROVE  Dropped'
  BY <1>21, <1>1, <1>2, <1>3, <1>4 DEF EvictCountDoes, EvictIs, Claims, Gone, InFlight, Rows,
    Exists, Dropped, Owns, Waited, Copying
<1>22. ASSUME NEW f \in File, NEW y \in Type, EvictTryDoes(f, y)
      PROVE  Dropped'
  BY <1>22, <1>1, <1>2, <1>3, <1>4 DEF EvictTryDoes, EvictIs, Claims, Gone, InFlight, Rows,
    Exists, Dropped, Owns, Waited, Copying
<1>23. ASSUME NEW f \in File, NEW y \in Type, EvictRowDoes(f, y)
      PROVE  Dropped'
  BY <1>23, <1>1, <1>2, <1>3, <1>4 DEF EvictRowDoes, EvictIs, Claims, Gone, InFlight, Rows,
    Exists, Dropped, Owns, Waited, Copying
<1>24. ASSUME EvictEndDoes
      PROVE  Dropped'
  BY <1>24, <1>1, <1>2, <1>3, <1>4 DEF EvictEndDoes, EvictIs, Claims, Gone, InFlight, Rows,
    Exists, Dropped, Owns, Waited, Copying
<1>25. ASSUME NEW f \in File, NEW y \in Type, NEW z \in Type \union {"none"}, retypeFileDoes(f,
  y, z)
      PROVE  Dropped'
  BY <1>25, <1>1, <1>2, <1>3, <1>4 DEF retypeFileDoes, FileIs, Recorded, Claims, Gone, InFlight,
    Rows, Exists, Dropped, Owns, Waited, Copying
<1>26. ASSUME SwitchIndexerDoes
      PROVE  Dropped'
  BY <1>26, <1>1, <1>2, <1>3, <1>4 DEF SwitchIndexerDoes, Claims, Gone, InFlight, Rows, Exists,
    Dropped, Owns, Waited, Copying
<1>27. ASSUME ScanListDoes
      PROVE  Dropped'
  BY <1>27, <1>1, <1>2, <1>3, <1>4 DEF ScanListDoes, ScanIs, Claims, Gone, InFlight, Rows,
    Exists, Dropped, Owns, Waited, Copying
<1>28. ASSUME TickBeginDoes
      PROVE  Dropped'
  BY <1>28, <1>1, <1>2, <1>3, <1>4 DEF TickBeginDoes, RowIs, Claims, Gone, InFlight, Rows,
    Exists, Dropped, Owns, Waited, Copying
<1>29. ASSUME TickDoes
      PROVE  Dropped'
  BY <1>29, <1>1, <1>2, <1>3, <1>4 DEF TickDoes, Claims, Gone, InFlight, Rows, Exists, Dropped,
    Owns, Waited, Copying
<1>30. ASSUME NEW f \in File, NEW t \in Token, ClaimDoes(f, t)
      PROVE  Dropped'
  BY <1>30, <1>1, <1>2, <1>3, <1>4 DEF ClaimDoes, ImpIs, RowIs, Claims, Gone, InFlight, Rows,
    Exists, Dropped, Owns, Waited, Copying
<1>31. ASSUME NEW t \in Token, JobStartDoes(t)
      PROVE  Dropped'
  BY <1>31, <1>1, <1>2, <1>3, <1>4 DEF JobStartDoes, JobIs, Claims, Gone, InFlight, Rows,
    Exists, Dropped, Owns, Waited, Copying
<1>32. ASSUME NEW t \in Token, ResolveDoes(t)
      PROVE  Dropped'
  BY <1>32, <1>1, <1>2, <1>3, <1>4 DEF ResolveDoes, ImpIs, JobIs, RowIs, Settles, Claims, Gone,
    InFlight, Rows, Exists, Dropped, Owns, Waited, Copying
<1>33. ASSUME NEW t \in Token, CopyDoes(t)
      PROVE  Dropped'
  BY <1>33, <1>1, <1>2, <1>3, <1>4 DEF CopyDoes, JobIs, Late, Claims, Gone, InFlight, Rows,
    Exists, Dropped, Owns, Waited, Copying
<1>34. ASSUME NEW t \in Token, CancelCopyDoes(t)
      PROVE  Dropped'
  BY <1>34, <1>1, <1>2, <1>3, <1>4 DEF CancelCopyDoes, JobIs, Claims, Gone, InFlight, Rows,
    Exists, Dropped, Owns, Waited, Copying
<1>35. ASSUME NEW t \in Token, PublishDoes(t)
      PROVE  Dropped'
  BY <1>35, <1>1, <1>2, <1>3, <1>4 DEF PublishDoes, JobIs, Late, Claims, Gone, InFlight, Rows,
    Exists, Dropped, Owns, Waited, Copying
<1>36. ASSUME NEW t \in Token, RecordDoes(t)
      PROVE  Dropped'
  BY <1>36, <1>1, <1>2, <1>3, <1>4 DEF RecordDoes, JobIs, Late, Claims, Gone, InFlight, Rows,
    Exists, Dropped, Owns, Waited, Copying
<1>37. ASSUME NEW t \in Token, RecordCutDoes(t)
      PROVE  Dropped'
  BY <1>37, <1>1, <1>2, <1>3, <1>4 DEF RecordCutDoes, JobIs, Claims, Gone, InFlight, Rows,
    Exists, Dropped, Owns, Waited, Copying
<1>38. ASSUME NEW t \in Token, HashDoes(t)
      PROVE  Dropped'
  BY <1>38, <1>1, <1>2, <1>3, <1>4 DEF HashDoes, JobIs, Claims, Gone, InFlight, Rows, Exists,
    Dropped, Owns, Waited, Copying
<1>39. ASSUME NEW t \in Token, RefuseEmptyDoes(t)
      PROVE  Dropped'
  BY <1>39, <1>1, <1>2, <1>3, <1>4 DEF RefuseEmptyDoes, ImpIs, JobIs, RowIs, Settles, removeNow,
    Claims, Gone, InFlight, Rows, Exists, Dropped, Owns, Waited, Copying
<1>40. ASSUME NEW t \in Token, RenameDoes(t)
      PROVE  Dropped'
  BY <1>40, <1>1, <1>2, <1>3, <1>4 DEF RenameDoes, JobIs, Claims, Gone, InFlight, Rows, Exists,
    Dropped, Owns, Waited, Copying
<1>41. ASSUME NEW t \in Token, RecordHashDoes(t)
      PROVE  Dropped'
  BY <1>41, <1>1, <1>2, <1>3, <1>4 DEF RecordHashDoes, JobIs, Claims, Gone, InFlight,
    Rows, Exists, Dropped, Owns, Waited, Copying
<1>42. ASSUME NEW t \in Token, FinalizeDoes(t)
      PROVE  Dropped'
  BY <1>42, <1>1, <1>2, <1>3, <1>4 DEF FinalizeDoes, FileIs, ImpIs, JobIs, RowIs, Claims, Gone,
    InFlight, Rows, Exists, Dropped, Owns, Waited, Copying
<1>43. ASSUME NEW t \in Token, CleanDuplicateDoes(t)
      PROVE  Dropped'
  BY <1>43, <1>1, <1>2, <1>3, <1>4 DEF CleanDuplicateDoes, JobIs, removeNow, Claims, Gone,
    InFlight, Rows, Exists, Dropped, Owns, Waited, Copying
<1>44. ASSUME NEW t \in Token, JobFailsDoes(t)
      PROVE  Dropped'
  BY <1>44, <1>1, <1>2, <1>3, <1>4 DEF JobFailsDoes, ImpIs, JobIs, RowIs, Settles, Claims, Gone,
    InFlight, Rows, Exists, Dropped, Owns, Waited, Copying
<1>45. ASSUME NEW t \in Token, CopyFindsNothingDoes(t)
      PROVE  Dropped'
  BY <1>45, <1>1, <1>2, <1>3, <1>4 DEF CopyFindsNothingDoes, ImpIs, JobIs, RowIs, Settles,
    Claims, Gone, InFlight, Rows, Exists, Dropped, Owns, Waited, Copying
<1>46. ASSUME NEW f \in File, GiveUpDoes(f)
      PROVE  Dropped'
  BY <1>46, <1>1, <1>2, <1>3, <1>4 DEF GiveUpDoes, ImpIs, RowIs, Claims, Gone, InFlight, Rows,
    Exists, Dropped, Owns, Waited, Copying
<1>47. ASSUME NEW f \in File, RependDoes(f)
      PROVE  Dropped'
  BY <1>47, <1>1, <1>2, <1>3, <1>4 DEF RependDoes, ImpIs, RowIs, Claims, Gone, InFlight, Rows,
    Exists, Dropped, Owns, Waited, Copying
<1>48. ASSUME NEW f \in File, EditSourceDoes(f)
      PROVE  Dropped'
  BY <1>48, <1>1, <1>2, <1>3, <1>4 DEF EditSourceDoes, Claims, Gone, InFlight, Rows, Exists,
    Dropped, Owns, Waited, Copying
<1>49. ASSUME AbortDoes
      PROVE  Dropped'
  BY <1>49, <1>1, <1>2, <1>3, <1>4 DEF AbortDoes, Claims, Gone, InFlight, Rows, Exists, Dropped,
    Owns, Waited, Copying
<1>50. ASSUME KillDoes
      PROVE  Dropped'
  BY <1>50, <1>1, <1>2, <1>3, <1>4 DEF KillDoes, EvictIs, Late, ScanIs, Claims, Gone, InFlight,
    Rows, Exists, Dropped, Owns, Waited, Copying
<1>51. ASSUME DropReadDoes
      PROVE  Dropped'
  BY <1>51, <1>1, <1>2, <1>3, <1>4 DEF DropReadDoes, Claims, Gone, InFlight, Rows, Exists,
    Dropped, Owns, Waited, Copying
<1>52. ASSUME failImportDoes
      PROVE  Dropped'
  BY <1>52, <1>1, <1>2, <1>3, <1>4 DEF failImportDoes, RowIs, Claims, Gone, InFlight, Rows,
    Exists, Dropped, Owns, Waited, Copying
<1>53. ASSUME NEW f \in File, NEW y \in Type, DropBytesDoes(f, y)
      PROVE  Dropped'
  BY <1>53, <1>1, <1>2, <1>3, <1>4 DEF DropBytesDoes, removeNow, Claims, Gone, InFlight, Rows,
    Exists, Dropped, Owns, Waited, Copying
<1>54. ASSUME deleteDirectoryDoes
      PROVE  Dropped'
  BY <1>54, <1>1, <1>2, <1>3, <1>4 DEF deleteDirectoryDoes, Claims, Gone, InFlight, Rows,
    Exists, Dropped, Owns, Waited, Copying
<1>55. QED
  BY <1>5, <1>6, <1>7, <1>8, <1>9, <1>10, <1>11, <1>12, <1>13, <1>14, <1>15, <1>16, <1>17,
    <1>18, <1>19, <1>20, <1>21, <1>22, <1>23, <1>24, <1>25, <1>26, <1>27, <1>28, <1>29, <1>30,
    <1>31, <1>32, <1>33, <1>34, <1>35, <1>36, <1>37, <1>38, <1>39, <1>40, <1>41, <1>42, <1>43,
    <1>44, <1>45, <1>46, <1>47, <1>48, <1>49, <1>50, <1>51, <1>52, <1>53, <1>54 DEF Effect

=============================================================================
