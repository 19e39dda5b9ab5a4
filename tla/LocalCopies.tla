----------------------------- MODULE LocalCopies -----------------------------
(***************************************************************************)
(* The bytes of files on the device and everything that writes, moves or  *)
(* removes them beside the import scanner: downloads and eviction under    *)
(* the local copy lock, the orphan scanner, deletes and type changes       *)
(* (packages/core/src/services/{cacheEviction,orphanScanner,localCopyLock, *)
(* fsFileUri,retypeFile}.ts, app/namespaces/{db,downloads}.ts,             *)
(* db/operations/fs.ts).                                                   *)
(*                                                                         *)
(* A file's bytes lie at a path made of its id and its type, so a file has *)
(* one possible slot per type.  Database rows and bytes are written by     *)
(* different calls, and between any two awaits the other flows run.        *)
(***************************************************************************)
EXTENDS Integers, FiniteSets

CONSTANTS
  File,      \* ids, of files and of the import rows that become files
  Type,      \* types, one per extension
  Content,   \* what a file's bytes may be; a content and its hash are one value
  Indexer,   \* indexers the user may be connected to
  MaxToken,  \* bound: claims of import rows
  MaxActs    \* bound: acts of the user, of readers and of the scheduled passes

ASSUME CopiesAssumption ==
  /\ File # {} /\ MaxToken \in Nat /\ MaxActs \in Nat \ {0}
  /\ {"none", "part"} \cap Content = {}
  /\ "none" \notin Type

VARIABLES
  imp,      \* import_files
  file,     \* files
  fs,       \* the files with an fs row, which are shown as on the device
  obj,      \* objects: the indexers that hold the file
  sent,     \* history: the bytes of the file last uploaded
  indexer,  \* the one the app is connected to
  disk,     \* the bytes at each slot
  temp,     \* finished claim temps: file, token, bytes
  mobile,   \* the adapters in use: the mobile app's or Node's
  holder,   \* localCopyLock
  dl,       \* downloads.execute, from await to await
  owed,     \* moves and removals of bytes due after a commit: file, from, to
  scan,     \* runOrphanScanner
  evict,    \* runCacheEviction
  acts,     \* bound
  hazard    \* history: the races named below that have happened

tables == <<imp, file, fs, obj, indexer>>
bytes == <<disk, temp>>
passes == <<holder, dl, owed, scan, evict>>
copies == <<tables, bytes, passes, sent, mobile, acts, hazard>>

Races == {"judgedEarly", "partRecorded", "switched", "movedUnrecorded", "failedAdded", "latePublish",
          "retried", "rewritten", "leftHalfway", "retyped"}
Token == 1 .. MaxToken
Bytes == Content \union {"none", "part"}

InFlight(f) == imp[f].state \in {"pending", "active"}
Exists(f) == file[f].state \in {"live", "trashed"}
\* The slot its row names, and whether the file's own bytes lie in any slot.
Slot(f) == disk[f][file[f].type]
Whole(f) == \E y \in Type : disk[f][y] = file[f].hash

CopiesTypeOK ==
  /\ imp \in [File -> [state : {"none", "pending", "active", "added", "duplicate",
                                "unavailable", "failed", "cancelled"},
                       token : {0} \union Token, type : Type,
                       hash : Bytes, tries : Nat, dead : BOOLEAN]]
  /\ file \in [File -> [state : {"none", "live", "trashed", "deleted"}, type : Type,
                        hash : Bytes, current : BOOLEAN]]
  /\ fs \subseteq File
  /\ obj \in [File -> SUBSET Indexer] /\ indexer \in Indexer
  /\ sent \in [File -> Bytes]
  /\ disk \in [File -> [Type -> Bytes]]
  /\ temp \subseteq File \X Token \X Bytes
  /\ mobile \in BOOLEAN
  /\ holder \in [File -> {"free", "download", "evict"}]
  /\ dl \in [File -> [pc : {"none", "wait", "write", "wrote"}, type : Type]]
  /\ owed \subseteq File \X Type \X (Type \union {"none"})
  /\ scan \in [pc : {"idle", "judge", "entries"}, orphans : SUBSET File,
               list : SUBSET (File \X Type), present : SUBSET (File \X Type),
               live : SUBSET (File \X Type), temps : SUBSET (File \X Token \X Bytes)]
  /\ evict \in [pc : {"idle", "rows", "try", "row"}, rows : SUBSET (File \X Type),
                any : BOOLEAN, on : {<<>>} \union File \X Type]
  /\ evict.pc \in {"try", "row"} => evict.on # <<>>
  /\ acts \in 0 .. MaxActs
  /\ hazard \subseteq Races

NoScan == [pc |-> "idle", list |-> {}, present |-> {}, temps |-> {}, orphans |-> {}, live |-> {}]
NoEvict == [pc |-> "idle", rows |-> {}, any |-> FALSE, on |-> <<>>]

Act == acts < MaxActs /\ acts' = acts + 1

\* fs.removeFile without skipIfLocked: the bytes, then the fs row.
removeNow(f, y) == disk' = [disk EXCEPT ![f][y] = "none"] /\ fs' = fs \ {f}

(***************************************************************************)
(* Reads that repair: getFsFileUri, from a viewer, a thumbnail, an upload. *)
(***************************************************************************)
\* An fs row comes to stand for a slot that holds part of the file.
Recorded(b) == IF b = "part" THEN {"partRecorded"} ELSE {}

getFsFileUri(f, y) ==
  IF disk[f][y] = "none" THEN fs' = fs \ {f} /\ UNCHANGED hazard
  ELSE fs' = fs \union {f} /\ hazard' = hazard \union Recorded(Slot(f))

GetFileUri(f) ==
  /\ Act /\ Exists(f)
  /\ getFsFileUri(f, file[f].type)
  /\ UNCHANGED <<imp, file, obj, indexer, bytes, passes, sent, mobile>>

(***************************************************************************)
(* Downloads.  On Node they are written at the slot, in the mobile app     *)
(* beside it and moved there whole.                                        *)
(***************************************************************************)
DownloadStart(f) ==
  /\ Act /\ dl[f].pc = "none" /\ Exists(f)
  /\ IF Slot(f) = file[f].hash
     THEN fs' = fs \union {f} /\ UNCHANGED dl
     ELSE obj[f] # {} /\ dl' = [dl EXCEPT ![f] = [pc |-> "wait", type |-> file[f].type]]
          /\ UNCHANGED fs
  /\ UNCHANGED <<imp, file, obj, indexer, bytes, holder, owed, scan, evict, sent, mobile, hazard>>

\* Whoever takes the file's fs row at its word reads what is being written.
Opened(f) ==
  /\ dl' = [dl EXCEPT ![f].pc = "write"]
  /\ disk' = IF mobile THEN disk ELSE [disk EXCEPT ![f][dl[f].type] = "part"]
  /\ hazard' = IF ~mobile /\ f \in fs THEN hazard \union {"rewritten"} ELSE hazard

\* Mutant: the download does not take the lock.
DownloadOpensUnlocked(f) ==
  /\ dl[f].pc = "wait"
  /\ Opened(f)
  /\ UNCHANGED <<tables, temp, holder, owed, scan, evict, sent, mobile, acts>>

DownloadOpens(f) ==
  /\ dl[f].pc = "wait" /\ holder[f] = "free"
  /\ holder' = [holder EXCEPT ![f] = "download"]
  /\ Opened(f)
  /\ UNCHANGED <<tables, temp, owed, scan, evict, sent, mobile, acts>>

DownloadArrives(f) ==
  /\ dl[f].pc = "write"
  /\ dl' = [dl EXCEPT ![f].pc = "wrote"]
  /\ disk' = [disk EXCEPT ![f][dl[f].type] = file[f].hash]
  /\ UNCHANGED <<tables, temp, holder, owed, scan, evict, sent, mobile, acts, hazard>>

DownloadRecords(f) ==
  /\ dl[f].pc = "wrote"
  /\ dl' = [dl EXCEPT ![f].pc = "none"]
  /\ holder' = [holder EXCEPT ![f] = "free"]
  /\ fs' = fs \union {f}
  /\ hazard' = hazard \union Recorded(Slot(f))
  /\ UNCHANGED <<imp, file, obj, indexer, bytes, owed, scan, evict, sent, mobile, acts>>

\* An error removes what was written.  A cancelled download on Node ends like a
\* complete one, its short file left at the slot, and is merely not recorded.
DownloadStops(f) ==
  /\ dl[f].pc \in {"wait", "write"}
  /\ dl' = [dl EXCEPT ![f].pc = "none"]
  /\ holder' = [holder EXCEPT ![f] = IF dl[f].pc = "write" THEN "free" ELSE @]
  /\ \/ UNCHANGED disk
     \/ /\ dl[f].pc = "write" /\ ~mobile
        /\ disk' = [disk EXCEPT ![f][dl[f].type] = "none"]
  /\ UNCHANGED <<tables, temp, owed, scan, evict, sent, mobile, acts, hazard>>

Download(f) == DownloadOpens(f) \/ DownloadArrives(f) \/ DownloadRecords(f) \/ DownloadStops(f)

(***************************************************************************)
(* The orphan scanner: a listing, a batch judged once, its files in turn.  *)
(***************************************************************************)
\* Mutant: an import row does not protect its bytes.
queryOrphanedFileIdsBlind(ids) ==
  {f \in ids : f \notin fs \/ file[f].state \in {"none", "deleted"}}

queryOrphanedFileIds(ids) ==
  {f \in ids : ~InFlight(f) /\ (f \notin fs \/ file[f].state \in {"none", "deleted"})}

\* list() withholds a temp until it is older than any claim still copying: `busy`.
ScanList(busy) ==
  /\ Act /\ scan.pc = "idle"
  /\ LET there == {e \in File \X Type : disk[e[1]][e[2]] # "none"}
     IN  scan' = [NoScan EXCEPT !.pc = "judge", !.list = there, !.present = there,
                !.temps = {e \in temp : e[2] \notin busy}]
  /\ UNCHANGED <<tables, bytes, holder, dl, evict, owed, sent, mobile, hazard>>

ScanJudge ==
  /\ scan.pc = "judge"
  /\ LET ids == {e[1] : e \in scan.list}
     IN  scan' = [scan EXCEPT !.pc = "entries",
                    !.orphans = queryOrphanedFileIds(ids),
                    !.live = {<<f, file[f].type>> : f \in {g \in ids : Exists(g)}},
                    !.temps = {e \in @ : ~InFlight(e[1])}]
  /\ UNCHANGED <<tables, bytes, holder, dl, evict, owed, sent, mobile, acts, hazard>>

\* A file judged an orphan that an import has meanwhile taken up again or added.
Misjudged(f) == IF InFlight(f) \/ Exists(f) THEN {"judgedEarly"} ELSE {}

RemoveTemp(e) ==
  /\ scan' = [scan EXCEPT !.temps = @ \ {e}]
  /\ temp' = temp \ {e}
  /\ UNCHANGED <<tables, disk, holder, dl, evict, owed, sent, mobile, acts, hazard>>

\* Bytes of a file that is gone, or was never added, are removed if it was judged
\* an orphan.  Those in place only have a missing fs row rebuilt.  Those at a type
\* the file no longer has are removed when its slot was taken, else moved there.
ScanEntry(f, y) ==
  LET live == {l[2] : l \in {l \in scan.live : l[1] = f}}
      rest == scan.list \ {<<f, y>>}
  IN
  /\ scan.pc = "entries" /\ <<f, y>> \in scan.list
  /\ \/ /\ live = {} /\ f \notin scan.orphans
        /\ scan' = [scan EXCEPT !.list = rest]
        /\ UNCHANGED <<disk, fs, hazard>>
     \/ /\ live = {} /\ f \in scan.orphans
        /\ scan' = [scan EXCEPT !.list = rest]
        /\ removeNow(f, y)
        /\ hazard' = hazard \union Misjudged(f)
     \/ /\ y \in live
        /\ scan' = [scan EXCEPT !.list = rest]
        /\ UNCHANGED disk
        /\ IF f \in scan.orphans THEN getFsFileUri(f, y) ELSE UNCHANGED <<fs, hazard>>
     \/ \E z \in live \ {y} :
        /\ <<f, z>> \in scan.present
        /\ scan' = [scan EXCEPT !.list = rest, !.present = @ \ {<<f, y>>}]
        /\ disk' = [disk EXCEPT ![f][y] = "none"]
        /\ UNCHANGED <<fs, hazard>>
     \/ \E z \in live \ {y} :
        /\ <<f, z>> \notin scan.present
        /\ IF disk[f][y] = "none" /\ disk[f][z] = "none"
           THEN scan' = [scan EXCEPT !.list = rest] /\ UNCHANGED <<disk, fs, hazard>>
           ELSE /\ scan' = [scan EXCEPT !.list = rest, !.present = @ \union {<<f, z>>}]
                /\ disk' = IF disk[f][y] = "none" THEN disk
                           ELSE [disk EXCEPT ![f][z] = disk[f][y], ![f][y] = "none"]
                /\ fs' = fs \union {f}
                /\ hazard' = hazard \union Recorded(disk'[f][file[f].type])
  /\ UNCHANGED <<imp, file, obj, indexer, temp, holder, dl, owed, evict, sent, mobile, acts>>

\* The fs rows of the batch's orphans go last.
ScanEnd ==
  /\ scan.pc = "entries" /\ scan.list = {} /\ scan.temps = {}
  /\ LET dropped == scan.orphans \ {l[1] : l \in scan.live}
     IN  /\ fs' = fs \ dropped
         /\ hazard' = hazard \union UNION {Misjudged(f) : f \in dropped}
  /\ scan' = NoScan
  /\ UNCHANGED <<imp, file, obj, indexer, bytes, holder, dl, evict, owed, sent, mobile, acts>>

ScanStep ==
  \/ ScanJudge
  \/ scan.pc = "entries" /\ \E e \in scan.temps : RemoveTemp(e)
  \/ \E e \in scan.list : ScanEntry(e[1], e[2])
  \/ ScanEnd

(***************************************************************************)
(* Cache eviction: trashed and current files with an object on the present *)
(* indexer, superseded ones (`any`) with an object anywhere.               *)
(***************************************************************************)
\* Mutant: a superseded file need not be on any indexer.
EvictableSuperseded(any) ==
  {f \in fs : /\ Exists(f)
              /\ IF any THEN file[f].state = "live" /\ ~file[f].current
                 ELSE (file[f].current \/ file[f].state = "trashed") /\ indexer \in obj[f]}

Evictable(any) ==
  {f \in fs : /\ Exists(f)
              /\ IF any THEN file[f].state = "live" /\ ~file[f].current /\ obj[f] # {}
                 ELSE (file[f].current \/ file[f].state = "trashed") /\ indexer \in obj[f]}

EvictRead(any) ==
  /\ Act /\ evict.pc = "idle" /\ Evictable(any) # {}
  /\ evict' = [NoEvict EXCEPT !.pc = "rows", !.any = any,
                 !.rows = {<<f, file[f].type>> : f \in Evictable(any)}]
  /\ UNCHANGED <<tables, bytes, holder, dl, owed, scan, sent, mobile, hazard>>

\* Mutant: the batch's rows are not counted again.
EvictCountTrusting(r) ==
  /\ evict.pc = "rows" /\ r \in evict.rows
  /\ evict' = [evict EXCEPT !.rows = @ \ {r}, !.on = r, !.pc = "try"]
  /\ UNCHANGED <<tables, bytes, holder, dl, owed, scan, sent, mobile, acts, hazard>>

EvictCount(r) ==
  /\ evict.pc = "rows" /\ r \in evict.rows
  /\ evict' = [evict EXCEPT !.rows = @ \ {r},
                 !.on = IF evict.any \/ indexer \in obj[r[1]] THEN r ELSE <<>>,
                 !.pc = IF evict.any \/ indexer \in obj[r[1]] THEN "try" ELSE "rows"]
  /\ UNCHANGED <<tables, bytes, holder, dl, owed, scan, sent, mobile, acts, hazard>>

\* removeFile with skipIfLocked, an await after the count.
EvictTry ==
  /\ evict.pc = "try"
  /\ LET f == evict.on[1]
     IN \/ /\ holder[f] # "free"
           /\ evict' = [evict EXCEPT !.pc = "rows", !.on = <<>>]
           /\ UNCHANGED <<disk, holder>>
        \/ /\ holder[f] = "free"
           /\ evict' = [evict EXCEPT !.pc = "row"]
           /\ holder' = [holder EXCEPT ![f] = "evict"]
           /\ disk' = [disk EXCEPT ![f][evict.on[2]] = "none"]
  /\ UNCHANGED <<tables, temp, dl, owed, scan, sent, mobile, acts, hazard>>

EvictRow ==
  /\ evict.pc = "row"
  /\ evict' = [evict EXCEPT !.pc = "rows", !.on = <<>>]
  /\ holder' = [holder EXCEPT ![evict.on[1]] = "free"]
  /\ fs' = fs \ {evict.on[1]}
  /\ UNCHANGED <<imp, file, obj, indexer, bytes, dl, owed, scan, sent, mobile, acts, hazard>>

EvictEnd ==
  /\ evict.pc = "rows" /\ evict.rows = {}
  /\ evict' = NoEvict
  /\ UNCHANGED <<tables, bytes, holder, dl, owed, scan, sent, mobile, acts, hazard>>

EvictStep == (\E r \in evict.rows : EvictCount(r)) \/ EvictTry \/ EvictRow \/ EvictEnd

(***************************************************************************)
(* The user, and the other services as far as they touch local copies.     *)
(***************************************************************************)
EditFile(f, from, new) ==
  /\ Act /\ file[f].state \in from
  /\ file' = [file EXCEPT ![f] = new]
  /\ UNCHANGED <<imp, fs, obj, indexer, bytes, passes, sent, mobile, hazard>>

Trash(f) == EditFile(f, {"live"}, [file[f] EXCEPT !.state = "trashed"])
Restore(f) == EditFile(f, {"trashed"}, [file[f] EXCEPT !.state = "live"])
\* recalculateCurrentForGroup: a newer file of its name came, or went again.
Supersede(f) == EditFile(f, {"live"}, [file[f] EXCEPT !.current = ~@])

\* The bytes of a tombstoned file go after the commit.
Tombstone(f) ==
  /\ Act /\ Exists(f)
  /\ file' = [file EXCEPT ![f].state = "deleted"]
  /\ owed' = owed \union {<<f, file[f].type, "none">>}
  /\ UNCHANGED <<imp, fs, obj, indexer, bytes, holder, dl, scan, evict, sent, mobile, hazard>>

removeTombstoned(f, y) ==
  /\ <<f, y, "none">> \in owed
  /\ owed' = owed \ {<<f, y, "none">>}
  /\ removeNow(f, y)
  /\ UNCHANGED <<imp, file, obj, indexer, temp, holder, dl, scan, evict, sent, mobile, acts, hazard>>

\* retypeFile, and an edit of the type pulled by sync-down: the row first.  The
\* scanner may have listed a slot that is taken no more.  Bound: one change of a
\* file's type at a time.
Retype(f, y) ==
  /\ Act /\ file[f].state = "live" /\ y # file[f].type /\ \A m \in owed : m[1] # f
  /\ file' = [file EXCEPT ![f].type = y]
  /\ owed' = owed \union {<<f, file[f].type, y>>}
  /\ hazard' = hazard \union {"retyped"} \union (IF f \in fs THEN Recorded(disk[f][y]) ELSE {})
                       \union (IF \E e \in scan.list : e[1] = f THEN {"judgedEarly"} ELSE {})
  /\ UNCHANGED <<imp, fs, obj, indexer, bytes, holder, dl, scan, evict, sent, mobile>>

\* renameToType; with bytes at neither path the row takes its old type back.
retypeFile(f, from, to) ==
  /\ <<f, from, to>> \in owed /\ to # "none"
  /\ owed' = owed \ {<<f, from, to>>}
  /\ IF disk[f][from] # "none"
     THEN /\ disk' = [disk EXCEPT ![f][to] = disk[f][from], ![f][from] = "none"]
          /\ hazard' = hazard \union (IF f \in fs THEN Recorded(disk[f][from]) ELSE {})
          /\ UNCHANGED file
     ELSE UNCHANGED <<disk, hazard>>
          /\ file' = IF disk[f][to] # "none" THEN file ELSE [file EXCEPT ![f].type = from]
  /\ UNCHANGED <<imp, fs, obj, indexer, temp, holder, dl, scan, evict, sent, mobile, acts>>

SwitchIndexer ==
  /\ Act
  /\ indexer' \in Indexer \ {indexer}
  /\ hazard' = IF evict.pc = "try" THEN hazard \union {"switched"} ELSE hazard
  /\ UNCHANGED <<imp, file, fs, obj, bytes, passes, sent, mobile>>

\* Mutant: the upload poll takes a file without an fs row.
UploadUnlisted(f) ==
  /\ file[f].state = "live" /\ file[f].current
  /\ indexer \notin obj[f] /\ Slot(f) # "none"
  /\ obj' = [obj EXCEPT ![f] = @ \union {indexer}]
  /\ sent' = [sent EXCEPT ![f] = Slot(f)]
  /\ UNCHANGED <<imp, file, fs, indexer, bytes, passes, mobile, acts, hazard>>

\* The uploader takes a current file shown as on the device and reads its slot.
Upload(f) ==
  /\ file[f].state = "live" /\ file[f].current /\ f \in fs
  /\ indexer \notin obj[f] /\ Slot(f) # "none"
  /\ obj' = [obj EXCEPT ![f] = @ \union {indexer}]
  /\ sent' = [sent EXCEPT ![f] = Slot(f)]
  /\ UNCHANGED <<imp, file, fs, indexer, bytes, passes, mobile, acts, hazard>>

UserStep(f) ==
  \/ Trash(f) \/ Restore(f) \/ Tombstone(f) \/ Supersede(f) \/ Upload(f)
  \/ \E y \in Type : Retype(f, y) \/ removeTombstoned(f, y)

CopiesNext ==
  \/ \E f \in File : GetFileUri(f) \/ DownloadStart(f) \/ Download(f) \/ UserStep(f)
  \/ ScanStep
  \/ \E any \in BOOLEAN : EvictRead(any)
  \/ EvictStep
  \/ \E m \in owed : retypeFile(m[1], m[2], m[3])
  \/ SwitchIndexer
=============================================================================
