---------------------------- MODULE MetadataSync ----------------------------
(***************************************************************************)
(* Metadata sync between the devices of one account and the indexer.       *)
(*                                                                         *)
(* Every device keeps a SQLite row per file, a row per object pinned for   *)
(* it with a dirty flag (needsSyncUp), and a sync-down cursor.  Two        *)
(* services run on each device, interleaved with the user's edits:         *)
(*   - syncUpMetadata walks the dirty objects and pushes or deletes them;  *)
(*   - syncDownEvents reads pages of the indexer's event stream, decides   *)
(*     from reads taken before its transaction what each event means, and  *)
(*     applies the page in that transaction.                               *)
(* The uploader pins a file's object and then records it locally.          *)
(*                                                                         *)
(* One step is one database call or one request, which is where the code   *)
(* awaits and the others may run.                                          *)
(***************************************************************************)
EXTENDS Integers, FiniteSets

CONSTANTS
  Device,      \* devices signed in to the account
  File,        \* file ids
  Object,      \* object ids an upload may produce
  FileOf,      \* the file each object holds
  Uploader,    \* the device whose upload produces each object
  Origin,      \* the device each file is added on
  Packed,      \* objects whose slabs another live object keeps pinned
  Skew,        \* each device's wall clock minus the true time, in ms
  Resettable,  \* devices whose user may reset the sync-down cursor
  Faulty,      \* bound: devices whose ticks may fail, be aborted or die half way
  PageLimit,   \* events per page (batchSize in syncDownEvents)
  MaxEdits,    \* bound: edits made on all devices together
  MaxClock,    \* bound: true time
  MaxHead      \* bound: changes the indexer records

ASSUME SetsAssumption ==
  /\ FileOf \in [Object -> File]
  /\ Uploader \in [Object -> Device]
  /\ Origin \in [File -> Device]
  /\ Packed \subseteq Object /\ IsFiniteSet(Object)
  /\ Resettable \subseteq Device /\ Faulty \subseteq Device

ASSUME NumbersAssumption ==
  /\ Skew \in [Device -> Nat]
  /\ PageLimit \in Nat \ {0}
  /\ MaxEdits \in Nat /\ MaxClock \in Nat /\ MaxHead \in Nat

VARIABLES
  now,      \* true time
  edits,    \* edits made so far; the value an edit writes is its number
  remote,   \* the indexer's metadata of each object
  stream,   \* position of each object's one event, 0 when it has none
  head,     \* last position the indexer gave out
  row,      \* files table of each device
  obj,      \* objects table of each device: "none", "clean" or "dirty"
  cursor,   \* sync-down cursor of each device
  down,     \* the sync-down tick running on each device
  up,       \* the sync-up task of each object on each device
  upl,      \* the upload of each object on each device
  applied,  \* history: position of the last event of an object a device applied
  hazard    \* history: the races named below that have happened

device == <<row, obj, cursor>>
vars == <<now, edits, remote, stream, head, row, obj, cursor, down, up, upl,
          applied, hazard>>

(***************************************************************************)
(* Metadata is the edit clock (files.updatedAt), what renames change and   *)
(* what tag edits change.  A clock of 0 stands for no metadata, no row.    *)
(***************************************************************************)
Meta == [clock : Nat, name : Nat, tags : Nat]
Row == [clock : Nat, name : Nat, tags : Nat, deleted : BOOLEAN]
NoMeta == [clock |-> 0, name |-> 0, tags |-> 0]
NoRow == [clock |-> 0, name |-> 0, tags |-> 0, deleted |-> FALSE]

\* Mutant: the pushed metadata carries the local delete mark.
MetaOfWithDelete(r) == r

MetaOf(r) == [clock |-> r.clock, name |-> r.name, tags |-> r.tags]
Live(r) == r.clock > 0 /\ ~r.deleted
Date(d) == now + Skew[d]

Races == {"editDuringApply", "pushCrossed", "staleStamp", "sameMs",
          "adoptedClean", "lateSave"}

IdleDown == [pc |-> "idle", at |-> [o \in Object |-> 0], last |-> 0,
             meta |-> [o \in Object |-> NoMeta],
             seen |-> [f \in File |-> NoRow], held |-> {}]
IdleUp == [pc |-> "idle", tomb |-> FALSE, got |-> NoMeta, local |-> NoMeta]
IdleUpload == [pc |-> "idle", meta |-> NoMeta]

Down == [pc : {"idle", "paged", "classified", "applied"},
         at : [Object -> Nat], last : Nat, meta : [Object -> Meta],
         seen : [File -> Row], held : SUBSET Object]
Up == [pc : {"idle", "queued", "deleted", "got", "record", "tags", "pushed"},
       tomb : BOOLEAN, got : Meta, local : Meta]
Upload == [pc : {"idle", "read", "pinned"}, meta : Meta]

TypeOK ==
  /\ now \in Nat /\ edits \in Nat /\ head \in Nat
  /\ remote \in [Object -> Meta]
  /\ stream \in [Object -> Nat]
  /\ row \in [Device -> [File -> Row]]
  /\ obj \in [Device -> [Object -> {"none", "clean", "dirty"}]]
  /\ cursor \in [Device -> Nat]
  /\ down \in [Device -> Down]
  /\ up \in [Device -> [Object -> Up]]
  /\ upl \in [Device -> [Object -> Upload]]
  /\ applied \in [Device -> [Object -> Nat]]
  /\ hazard \subseteq Races

Init ==
  /\ now = 1
  /\ edits = 0
  /\ head = 0
  /\ remote = [o \in Object |-> NoMeta]
  /\ stream = [o \in Object |-> 0]
  /\ row = [d \in Device |-> [f \in File |->
              IF Origin[f] = d THEN [NoRow EXCEPT !.clock = 1 + Skew[d]] ELSE NoRow]]
  /\ obj = [d \in Device |-> [o \in Object |-> "none"]]
  /\ cursor = [d \in Device |-> 0]
  /\ down = [d \in Device |-> IdleDown]
  /\ up = [d \in Device |-> [o \in Object |-> IdleUp]]
  /\ upl = [d \in Device |-> [o \in Object |-> IdleUpload]]
  /\ applied = [d \in Device |-> [o \in Object |-> 0]]
  /\ hazard = {}

Tick ==
  /\ now < MaxClock
  /\ now' = now + 1
  /\ UNCHANGED <<edits, remote, stream, head, device, down, up, upl, applied, hazard>>

(***************************************************************************)
(* The indexer.  A change to an object replaces its one event and moves it *)
(* to the end of the stream.                                               *)
(***************************************************************************)
Publish(o, m) ==
  /\ head < MaxHead
  /\ head' = head + 1
  /\ stream' = [stream EXCEPT ![o] = head + 1]
  /\ remote' = [remote EXCEPT ![o] = m]

(***************************************************************************)
(* Local edits.  Each is one transaction that changes the file's row and   *)
(* flags every object of the file.                                         *)
(***************************************************************************)
\* Mutant: an edit flags one object of the file.
FlaggedOnce(d, f) ==
  LET held == {o \in Object : FileOf[o] = f /\ obj[d][o] # "none"} IN
  [o \in Object |-> IF o \in held /\ o = CHOOSE p \in held : TRUE THEN "dirty" ELSE obj[d][o]]

Flagged(d, f) ==
  [o \in Object |->
     IF FileOf[o] = f /\ obj[d][o] # "none" THEN "dirty" ELSE obj[d][o]]

\* A tick of sync-down has decided what an event means for the file and not yet written it.
Deciding(d, f) ==
  /\ down[d].pc = "classified"
  /\ \E o \in Object : FileOf[o] = f /\ down[d].at[o] > 0 /\ down[d].meta[o] # NoMeta

\* A wall-clock stamp need not lie above the clock the row already has.
Stamp(d, f) ==
  CASE Date(d) < row[d][f].clock -> {"staleStamp"}
    [] Date(d) = row[d][f].clock -> {"sameMs"}
    [] OTHER -> {}

Edit(d, f, r, races) ==
  /\ Live(row[d][f])
  /\ edits < MaxEdits
  /\ edits' = edits + 1
  /\ row' = [row EXCEPT ![d][f] = r]
  /\ obj' = [obj EXCEPT ![d] = Flagged(d, f)]
  /\ hazard' = hazard \union races
                      \union (IF Deciding(d, f) THEN {"editDuringApply"} ELSE {})
  /\ UNCHANGED <<now, remote, stream, head, cursor, down, up, upl, applied>>

\* Mutant: a rename stamps the wall clock too.
RenameUnordered(d, f) ==
  Edit(d, f, [row[d][f] EXCEPT !.clock = Date(d), !.name = edits + 1], {})

\* Renames, moves, trash and restore stamp above the row's own clock.
Rename(d, f) ==
  LET above == row[d][f].clock + 1
      stamp == IF Date(d) >= above THEN Date(d) ELSE above
  IN Edit(d, f, [row[d][f] EXCEPT !.clock = stamp, !.name = edits + 1], {})

\* Tag edits and favorites stamp the wall clock, whatever the row's clock is.
EditTags(d, f) ==
  Edit(d, f, [row[d][f] EXCEPT !.clock = Date(d), !.tags = edits + 1], Stamp(d, f))

Tombstone(d, f) ==
  Edit(d, f, [row[d][f] EXCEPT !.clock = Date(d), !.deleted = TRUE], Stamp(d, f))

ResetCursor(d) ==
  /\ d \in Resettable
  /\ cursor[d] > 0
  /\ cursor' = [cursor EXCEPT ![d] = 0]
  /\ UNCHANGED <<now, edits, remote, stream, head, row, obj, down, up, upl, applied, hazard>>

\* Resync metadata: every object is flagged for another walk.
MarkAll(d) ==
  /\ d \in Resettable
  /\ \E o \in Object : obj[d][o] = "clean"
  /\ obj' = [obj EXCEPT ![d] = [o \in Object |-> IF obj[d][o] = "none" THEN "none" ELSE "dirty"]]
  /\ UNCHANGED <<now, edits, remote, stream, head, row, cursor, down, up, upl, applied, hazard>>

(***************************************************************************)
(* The uploader's saveBatchObjects: read the metadata, pin the object with *)
(* it, and record the object dirty.  A file with no object on the indexer  *)
(* is picked up for upload, also after a crash between the pin and the     *)
(* record.  A file trashed since it was picked up still has its row, which *)
(* is read and pinned like any other.                                      *)
(***************************************************************************)
UploadRead(d, o) ==
  LET f == FileOf[o] IN
  /\ Uploader[o] = d
  /\ stream[o] = 0
  /\ row[d][f].clock > 0
  /\ \A p \in Object : FileOf[p] = f => obj[d][p] = "none" /\ upl[d][p].pc = "idle"
  /\ upl' = [upl EXCEPT ![d][o] = [pc |-> "read", meta |-> MetaOf(row[d][f])]]
  /\ UNCHANGED <<now, edits, remote, stream, head, device, down, up, applied, hazard>>

UploadPin(d, o) ==
  /\ upl[d][o].pc = "read"
  /\ Publish(o, upl[d][o].meta)
  /\ upl' = [upl EXCEPT ![d][o].pc = "pinned"]
  /\ UNCHANGED <<now, edits, device, down, up, applied, hazard>>

\* This device's sync-down read the delete of an object it did not know yet.
DeletePassed(d, o) ==
  /\ remote[o] = NoMeta
  /\ \/ stream[o] <= cursor[d]
     \/ down[d].pc \in {"classified", "applied"} /\ down[d].at[o] = stream[o]

UploadSave(d, o) ==
  /\ upl[d][o].pc = "pinned"
  /\ obj' = [obj EXCEPT ![d][o] = "dirty"]
  /\ upl' = [upl EXCEPT ![d][o] = IdleUpload]
  /\ hazard' = hazard \union (IF DeletePassed(d, o) THEN {"lateSave"} ELSE {})
  /\ UNCHANGED <<now, edits, remote, stream, head, row, cursor, down, up, applied>>

(***************************************************************************)
(* Sync up.  A pass queues every dirty object and runs a task for each.    *)
(***************************************************************************)
UpGoto(d, o, pc) == up' = [up EXCEPT ![d][o].pc = pc]
UpEnd(d, o) == up' = [up EXCEPT ![d][o] = IdleUp]

UpBatch(d) ==
  LET batch == {o \in Object : obj[d][o] = "dirty"} IN
  /\ \A o \in Object : up[d][o].pc = "idle"
  /\ batch # {}
  /\ up' = [up EXCEPT ![d] = [o \in Object |->
              IF o \in batch
              THEN [IdleUp EXCEPT !.pc = "queued", !.tomb = row[d][FileOf[o]].deleted]
              ELSE IdleUp]]
  /\ UNCHANGED <<now, edits, remote, stream, head, device, down, upl, applied, hazard>>

\* An object already gone counts as deleted.
UpDelete(d, o) ==
  /\ up[d][o].pc = "queued" /\ up[d][o].tomb
  /\ \/ remote[o] # NoMeta /\ Publish(o, NoMeta)
     \/ remote[o] = NoMeta /\ UNCHANGED <<remote, stream, head>>
  /\ UpGoto(d, o, "deleted")
  /\ UNCHANGED <<now, edits, device, down, upl, applied, hazard>>

UpDrop(d, o) ==
  /\ up[d][o].pc = "deleted"
  /\ obj' = [obj EXCEPT ![d][o] = "none"]
  /\ UpEnd(d, o)
  /\ UNCHANGED <<now, edits, remote, stream, head, row, cursor, down, upl, applied, hazard>>

UpGet(d, o) ==
  /\ up[d][o].pc = "queued" /\ ~up[d][o].tomb
  /\ remote[o] # NoMeta
  /\ up' = [up EXCEPT ![d][o].pc = "got", ![d][o].got = remote[o]]
  /\ UNCHANGED <<now, edits, remote, stream, head, device, down, upl, applied, hazard>>

\* getMetadataForSync reads the record first and the tags after it.
UpReadRecord(d, o) ==
  LET r == row[d][FileOf[o]] IN
  /\ up[d][o].pc = "got"
  /\ IF Live(r)
     THEN up' = [up EXCEPT ![d][o].pc = "record", ![d][o].local = [MetaOf(r) EXCEPT !.tags = 0]]
     ELSE UpEnd(d, o)
  /\ UNCHANGED <<now, edits, remote, stream, head, device, down, upl, applied, hazard>>

UpReadTags(d, o) ==
  /\ up[d][o].pc = "record"
  /\ up' = [up EXCEPT ![d][o].pc = "tags", ![d][o].local.tags = row[d][FileOf[o]].tags]
  /\ UNCHANGED <<now, edits, remote, stream, head, device, down, upl, applied, hazard>>

\* Mutant: the flag is cleared whatever happened during the round trip.
CasClearBlind(d, o) == obj' = [obj EXCEPT ![d][o] = IF @ = "dirty" THEN "clean" ELSE @]

\* clearObjectIfUnchanged: the flag goes only while the edit clock is the one read.
CasClear(d, o) ==
  obj' = [obj EXCEPT ![d][o] =
            IF @ = "dirty" /\ row[d][FileOf[o]].clock = up[d][o].local.clock
            THEN "clean" ELSE @]

MustPush(t) == t.local # t.got /\ t.local.clock >= t.got.clock

\* Mutant: an object with nothing to push stays flagged.
UpSkipFlagged(d, o) ==
  /\ up[d][o].pc = "tags"
  /\ ~MustPush(up[d][o])
  /\ UpEnd(d, o)
  /\ UNCHANGED <<now, edits, remote, stream, head, device, down, upl, applied, hazard>>

\* Nothing to push, or the remote is newer.
UpSkip(d, o) ==
  /\ up[d][o].pc = "tags"
  /\ ~MustPush(up[d][o])
  /\ CasClear(d, o)
  /\ UpEnd(d, o)
  /\ UNCHANGED <<now, edits, remote, stream, head, row, cursor, down, upl, applied, hazard>>

\* The request overwrites whatever the object holds by then.  A deleted object
\* comes back while its slabs are still pinned.
UpPush(d, o) ==
  /\ up[d][o].pc = "tags"
  /\ MustPush(up[d][o])
  /\ remote[o] # NoMeta \/ o \in Packed
  /\ Publish(o, up[d][o].local)
  /\ UpGoto(d, o, "pushed")
  /\ hazard' = hazard \union (IF remote[o] # up[d][o].got THEN {"pushCrossed"} ELSE {})
  /\ UNCHANGED <<now, edits, device, down, upl, applied>>

UpClear(d, o) ==
  /\ up[d][o].pc = "pushed"
  /\ CasClear(d, o)
  /\ UpEnd(d, o)
  /\ UNCHANGED <<now, edits, remote, stream, head, row, cursor, down, upl, applied, hazard>>

\* The indexer has no such object, or will not restore it.
Refused(d, o) ==
  \/ up[d][o].pc = "queued" /\ ~up[d][o].tomb /\ remote[o] = NoMeta
  \/ up[d][o].pc = "tags" /\ MustPush(up[d][o]) /\ remote[o] = NoMeta /\ o \notin Packed

\* A request that fails or whose answer is lost, or an abort before the task's
\* turn.  The flag stays for the next pass.
UpFail(d, o) ==
  /\ up[d][o].pc # "idle"
  /\ d \in Faulty \/ Refused(d, o)
  /\ UpEnd(d, o)
  /\ UNCHANGED <<now, edits, remote, stream, head, device, down, upl, applied, hazard>>

(***************************************************************************)
(* Sync down.                                                              *)
(***************************************************************************)
\* A page is the events after the cursor up to `last`, as many as fit.
DownFetch(d) ==
  /\ down[d].pc = "idle"
  /\ \E last \in {stream[o] : o \in Object} :
       LET page == {o \in Object : cursor[d] < stream[o] /\ stream[o] <= last} IN
       /\ page # {}
       /\ Cardinality(page) <= PageLimit
       /\ Cardinality(page) = PageLimit \/ \A o \in Object : stream[o] <= last
       /\ down' = [down EXCEPT ![d] =
            [IdleDown EXCEPT !.pc = "paged", !.last = last,
               !.at = [o \in Object |-> IF o \in page THEN stream[o] ELSE 0],
               !.meta = [o \in Object |-> IF o \in page THEN remote[o] ELSE NoMeta]]]
  /\ UNCHANGED <<now, edits, remote, stream, head, device, up, upl, applied, hazard>>

\* The reads events are classified by, taken before the transaction.
DownClassify(d) ==
  /\ down[d].pc = "paged"
  /\ down' = [down EXCEPT ![d].pc = "classified", ![d].seen = row[d],
                ![d].held = {o \in Object : obj[d][o] # "none"}]
  /\ UNCHANGED <<now, edits, remote, stream, head, device, up, upl, applied, hazard>>

Upserts(w) == {o \in Object : w.at[o] > 0 /\ w.meta[o] # NoMeta}
Deletes(w) == {o \in w.held : w.at[o] > 0 /\ w.meta[o] = NoMeta}
\* A create is newer than the row it does not find.  Ties take the remote.
RemoteNewer(w, o) == w.meta[o].clock >= w.seen[FileOf[o]].clock
\* Mutant: of the events of a file in a page, the first is taken.
NewestFirst(w, f) ==
  LET c == {o \in Upserts(w) : FileOf[o] = f /\ RemoteNewer(w, o)} IN
  {o \in c : \A p \in c : w.at[o] <= w.at[p]}

\* newestPerFile: the newest clock, and the later event among equals.
Newest(w, f) ==
  LET c == {o \in Upserts(w) : FileOf[o] = f /\ RemoteNewer(w, o)} IN
  {o \in c : \A p \in c : \/ w.meta[p].clock < w.meta[o].clock
                          \/ /\ w.meta[p].clock = w.meta[o].clock
                             /\ w.at[p] <= w.at[o]}

\* Mutant: the upsert writes deletedAt as well.
MergedAlive(w, r, f) ==
  IF Newest(w, f) = {} THEN r
  ELSE LET m == w.meta[CHOOSE o \in Newest(w, f) : TRUE] IN
       [clock |-> m.clock, name |-> m.name, tags |-> m.tags, deleted |-> FALSE]

\* upsertManyFiles and the tag sync.  The upsert leaves deletedAt alone, and is
\* skipped for a row that was a tombstone when the events were classified.
Merged(w, r, f) ==
  IF Newest(w, f) = {} THEN r
  ELSE LET m == w.meta[CHOOSE o \in Newest(w, f) : TRUE] IN
       IF w.seen[f].deleted THEN [r EXCEPT !.tags = m.tags]
       ELSE [r EXCEPT !.clock = m.clock, !.name = m.name, !.tags = m.tags]

\* A deleted object tombstones its file, whatever other objects the file has.
Buried(w, r, f, date) ==
  IF /\ ~w.seen[f].deleted /\ ~r.deleted
     /\ \E o \in Deletes(w) : FileOf[o] = f
  THEN [r EXCEPT !.clock = date, !.deleted = TRUE] ELSE r

\* The dirty flag is cleared where the remote wins and kept everywhere else.
Refreshed(w, s, o) ==
  CASE o \in Deletes(w) -> "none"
    [] o \in Upserts(w) ->
         IF s = "none" \/ (RemoteNewer(w, o) /\ ~w.seen[FileOf[o]].deleted)
         THEN "clean" ELSE s
    [] OTHER -> s

\* An object not known here arrives for a row that is newer, or a tombstone: it
\* is recorded clean, with the row's own edit or delete still to be sent for it.
AdoptsClean(d, w) ==
  \E o \in Upserts(w) :
    obj[d][o] = "none" /\ (~RemoteNewer(w, o) \/ w.seen[FileOf[o]].deleted)

DownApply(d) ==
  LET w == down[d] IN
  /\ w.pc = "classified"
  /\ hazard' = hazard \union (IF AdoptsClean(d, w) THEN {"adoptedClean"} ELSE {})
  /\ row' = [row EXCEPT ![d] = [f \in File |->
               Buried(w, Merged(w, row[d][f], f), f, Date(d))]]
  /\ obj' = [obj EXCEPT ![d] = [o \in Object |-> Refreshed(w, obj[d][o], o)]]
  /\ applied' = [applied EXCEPT ![d] = [o \in Object |->
                   IF w.at[o] > 0 THEN w.at[o] ELSE applied[d][o]]]
  /\ down' = [down EXCEPT ![d].pc = "applied"]
  /\ UNCHANGED <<now, edits, remote, stream, head, cursor, up, upl>>

\* Mutant: an aborted tick saves its cursor too.
DownSaveAborted(d) ==
  /\ down[d].pc # "idle"
  /\ cursor' = [cursor EXCEPT ![d] = down[d].last]
  /\ down' = [down EXCEPT ![d] = IdleDown]
  /\ UNCHANGED <<now, edits, remote, stream, head, row, obj, up, upl, applied, hazard>>

DownSave(d) ==
  /\ down[d].pc = "applied"
  /\ cursor' = [cursor EXCEPT ![d] = down[d].last]
  /\ down' = [down EXCEPT ![d] = IdleDown]
  /\ UNCHANGED <<now, edits, remote, stream, head, row, obj, up, upl, applied, hazard>>

\* An abort seen at any of the exit points, or a transaction that rolls back.
DownStop(d) ==
  /\ d \in Faulty
  /\ down[d].pc # "idle"
  /\ down' = [down EXCEPT ![d] = IdleDown]
  /\ UNCHANGED <<now, edits, remote, stream, head, device, up, upl, applied, hazard>>

\* The process dies.  The database and the stored cursor survive it.
Crash(d) ==
  /\ d \in Faulty
  /\ \/ down[d] # IdleDown
     \/ \E o \in Object : up[d][o] # IdleUp \/ upl[d][o] # IdleUpload
  /\ down' = [down EXCEPT ![d] = IdleDown]
  /\ up' = [up EXCEPT ![d] = [o \in Object |-> IdleUp]]
  /\ upl' = [upl EXCEPT ![d] = [o \in Object |-> IdleUpload]]
  /\ UNCHANGED <<now, edits, remote, stream, head, device, applied, hazard>>

UserStep(d) ==
  \/ \E f \in File : Rename(d, f) \/ EditTags(d, f) \/ Tombstone(d, f)
  \/ ResetCursor(d) \/ MarkAll(d)

UpTask(d, o) ==
  \/ UpDelete(d, o) \/ UpDrop(d, o) \/ UpGet(d, o) \/ UpReadRecord(d, o)
  \/ UpReadTags(d, o) \/ UpSkip(d, o) \/ UpPush(d, o) \/ UpClear(d, o)

UploadStep(d, o) == UploadRead(d, o) \/ UploadPin(d, o) \/ UploadSave(d, o)

\* The poll for files to upload looks for live ones: no trashed file need be read.
UploadDue(d, o) ==
  /\ upl[d][o].pc = "idle" => Live(row[d][FileOf[o]])
  /\ UploadStep(d, o)

DownStep(d) == DownFetch(d) \/ DownClassify(d) \/ DownApply(d) \/ DownSave(d)

Next ==
  \/ Tick
  \/ \E d \in Device :
       \/ UserStep(d) \/ DownStep(d) \/ DownStop(d) \/ UpBatch(d) \/ Crash(d)
       \/ \E o \in Object : UploadStep(d, o) \/ UpTask(d, o) \/ UpFail(d, o)

Spec == Init /\ [][Next]_vars

\* The service scheduler runs both ticks and the uploader again and again, and a
\* tick that nothing interrupts gets to its end.
FairSpec ==
  /\ Spec
  /\ \A d \in Device :
       /\ WF_vars(DownStep(d))
       /\ WF_vars(UpBatch(d))
       /\ \A o \in Object : WF_vars(UploadDue(d, o)) /\ WF_vars(UpTask(d, o) \/ UpFail(d, o))

(***************************************************************************)
(* Properties.                                                             *)
(***************************************************************************)
Idle(d) ==
  /\ down[d].pc = "idle"
  /\ \A o \in Object : up[d][o].pc = "idle" /\ upl[d][o].pc = "idle"

\* Nothing to read, to push or to upload is left.
Settled(d) ==
  /\ Idle(d)
  /\ \A o \in Object : obj[d][o] # "dirty" /\ stream[o] <= cursor[d]
  /\ \A f \in File : Live(row[d][f]) => \E o \in Object : FileOf[o] = f /\ obj[d][o] # "none"

Quiescent == \A d \in Device : Settled(d)

\* The cursor never passes an event this device did not apply: an abort, a
\* rollback, a full page or a crash between the transaction and the saved
\* cursor may only make a page be read again.
NoSkippedEvent ==
  \A d \in Device, o \in Object :
    0 < stream[o] /\ stream[o] <= cursor[d] => applied[d][o] = stream[o]

\* Once a device has read the last event of each object of a file and none of
\* them is dirty, one of them has the row's metadata on the indexer, or newer:
\* neither sync-up nor sync-down drops the flag of an edit that was never sent.
CleanMeansPushed ==
  hazard = {} =>
    \A d \in Device, f \in File :
      LET objects == {o \in Object : FileOf[o] = f}
          r == row[d][f]
      IN
      /\ Live(r)
      /\ \E o \in objects : obj[d][o] # "none"
      /\ \A o \in objects : obj[d][o] # "dirty" /\ applied[d][o] = stream[o]
      => \E o \in objects : remote[o].clock > r.clock \/ remote[o] = MetaOf(r)

\* What a device has read it holds, or something newer: no later page, and no other
\* event of the same page, puts an older version of the file back.
ReadIsKept ==
  hazard = {} =>
    \A d \in Device, o \in Object :
      /\ applied[d][o] = stream[o] /\ remote[o] # NoMeta
      /\ Live(row[d][FileOf[o]])
      => row[d][FileOf[o]].clock >= remote[o].clock

\* Two devices with nothing left to send or to read hold the same library.
Converges ==
  hazard = {} /\ Quiescent =>
    \A d, e \in Device, f \in File :
      LET r == row[d][f]
          q == row[e][f]
      IN r.clock > 0 /\ q.clock > 0 =>
           r.deleted = q.deleted /\ (~r.deleted => r = q)

\* A file deleted anywhere has no object left that a device could bring it back from.
StaysDeleted ==
  hazard = {} /\ Quiescent =>
    \A d \in Device, o \in Object : row[d][FileOf[o]].deleted => remote[o] = NoMeta

\* A tombstone is the permanent record of a delete: no step takes it back.
DeleteWins ==
  [][\A d \in Device, f \in File : row[d][f].deleted => row'[d][f].deleted]_vars

\* Left alone after the last edit, the devices come to rest.
Settles == <>[](hazard = {} => Quiescent)

=============================================================================
