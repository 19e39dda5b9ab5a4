------------------------- MODULE MetadataSyncProofs -------------------------
(***************************************************************************)
(* Proofs about MetadataSync for every set of devices, files and objects,  *)
(* every page limit, clock skew and bound.                                 *)
(***************************************************************************)
EXTENDS MetadataSync, FiniteSetTheorems, TLAPS

\* What the provers may take over a leaf that names none.
USE SMTT(30), ZenonT(30), SMTT(60)

(***************************************************************************)
(* What the operators return.                                              *)
(***************************************************************************)
LEMMA EmptyTypes ==
  /\ NoMeta \in Meta /\ NoRow \in Row
  /\ IdleUp \in Up /\ IdleUpload \in Upload /\ IdleDown \in Down
BY DEF NoMeta, NoRow, Meta, Row, IdleUp, Up, IdleUpload, Upload, IdleDown, Down

LEMMA MetaOfType == ASSUME NEW r \in Row PROVE MetaOf(r) \in Meta
BY DEF MetaOf, Meta, Row

LEMMA DateType == ASSUME TypeOK, NEW d \in Device PROVE Date(d) \in Nat
BY NumbersAssumption DEF TypeOK, Date

LEMMA FlaggedType ==
  ASSUME TypeOK, NEW d \in Device, NEW f \in File
  PROVE  Flagged(d, f) \in [Object -> {"none", "clean", "dirty"}]
BY DEF TypeOK, Flagged

LEMMA MergedType ==
  ASSUME NEW w \in Down, NEW r \in Row, NEW f \in File
  PROVE  Merged(w, r, f) \in Row
<1> DEFINE o == CHOOSE o \in Newest(w, f) : TRUE
           m == w.meta[o]
<1>1. CASE Newest(w, f) = {}
  BY <1>1 DEF Merged
<1>2. CASE Newest(w, f) # {}
  <2>1. o \in Object
    BY <1>2 DEF Newest, Upserts
  <2>2. m \in Meta
    BY <2>1 DEF Down
  <2>3. /\ [r EXCEPT !.tags = m.tags] \in Row
        /\ [r EXCEPT !.clock = m.clock, !.name = m.name, !.tags = m.tags] \in Row
    BY <2>2 DEF Row, Meta
  <2> QED
    BY <1>2, <2>3 DEF Merged
<1> QED
  BY <1>1, <1>2

LEMMA BuriedType ==
  ASSUME NEW w, NEW r \in Row, NEW f \in File, NEW date \in Nat
  PROVE  Buried(w, r, f, date) \in Row
BY DEF Buried, Row

LEMMA RefreshedType ==
  ASSUME NEW w, NEW s \in {"none", "clean", "dirty"}, NEW o
  PROVE  Refreshed(w, s, o) \in {"none", "clean", "dirty"}
BY DEF Refreshed

(***************************************************************************)
(* Type correctness.                                                       *)
(***************************************************************************)
LEMMA PublishType ==
  ASSUME TypeOK, NEW o \in Object, NEW m \in Meta, Publish(o, m)
  PROVE  /\ head' \in Nat
         /\ remote' \in [Object -> Meta]
         /\ stream' \in [Object -> Nat]
BY DEF TypeOK, Publish

LEMMA EditType ==
  ASSUME TypeOK, NEW d \in Device, NEW f \in File, NEW r \in Row,
         NEW races \in SUBSET Races, Edit(d, f, r, races)
  PROVE  TypeOK'
<1>1. edits' \in Nat /\ row' \in [Device -> [File -> Row]]
  BY DEF TypeOK, Edit
<1>2. obj' \in [Device -> [Object -> {"none", "clean", "dirty"}]]
  BY FlaggedType DEF TypeOK, Edit
<1>3. hazard' \subseteq Races
  BY DEF TypeOK, Edit, Races
<1> QED
  BY <1>1, <1>2, <1>3 DEF TypeOK, Edit

LEMMA UserStepType ==
  ASSUME TypeOK, NEW d \in Device, UserStep(d)
  PROVE  TypeOK'
<1>1. ASSUME NEW f \in File, Rename(d, f) PROVE TypeOK'
  <2>0. row[d][f] \in Row /\ edits + 1 \in Nat
    BY DEF TypeOK
  <2> DEFINE above == row[d][f].clock + 1
             stamp == IF Date(d) >= above THEN Date(d) ELSE above
             r == [row[d][f] EXCEPT !.clock = stamp, !.name = edits + 1]
  <2>1. stamp \in Nat
    BY <2>0, DateType DEF Row
  <2> HIDE DEF stamp
  <2>2. r \in Row
    BY <2>0, <2>1 DEF Row
  <2>3. Edit(d, f, r, {})
    BY <1>1 DEF Rename, stamp
  <2> QED
    BY <2>2, <2>3, EditType
<1>2. ASSUME NEW f \in File, EditTags(d, f) PROVE TypeOK'
  <2>0. row[d][f] \in Row /\ edits + 1 \in Nat
    BY DEF TypeOK
  <2>1. [row[d][f] EXCEPT !.clock = Date(d), !.tags = edits + 1] \in Row
    BY <2>0, DateType DEF Row
  <2>2. Stamp(d, f) \in SUBSET Races
    BY DEF Stamp, Races
  <2> QED
    BY <1>2, <2>1, <2>2, EditType DEF EditTags
<1>3. ASSUME NEW f \in File, Tombstone(d, f) PROVE TypeOK'
  <2>0. row[d][f] \in Row /\ edits + 1 \in Nat
    BY DEF TypeOK
  <2>1. [row[d][f] EXCEPT !.clock = Date(d), !.deleted = TRUE] \in Row
    BY <2>0, DateType DEF Row
  <2>2. Stamp(d, f) \in SUBSET Races
    BY DEF Stamp, Races
  <2> QED
    BY <1>3, <2>1, <2>2, EditType DEF Tombstone
<1>4. CASE ResetCursor(d)
  BY <1>4 DEF ResetCursor, TypeOK
<1>5. CASE MarkAll(d)
  BY <1>5 DEF MarkAll, TypeOK
<1> QED
  BY <1>1, <1>2, <1>3, <1>4, <1>5 DEF UserStep

LEMMA UploadStepType ==
  ASSUME TypeOK, NEW d \in Device, NEW o \in Object, UploadStep(d, o)
  PROVE  TypeOK'
<1>1. CASE UploadRead(d, o)
  <2>1. [pc |-> "read", meta |-> MetaOf(row[d][FileOf[o]])] \in Upload
    <3>1. row[d][FileOf[o]] \in Row
      BY SetsAssumption DEF TypeOK
    <3> QED
      BY <3>1, MetaOfType DEF Upload
  <2> QED
    BY <1>1, <2>1 DEF UploadRead, TypeOK, device
<1>2. CASE UploadPin(d, o)
  <2>1. upl[d][o].meta \in Meta
    BY DEF TypeOK, Upload
  <2>2. [upl[d][o] EXCEPT !.pc = "pinned"] \in Upload
    <3>1. upl[d][o] \in Upload
      BY DEF TypeOK
    <3> QED
      BY <3>1 DEF Upload
  <2>3. upl' \in [Device -> [Object -> Upload]]
    BY <1>2, <2>2 DEF UploadPin, TypeOK
  <2> QED
    BY <1>2, <2>1, <2>3, PublishType DEF UploadPin, TypeOK, device
<1>3. CASE UploadSave(d, o)
  BY <1>3, EmptyTypes DEF UploadSave, TypeOK, Races
<1> QED
  BY <1>1, <1>2, <1>3 DEF UploadStep

LEMMA UpTaskType ==
  ASSUME TypeOK, NEW d \in Device, NEW o \in Object, UpTask(d, o) \/ UpFail(d, o)
  PROVE  TypeOK'
<1> DEFINE t == up[d][o]
<1>1. t \in Up /\ row[d][FileOf[o]] \in Row /\ remote[o] \in Meta
  BY SetsAssumption DEF TypeOK
<1>2. ASSUME NEW pc \in {"idle", "queued", "deleted", "got", "record", "tags", "pushed"},
             UpGoto(d, o, pc)
      PROVE  up' \in [Device -> [Object -> Up]]
  <2>1. [t EXCEPT !.pc = pc] \in Up
    BY <1>1 DEF Up
  <2> QED
    BY <1>2, <2>1 DEF UpGoto, TypeOK
<1>3. UpEnd(d, o) => up' \in [Device -> [Object -> Up]]
  BY EmptyTypes DEF UpEnd, TypeOK
<1>4. CasClear(d, o) => obj' \in [Device -> [Object -> {"none", "clean", "dirty"}]]
  BY DEF CasClear, TypeOK
<1>5. CASE UpDelete(d, o)
  <2>1. up' \in [Device -> [Object -> Up]]
    BY <1>2, <1>5 DEF UpDelete
  <2>2. head' \in Nat /\ remote' \in [Object -> Meta] /\ stream' \in [Object -> Nat]
    <3>1. CASE Publish(o, NoMeta)
      BY <3>1, EmptyTypes, PublishType
    <3>2. CASE UNCHANGED <<remote, stream, head>>
      BY <3>2 DEF TypeOK
    <3> QED
      BY <1>5, <3>1, <3>2 DEF UpDelete
  <2> QED
    BY <1>5, <2>1, <2>2 DEF UpDelete, TypeOK, device
<1>6. CASE UpDrop(d, o)
  BY <1>3, <1>6 DEF UpDrop, TypeOK
<1>7. CASE UpGet(d, o)
  <2>1. [t EXCEPT !.pc = "got", !.got = remote[o]] \in Up
    BY <1>1 DEF Up
  <2> QED
    BY <1>7, <2>1 DEF UpGet, TypeOK, device
<1>8. CASE UpReadRecord(d, o)
  <2>1. [MetaOf(row[d][FileOf[o]]) EXCEPT !.tags = 0] \in Meta
    BY <1>1, MetaOfType DEF Meta
  <2>2. [t EXCEPT !.pc = "record",
                  !.local = [MetaOf(row[d][FileOf[o]]) EXCEPT !.tags = 0]] \in Up
    BY <1>1, <2>1 DEF Up
  <2>3. up' \in [Device -> [Object -> Up]]
    <3>1. CASE Live(row[d][FileOf[o]])
      <4> DEFINE m == [MetaOf(row[d][FileOf[o]]) EXCEPT !.tags = 0]
      <4>1. up' = [up EXCEPT ![d][o].pc = "record", ![d][o].local = m]
        BY <1>8, <3>1 DEF UpReadRecord
      <4>2. [t EXCEPT !.pc = "record", !.local = m] \in Up
        BY <2>2
      <4> HIDE DEF m
      <4> QED
        BY <4>1, <4>2 DEF TypeOK
    <3>2. CASE ~Live(row[d][FileOf[o]])
      BY <1>3, <1>8, <3>2 DEF UpReadRecord
    <3> QED
      BY <3>1, <3>2
  <2> QED
    BY <1>8, <2>3 DEF UpReadRecord, TypeOK, device
<1>9. CASE UpReadTags(d, o)
  <2>1. [t EXCEPT !.pc = "tags", !.local.tags = row[d][FileOf[o]].tags] \in Up
    BY <1>1 DEF Up, Meta, Row
  <2> QED
    BY <1>9, <2>1 DEF UpReadTags, TypeOK, device
<1>10. CASE UpSkip(d, o)
  BY <1>3, <1>4, <1>10 DEF UpSkip, TypeOK
<1>11. CASE UpPush(d, o)
  <2>1. t.local \in Meta
    BY <1>1 DEF Up
  <2> QED
    BY <1>2, <1>11, <2>1, PublishType DEF UpPush, TypeOK, device, Races
<1>12. CASE UpClear(d, o)
  BY <1>3, <1>4, <1>12 DEF UpClear, TypeOK
<1>13. CASE UpFail(d, o)
  BY <1>3, <1>13 DEF UpFail, TypeOK, device
<1> QED
  BY <1>5, <1>6, <1>7, <1>8, <1>9, <1>10, <1>11, <1>12, <1>13 DEF UpTask

LEMMA UpBatchType ==
  ASSUME TypeOK, NEW d \in Device, UpBatch(d)
  PROVE  TypeOK'
<1>1. \A o \in Object : [IdleUp EXCEPT !.pc = "queued", !.tomb = row[d][FileOf[o]].deleted] \in Up
  <2>1. \A o \in Object : row[d][FileOf[o]] \in Row
    BY SetsAssumption DEF TypeOK
  <2> QED
    BY <2>1, EmptyTypes DEF Up, Row
<1> QED
  BY <1>1, EmptyTypes, ZenonT(60) DEF UpBatch, TypeOK, device

(***************************************************************************)
(* One tick of sync-down.                                                  *)
(***************************************************************************)
LEMMA DownStepType ==
  ASSUME TypeOK, NEW d \in Device, DownStep(d) \/ DownStop(d)
  PROVE  TypeOK'
<1> DEFINE w == down[d]
<1>0. w \in Down
  BY DEF TypeOK
<1>1. CASE DownFetch(d)
  <2>1. PICK last \in {stream[o] : o \in Object} :
          LET page == {o \in Object : cursor[d] < stream[o] /\ stream[o] <= last} IN
          down' = [down EXCEPT ![d] =
            [IdleDown EXCEPT !.pc = "paged", !.last = last,
               !.at = [o \in Object |-> IF o \in page THEN stream[o] ELSE 0],
               !.meta = [o \in Object |-> IF o \in page THEN remote[o] ELSE NoMeta]]]
    BY <1>1, ZenonT(60) DEF DownFetch
  <2> DEFINE page == {o \in Object : cursor[d] < stream[o] /\ stream[o] <= last}
             at == [o \in Object |-> IF o \in page THEN stream[o] ELSE 0]
             meta == [o \in Object |-> IF o \in page THEN remote[o] ELSE NoMeta]
  <2>2. last \in Nat /\ at \in [Object -> Nat] /\ meta \in [Object -> Meta]
    BY EmptyTypes DEF TypeOK
  <2> HIDE DEF at, meta
  <2>3. [IdleDown EXCEPT !.pc = "paged", !.last = last, !.at = at, !.meta = meta] \in Down
    BY <2>2, EmptyTypes DEF Down
  <2>4. down' \in [Device -> Down]
    BY <2>1, <2>3 DEF TypeOK, at, meta
  <2> QED
    BY <1>1, <2>4 DEF DownFetch, TypeOK, device
<1>2. CASE DownClassify(d)
  <2>1. row[d] \in [File -> Row]
    BY DEF TypeOK
  <2>2. [w EXCEPT !.pc = "classified", !.seen = row[d],
                  !.held = {o \in Object : obj[d][o] # "none"}] \in Down
    BY <1>0, <2>1, ZenonT(60) DEF Down
  <2> QED
    BY <1>2, <2>2 DEF DownClassify, TypeOK, device
<1>3. CASE DownApply(d)
  <2>1. row' \in [Device -> [File -> Row]]
    <3>1. \A f \in File : Buried(w, Merged(w, row[d][f], f), f, Date(d)) \in Row
      BY <1>0, MergedType, BuriedType, DateType DEF TypeOK
    <3> QED
      BY <1>3, <3>1 DEF DownApply, TypeOK
  <2>2. obj' \in [Device -> [Object -> {"none", "clean", "dirty"}]]
    <3>1. \A o \in Object : Refreshed(w, obj[d][o], o) \in {"none", "clean", "dirty"}
      BY RefreshedType DEF TypeOK
    <3> QED
      BY <1>3, <3>1 DEF DownApply, TypeOK
  <2>3. applied' \in [Device -> [Object -> Nat]]
    <3>1. \A o \in Object : w.at[o] \in Nat /\ applied[d][o] \in Nat
      BY <1>0 DEF Down, TypeOK
    <3> QED
      BY <1>3, <3>1 DEF DownApply, TypeOK
  <2>4. down' \in [Device -> Down]
    <3>1. [w EXCEPT !.pc = "applied"] \in Down
      BY <1>0 DEF Down
    <3> QED
      BY <1>3, <3>1 DEF DownApply, TypeOK
  <2>5. hazard' \subseteq Races
    BY <1>3 DEF DownApply, TypeOK, Races
  <2> QED
    BY <1>3, <2>1, <2>2, <2>3, <2>4, <2>5 DEF DownApply, TypeOK
<1>4. CASE DownSave(d)
  <2>1. w.last \in Nat
    BY <1>0 DEF Down
  <2> QED
    BY <1>4, <2>1, EmptyTypes DEF DownSave, TypeOK
<1>5. CASE DownStop(d)
  BY <1>5, EmptyTypes DEF DownStop, TypeOK, device
<1> QED
  BY <1>1, <1>2, <1>3, <1>4, <1>5 DEF DownStep

LEMMA CrashType ==
  ASSUME TypeOK, NEW d \in Device, Crash(d)
  PROVE  TypeOK'
BY EmptyTypes DEF Crash, TypeOK, device

LEMMA StepType == TypeOK /\ [Next]_vars => TypeOK'
<1> SUFFICES ASSUME TypeOK, [Next]_vars PROVE TypeOK'
  OBVIOUS
<1>1. CASE Tick
  BY <1>1 DEF Tick, TypeOK, device
<1>2. ASSUME NEW d \in Device,
             UserStep(d) \/ DownStep(d) \/ DownStop(d) \/ UpBatch(d) \/ Crash(d)
      PROVE  TypeOK'
  BY <1>2, UserStepType, DownStepType, UpBatchType, CrashType
<1>3. ASSUME NEW d \in Device, NEW o \in Object,
             UploadStep(d, o) \/ UpTask(d, o) \/ UpFail(d, o)
      PROVE  TypeOK'
  BY <1>3, UploadStepType, UpTaskType
<1>4. CASE UNCHANGED vars
  BY <1>4 DEF vars, device, TypeOK
<1> QED
  BY <1>1, <1>2, <1>3, <1>4 DEF Next

LEMMA InitType == Init => TypeOK
<1> SUFFICES ASSUME Init PROVE TypeOK
  OBVIOUS
<1>1. row \in [Device -> [File -> Row]]
  <2>1. \A d \in Device : [NoRow EXCEPT !.clock = 1 + Skew[d]] \in Row
    BY EmptyTypes, NumbersAssumption DEF Row
  <2> QED
    BY <2>1, EmptyTypes DEF Init
<1> QED
  BY <1>1, EmptyTypes DEF Init, TypeOK

\* Every variable keeps its type: in particular every clock a device writes is a
\* timestamp and no step leaves a tick, a task or an upload half reset.
THEOREM TypeCorrect == Spec => []TypeOK
<1> QED
  BY InitType, StepType, PTL DEF Spec

(***************************************************************************)
(* No event is skipped.  The invariant relates the cursor a tick is about  *)
(* to save to what the tick holds: until it saves, every event at or below *)
(* `last` was applied earlier or is in the page, and once the transaction  *)
(* has run all of them were applied.                                       *)
(***************************************************************************)
StreamBounded ==
  /\ \A o \in Object : stream[o] <= head
  /\ \A d \in Device : cursor[d] <= head

PageCovers ==
  \A d \in Device : down[d].pc # "idle" =>
    /\ cursor[d] <= down[d].last
    /\ down[d].last <= head
    /\ \A o \in Object :
         0 < stream[o] /\ stream[o] <= down[d].last =>
           IF down[d].at[o] = 0 \/ down[d].pc = "applied"
           THEN applied[d][o] = stream[o]
           ELSE down[d].at[o] = stream[o]

CursorInv == StreamBounded /\ PageCovers /\ NoSkippedEvent
SyncInv == TypeOK /\ CursorInv

LEMMA PublishKeeps ==
  ASSUME SyncInv, NEW o \in Object, NEW m, Publish(o, m),
         UNCHANGED <<cursor, down, applied>>
  PROVE  CursorInv'
<1>1. head \in Nat /\ head' = head + 1 /\ stream' = [stream EXCEPT ![o] = head + 1]
  BY DEF SyncInv, CursorInv, TypeOK, Publish
<1>2. stream \in [Object -> Nat] /\ cursor \in [Device -> Nat] /\ down \in [Device -> Down]
  BY DEF SyncInv, CursorInv, TypeOK
<1>3. StreamBounded'
  BY <1>1, <1>2 DEF SyncInv, CursorInv, StreamBounded
<1>4. PageCovers'
  <2> SUFFICES ASSUME NEW d \in Device, down[d].pc # "idle"
               PROVE  /\ cursor[d] <= down[d].last /\ down[d].last <= head'
                      /\ \A p \in Object :
                           0 < stream'[p] /\ stream'[p] <= down[d].last =>
                             IF down[d].at[p] = 0 \/ down[d].pc = "applied"
                             THEN applied[d][p] = stream'[p]
                             ELSE down[d].at[p] = stream'[p]
    BY DEF PageCovers
  <2>1. cursor[d] <= down[d].last /\ down[d].last <= head /\ down[d].last \in Nat
    BY <1>2 DEF SyncInv, CursorInv, PageCovers, Down
  <2>2. ASSUME NEW p \in Object, stream'[p] <= down[d].last PROVE stream'[p] = stream[p]
    BY <1>1, <1>2, <2>1, <2>2
  <2> QED
    BY <1>1, <2>1, <2>2 DEF SyncInv, CursorInv, PageCovers
<1>5. NoSkippedEvent'
  BY <1>1, <1>2 DEF SyncInv, CursorInv, NoSkippedEvent, StreamBounded
<1> QED
  BY <1>3, <1>4, <1>5 DEF CursorInv

LEMMA CursorStep ==
  ASSUME SyncInv, NEW d \in Device, DownStep(d) \/ DownStop(d)
  PROVE  CursorInv'
<1> DEFINE w == down[d]
<1>0. /\ stream \in [Object -> Nat] /\ cursor \in [Device -> Nat] /\ head \in Nat
      /\ applied \in [Device -> [Object -> Nat]] /\ down \in [Device -> Down] /\ w \in Down
  BY DEF SyncInv, CursorInv, TypeOK
<1>1. CASE DownFetch(d)
  <2>1. PICK last \in {stream[o] : o \in Object} :
          LET page == {o \in Object : cursor[d] < stream[o] /\ stream[o] <= last} IN
          /\ page # {}
          /\ down' = [down EXCEPT ![d] =
               [IdleDown EXCEPT !.pc = "paged", !.last = last,
                  !.at = [o \in Object |-> IF o \in page THEN stream[o] ELSE 0],
                  !.meta = [o \in Object |-> IF o \in page THEN remote[o] ELSE NoMeta]]]
    BY <1>1, ZenonT(60) DEF DownFetch
  <2>2. UNCHANGED <<stream, head, cursor, applied>>
    BY <1>1 DEF DownFetch, device
  <2>3. /\ down'[d].pc = "paged" /\ down'[d].last = last
        /\ \A o \in Object :
             down'[d].at[o] = IF cursor[d] < stream[o] /\ stream[o] <= last THEN stream[o] ELSE 0
    BY <1>0, <2>1 DEF IdleDown
  <2>4. last \in Nat /\ last <= head /\ cursor[d] <= last
    BY <1>0, <2>1 DEF SyncInv, CursorInv, StreamBounded
  <2>5. PageCovers'
    <3> SUFFICES ASSUME NEW e \in Device, down'[e].pc # "idle"
                 PROVE  /\ cursor[e] <= down'[e].last /\ down'[e].last <= head
                        /\ \A o \in Object :
                             0 < stream[o] /\ stream[o] <= down'[e].last =>
                               IF down'[e].at[o] = 0 \/ down'[e].pc = "applied"
                               THEN applied[e][o] = stream[o]
                               ELSE down'[e].at[o] = stream[o]
      BY <2>2 DEF PageCovers
    <3>1. CASE e = d
      BY <1>0, <2>3, <2>4, <3>1 DEF SyncInv, CursorInv, NoSkippedEvent
    <3>2. CASE e # d
      <4>1. down'[e] = down[e]
        BY <1>0, <2>1, <3>2
      <4> QED
        BY <4>1 DEF SyncInv, CursorInv, PageCovers
    <3> QED
      BY <3>1, <3>2
  <2> QED
    BY <2>2, <2>5 DEF SyncInv, CursorInv, StreamBounded, NoSkippedEvent
<1>2. CASE DownClassify(d)
  <2>1. UNCHANGED <<stream, head, cursor, applied>>
    BY <1>2 DEF DownClassify, device
  <2>2. \A e \in Device :
          /\ down'[e].last = down[e].last /\ down'[e].at = down[e].at
          /\ down'[e].pc # "idle" => down[e].pc # "idle"
          /\ down'[e].pc = "applied" <=> down[e].pc = "applied"
    BY <1>0, <1>2 DEF DownClassify, Down
  <2> QED
    BY <2>1, <2>2 DEF SyncInv, CursorInv, PageCovers, StreamBounded, NoSkippedEvent
<1>3. CASE DownApply(d)
  <2>1. /\ w.pc = "classified"
        /\ UNCHANGED <<stream, head, cursor>>
        /\ \A o \in Object : applied'[d][o] = IF w.at[o] > 0 THEN w.at[o] ELSE applied[d][o]
        /\ \A e \in Device : e # d => applied'[e] = applied[e] /\ down'[e] = down[e]
        /\ down'[d].pc = "applied" /\ down'[d].last = w.last /\ down'[d].at = w.at
    BY <1>0, <1>3 DEF DownApply, Down
  <2>2. /\ w.last \in Nat /\ cursor[d] <= w.last /\ w.last <= head
        /\ \A o \in Object : w.at[o] \in Nat
    BY <1>0, <2>1 DEF SyncInv, CursorInv, PageCovers, Down
  <2>3. ASSUME NEW o \in Object, 0 < stream[o], stream[o] <= w.last
        PROVE  applied'[d][o] = stream[o]
    BY <1>0, <2>1, <2>2, <2>3 DEF SyncInv, CursorInv, PageCovers
  <2>4. PageCovers'
    <3> SUFFICES ASSUME NEW e \in Device, down'[e].pc # "idle"
                 PROVE  /\ cursor[e] <= down'[e].last /\ down'[e].last <= head
                        /\ \A o \in Object :
                             0 < stream[o] /\ stream[o] <= down'[e].last =>
                               IF down'[e].at[o] = 0 \/ down'[e].pc = "applied"
                               THEN applied'[e][o] = stream[o]
                               ELSE down'[e].at[o] = stream[o]
      BY <2>1 DEF PageCovers
    <3>1. CASE e = d
      BY <2>1, <2>2, <2>3, <3>1
    <3>2. CASE e # d
      BY <2>1, <3>2 DEF SyncInv, CursorInv, PageCovers
    <3> QED
      BY <3>1, <3>2
  <2>5. NoSkippedEvent'
    <3> SUFFICES ASSUME NEW e \in Device, NEW o \in Object, 0 < stream[o], stream[o] <= cursor[e]
                 PROVE  applied'[e][o] = stream[o]
      BY <2>1 DEF NoSkippedEvent
    <3>1. CASE e = d
      BY <1>0, <2>2, <2>3, <3>1
    <3>2. CASE e # d
      BY <2>1, <3>2 DEF SyncInv, CursorInv, NoSkippedEvent
    <3> QED
      BY <3>1, <3>2
  <2> QED
    BY <2>1, <2>4, <2>5 DEF SyncInv, CursorInv, StreamBounded
<1>4. CASE DownSave(d)
  <2>1. /\ w.pc = "applied"
        /\ UNCHANGED <<stream, head, applied>>
        /\ cursor'[d] = w.last /\ down'[d].pc = "idle"
        /\ \A e \in Device : e # d => cursor'[e] = cursor[e] /\ down'[e] = down[e]
    BY <1>0, <1>4 DEF DownSave, IdleDown
  <2>2. /\ w.last <= head
        /\ \A o \in Object : 0 < stream[o] /\ stream[o] <= w.last => applied[d][o] = stream[o]
    BY <2>1 DEF SyncInv, CursorInv, PageCovers
  <2> QED
    BY <2>1, <2>2 DEF SyncInv, CursorInv, PageCovers, StreamBounded, NoSkippedEvent
<1>5. CASE DownStop(d)
  <2>1. /\ UNCHANGED <<stream, head, applied, cursor>>
        /\ down'[d].pc = "idle"
        /\ \A e \in Device : e # d => down'[e] = down[e]
    BY <1>0, <1>5 DEF DownStop, device, IdleDown
  <2> QED
    BY <2>1 DEF SyncInv, CursorInv, PageCovers, StreamBounded, NoSkippedEvent
<1> QED
  BY <1>1, <1>2, <1>3, <1>4, <1>5 DEF DownStep

LEMMA ResetStep ==
  ASSUME SyncInv, NEW d \in Device, ResetCursor(d)
  PROVE  CursorInv'
<1>1. /\ stream \in [Object -> Nat] /\ cursor \in [Device -> Nat] /\ head \in Nat
      /\ down \in [Device -> Down]
  BY DEF SyncInv, CursorInv, TypeOK
<1>2. /\ UNCHANGED <<stream, head, applied, down>>
      /\ cursor'[d] = 0 /\ \A e \in Device : e # d => cursor'[e] = cursor[e]
  BY <1>1 DEF ResetCursor
<1>3. \A e \in Device : cursor'[e] <= cursor[e] /\ cursor'[e] \in Nat /\ down[e].last \in Nat
  <2>1. \A e \in Device : down[e].last \in Nat
    BY <1>1 DEF Down
  <2>2. ASSUME NEW e \in Device PROVE cursor'[e] <= cursor[e] /\ cursor'[e] \in Nat
    <3>1. cursor[e] \in Nat
      BY <1>1
    <3>2. cursor'[e] = 0 \/ cursor'[e] = cursor[e]
      BY <1>2
    <3> QED
      BY <3>1, <3>2
  <2> QED
    BY <2>1, <2>2
<1>4. \A e \in Device : cursor'[e] <= head /\ (down[e].pc # "idle" => cursor'[e] <= down[e].last)
  BY <1>1, <1>3 DEF SyncInv, CursorInv, StreamBounded, PageCovers
<1>5. \A e \in Device, o \in Object : stream[o] <= cursor'[e] => stream[o] <= cursor[e]
  BY <1>1, <1>3
<1> QED
  BY <1>2, <1>4, <1>5 DEF SyncInv, CursorInv, PageCovers, StreamBounded, NoSkippedEvent

LEMMA CrashStep ==
  ASSUME SyncInv, NEW d \in Device, Crash(d)
  PROVE  CursorInv'
<1>1. /\ UNCHANGED <<stream, head, applied, cursor>>
      /\ down'[d].pc = "idle"
      /\ \A e \in Device : e # d => down'[e] = down[e]
  BY DEF SyncInv, CursorInv, TypeOK, Crash, device, IdleDown
<1> QED
  BY <1>1 DEF SyncInv, CursorInv, PageCovers, StreamBounded, NoSkippedEvent

LEMMA SyncInvStep == SyncInv /\ [Next]_vars => SyncInv'
<1> SUFFICES ASSUME SyncInv, [Next]_vars PROVE SyncInv'
  OBVIOUS
<1>1. TypeOK'
  BY StepType DEF SyncInv, CursorInv
<1>2. ASSUME UNCHANGED <<stream, head, applied, cursor, down>> PROVE CursorInv'
  <2>1. StreamBounded'
    BY <1>2 DEF SyncInv, CursorInv, StreamBounded
  <2>2. PageCovers'
    BY <1>2 DEF SyncInv, CursorInv, PageCovers
  <2>3. NoSkippedEvent'
    BY <1>2 DEF SyncInv, CursorInv, NoSkippedEvent
  <2> QED
    BY <2>1, <2>2, <2>3 DEF CursorInv
<1>3. ASSUME Tick PROVE CursorInv'
  BY <1>2, <1>3 DEF Tick, device
<1>4. ASSUME NEW d \in Device, UserStep(d) PROVE CursorInv'
  <2>1. CASE ResetCursor(d)
    BY <2>1, ResetStep
  <2>2. ASSUME NEW f \in File, Rename(d, f) \/ EditTags(d, f) \/ Tombstone(d, f) PROVE CursorInv'
    BY <1>2, <2>2 DEF Rename, EditTags, Tombstone, Edit
  <2>3. CASE MarkAll(d)
    BY <1>2, <2>3 DEF MarkAll
  <2> QED
    BY <1>4, <2>1, <2>2, <2>3 DEF UserStep
<1>5. ASSUME NEW d \in Device, DownStep(d) \/ DownStop(d) PROVE CursorInv'
  BY <1>5, CursorStep
<1>6. ASSUME NEW d \in Device, UpBatch(d) PROVE CursorInv'
  BY <1>2, <1>6, ZenonT(60) DEF UpBatch, device
<1>7. ASSUME NEW d \in Device, Crash(d) PROVE CursorInv'
  BY <1>7, CrashStep
<1>8. ASSUME NEW d \in Device, NEW o \in Object, UploadStep(d, o) PROVE CursorInv'
  <2>1. CASE UploadRead(d, o)
    BY <1>2, <2>1 DEF UploadRead, device
  <2>2. CASE UploadPin(d, o)
    BY <2>2, PublishKeeps DEF UploadPin, device
  <2>3. CASE UploadSave(d, o)
    BY <1>2, <2>3 DEF UploadSave
  <2> QED
    BY <1>8, <2>1, <2>2, <2>3 DEF UploadStep
<1>9. ASSUME NEW d \in Device, NEW o \in Object, UpTask(d, o) \/ UpFail(d, o) PROVE CursorInv'
  <2>1. CASE UpDelete(d, o)
    <3>1. CASE Publish(o, NoMeta)
      BY <2>1, <3>1, PublishKeeps DEF UpDelete, device
    <3>2. CASE UNCHANGED <<remote, stream, head>>
      BY <1>2, <2>1, <3>2 DEF UpDelete, device
    <3> QED
      BY <2>1, <3>1, <3>2 DEF UpDelete
  <2>2. CASE UpPush(d, o)
    BY <2>2, PublishKeeps DEF UpPush, device
  <2>3. CASE UpDrop(d, o) \/ UpSkip(d, o) \/ UpClear(d, o)
    BY <1>2, <2>3 DEF UpDrop, UpSkip, UpClear
  <2>4. CASE UpGet(d, o) \/ UpReadRecord(d, o) \/ UpReadTags(d, o) \/ UpFail(d, o)
    BY <1>2, <2>4 DEF UpGet, UpReadRecord, UpReadTags, UpFail, device
  <2> QED
    BY <1>9, <2>1, <2>2, <2>3, <2>4 DEF UpTask
<1>10. ASSUME UNCHANGED vars PROVE CursorInv'
  BY <1>2, <1>10 DEF vars, device
<1>11. CursorInv'
  BY <1>3, <1>4, <1>5, <1>6, <1>7, <1>8, <1>9, <1>10 DEF Next
<1> QED
  BY <1>1, <1>11 DEF SyncInv, CursorInv

LEMMA SyncInvInit == Init => SyncInv
<1> SUFFICES ASSUME Init PROVE SyncInv
  OBVIOUS
<1> QED
  BY InitType DEF Init, SyncInv, CursorInv, StreamBounded, PageCovers, NoSkippedEvent, IdleDown

\* Whatever the page limit, and wherever ticks are aborted, rolled back, killed or
\* run beside a reset of the cursor, a device's cursor passes no event that the
\* device did not apply (syncDownEvents.ts, the cursor saved after the page's
\* transaction and never before an exit).
THEOREM CursorPassesNothing == Spec => []NoSkippedEvent
<1>1. SyncInv => NoSkippedEvent
  BY DEF SyncInv, CursorInv
<1> QED
  BY <1>1, SyncInvInit, SyncInvStep, PTL DEF Spec

(***************************************************************************)
(* Tombstones are permanent.                                               *)
(***************************************************************************)
StaysBuried == \A d \in Device, f \in File : row[d][f].deleted => row'[d][f].deleted

LEMMA EditSparesTombstones ==
  ASSUME TypeOK, NEW d \in Device, NEW f \in File, NEW r, NEW races, Edit(d, f, r, races)
  PROVE  StaysBuried
BY DEF TypeOK, Edit, Live, StaysBuried

LEMMA ApplySparesTombstones ==
  ASSUME TypeOK, NEW d \in Device, DownApply(d)
  PROVE  StaysBuried
<1> DEFINE w == down[d]
<1>1. row' = [row EXCEPT ![d] = [f \in File |-> Buried(w, Merged(w, row[d][f], f), f, Date(d))]]
  BY DEF DownApply
<1>2. ASSUME NEW f \in File, row[d][f].deleted PROVE row'[d][f].deleted
  <2>1. row[d][f] \in Row
    BY DEF TypeOK
  <2>2. Merged(w, row[d][f], f).deleted
    BY <1>2, <2>1 DEF Merged, Row
  <2>3. Buried(w, Merged(w, row[d][f], f), f, Date(d)).deleted
    BY <2>2 DEF Buried
  <2> QED
    BY <1>1, <2>3 DEF TypeOK
<1>3. \A e \in Device : e # d => row'[e] = row[e]
  BY <1>1 DEF TypeOK
<1> QED
  BY <1>2, <1>3 DEF StaysBuried

LEMMA StepSparesTombstones == TypeOK /\ [Next]_vars => StaysBuried
<1> SUFFICES ASSUME TypeOK, [Next]_vars PROVE StaysBuried
  OBVIOUS
<1>1. ASSUME UNCHANGED row PROVE StaysBuried
  BY <1>1 DEF StaysBuried
<1>2. CASE Tick
  BY <1>1, <1>2 DEF Tick, device
<1>3. ASSUME NEW d \in Device, UserStep(d) PROVE StaysBuried
  <2>1. ASSUME NEW f \in File, Rename(d, f) \/ EditTags(d, f) \/ Tombstone(d, f)
        PROVE  StaysBuried
    BY <2>1, EditSparesTombstones DEF Rename, EditTags, Tombstone
  <2>2. CASE ResetCursor(d) \/ MarkAll(d)
    BY <1>1, <2>2 DEF ResetCursor, MarkAll
  <2> QED
    BY <1>3, <2>1, <2>2 DEF UserStep
<1>4. ASSUME NEW d \in Device, DownStep(d) PROVE StaysBuried
  BY <1>1, <1>4, ApplySparesTombstones, ZenonT(60) DEF DownStep, DownFetch, DownClassify,
    DownSave, device
<1>5. ASSUME NEW d \in Device, DownStop(d) \/ UpBatch(d) \/ Crash(d) PROVE StaysBuried
  BY <1>1, <1>5, ZenonT(60) DEF DownStop, UpBatch, Crash, device
<1>6. ASSUME NEW d \in Device, NEW o \in Object,
             UploadStep(d, o) \/ UpTask(d, o) \/ UpFail(d, o)
      PROVE  StaysBuried
  <2>1. CASE UploadStep(d, o)
    BY <1>1, <2>1 DEF UploadStep, UploadRead, UploadPin, UploadSave, device
  <2>2. CASE UpTask(d, o) \/ UpFail(d, o)
    BY <1>1, <2>2 DEF UpTask, UpDelete, UpDrop, UpGet, UpReadRecord, UpReadTags, UpSkip,
                      UpPush, UpClear, UpFail, device
  <2> QED
    BY <1>6, <2>1, <2>2
<1>7. CASE UNCHANGED vars
  BY <1>1, <1>7 DEF vars
<1> QED
  BY <1>2, <1>3, <1>4, <1>5, <1>6, <1>7 DEF Next

\* No edit and no page of events brings back a file a device has tombstoned
\* (upsertManyFiles leaves deletedAt out of the columns it updates).
THEOREM TombstonesArePermanent == Spec => DeleteWins
<1>1. TypeOK /\ [Next]_vars =>
        [\A d \in Device, f \in File : row[d][f].deleted => row'[d][f].deleted]_vars
  BY StepSparesTombstones DEF StaysBuried
<1> QED
  BY <1>1, TypeCorrect, PTL DEF Spec, DeleteWins

-----------------------------------------------------------------------------
(***************************************************************************)
(* What metadata sync comes to: the four invariants of MetadataSync that   *)
(* hold of the behaviours with none of the named races.                    *)
(***************************************************************************)
(***************************************************************************)
(* The newest event of a file exists whenever an event of it is taken.     *)
(***************************************************************************)
LEMMA NewestExists ==
  ASSUME NEW w \in Down, NEW f \in File, NEW p \in Upserts(w),
         FileOf[p] = f, RemoteNewer(w, p)
  PROVE  Newest(w, f) # {}
<1> DEFINE Leq(x, o) == \/ w.meta[x].clock < w.meta[o].clock
                        \/ w.meta[x].clock = w.meta[o].clock /\ w.at[x] <= w.at[o]
           Tops(U) == {o \in U : \A x \in U : Leq(x, o)}
           Bad == {U \in SUBSET Object : U # {} /\ Tops(U) = {}}
           c == {o \in Upserts(w) : FileOf[o] = f /\ RemoteNewer(w, o)}
<1>1. \A x \in Object : w.meta[x].clock \in Int /\ w.at[x] \in Int
  BY DEF Down, Meta
<1>2. /\ \A x \in Object : Leq(x, x)
      /\ \A x, y \in Object : Leq(x, y) \/ Leq(y, x)
      /\ \A x, y, z \in Object : Leq(x, y) /\ Leq(y, z) => Leq(x, z)
  BY <1>1
<1> HIDE DEF Leq
<1>3. Bad = {}
  <2> SUFFICES ASSUME Bad # {} PROVE FALSE
    OBVIOUS
  <2>1. Bad \subseteq FiniteSubsetsOf(Object)
    BY SetsAssumption, FS_Subset DEF FiniteSubsetsOf
  <2>2. PICK U \in Bad : \A V \in Bad : ~(<<V, U>> \in StrictSubsetOrdering(Object))
    <3>1. IsWellFoundedOn(StrictSubsetOrdering(Object), FiniteSubsetsOf(Object))
      BY FS_StrictSubsetOrderingWellFounded
    <3> HIDE DEF Bad
    <3> QED
      BY <2>1, <3>1, WFMin
  <2>3. PICK x \in U : TRUE
    OBVIOUS
  <2> DEFINE V == U \ {x}
  <2>4. x \in Object /\ V \subseteq Object /\ U = V \cup {x} /\ V # U
    BY <2>2, <2>3
  <2>5. <<V, U>> \in StrictSubsetOrdering(Object)
    BY <2>2, <2>4 DEF StrictSubsetOrdering
  <2>6. V \notin Bad
    BY <2>2, <2>5
  <2>7. CASE V = {}
    <3>1. x \in Tops(U)
      BY <1>2, <2>4, <2>7
    <3> QED
      BY <2>2, <3>1
  <2>8. CASE V # {}
    <3>1. PICK m \in Tops(V) : TRUE
      BY <2>4, <2>6, <2>8
    <3>2. m \in V /\ m \in Object /\ \A y \in V : Leq(y, m)
      BY <2>4, <3>1
    <3>3. CASE Leq(x, m)
      <4>1. m \in Tops(U)
        BY <2>4, <3>2, <3>3
      <4> QED
        BY <2>2, <4>1
    <3>4. CASE Leq(m, x)
      <4>1. \A y \in V : Leq(y, x)
        BY <1>2, <2>4, <3>2, <3>4
      <4>2. x \in Tops(U)
        BY <1>2, <2>4, <4>1
      <4> QED
        BY <2>2, <4>2
    <3> QED
      BY <1>2, <2>4, <3>2, <3>3, <3>4
  <2> QED
    BY <2>7, <2>8
<1>4. c # {} /\ c \subseteq Object
  BY DEF Upserts
<1>5. Tops(c) # {}
  <2> HIDE DEF Tops, c
  <2> QED
    BY <1>3, <1>4
<1>6. Newest(w, f) = Tops(c)
  BY DEF Newest, Leq
<1> QED
  BY <1>5, <1>6

(***************************************************************************)
(* The invariant.  It holds of a behaviour up to the first race of Races:  *)
(* what follows describes the states in which none has happened.           *)
(***************************************************************************)
RowOf(d, o) == row[d][FileOf[o]]
Unread(d, o) == applied[d][o] # stream[o]

\* The indexer's metadata has that clock or a newer one, or the object is gone.
Reached(o, clock) == remote[o] = NoMeta \/ remote[o].clock >= clock

\* The stream's positions are those of the objects the indexer has or had, and
\* no device is ahead of it.
Numbered ==
  /\ \A o \in Object : remote[o] # NoMeta => stream[o] > 0 /\ remote[o].clock > 0
  /\ \A o, p \in Object : stream[p] = stream[o] /\ stream[o] > 0 => p = o
  /\ \A d \in Device, o \in Object : applied[d][o] <= stream[o]

\* An event of a page is the object's last one, or one it has moved past.
Event(w, o) ==
  /\ w.at[o] = 0 => w.meta[o] = NoMeta
  /\ w.meta[o] # NoMeta => w.meta[o].clock > 0
  /\ w.at[o] > 0 =>
       /\ w.pc # "idle"
       /\ w.at[o] <= w.last
       /\ w.at[o] <= stream[o]
       /\ IF w.meta[o] = NoMeta THEN remote[o] = NoMeta ELSE Reached(o, w.meta[o].clock)
       /\ IF w.at[o] = stream[o] THEN w.meta[o] = remote[o] ELSE stream[o] > w.last

Paged ==
  /\ \A d \in Device, o \in Object : Event(down[d], o)
  /\ \A d \in Device, o \in Object : down[d].at[o] > 0 => cursor[d] < down[d].at[o]

\* Only an object the indexer has or had is recorded, pushed or saved.
Known ==
  /\ \A d \in Device, o \in Object :
       obj[d][o] # "none" \/ up[d][o].pc # "idle" \/ upl[d][o].pc = "pinned" => stream[o] > 0
  /\ \A d \in Device, o \in Object :
       upl[d][o].pc = "read" => stream[o] = 0 /\ Uploader[o] = d /\ upl[d][o].meta.clock > 0

\* What a sync-up task read is no newer than what is there now.
Task(d, o, t) ==
  /\ t.pc # "idle" => obj[d][o] # "none" \/ RowOf(d, o).deleted
  /\ t.pc # "idle" /\ t.tomb => RowOf(d, o).deleted
  /\ t.pc = "deleted" => t.tomb /\ remote[o] = NoMeta
  /\ t.pc \in {"got", "record", "tags"} => t.got # NoMeta /\ Reached(o, t.got.clock)
  /\ t.pc \in {"record", "tags", "pushed"} =>
       t.local.clock > 0 /\ (RowOf(d, o).deleted \/ t.local.clock <= RowOf(d, o).clock)
  /\ t.pc = "pushed" => Reached(o, t.local.clock)

Tasked == \A d \in Device, o \in Object : Task(d, o, up[d][o])

\* What a tick decided from still holds where it matters.
Classified ==
  /\ \A d \in Device, f \in File : down[d].seen[f].deleted => row[d][f].deleted
  /\ \A d \in Device, f \in File : Deciding(d, f) => row[d][f] = down[d].seen[f]
  /\ \A d \in Device, o \in Object :
       /\ down[d].pc = "classified" /\ o \notin down[d].held
       /\ down[d].at[o] = stream[o] /\ down[d].meta[o] = NoMeta
       => obj[d][o] = "none"

\* An object of the file carries the row's metadata, or news of it are to be read.
Witness(d, o) ==
  /\ obj[d][o] # "none"
  /\ \/ remote[o] = MetaOf(RowOf(d, o))
     \/ Unread(d, o) /\ Reached(o, RowOf(d, o).clock)
Good(d, f) == \E o \in Object : FileOf[o] = f /\ Witness(d, o)

\* A device has at least what it read, and a tie has its witness.
Kept ==
  \A d \in Device, o \in Object :
    ~Unread(d, o) /\ remote[o] # NoMeta /\ ~RowOf(d, o).deleted =>
      /\ obj[d][o] # "none"
      /\ RowOf(d, o).clock >= remote[o].clock
      /\ RowOf(d, o).clock = remote[o].clock => Good(d, FileOf[o])

\* A delete that was read leaves no clean object and no push under way.
Gone ==
  \A d \in Device, o \in Object :
    ~Unread(d, o) /\ stream[o] > 0 /\ remote[o] = NoMeta /\ ~RowOf(d, o).deleted =>
      obj[d][o] # "clean" /\ up[d][o].pc \in {"idle", "queued"}

\* A file none of whose objects is flagged has its witness.
Pushed ==
  \A d \in Device, f \in File :
    /\ Live(row[d][f])
    /\ \E o \in Object : FileOf[o] = f /\ obj[d][o] # "none"
    /\ \A o \in Object : FileOf[o] = f => obj[d][o] # "dirty"
    => Good(d, f)

Outcome == Kept /\ Gone /\ Pushed
Sound == Numbered /\ Paged /\ Known /\ Tasked /\ Classified /\ Outcome

(***************************************************************************)
(* Types, and what the parts of the invariant say of one device or object. *)
(***************************************************************************)
LEMMA Types ==
  ASSUME SyncInv
  PROVE  /\ head \in Nat /\ remote \in [Object -> Meta] /\ stream \in [Object -> Nat]
         /\ row \in [Device -> [File -> Row]] /\ cursor \in [Device -> Nat]
         /\ obj \in [Device -> [Object -> {"none", "clean", "dirty"}]]
         /\ down \in [Device -> Down] /\ up \in [Device -> [Object -> Up]]
         /\ upl \in [Device -> [Object -> Upload]]
         /\ applied \in [Device -> [Object -> Nat]]
BY DEF SyncInv, TypeOK

LEMMA RowTypes ==
  ASSUME SyncInv, NEW d \in Device
  PROVE  /\ \A f \in File : row[d][f] \in Row /\ row[d][f].clock \in Nat
         /\ \A o \in Object : /\ FileOf[o] \in File /\ RowOf(d, o) \in Row
                              /\ RowOf(d, o).clock \in Nat /\ remote[o].clock \in Nat
BY SetsAssumption, Types DEF RowOf, Row, Meta

LEMMA DownTypes ==
  ASSUME SyncInv, NEW d \in Device
  PROVE  /\ down[d].last \in Nat /\ down[d].held \subseteq Object
         /\ \A o \in Object : /\ down[d].at[o] \in Nat /\ down[d].meta[o] \in Meta
                              /\ down[d].meta[o].clock \in Nat
         /\ \A f \in File : down[d].seen[f] \in Row /\ down[d].seen[f].clock \in Nat
<1>1. down[d] \in Down
  BY Types
<1> QED
  BY <1>1 DEF Down, Meta, Row

LEMMA TaskTypes ==
  ASSUME SyncInv, NEW d \in Device, NEW o \in Object
  PROVE  /\ up[d][o].got \in Meta /\ up[d][o].local \in Meta
         /\ up[d][o].got.clock \in Nat /\ up[d][o].local.clock \in Nat
         /\ upl[d][o].meta \in Meta
<1>1. up[d][o] \in Up /\ upl[d][o] \in Upload
  BY Types
<1> QED
  BY <1>1 DEF Up, Upload, Meta

LEMMA ClockOf ==
  ASSUME NEW r \in Row
  PROVE  /\ MetaOf(r).clock = r.clock
         /\ r.clock > 0 => MetaOf(r) # NoMeta
BY DEF MetaOf, NoMeta, Row

LEMMA RowEquality ==
  ASSUME NEW r \in Row, NEW q \in Row, MetaOf(r) = MetaOf(q), r.deleted = q.deleted
  PROVE  r = q
BY DEF MetaOf, Row

(***************************************************************************)
(* A change the indexer records.                                           *)
(***************************************************************************)
\* The changes the clients make: never an older version, and nothing for a deleted object.
Forward(o, m) ==
  /\ m # NoMeta => m.clock > 0
  /\ stream[o] > 0 => m = NoMeta \/ (remote[o] # NoMeta /\ m.clock >= remote[o].clock)

LEMMA PublishMoves ==
  ASSUME SyncInv, NEW o \in Object, NEW m \in Meta, Publish(o, m), Forward(o, m)
  PROVE  /\ head' = head + 1 /\ stream'[o] = head + 1 /\ remote'[o] = m
         /\ \A p \in Object : p # o => stream'[p] = stream[p] /\ remote'[p] = remote[p]
         /\ \A p \in Object : stream[p] <= head /\ stream[p] <= stream'[p]
         /\ \A p \in Object : stream[p] > 0 =>
              /\ remote[p] = NoMeta => remote'[p] = NoMeta
              /\ \A c \in Nat : Reached(p, c) => Reached(p, c)'
<1>1. /\ head' = head + 1 /\ stream'[o] = head + 1 /\ remote'[o] = m
      /\ \A p \in Object : p # o => stream'[p] = stream[p] /\ remote'[p] = remote[p]
  BY Types DEF Publish
<1>2. \A p \in Object : stream[p] <= head /\ stream[p] <= stream'[p]
  <2>1. \A p \in Object : stream[p] <= head
    BY DEF SyncInv, CursorInv, StreamBounded
  <2> QED
    BY <1>1, <2>1, Types
<1>3. ASSUME NEW p \in Object, stream[p] > 0
      PROVE  /\ remote[p] = NoMeta => remote'[p] = NoMeta
             /\ \A c \in Nat : Reached(p, c) => Reached(p, c)'
  <2>1. CASE p # o
    BY <1>1, <2>1 DEF Reached
  <2>2. CASE p = o
    <3>1. m = NoMeta \/ (remote[o] # NoMeta /\ m.clock >= remote[o].clock)
      BY <1>3, <2>2 DEF Forward
    <3>2. remote[o].clock \in Nat /\ m.clock \in Nat
      BY Types DEF Meta
    <3> QED
      BY <1>1, <2>2, <3>1, <3>2 DEF Reached
  <2> QED
    BY <2>1, <2>2
<1> QED
  BY <1>1, <1>2, <1>3

LEMMA PublishSound ==
  ASSUME SyncInv, Sound, NEW o \in Object, NEW m \in Meta, Publish(o, m), Forward(o, m),
         UNCHANGED <<row, obj, cursor, down, applied>>,
         \A e \in Device, p \in Object : p # o => up'[e][p] = up[e][p]
  PROVE  Numbered' /\ Paged' /\ Classified' /\ Outcome'
<1>1. /\ head' = head + 1 /\ stream'[o] = head + 1 /\ remote'[o] = m
      /\ \A p \in Object : p # o => stream'[p] = stream[p] /\ remote'[p] = remote[p]
      /\ \A p \in Object : stream[p] <= head /\ stream[p] <= stream'[p]
      /\ \A p \in Object : stream[p] > 0 =>
           /\ remote[p] = NoMeta => remote'[p] = NoMeta
           /\ \A c \in Nat : Reached(p, c) => Reached(p, c)'
  BY PublishMoves
<1>2. \A p \in Object : stream[p] \in Nat /\ stream'[p] \in Nat /\ head \in Nat
  <2>1. head \in Nat /\ head + 1 \in Nat /\ \A p \in Object : stream[p] \in Nat
    BY Types
  <2>2. ASSUME NEW p \in Object PROVE stream'[p] \in Nat
    <3>1. stream'[p] = head + 1 \/ stream'[p] = stream[p]
      BY <1>1
    <3> QED
      BY <2>1, <3>1
  <2> QED
    BY <2>1, <2>2
<1>3. Numbered'
  <2>1. \A p \in Object : remote'[p] # NoMeta => stream'[p] > 0 /\ remote'[p].clock > 0
    BY <1>1, <1>2 DEF Sound, Numbered, Forward
  <2>2. \A p, q \in Object : stream'[q] = stream'[p] /\ stream'[p] > 0 => q = p
    <3> SUFFICES ASSUME NEW p \in Object, NEW q \in Object, stream'[q] = stream'[p], stream'[p] > 0
                 PROVE  q = p
      OBVIOUS
    <3>1. p # o /\ q # o => stream[q] = stream[p] /\ stream[p] > 0
      BY <1>1
    <3>2. p = o <=> q = o
      BY <1>1, <1>2
    <3> QED
      BY <3>1, <3>2 DEF Sound, Numbered
  <2>3. \A d \in Device, p \in Object : applied[d][p] <= stream'[p]
    <3>1. \A d \in Device, p \in Object : applied[d][p] <= stream[p] /\ applied[d][p] \in Nat
      BY Types DEF Sound, Numbered
    <3> QED
      BY <1>1, <1>2, <3>1
  <2> QED
    BY <2>1, <2>2, <2>3 DEF Numbered
<1>4. \A d \in Device, p \in Object :
        down[d].at[p] > 0 => /\ down[d].at[p] # stream'[o] /\ stream[p] > 0
                             /\ stream'[o] > down[d].last
  <2> SUFFICES ASSUME NEW d \in Device, NEW p \in Object, down[d].at[p] > 0
               PROVE  /\ down[d].at[p] # stream'[o] /\ stream[p] > 0
                      /\ stream'[o] > down[d].last
    OBVIOUS
  <2>1. down[d].pc # "idle" /\ down[d].at[p] <= stream[p]
    BY DEF Sound, Paged, Event
  <2>2. down[d].last <= head
    BY <2>1 DEF SyncInv, CursorInv, PageCovers
  <2> QED
    BY <1>1, <1>2, <2>1, <2>2, DownTypes
<1>5. Paged'
  <2> SUFFICES ASSUME NEW d \in Device, NEW p \in Object PROVE Event(down[d], p)'
    BY DEF Sound, Paged
  <2>0. Event(down[d], p)
    BY DEF Sound, Paged
  <2>1. CASE p # o
    BY <1>1, <2>0, <2>1 DEF Event, Reached
  <2>2. CASE p = o
    <3>1. CASE down[d].at[o] = 0
      BY <2>0, <2>2, <3>1 DEF Event
    <3>2. CASE down[d].at[o] > 0
      <4>1. down[d].at[o] <= stream'[o]
        BY <1>1, <1>2, <2>0, <2>2, <3>2, DownTypes DEF Event
      <4>2. IF down[d].meta[o] = NoMeta THEN remote'[o] = NoMeta
            ELSE Reached(o, down[d].meta[o].clock)'
        BY <1>1, <1>4, <2>0, <2>2, <3>2, DownTypes DEF Event
      <4> QED
        BY <1>4, <2>0, <2>2, <3>2, <4>1, <4>2 DEF Event
    <3> QED
      BY <3>1, <3>2, DownTypes
  <2> QED
    BY <2>1, <2>2
<1>6. Classified'
  <2>1. \A d \in Device, f \in File : Deciding(d, f)' = Deciding(d, f)
    BY DEF Deciding
  <2>2. ASSUME NEW d \in Device, NEW p \in Object,
               down[d].pc = "classified", p \notin down[d].held,
               down[d].at[p] = stream'[p], down[d].meta[p] = NoMeta
        PROVE  obj[d][p] = "none"
    <3>1. p # o
      BY <1>1, <1>2, <1>4, <2>2, DownTypes
    <3> QED
      BY <1>1, <2>2, <3>1 DEF Sound, Classified
  <2> QED
    BY <2>1, <2>2 DEF Sound, Classified
<1>7. \A d \in Device, p \in Object : Witness(d, p) => Witness(d, p)'
  <2> SUFFICES ASSUME NEW d \in Device, NEW p \in Object, Witness(d, p) PROVE Witness(d, p)'
    OBVIOUS
  <2>1. CASE p # o
    BY <1>1, <2>1 DEF Witness, Unread, Reached, RowOf
  <2>2. CASE p = o
    <3>1. stream[o] > 0
      BY <2>2 DEF Witness, Sound, Known
    <3>2. Reached(o, RowOf(d, o).clock)
      BY <2>2, RowTypes, ClockOf DEF Witness, Reached
    <3>3. Reached(o, RowOf(d, o).clock)'
      <4>1. RowOf(d, o)' = RowOf(d, o)
        BY DEF RowOf
      <4> QED
        BY <1>1, <3>1, <3>2, <4>1, RowTypes
    <3>4. applied[d][o] # stream'[o]
      <4>1. applied[d][o] <= stream[o] /\ applied[d][o] \in Nat
        BY Types DEF Sound, Numbered
      <4> QED
        BY <1>1, <1>2, <4>1
    <3> QED
      BY <2>2, <3>3, <3>4 DEF Witness, Unread
  <2> QED
    BY <2>1, <2>2
<1>8. \A d \in Device, f \in File : Good(d, f) => Good(d, f)'
  BY <1>7 DEF Good
<1>9. \A d \in Device : Unread(d, o)'
  <2>1. \A d \in Device : applied[d][o] <= stream[o] /\ applied[d][o] \in Nat
    BY Types DEF Sound, Numbered
  <2> QED
    BY <1>1, <1>2, <2>1 DEF Unread
<1>10. Kept'
  <2> SUFFICES ASSUME NEW d \in Device, NEW p \in Object,
                      ~Unread(d, p)', remote'[p] # NoMeta, ~RowOf(d, p).deleted
               PROVE  /\ obj[d][p] # "none"
                      /\ RowOf(d, p).clock >= remote'[p].clock
                      /\ RowOf(d, p).clock = remote'[p].clock => Good(d, FileOf[p])'
    BY DEF Kept, RowOf
  <2>1. p # o
    BY <1>9
  <2> QED
    BY <1>1, <1>8, <2>1, RowTypes DEF Sound, Outcome, Kept, Unread
<1>11. Gone'
  <2> SUFFICES ASSUME NEW d \in Device, NEW p \in Object,
                      ~Unread(d, p)', stream'[p] > 0, remote'[p] = NoMeta, ~RowOf(d, p).deleted
               PROVE  obj[d][p] # "clean" /\ up'[d][p].pc \in {"idle", "queued"}
    BY DEF Gone, RowOf
  <2>1. p # o
    BY <1>9
  <2> QED
    BY <1>1, <2>1 DEF Sound, Outcome, Gone, Unread
<1>12. Pushed'
  BY <1>8 DEF Sound, Outcome, Pushed
<1> QED
  BY <1>3, <1>5, <1>6, <1>10, <1>11, <1>12 DEF Outcome

(***************************************************************************)
(* A task nothing touches keeps what the invariant says of it.             *)
(***************************************************************************)
RemoteGrows(o) ==
  stream[o] > 0 => /\ remote[o] = NoMeta => remote'[o] = NoMeta
                   /\ \A c \in Nat : Reached(o, c) => Reached(o, c)'
LibraryGrows(d, o) ==
  /\ RowOf(d, o).deleted => RowOf(d, o)'.deleted
  /\ RowOf(d, o)'.deleted \/ RowOf(d, o)'.clock >= RowOf(d, o).clock
  /\ obj[d][o] # "none" => obj'[d][o] # "none" \/ RowOf(d, o)'.deleted

LEMMA TaskStays ==
  ASSUME SyncInv, SyncInv', Sound, NEW d \in Device, NEW o \in Object,
         up'[d][o] = up[d][o], RemoteGrows(o), LibraryGrows(d, o)
  PROVE  Task(d, o, up[d][o])'
<1> DEFINE t == up[d][o]
<1>1. Task(d, o, t)
  BY DEF Sound, Tasked
<1>2. t.pc # "idle" => stream[o] > 0
  BY DEF Sound, Known
<1>3. t.got.clock \in Nat /\ t.local.clock \in Nat
  BY TaskTypes
<1>4. RowOf(d, o).clock \in Nat /\ RowOf(d, o)'.clock \in Nat
  <2>1. row' \in [Device -> [File -> Row]]
    BY DEF SyncInv, TypeOK
  <2> QED
    BY <2>1, RowTypes, SetsAssumption DEF RowOf, Row
<1>5. t.pc # "idle" => obj'[d][o] # "none" \/ RowOf(d, o)'.deleted
  BY <1>1 DEF Task, LibraryGrows
<1>6. t.pc # "idle" /\ t.tomb => RowOf(d, o)'.deleted
  BY <1>1 DEF Task, LibraryGrows
<1>7. t.pc = "deleted" => t.tomb /\ remote'[o] = NoMeta
  BY <1>1, <1>2 DEF Task, RemoteGrows
<1>8. t.pc \in {"got", "record", "tags"} => t.got # NoMeta /\ Reached(o, t.got.clock)'
  BY <1>1, <1>2, <1>3 DEF Task, RemoteGrows
<1>9. t.pc \in {"record", "tags", "pushed"} =>
        t.local.clock > 0 /\ (RowOf(d, o)'.deleted \/ t.local.clock <= RowOf(d, o)'.clock)
  BY <1>1, <1>3, <1>4 DEF Task, LibraryGrows
<1>10. t.pc = "pushed" => Reached(o, t.local.clock)'
  BY <1>1, <1>2, <1>3 DEF Task, RemoteGrows
<1> QED
  BY <1>5, <1>6, <1>7, <1>8, <1>9, <1>10 DEF Task

LEMMA Goto ==
  ASSUME SyncInv, NEW d \in Device, NEW o \in Object, NEW pc, UpGoto(d, o, pc)
  PROVE  /\ up'[d][o].pc = pc /\ up'[d][o].tomb = up[d][o].tomb
         /\ up'[d][o].got = up[d][o].got /\ up'[d][o].local = up[d][o].local
         /\ \A e \in Device, p \in Object : e # d \/ p # o => up'[e][p] = up[e][p]
<1> DEFINE t == [up[d][o] EXCEPT !.pc = pc]
<1>1. t.pc = pc /\ t.tomb = up[d][o].tomb /\ t.got = up[d][o].got /\ t.local = up[d][o].local
  BY Types DEF Up
<1>2. up' = [up EXCEPT ![d][o] = t]
  BY DEF UpGoto
<1> HIDE DEF t
<1>3. up'[d][o] = t
  BY <1>2, Types
<1>4. \A e \in Device, p \in Object : e # d \/ p # o => up'[e][p] = up[e][p]
  BY <1>2, Types
<1> QED
  BY <1>1, <1>3, <1>4

LEMMA Unmoved == ASSUME UNCHANGED remote PROVE \A o \in Object : RemoteGrows(o)
BY DEF RemoteGrows, Reached

LEMMA Untouched ==
  ASSUME SyncInv, UNCHANGED <<row, obj>>
  PROVE  \A d \in Device, o \in Object : LibraryGrows(d, o)
<1>1. \A d \in Device, o \in Object : RowOf(d, o)' = RowOf(d, o)
  BY DEF RowOf
<1> QED
  BY <1>1, RowTypes DEF LibraryGrows

(***************************************************************************)
(* The three steps that change the indexer.                                *)
(***************************************************************************)
LEMMA PinSound ==
  ASSUME SyncInv, SyncInv', Sound, NEW d \in Device, NEW o \in Object, UploadPin(d, o)
  PROVE  Sound'
<1> DEFINE m == upl[d][o].meta
<1>1. /\ upl[d][o].pc = "read" /\ Publish(o, m) /\ upl' = [upl EXCEPT ![d][o].pc = "pinned"]
      /\ UNCHANGED <<row, obj, cursor, down, applied, up>>
  BY DEF UploadPin, device
<1>2. m \in Meta /\ stream[o] = 0 /\ m.clock > 0 /\ Uploader[o] = d
  BY <1>1, TaskTypes DEF Sound, Known
<1> HIDE DEF m
<1>3. Forward(o, m)
  BY <1>2 DEF Forward
<1>4. Numbered' /\ Paged' /\ Classified' /\ Outcome'
  BY <1>1, <1>2, <1>3, PublishSound
<1>5. /\ stream'[o] = head + 1 /\ head \in Nat
      /\ \A p \in Object : p # o => stream'[p] = stream[p]
      /\ \A p \in Object : RemoteGrows(p)
  BY <1>1, <1>2, <1>3, PublishMoves, Types DEF RemoteGrows
<1>6. Known'
  <2>1. \A e \in Device, p \in Object :
          /\ obj[e][p] # "none" \/ up[e][p].pc # "idle" \/ upl'[e][p].pc = "pinned"
             => stream'[p] > 0
          /\ upl'[e][p].pc = "read" =>
               stream'[p] = 0 /\ Uploader[p] = e /\ upl'[e][p].meta.clock > 0
    <3> SUFFICES ASSUME NEW e \in Device, NEW p \in Object
                 PROVE  /\ obj[e][p] # "none" \/ up[e][p].pc # "idle" \/ upl'[e][p].pc = "pinned"
                           => stream'[p] > 0
                        /\ upl'[e][p].pc = "read" =>
                             stream'[p] = 0 /\ Uploader[p] = e /\ upl'[e][p].meta.clock > 0
      OBVIOUS
    <3>1. CASE p # o
      <4>1. upl'[e][p] = upl[e][p]
        BY <1>1, <3>1, Types
      <4> QED
        BY <1>5, <3>1, <4>1 DEF Sound, Known
    <3>2. CASE p = o /\ e = d
      <4>1. upl'[d][o].pc = "pinned"
        BY <1>1, Types DEF Upload
      <4> QED
        BY <1>5, <3>2, <4>1
    <3>3. CASE p = o /\ e # d
      <4>1. upl'[e][o] = upl[e][o]
        BY <1>1, <3>3, Types
      <4>2. upl[e][o].pc # "read"
        BY <1>2, <3>3 DEF Sound, Known
      <4> QED
        BY <1>5, <3>3, <4>1, <4>2
    <3> QED
      BY <3>1, <3>2, <3>3
  <2> QED
    BY <1>1, <2>1 DEF Known
<1>7. Tasked'
  BY <1>1, <1>5, Untouched, TaskStays DEF Tasked
<1> QED
  BY <1>4, <1>6, <1>7 DEF Sound

LEMMA KnownStays ==
  ASSUME Sound, UNCHANGED <<obj, upl>>,
         \A p \in Object : stream[p] <= stream'[p] /\ stream[p] \in Nat /\ stream'[p] \in Nat,
         \A e \in Device, p \in Object : up'[e][p].pc # "idle" => up[e][p].pc # "idle",
         \A e \in Device, p \in Object : upl[e][p].pc = "read" => stream'[p] = stream[p]
  PROVE  Known'
<1>1. \A p \in Object : stream[p] > 0 => stream'[p] > 0
  OBVIOUS
<1> QED
  BY <1>1 DEF Sound, Known

LEMMA DeleteSound ==
  ASSUME SyncInv, SyncInv', Sound, NEW d \in Device, NEW o \in Object, UpDelete(d, o)
  PROVE  Sound'
<1>1. /\ up[d][o].pc = "queued" /\ up[d][o].tomb
      /\ UpGoto(d, o, "deleted")
      /\ UNCHANGED <<row, obj, cursor, down, applied, upl>>
  BY DEF UpDelete, device
<1>2. stream[o] > 0 /\ RowOf(d, o).deleted
  BY <1>1 DEF Sound, Known, Tasked, Task
<1>3. /\ \A e \in Device, p \in Object : e # d \/ p # o => up'[e][p] = up[e][p]
      /\ up'[d][o].pc = "deleted" /\ up'[d][o].tomb = up[d][o].tomb
  BY <1>1, Goto
<1>4. /\ Numbered' /\ Paged' /\ Classified' /\ Outcome' /\ Known'
      /\ remote'[o] = NoMeta
      /\ \A p \in Object : RemoteGrows(p)
  <2>1. CASE Publish(o, NoMeta)
    <3>1. Forward(o, NoMeta)
      BY DEF Forward
    <3>2. /\ \A p \in Object : RemoteGrows(p)
          /\ remote'[o] = NoMeta
          /\ \A p \in Object : p # o => stream'[p] = stream[p]
          /\ \A p \in Object : stream[p] <= stream'[p]
      BY <2>1, <3>1, PublishMoves, EmptyTypes DEF RemoteGrows
    <3>3. Numbered' /\ Paged' /\ Classified' /\ Outcome'
      BY <1>1, <1>3, <2>1, <3>1, PublishSound, EmptyTypes
    <3>4. \A e \in Device, p \in Object : upl[e][p].pc = "read" => p # o
      BY <1>2 DEF Sound, Known
    <3>5. \A p \in Object : stream[p] \in Nat /\ stream'[p] \in Nat
      BY DEF SyncInv, TypeOK
    <3>6. \A e \in Device, p \in Object : up'[e][p].pc # "idle" => up[e][p].pc # "idle"
      BY <1>1, <1>3
    <3>7. Known'
      BY <1>1, <3>2, <3>4, <3>5, <3>6, KnownStays
    <3> QED
      BY <3>2, <3>3, <3>7
  <2>2. CASE remote[o] = NoMeta /\ UNCHANGED <<remote, stream, head>>
    <3>1. \A p \in Object : RemoteGrows(p)
      BY <2>2, Unmoved
    <3>2. Numbered' /\ Paged' /\ Classified'
      BY <1>1, <2>2 DEF Sound, Numbered, Paged, Event, Reached, Classified, Deciding
    <3>3. \A e \in Device, f \in File : Good(e, f)' = Good(e, f)
      BY <1>1, <2>2 DEF Good, Witness, Unread, Reached, RowOf
    <3>4. Kept' /\ Pushed'
      BY <1>1, <2>2, <3>3, SetsAssumption DEF Sound, Outcome, Kept, Pushed, Unread, RowOf
    <3>5. Gone'
      <4>1. \A e \in Device, p \in Object : RowOf(e, p)' = RowOf(e, p)
        BY <1>1 DEF RowOf
      <4> QED
        BY <1>1, <1>2, <1>3, <2>2, <4>1 DEF Sound, Outcome, Gone, Unread
    <3>6. Known'
      <4>1. \A e \in Device, p \in Object : up'[e][p].pc # "idle" => up[e][p].pc # "idle"
        BY <1>1, <1>3
      <4> QED
        BY <1>1, <2>2, <4>1, Types DEF Sound, Known
    <3> QED
      BY <2>2, <3>1, <3>2, <3>4, <3>5, <3>6 DEF Outcome
  <2> QED
    BY <2>1, <2>2 DEF UpDelete
<1>5. Tasked'
  <2>1. \A e \in Device, p \in Object : LibraryGrows(e, p)
    BY <1>1, Untouched
  <2>2. \A e \in Device, p \in Object : e # d \/ p # o => Task(e, p, up[e][p])'
    BY <1>3, <1>4, <2>1, TaskStays
  <2>3. Task(d, o, up[d][o])'
    <3>1. RowOf(d, o)' = RowOf(d, o)
      BY <1>1 DEF RowOf
    <3> QED
      BY <1>1, <1>2, <1>3, <1>4, <3>1 DEF Task
  <2> QED
    BY <2>2, <2>3 DEF Tasked
<1> QED
  BY <1>4, <1>5 DEF Sound

LEMMA PushSound ==
  ASSUME SyncInv, SyncInv', Sound, NEW d \in Device, NEW o \in Object, UpPush(d, o),
         hazard' = {}
  PROVE  Sound'
<1> DEFINE t == up[d][o]
<1>1. /\ t.pc = "tags" /\ MustPush(t) /\ Publish(o, t.local)
      /\ UpGoto(d, o, "pushed")
      /\ remote[o] = t.got
      /\ UNCHANGED <<row, obj, cursor, down, applied, upl>>
  BY DEF UpPush, device
<1>2. /\ stream[o] > 0 /\ t.got # NoMeta /\ t.local.clock > 0
      /\ RowOf(d, o).deleted \/ t.local.clock <= RowOf(d, o).clock
      /\ obj[d][o] # "none" \/ RowOf(d, o).deleted
      /\ t.tomb => RowOf(d, o).deleted
  BY <1>1 DEF Sound, Known, Tasked, Task
<1>3. /\ \A e \in Device, p \in Object : e # d \/ p # o => up'[e][p] = up[e][p]
      /\ up'[d][o].pc = "pushed" /\ up'[d][o].tomb = t.tomb /\ up'[d][o].local = t.local
  BY <1>1, Goto
<1>4. t.local \in Meta /\ t.local.clock >= remote[o].clock
  BY <1>1, TaskTypes DEF MustPush
<1> DEFINE m == t.local
<1>5. m \in Meta /\ Forward(o, m) /\ Publish(o, m)
  BY <1>1, <1>2, <1>4 DEF Forward
<1> HIDE DEF m
<1>6. Numbered' /\ Paged' /\ Classified' /\ Outcome'
  BY <1>1, <1>3, <1>5, PublishSound
<1>7. /\ \A p \in Object : RemoteGrows(p)
      /\ remote'[o] = m
      /\ \A p \in Object : p # o => stream'[p] = stream[p]
      /\ \A p \in Object : stream[p] <= stream'[p]
  BY <1>5, PublishMoves DEF RemoteGrows
<1>8. Known'
  <2>1. \A e \in Device, p \in Object : upl[e][p].pc = "read" => p # o
    BY <1>2 DEF Sound, Known
  <2>2. \A p \in Object : stream[p] \in Nat /\ stream'[p] \in Nat
    BY DEF SyncInv, TypeOK
  <2>3. \A e \in Device, p \in Object : up'[e][p].pc # "idle" => up[e][p].pc # "idle"
    BY <1>1, <1>3
  <2> QED
    BY <1>1, <1>7, <2>1, <2>2, <2>3, KnownStays
<1>9. Tasked'
  <2>1. \A e \in Device, p \in Object : LibraryGrows(e, p)
    BY <1>1, Untouched
  <2>2. \A e \in Device, p \in Object : e # d \/ p # o => Task(e, p, up[e][p])'
    BY <1>3, <1>7, <2>1, TaskStays
  <2>3. Task(d, o, up[d][o])'
    <3>1. RowOf(d, o)' = RowOf(d, o)
      BY <1>1 DEF RowOf
    <3>2. remote'[o].clock = m.clock /\ m.clock \in Nat
      BY <1>5, <1>7 DEF Meta
    <3>3. Reached(o, up[d][o].local.clock)'
      BY <1>3, <3>2 DEF m, Reached
    <3> QED
      BY <1>1, <1>2, <1>3, <3>1, <3>3 DEF Task
  <2> QED
    BY <2>2, <2>3 DEF Tasked
<1> QED
  BY <1>6, <1>8, <1>9 DEF Sound

(***************************************************************************)
(* Edits.                                                                  *)
(***************************************************************************)
LEMMA EditSound ==
  ASSUME SyncInv, SyncInv', Sound, NEW d \in Device, NEW f \in File, NEW r \in Row, NEW races,
         Edit(d, f, r, races), hazard' = {}, r.clock > row[d][f].clock
  PROVE  Sound'
<1>1. /\ Live(row[d][f]) /\ ~Deciding(d, f)
      /\ row' = [row EXCEPT ![d][f] = r] /\ obj' = [obj EXCEPT ![d] = Flagged(d, f)]
      /\ UNCHANGED <<remote, stream, head, cursor, down, up, upl, applied>>
  BY DEF Edit
<1>2. /\ row'[d][f] = r
      /\ \A e \in Device, g \in File : e # d \/ g # f => row'[e][g] = row[e][g]
  BY <1>1, Types
<1>3. /\ \A p \in Object : FileOf[p] = f =>
           obj'[d][p] = IF obj[d][p] # "none" THEN "dirty" ELSE "none"
      /\ \A e \in Device, p \in Object : e # d \/ FileOf[p] # f => obj'[e][p] = obj[e][p]
  <2>1. \A p \in Object : obj'[d][p] = IF FileOf[p] = f /\ obj[d][p] # "none" THEN "dirty"
                                       ELSE obj[d][p]
    BY <1>1, Types DEF Flagged
  <2>2. \A e \in Device : e # d => obj'[e] = obj[e]
    BY <1>1, Types
  <2> QED
    BY <2>1, <2>2, Types
<1>4. \A e \in Device, p \in Object : obj'[e][p] = "none" <=> obj[e][p] = "none"
  BY <1>3
<1>5. /\ \A p \in Object : FileOf[p] = f => RowOf(d, p)' = r /\ RowOf(d, p) = row[d][f]
      /\ \A e \in Device, p \in Object : e # d \/ FileOf[p] # f => RowOf(e, p)' = RowOf(e, p)
  BY <1>2, SetsAssumption DEF RowOf
<1>6. row[d][f].clock \in Nat /\ r.clock \in Nat /\ ~row[d][f].deleted
  BY <1>1, Types DEF Row, Live
<1>7. Numbered' /\ Paged'
  BY <1>1 DEF Sound, Numbered, Paged, Event, Reached
<1>8. Known'
  BY <1>1, <1>4 DEF Sound, Known
<1>9. Tasked'
  <2>1. ASSUME NEW e \in Device, NEW p \in Object PROVE LibraryGrows(e, p)
    <3>1. CASE e = d /\ FileOf[p] = f
      BY <1>4, <1>5, <1>6, <3>1 DEF LibraryGrows
    <3>2. CASE e # d \/ FileOf[p] # f
      BY <1>4, <1>5, <3>2, RowTypes DEF LibraryGrows
    <3> QED
      BY <3>1, <3>2
  <2> QED
    BY <1>1, <2>1, Unmoved, TaskStays DEF Tasked
<1>10. Classified'
  <2>1. \A e \in Device, g \in File : Deciding(e, g)' = Deciding(e, g)
    BY <1>1 DEF Deciding
  <2>2. ASSUME NEW e \in Device, NEW g \in File
        PROVE  /\ down[e].seen[g].deleted => row'[e][g].deleted
               /\ Deciding(e, g) => row'[e][g] = down[e].seen[g]
    <3>1. CASE e = d /\ g = f
      BY <1>1, <1>6, <3>1 DEF Sound, Classified
    <3>2. CASE e # d \/ g # f
      BY <1>2, <3>2 DEF Sound, Classified
    <3> QED
      BY <3>1, <3>2
  <2> QED
    BY <1>1, <1>4, <2>1, <2>2 DEF Sound, Classified
<1>11. \A e \in Device, p \in Object :
         e # d \/ FileOf[p] # f => Good(e, FileOf[p])' = Good(e, FileOf[p])
  BY <1>1, <1>4, <1>5 DEF Good, Witness, Unread, Reached
<1>12. Kept'
  <2> SUFFICES ASSUME NEW e \in Device, NEW p \in Object,
                      ~Unread(e, p), remote[p] # NoMeta, ~RowOf(e, p)'.deleted
               PROVE  /\ obj'[e][p] # "none"
                      /\ RowOf(e, p)'.clock >= remote[p].clock
                      /\ RowOf(e, p)'.clock = remote[p].clock => Good(e, FileOf[p])'
    BY <1>1 DEF Kept, Unread
  <2>1. CASE e = d /\ FileOf[p] = f
    <3>1. obj[d][p] # "none" /\ row[d][f].clock >= remote[p].clock
      BY <1>5, <1>6, <2>1 DEF Sound, Outcome, Kept
    <3> QED
      BY <1>4, <1>5, <1>6, <2>1, <3>1, RowTypes
  <2>2. CASE e # d \/ FileOf[p] # f
    BY <1>4, <1>5, <1>11, <2>2 DEF Sound, Outcome, Kept
  <2> QED
    BY <2>1, <2>2
<1>13. Gone'
  <2> SUFFICES ASSUME NEW e \in Device, NEW p \in Object,
                      ~Unread(e, p), stream[p] > 0, remote[p] = NoMeta, ~RowOf(e, p)'.deleted
               PROVE  obj'[e][p] # "clean" /\ up[e][p].pc \in {"idle", "queued"}
    BY <1>1 DEF Gone, Unread
  <2>1. ~RowOf(e, p).deleted
    BY <1>5, <1>6
  <2>2. obj[e][p] # "clean" /\ up[e][p].pc \in {"idle", "queued"}
    BY <2>1 DEF Sound, Outcome, Gone
  <2> QED
    BY <1>3, <2>2
<1>14. Pushed'
  <2> SUFFICES ASSUME NEW e \in Device, NEW g \in File, Live(row'[e][g]),
                      NEW q \in Object, FileOf[q] = g, obj'[e][q] # "none",
                      \A o \in Object : FileOf[o] = g => obj'[e][o] # "dirty"
               PROVE  Good(e, g)'
    BY DEF Pushed
  <2>1. e # d \/ g # f
    BY <1>3
  <2>2. \A o \in Object : FileOf[o] = g => obj'[e][o] = obj[e][o]
    BY <1>3, <2>1
  <2>3. Live(row[e][g])
    BY <1>2, <2>1
  <2>4. Good(e, g)
    BY <2>2, <2>3 DEF Sound, Outcome, Pushed
  <2> QED
    BY <1>11, <2>1, <2>4
<1> QED
  BY <1>7, <1>8, <1>9, <1>10, <1>12, <1>13, <1>14 DEF Sound, Outcome

\* With no race recorded, the three edits stamp above the clock the row has.
LEMMA EditsSound ==
  ASSUME SyncInv, SyncInv', Sound, hazard' = {}, NEW d \in Device, NEW f \in File,
         Rename(d, f) \/ EditTags(d, f) \/ Tombstone(d, f)
  PROVE  \E r \in Row : \E races :
           Edit(d, f, r, races) /\ r.clock > row[d][f].clock
<1>0. /\ row[d][f] \in Row /\ row[d][f].clock \in Nat /\ edits + 1 \in Nat /\ Date(d) \in Nat
  BY Types, DateType DEF SyncInv, TypeOK, Row
<1>1. CASE Rename(d, f)
  <2> DEFINE above == row[d][f].clock + 1
             stamp == IF Date(d) >= above THEN Date(d) ELSE above
             r == [row[d][f] EXCEPT !.clock = stamp, !.name = edits + 1]
  <2>1. stamp \in Nat /\ stamp > row[d][f].clock
    BY <1>0
  <2>2. Edit(d, f, r, {})
    BY <1>1 DEF Rename
  <2> HIDE DEF stamp
  <2>3. r \in Row /\ r.clock = stamp
    BY <1>0, <2>1 DEF Row
  <2> HIDE DEF r
  <2> QED
    BY <2>1, <2>2, <2>3
<1>2. CASE EditTags(d, f)
  <2> DEFINE r == [row[d][f] EXCEPT !.clock = Date(d), !.tags = edits + 1]
  <2>1. Edit(d, f, r, Stamp(d, f))
    BY <1>2 DEF EditTags
  <2>2. r \in Row /\ r.clock = Date(d)
    BY <1>0 DEF Row
  <2> HIDE DEF r
  <2>3. Stamp(d, f) = {}
    BY <2>1 DEF Edit
  <2>4. Date(d) > row[d][f].clock
    BY <1>0, <2>3 DEF Stamp
  <2> QED
    BY <2>1, <2>2, <2>4
<1>3. CASE Tombstone(d, f)
  <2> DEFINE r == [row[d][f] EXCEPT !.clock = Date(d), !.deleted = TRUE]
  <2>1. Edit(d, f, r, Stamp(d, f))
    BY <1>3 DEF Tombstone
  <2>2. r \in Row /\ r.clock = Date(d)
    BY <1>0 DEF Row
  <2> HIDE DEF r
  <2>3. Stamp(d, f) = {}
    BY <2>1 DEF Edit
  <2>4. Date(d) > row[d][f].clock
    BY <1>0, <2>3 DEF Stamp
  <2> QED
    BY <2>1, <2>2, <2>4
<1> QED
  BY <1>1, <1>2, <1>3

(***************************************************************************)
(* Steps that leave the rows and the indexer as they are.                  *)
(***************************************************************************)
LEMMA OutcomeFrame ==
  ASSUME SyncInv, Sound, UNCHANGED <<row, remote, stream, applied>>,
         \A e \in Device, p \in Object : obj'[e][p] = obj[e][p] \/ obj'[e][p] = "dirty",
         \A e \in Device, p \in Object :
           \/ up'[e][p].pc \in {"idle", "queued"}
           \/ up[e][p].pc \notin {"idle", "queued"}
           \/ remote[p] # NoMeta
  PROVE  Numbered' /\ Outcome'
<1>1. Numbered'
  BY DEF Sound, Numbered
<1>2. \A e \in Device, p \in Object : RowOf(e, p)' = RowOf(e, p)
  BY DEF RowOf
<1>3. \A e \in Device, p \in Object : Witness(e, p) => Witness(e, p)'
  <2>1. \A e \in Device, p \in Object : obj[e][p] # "none" => obj'[e][p] # "none"
    OBVIOUS
  <2> QED
    BY <1>2, <2>1 DEF Witness, Unread, Reached
<1>4. \A e \in Device, g \in File : Good(e, g) => Good(e, g)'
  BY <1>3 DEF Good
<1>5. Kept'
  BY <1>2, <1>4, RowTypes DEF Sound, Outcome, Kept, Unread
<1>6. Gone'
  <2> SUFFICES ASSUME NEW e \in Device, NEW p \in Object,
                      ~Unread(e, p), stream[p] > 0, remote[p] = NoMeta, ~RowOf(e, p).deleted
               PROVE  obj'[e][p] # "clean" /\ up'[e][p].pc \in {"idle", "queued"}
    BY <1>2 DEF Gone, Unread
  <2>1. obj[e][p] # "clean" /\ up[e][p].pc \in {"idle", "queued"}
    BY DEF Sound, Outcome, Gone
  <2> QED
    BY <2>1
<1>7. Pushed'
  <2> SUFFICES ASSUME NEW e \in Device, NEW g \in File, Live(row[e][g]),
                      NEW q \in Object, FileOf[q] = g, obj'[e][q] # "none",
                      \A o \in Object : FileOf[o] = g => obj'[e][o] # "dirty"
               PROVE  Good(e, g)'
    BY DEF Pushed
  <2>1. \A o \in Object : FileOf[o] = g => obj'[e][o] = obj[e][o]
    OBVIOUS
  <2>2. Good(e, g)
    BY <2>1 DEF Sound, Outcome, Pushed
  <2> QED
    BY <1>4, <2>2
<1> QED
  BY <1>1, <1>5, <1>6, <1>7 DEF Outcome

\* What such a step leaves of the pages, when it leaves the ticks alone too.
LEMMA TicksFrame ==
  ASSUME Sound, UNCHANGED <<row, remote, stream, cursor, down>>,
         \A e \in Device, p \in Object : obj[e][p] = "none" => obj'[e][p] = "none"
  PROVE  Paged' /\ Classified'
<1>1. Paged'
  BY DEF Sound, Paged, Event, Reached
<1>2. \A e \in Device, g \in File : Deciding(e, g)' = Deciding(e, g)
  BY DEF Deciding
<1>3. Classified'
  BY <1>2 DEF Sound, Classified
<1> QED
  BY <1>1, <1>3

LEMMA End ==
  ASSUME SyncInv, NEW d \in Device, NEW o \in Object, UpEnd(d, o)
  PROVE  /\ up'[d][o].pc = "idle" /\ up'[d][o] = IdleUp
         /\ \A e \in Device, p \in Object : e # d \/ p # o => up'[e][p] = up[e][p]
BY Types DEF UpEnd, IdleUp

LEMMA IdleTask ==
  ASSUME NEW d \in Device, NEW o \in Object, up'[d][o].pc = "idle"
  PROVE  Task(d, o, up[d][o])'
BY DEF Task

\* Every task but one stays; the library and the indexer are as they were.
LEMMA OtherTasks ==
  ASSUME SyncInv, SyncInv', Sound, NEW d \in Device, NEW o \in Object,
         UNCHANGED <<row, obj, remote>>,
         \A e \in Device, p \in Object : e # d \/ p # o => up'[e][p] = up[e][p],
         Task(d, o, up[d][o])'
  PROVE  Tasked'
<1>1. \A e \in Device, p \in Object : e # d \/ p # o => Task(e, p, up[e][p])'
  BY Untouched, Unmoved, TaskStays
<1> QED
  BY <1>1 DEF Tasked

LEMMA UserSound ==
  ASSUME SyncInv, SyncInv', Sound, hazard' = {}, NEW d \in Device, UserStep(d)
  PROVE  Sound'
<1>1. ASSUME NEW f \in File, Rename(d, f) \/ EditTags(d, f) \/ Tombstone(d, f)
      PROVE  Sound'
  <2>0. PICK r \in Row : \E races : Edit(d, f, r, races) /\ r.clock > row[d][f].clock
    BY <1>1, EditsSound
  <2>1. PICK races : Edit(d, f, r, races) /\ r.clock > row[d][f].clock
    BY <2>0
  <2> QED
    BY <2>1, EditSound
<1>2. CASE ResetCursor(d)
  <2>1. UNCHANGED <<remote, stream, row, obj, down, up, upl, applied>>
    BY <1>2 DEF ResetCursor
  <2>2. Numbered' /\ Outcome'
    BY <2>1, OutcomeFrame
  <2>3. Known' /\ Tasked' /\ Classified'
    <3>1. Known'
      BY <2>1 DEF Sound, Known
    <3>2. Tasked'
      BY <2>1, Untouched, Unmoved, TaskStays DEF Tasked
    <3>3. Classified'
      <4>1. \A e \in Device, g \in File : Deciding(e, g)' = Deciding(e, g)
        BY <2>1 DEF Deciding
      <4> QED
        BY <2>1, <4>1 DEF Sound, Classified
    <3> QED
      BY <3>1, <3>2, <3>3
  <2>4. Paged'
    <3>1. \A e \in Device, p \in Object : Event(down[e], p)' = Event(down[e], p)
      BY <2>1 DEF Event, Reached
    <3>2. \A e \in Device, p \in Object : down[e].at[p] > 0 => cursor'[e] < down[e].at[p]
      <4>1. \A e \in Device : cursor'[e] = 0 \/ cursor'[e] = cursor[e]
        BY <1>2, Types DEF ResetCursor
      <4> QED
        BY <4>1, DownTypes DEF Sound, Paged
    <3> QED
      BY <2>1, <3>1, <3>2 DEF Sound, Paged
  <2> QED
    BY <2>2, <2>3, <2>4 DEF Sound
<1>3. CASE MarkAll(d)
  <2>1. UNCHANGED <<remote, stream, row, down, up, upl, applied, cursor>>
    BY <1>3 DEF MarkAll
  <2>2. \A e \in Device, p \in Object :
          /\ obj'[e][p] = obj[e][p] \/ obj'[e][p] = "dirty"
          /\ obj'[e][p] = "none" <=> obj[e][p] = "none"
    BY <1>3, Types DEF MarkAll
  <2>3. Numbered' /\ Outcome'
    BY <2>1, <2>2, OutcomeFrame
  <2>4. Paged' /\ Classified'
    BY <2>1, <2>2, TicksFrame
  <2>5. Known'
    BY <2>1, <2>2 DEF Sound, Known
  <2>6. Tasked'
    <3>1. \A e \in Device, p \in Object : LibraryGrows(e, p)
      BY <2>1, <2>2, RowTypes DEF LibraryGrows, RowOf
    <3> QED
      BY <2>1, <3>1, Unmoved, TaskStays DEF Tasked
  <2> QED
    BY <2>3, <2>4, <2>5, <2>6 DEF Sound
<1> QED
  BY <1>1, <1>2, <1>3 DEF UserStep

LEMMA UploadSound ==
  ASSUME SyncInv, SyncInv', Sound, hazard' = {}, NEW d \in Device, NEW o \in Object,
         UploadStep(d, o)
  PROVE  Sound'
<1>1. CASE UploadRead(d, o)
  <2> DEFINE m == MetaOf(row[d][FileOf[o]])
  <2>1. /\ UNCHANGED <<remote, stream, row, obj, cursor, down, up, applied>>
        /\ Uploader[o] = d /\ stream[o] = 0 /\ row[d][FileOf[o]].clock > 0
        /\ upl' = [upl EXCEPT ![d][o] = [pc |-> "read", meta |-> m]]
    BY <1>1 DEF UploadRead, device
  <2>2. m.clock > 0
    BY <2>1 DEF Live, MetaOf
  <2> HIDE DEF m
  <2>3. Numbered' /\ Outcome' /\ Paged' /\ Classified'
    BY <2>1, OutcomeFrame, TicksFrame
  <2>4. Tasked'
    BY <2>1, Untouched, Unmoved, TaskStays DEF Tasked
  <2>5. Known'
    <3>1. /\ upl'[d][o].pc = "read" /\ upl'[d][o].meta = m
          /\ \A e \in Device, p \in Object : e # d \/ p # o => upl'[e][p] = upl[e][p]
      BY <2>1, Types
    <3> QED
      BY <2>1, <2>2, <3>1 DEF Sound, Known
  <2> QED
    BY <2>3, <2>4, <2>5 DEF Sound
<1>2. CASE UploadPin(d, o)
  BY <1>2, PinSound
<1>3. CASE UploadSave(d, o)
  <2>1. /\ UNCHANGED <<remote, stream, row, cursor, down, up, applied>>
        /\ upl[d][o].pc = "pinned" /\ ~DeletePassed(d, o)
        /\ obj' = [obj EXCEPT ![d][o] = "dirty"]
        /\ upl' = [upl EXCEPT ![d][o] = IdleUpload]
    BY <1>3 DEF UploadSave
  <2>2. /\ obj'[d][o] = "dirty"
        /\ \A e \in Device, p \in Object : e # d \/ p # o => obj'[e][p] = obj[e][p]
    BY <2>1, Types
  <2>3. /\ upl'[d][o].pc = "idle"
        /\ \A e \in Device, p \in Object : e # d \/ p # o => upl'[e][p] = upl[e][p]
    BY <2>1, Types DEF IdleUpload
  <2>4. Numbered' /\ Outcome'
    BY <2>1, <2>2, OutcomeFrame
  <2>5. Paged'
    BY <2>1 DEF Sound, Paged, Event, Reached
  <2>6. stream[o] > 0
    BY <2>1 DEF Sound, Known
  <2>7. Classified'
    <3>1. \A e \in Device, g \in File : Deciding(e, g)' = Deciding(e, g)
      BY <2>1 DEF Deciding
    <3>2. ~(down[d].pc = "classified" /\ down[d].at[o] = stream[o] /\ down[d].meta[o] = NoMeta)
      BY <2>1, <2>6 DEF DeletePassed, Sound, Paged, Event
    <3> QED
      BY <2>1, <2>2, <3>1, <3>2 DEF Sound, Classified
  <2>8. Known'
    BY <2>1, <2>2, <2>3, <2>6 DEF Sound, Known
  <2>9. Tasked'
    <3>1. \A e \in Device, p \in Object : LibraryGrows(e, p)
      BY <2>1, <2>2, RowTypes DEF LibraryGrows, RowOf
    <3> QED
      BY <2>1, <3>1, Unmoved, TaskStays DEF Tasked
  <2> QED
    BY <2>4, <2>5, <2>7, <2>8, <2>9 DEF Sound
<1> QED
  BY <1>1, <1>2, <1>3 DEF UploadStep

(***************************************************************************)
(* Sync up.                                                                *)
(***************************************************************************)
LEMMA BatchSound ==
  ASSUME SyncInv, SyncInv', Sound, NEW d \in Device, UpBatch(d)
  PROVE  Sound'
<1>1. /\ UNCHANGED <<remote, stream, row, obj, cursor, down, upl, applied>>
      /\ up' = [up EXCEPT ![d] = [o \in Object |->
              IF obj[d][o] = "dirty"
              THEN [IdleUp EXCEPT !.pc = "queued", !.tomb = row[d][FileOf[o]].deleted]
              ELSE IdleUp]]
  BY ZenonT(60) DEF UpBatch, device
<1>2. /\ \A e \in Device, p \in Object : e # d => up'[e][p] = up[e][p]
      /\ \A p \in Object : up'[d][p] = IF obj[d][p] = "dirty"
              THEN [IdleUp EXCEPT !.pc = "queued", !.tomb = row[d][FileOf[p]].deleted]
              ELSE IdleUp
  BY <1>1, Types, ZenonT(60)
<1>3. \A p \in Object :
        \/ up'[d][p].pc = "idle"
        \/ /\ up'[d][p].pc = "queued" /\ obj[d][p] = "dirty"
           /\ up'[d][p].tomb = RowOf(d, p).deleted
  <2>1. \A p \in Object :
          /\ [IdleUp EXCEPT !.pc = "queued", !.tomb = row[d][FileOf[p]].deleted].pc = "queued"
          /\ [IdleUp EXCEPT !.pc = "queued", !.tomb = row[d][FileOf[p]].deleted].tomb
               = row[d][FileOf[p]].deleted
    BY DEF IdleUp
  <2>2. IdleUp.pc = "idle"
    BY DEF IdleUp
  <2> QED
    BY <1>2, <2>1, <2>2, ZenonT(60) DEF RowOf
<1>4. Numbered' /\ Outcome' /\ Paged' /\ Classified'
  <2>1. \A e \in Device, p \in Object :
           \/ up'[e][p].pc \in {"idle", "queued"}
           \/ up[e][p].pc \notin {"idle", "queued"}
    BY <1>2, <1>3, ZenonT(60)
  <2> QED
    BY <1>1, <2>1, OutcomeFrame, TicksFrame, ZenonT(60)
<1>5. Known'
  <2>1. \A e \in Device, p \in Object : up'[e][p].pc # "idle" =>
          up[e][p].pc # "idle" \/ obj[e][p] # "none"
    BY <1>2, <1>3, ZenonT(60)
  <2> QED
    BY <1>1, <2>1, ZenonT(60) DEF Sound, Known
<1>6. Tasked'
  <2>1. \A e \in Device, p \in Object : e # d => Task(e, p, up[e][p])'
    BY <1>1, <1>2, Untouched, Unmoved, TaskStays, ZenonT(60)
  <2>2. \A p \in Object : Task(d, p, up[d][p])'
    BY <1>1, <1>3, ZenonT(60) DEF Task, RowOf
  <2> QED
    BY <2>1, <2>2 DEF Tasked
<1> QED
  BY <1>4, <1>5, <1>6 DEF Sound

\* A task that goes on without writing anything.
LEMMA TaskSound ==
  ASSUME SyncInv, SyncInv', Sound, NEW d \in Device, NEW o \in Object,
         UNCHANGED <<remote, stream, row, obj, cursor, down, upl, applied>>,
         up[d][o].pc # "idle",
         \A e \in Device, p \in Object : e # d \/ p # o => up'[e][p] = up[e][p],
         \/ up'[d][o].pc \in {"idle", "queued"}
         \/ up[d][o].pc \notin {"idle", "queued"}
         \/ remote[o] # NoMeta,
         Task(d, o, up[d][o])'
  PROVE  Sound'
<1>1. Numbered' /\ Outcome' /\ Paged' /\ Classified'
  BY OutcomeFrame, TicksFrame
<1>2. Known'
  <2>1. \A e \in Device, p \in Object : up'[e][p].pc # "idle" => up[e][p].pc # "idle"
    OBVIOUS
  <2> QED
    BY <2>1 DEF Sound, Known
<1>3. Tasked'
  BY OtherTasks
<1> QED
  BY <1>1, <1>2, <1>3 DEF Sound

LEMMA GetSound ==
  ASSUME SyncInv, SyncInv', Sound, NEW d \in Device, NEW o \in Object, UpGet(d, o)
  PROVE  Sound'
<1> DEFINE u == [up[d][o] EXCEPT !.pc = "got", !.got = remote[o]]
<1>1. /\ up[d][o].pc = "queued" /\ ~up[d][o].tomb /\ remote[o] # NoMeta
      /\ up' = [up EXCEPT ![d][o] = u]
      /\ UNCHANGED <<remote, stream, row, obj, cursor, down, upl, applied>>
  BY DEF UpGet, device
<1>2. u.pc = "got" /\ u.got = remote[o] /\ u.tomb = up[d][o].tomb
  BY Types DEF Up
<1> HIDE DEF u
<1>3. /\ up'[d][o] = u
      /\ \A e \in Device, p \in Object : e # d \/ p # o => up'[e][p] = up[e][p]
  BY <1>1, Types
<1>4. Task(d, o, up[d][o])'
  <2>1. obj[d][o] # "none" \/ RowOf(d, o).deleted
    BY <1>1 DEF Sound, Tasked, Task
  <2>2. RowOf(d, o)' = RowOf(d, o)
    BY <1>1 DEF RowOf
  <2>3. Reached(o, up[d][o].got.clock)'
    BY <1>1, <1>2, <1>3, RowTypes DEF Reached
  <2> QED
    BY <1>1, <1>2, <1>3, <2>1, <2>2, <2>3 DEF Task
<1> QED
  BY <1>1, <1>3, <1>4, TaskSound

LEMMA ReadRecordSound ==
  ASSUME SyncInv, SyncInv', Sound, NEW d \in Device, NEW o \in Object, UpReadRecord(d, o)
  PROVE  Sound'
<1> DEFINE r == row[d][FileOf[o]]
           m == [MetaOf(r) EXCEPT !.tags = 0]
           u == [up[d][o] EXCEPT !.pc = "record", !.local = m]
<1>1. /\ up[d][o].pc = "got"
      /\ IF Live(r) THEN up' = [up EXCEPT ![d][o].pc = "record", ![d][o].local = m]
                    ELSE UpEnd(d, o)
      /\ UNCHANGED <<remote, stream, row, obj, cursor, down, upl, applied>>
  BY DEF UpReadRecord, device
<1>2. /\ \A e \in Device, p \in Object : e # d \/ p # o => up'[e][p] = up[e][p]
      /\ Task(d, o, up[d][o])'
  <2>1. CASE Live(r)
    <3>0. m.clock = r.clock
      BY DEF MetaOf
    <3> HIDE DEF m
    <3>1. /\ u.pc = "record" /\ u.got = up[d][o].got /\ u.tomb = up[d][o].tomb
          /\ u.local.clock = r.clock
      BY <3>0, Types DEF Up
    <3>9. up' = [up EXCEPT ![d][o] = u]
      BY <1>1, <2>1, Types
    <3> HIDE DEF u
    <3>2. /\ up'[d][o] = u
          /\ \A e \in Device, p \in Object : e # d \/ p # o => up'[e][p] = up[e][p]
      BY <3>9, Types
    <3>3. Task(d, o, up[d][o])
      BY DEF Sound, Tasked
    <3>4. RowOf(d, o)' = r /\ RowOf(d, o) = r /\ r.clock > 0 /\ r.clock \in Nat
      BY <1>1, <2>1, RowTypes DEF RowOf, Live
    <3>5. up[d][o].got # NoMeta /\ Reached(o, up[d][o].got.clock)
      BY <1>1, <3>3 DEF Task
    <3>6. u.got # NoMeta /\ Reached(o, up[d][o].got.clock)'
      BY <1>1, <3>1, <3>2, <3>5 DEF Reached
    <3>7. obj[d][o] # "none" /\ ~u.tomb
      BY <1>1, <2>1, <3>1, <3>3, <3>4 DEF Task, Live
    <3> HIDE DEF r
    <3> QED
      BY <1>1, <3>1, <3>2, <3>4, <3>6, <3>7 DEF Task
  <2>2. CASE ~Live(r)
    BY <1>1, <2>2, End, IdleTask
  <2> QED
    BY <2>1, <2>2
<1> QED
  BY <1>1, <1>2, TaskSound

LEMMA ReadTagsSound ==
  ASSUME SyncInv, SyncInv', Sound, NEW d \in Device, NEW o \in Object, UpReadTags(d, o)
  PROVE  Sound'
<1> DEFINE tags == row[d][FileOf[o]].tags
           m == [up[d][o].local EXCEPT !.tags = tags]
           u == [up[d][o] EXCEPT !.pc = "tags", !.local = m]
<1>1. /\ up[d][o].pc = "record"
      /\ up' = [up EXCEPT ![d][o].pc = "tags", ![d][o].local.tags = tags]
      /\ UNCHANGED <<remote, stream, row, obj, cursor, down, upl, applied>>
  BY DEF UpReadTags, device
<1>5. /\ up'[d][o] = u
      /\ \A e \in Device, p \in Object : e # d \/ p # o => up'[e][p] = up[e][p]
  <2>0. up \in [Device -> [Object -> Up]]
    BY Types
  <2> HIDE DEF tags
  <2> DEFINE v == [up[d][o] EXCEPT !.pc = "tags", !.local.tags = tags]
  <2>1. v = u
    BY <2>0 DEF Up
  <2>2. up'[d][o] = v
    BY <1>1, <2>0
  <2>3. \A e \in Device, p \in Object : e # d \/ p # o => up'[e][p] = up[e][p]
    BY <1>1, <2>0
  <2> QED
    BY <2>1, <2>2, <2>3
<1>6. m.clock = up[d][o].local.clock
  BY TaskTypes DEF Meta
<1> HIDE DEF m
<1>2. /\ u.pc = "tags" /\ u.got = up[d][o].got /\ u.tomb = up[d][o].tomb
      /\ u.local.clock = up[d][o].local.clock
  BY <1>6, Types DEF Up
<1> HIDE DEF u
<1>4. Task(d, o, up[d][o])'
  <2>1. Task(d, o, up[d][o])
    BY DEF Sound, Tasked
  <2>2. RowOf(d, o)' = RowOf(d, o)
    BY <1>1 DEF RowOf
  <2> QED
    BY <1>1, <1>2, <1>5, <2>1, <2>2 DEF Task, Reached
<1> QED
  BY <1>1, <1>5, <1>4, TaskSound

LEMMA DropSound ==
  ASSUME SyncInv, SyncInv', Sound, NEW d \in Device, NEW o \in Object, UpDrop(d, o)
  PROVE  Sound'
<1>1. /\ up[d][o].pc = "deleted" /\ UpEnd(d, o) /\ obj' = [obj EXCEPT ![d][o] = "none"]
      /\ UNCHANGED <<remote, stream, row, cursor, down, upl, applied>>
  BY DEF UpDrop
<1>2. /\ obj'[d][o] = "none"
      /\ \A e \in Device, p \in Object : e # d \/ p # o => obj'[e][p] = obj[e][p]
      /\ up'[d][o].pc = "idle"
      /\ \A e \in Device, p \in Object : e # d \/ p # o => up'[e][p] = up[e][p]
  BY <1>1, Types, End
<1>3. RowOf(d, o).deleted
  BY <1>1 DEF Sound, Tasked, Task
<1>4. \A e \in Device, p \in Object : RowOf(e, p)' = RowOf(e, p)
  BY <1>1 DEF RowOf
<1>5. Numbered'
  BY <1>1 DEF Sound, Numbered
<1>6. Paged' /\ Classified'
  BY <1>1, <1>2, TicksFrame
<1>7. Known'
  BY <1>1, <1>2 DEF Sound, Known
<1>8. Tasked'
  <2>1. \A e \in Device, p \in Object : LibraryGrows(e, p)
    BY <1>2, <1>3, <1>4, RowTypes DEF LibraryGrows
  <2>2. \A e \in Device, p \in Object : e # d \/ p # o => Task(e, p, up[e][p])'
    BY <1>1, <1>2, <2>1, Unmoved, TaskStays
  <2>3. Task(d, o, up[d][o])'
    BY <1>2, IdleTask
  <2> QED
    BY <2>2, <2>3 DEF Tasked
<1>9. \A e \in Device, g \in File : Good(e, g) /\ ~row[e][g].deleted => Good(e, g)'
  <2> SUFFICES ASSUME NEW e \in Device, NEW g \in File, ~row[e][g].deleted,
                      NEW p \in Object, FileOf[p] = g, Witness(e, p)
               PROVE  Witness(e, p)'
    BY DEF Good
  <2>1. e # d \/ p # o
    BY <1>3 DEF RowOf
  <2> QED
    BY <1>1, <1>2, <1>4, <2>1 DEF Witness, Unread, Reached
<1>10. Kept'
  <2> SUFFICES ASSUME NEW e \in Device, NEW p \in Object,
                      ~Unread(e, p), remote[p] # NoMeta, ~RowOf(e, p).deleted
               PROVE  /\ obj'[e][p] # "none"
                      /\ RowOf(e, p).clock >= remote[p].clock
                      /\ RowOf(e, p).clock = remote[p].clock => Good(e, FileOf[p])'
    BY <1>1, <1>4 DEF Kept, Unread
  <2>1. e # d \/ p # o
    BY <1>3
  <2> QED
    BY <1>2, <1>9, <2>1, SetsAssumption DEF Sound, Outcome, Kept, RowOf
<1>11. Gone'
  <2> SUFFICES ASSUME NEW e \in Device, NEW p \in Object,
                      ~Unread(e, p), stream[p] > 0, remote[p] = NoMeta, ~RowOf(e, p).deleted
               PROVE  obj'[e][p] # "clean" /\ up'[e][p].pc \in {"idle", "queued"}
    BY <1>1, <1>4 DEF Gone, Unread
  <2> QED
    BY <1>2 DEF Sound, Outcome, Gone
<1>12. Pushed'
  <2> SUFFICES ASSUME NEW e \in Device, NEW g \in File, Live(row[e][g]),
                      NEW q \in Object, FileOf[q] = g, obj'[e][q] # "none",
                      \A p \in Object : FileOf[p] = g => obj'[e][p] # "dirty"
               PROVE  Good(e, g)'
    BY <1>1 DEF Pushed
  <2>1. e # d \/ g # FileOf[o]
    BY <1>3 DEF RowOf, Live
  <2>2. \A p \in Object : FileOf[p] = g => obj'[e][p] = obj[e][p]
    BY <1>2, <2>1
  <2>3. Good(e, g)
    BY <2>2 DEF Sound, Outcome, Pushed
  <2> QED
    BY <1>9, <2>3 DEF Live
<1> QED
  BY <1>5, <1>6, <1>7, <1>8, <1>10, <1>11, <1>12 DEF Sound, Outcome

\* The flag goes only where the file has its witness.
LEMMA ClearSound ==
  ASSUME SyncInv, SyncInv', Sound, NEW d \in Device, NEW o \in Object,
         UpSkip(d, o) \/ UpClear(d, o)
  PROVE  Sound'
<1> DEFINE t == up[d][o]
           f == FileOf[o]
<1>1. /\ t.pc \in {"tags", "pushed"} /\ UpEnd(d, o) /\ CasClear(d, o)
      /\ UNCHANGED <<remote, stream, row, cursor, down, upl, applied>>
  BY DEF UpSkip, UpClear
<1>2. Reached(o, t.local.clock)
  <2>1. CASE UpSkip(d, o)
    <3>1. t.local = t.got \/ t.local.clock < t.got.clock
      BY <2>1, TaskTypes DEF UpSkip, MustPush
    <3>2. Reached(o, t.got.clock)
      BY <2>1 DEF UpSkip, Sound, Tasked, Task
    <3> QED
      BY <3>1, <3>2, TaskTypes, RowTypes DEF Reached
  <2>2. CASE UpClear(d, o)
    BY <2>2 DEF UpClear, Sound, Tasked, Task
  <2> QED
    BY <2>1, <2>2
<1>3. /\ obj'[d][o] = IF obj[d][o] = "dirty" /\ RowOf(d, o).clock = t.local.clock
                      THEN "clean" ELSE obj[d][o]
      /\ \A e \in Device, p \in Object : e # d \/ p # o => obj'[e][p] = obj[e][p]
      /\ up'[d][o].pc = "idle"
      /\ \A e \in Device, p \in Object : e # d \/ p # o => up'[e][p] = up[e][p]
  BY <1>1, Types, End DEF CasClear, RowOf
<1>4. \A e \in Device, p \in Object : obj'[e][p] = "none" <=> obj[e][p] = "none"
  BY <1>3
<1>5. \A e \in Device, p \in Object : RowOf(e, p)' = RowOf(e, p)
  BY <1>1 DEF RowOf
<1>6. Numbered'
  BY <1>1 DEF Sound, Numbered
<1>7. Paged' /\ Classified'
  BY <1>1, <1>4, TicksFrame
<1>8. Known'
  BY <1>1, <1>3, <1>4 DEF Sound, Known
<1>9. Tasked'
  <2>1. \A e \in Device, p \in Object : LibraryGrows(e, p)
    BY <1>4, <1>5, RowTypes DEF LibraryGrows
  <2>2. \A e \in Device, p \in Object : e # d \/ p # o => Task(e, p, up[e][p])'
    BY <1>1, <1>3, <2>1, Unmoved, TaskStays
  <2>3. Task(d, o, up[d][o])'
    BY <1>3, IdleTask
  <2> QED
    BY <2>2, <2>3 DEF Tasked
<1>10. \A e \in Device, g \in File : Good(e, g) => Good(e, g)'
  BY <1>1, <1>4, <1>5 DEF Good, Witness, Unread, Reached
<1>11. ASSUME obj'[d][o] # obj[d][o], ~RowOf(d, o).deleted
       PROVE  /\ Good(d, f)
              /\ ~(~Unread(d, o) /\ stream[o] > 0 /\ remote[o] = NoMeta)
  <2>1. obj[d][o] = "dirty" /\ RowOf(d, o).clock = t.local.clock
    BY <1>3, <1>11
  <2>2. ~(~Unread(d, o) /\ stream[o] > 0 /\ remote[o] = NoMeta)
    BY <1>1, <1>11 DEF Sound, Outcome, Gone
  <2>3. CASE Unread(d, o)
    BY <1>2, <2>1, <2>3, SetsAssumption DEF Good, Witness
  <2>4. CASE ~Unread(d, o)
    <3>1. stream[o] > 0
      BY <2>1 DEF Sound, Known
    <3>2. remote[o] # NoMeta /\ remote[o].clock >= RowOf(d, o).clock
      BY <1>2, <2>1, <2>2, <2>4, <3>1 DEF Reached
    <3>3. RowOf(d, o).clock >= remote[o].clock
      BY <1>11, <2>4, <3>2 DEF Sound, Outcome, Kept
    <3>4. RowOf(d, o).clock = remote[o].clock
      BY <3>2, <3>3, RowTypes
    <3> QED
      BY <1>11, <2>2, <2>4, <3>2, <3>4 DEF Sound, Outcome, Kept
  <2> QED
    BY <2>2, <2>3, <2>4
<1>12. Kept'
  BY <1>1, <1>4, <1>5, <1>10, SetsAssumption DEF Sound, Outcome, Kept, Unread
<1>13. Gone'
  <2> SUFFICES ASSUME NEW e \in Device, NEW p \in Object,
                      ~Unread(e, p), stream[p] > 0, remote[p] = NoMeta, ~RowOf(e, p).deleted
               PROVE  obj'[e][p] # "clean" /\ up'[e][p].pc \in {"idle", "queued"}
    BY <1>1, <1>5 DEF Gone, Unread
  <2>1. obj'[e][p] = obj[e][p]
    BY <1>3, <1>11
  <2> QED
    BY <1>3, <2>1 DEF Sound, Outcome, Gone
<1>14. Pushed'
  <2> SUFFICES ASSUME NEW e \in Device, NEW g \in File, Live(row[e][g]),
                      NEW q \in Object, FileOf[q] = g, obj'[e][q] # "none",
                      \A p \in Object : FileOf[p] = g => obj'[e][p] # "dirty"
               PROVE  Good(e, g)'
    BY <1>1 DEF Pushed
  <2>1. CASE e = d /\ g = f /\ obj'[d][o] # obj[d][o]
    BY <1>10, <1>11, <2>1 DEF RowOf, Live
  <2>2. CASE ~(e = d /\ g = f /\ obj'[d][o] # obj[d][o])
    <3>1. \A p \in Object : FileOf[p] = g => obj'[e][p] = obj[e][p]
      BY <1>3, <2>2
    <3>2. Good(e, g)
      BY <3>1 DEF Sound, Outcome, Pushed
    <3> QED
      BY <1>10, <3>2
  <2> QED
    BY <2>1, <2>2
<1> QED
  BY <1>6, <1>7, <1>8, <1>9, <1>12, <1>13, <1>14 DEF Sound, Outcome

LEMMA UpSound ==
  ASSUME SyncInv, SyncInv', Sound, hazard' = {}, NEW d \in Device, NEW o \in Object,
         UpTask(d, o) \/ UpFail(d, o)
  PROVE  Sound'
<1>1. CASE UpFail(d, o)
  <2>1. /\ UNCHANGED <<remote, stream, row, obj, cursor, down, upl, applied>>
        /\ up[d][o].pc # "idle" /\ UpEnd(d, o)
    BY <1>1 DEF UpFail, device
  <2> QED
    BY <2>1, End, IdleTask, TaskSound
<1> QED
  BY <1>1, DeleteSound, DropSound, GetSound, ReadRecordSound, ReadTagsSound, ClearSound,
     PushSound DEF UpTask

(***************************************************************************)
(* Ticks of sync-down, up to the transaction, and crashes.                 *)
(***************************************************************************)
LEMMA TickEnds ==
  ASSUME SyncInv, Sound, NEW d \in Device,
         down' = [down EXCEPT ![d] = IdleDown], UNCHANGED <<row, obj, remote, stream>>,
         \A e \in Device : e # d => cursor'[e] = cursor[e]
  PROVE  Paged' /\ Classified'
<1>1. /\ down'[d] = IdleDown /\ \A e \in Device : e # d => down'[e] = down[e]
  BY Types
<1>2. /\ \A p \in Object : IdleDown.at[p] = 0 /\ IdleDown.meta[p] = NoMeta
      /\ \A g \in File : ~IdleDown.seen[g].deleted
      /\ IdleDown.pc = "idle"
  BY DEF IdleDown, NoRow
<1>3. Paged'
  <2>1. \A e \in Device, p \in Object : Event(down[e], p)'
    <3> SUFFICES ASSUME NEW e \in Device, NEW p \in Object PROVE Event(down[e], p)'
      OBVIOUS
    <3>1. CASE e = d
      BY <1>1, <1>2, <3>1 DEF Event
    <3>2. CASE e # d
      <4>1. Event(down[e], p)
        BY DEF Sound, Paged
      <4> QED
        BY <1>1, <3>2, <4>1 DEF Event, Reached
    <3> QED
      BY <3>1, <3>2
  <2>2. \A e \in Device, p \in Object : down'[e].at[p] > 0 => cursor'[e] < down'[e].at[p]
    <3> SUFFICES ASSUME NEW e \in Device, NEW p \in Object, down'[e].at[p] > 0
                 PROVE  cursor'[e] < down'[e].at[p]
      OBVIOUS
    <3>1. e # d
      BY <1>1, <1>2
    <3> QED
      BY <1>1, <3>1 DEF Sound, Paged
  <2> QED
    BY <2>1, <2>2 DEF Paged
<1>4. Classified'
  <2>1. \A e \in Device, g \in File :
          /\ down'[e].seen[g].deleted => row[e][g].deleted
          /\ Deciding(e, g)' => row[e][g] = down'[e].seen[g]
    <3> SUFFICES ASSUME NEW e \in Device, NEW g \in File
                 PROVE  /\ down'[e].seen[g].deleted => row[e][g].deleted
                        /\ Deciding(e, g)' => row[e][g] = down'[e].seen[g]
      OBVIOUS
    <3>1. CASE e = d
      BY <1>1, <1>2, <3>1 DEF Deciding
    <3>2. CASE e # d
      BY <1>1, <3>2 DEF Sound, Classified, Deciding
    <3> QED
      BY <3>1, <3>2
  <2>2. ASSUME NEW e \in Device, NEW p \in Object,
               down'[e].pc = "classified", p \notin down'[e].held,
               down'[e].at[p] = stream[p], down'[e].meta[p] = NoMeta
        PROVE  obj[e][p] = "none"
    <3>1. e # d
      BY <1>1, <1>2, <2>2
    <3> QED
      BY <1>1, <2>2, <3>1 DEF Sound, Classified
  <2> QED
    BY <2>1, <2>2 DEF Classified
<1> QED
  BY <1>3, <1>4

LEMMA StopSound ==
  ASSUME SyncInv, SyncInv', Sound, NEW d \in Device, DownStop(d) \/ DownSave(d)
  PROVE  Sound'
<1>1. /\ UNCHANGED <<remote, stream, row, obj, up, upl, applied>>
      /\ down' = [down EXCEPT ![d] = IdleDown]
      /\ \A e \in Device : e # d => cursor'[e] = cursor[e]
  BY Types DEF DownStop, DownSave, device
<1>2. Numbered' /\ Outcome' /\ Paged' /\ Classified'
  BY <1>1, OutcomeFrame, TickEnds
<1>3. Known'
  BY <1>1 DEF Sound, Known
<1>4. Tasked'
  BY <1>1, Untouched, Unmoved, TaskStays DEF Tasked
<1> QED
  BY <1>2, <1>3, <1>4 DEF Sound

LEMMA CrashSound ==
  ASSUME SyncInv, SyncInv', Sound, NEW d \in Device, Crash(d)
  PROVE  Sound'
<1>1. /\ UNCHANGED <<remote, stream, row, obj, cursor, applied>>
      /\ down' = [down EXCEPT ![d] = IdleDown]
      /\ \A p \in Object : up'[d][p].pc = "idle" /\ upl'[d][p].pc = "idle"
      /\ \A e \in Device, p \in Object : e # d => up'[e][p] = up[e][p] /\ upl'[e][p] = upl[e][p]
  BY Types DEF Crash, device, IdleUp, IdleUpload
<1>2. Numbered' /\ Outcome'
  <2>1. \A e \in Device, p \in Object :
           \/ up'[e][p].pc \in {"idle", "queued"}
           \/ up[e][p].pc \notin {"idle", "queued"}
    BY <1>1
  <2> QED
    BY <1>1, <2>1, OutcomeFrame
<1>3. Paged' /\ Classified'
  BY <1>1, TickEnds
<1>4. Known'
  BY <1>1 DEF Sound, Known
<1>5. Tasked'
  <2>1. \A e \in Device, p \in Object : e # d => Task(e, p, up[e][p])'
    BY <1>1, Untouched, Unmoved, TaskStays
  <2>2. \A p \in Object : Task(d, p, up[d][p])'
    BY <1>1, IdleTask
  <2> QED
    BY <2>1, <2>2 DEF Tasked
<1> QED
  BY <1>2, <1>3, <1>4, <1>5 DEF Sound

LEMMA FetchSound ==
  ASSUME SyncInv, SyncInv', Sound, NEW d \in Device, DownFetch(d)
  PROVE  Sound'
<1>1. UNCHANGED <<remote, stream, row, obj, cursor, up, upl, applied>>
  BY DEF DownFetch, device
<1>2. PICK last \in {stream[o] : o \in Object} :
        down' = [down EXCEPT ![d] =
          [IdleDown EXCEPT !.pc = "paged", !.last = last,
             !.at = [o \in Object |->
               IF o \in {x \in Object : cursor[d] < stream[x] /\ stream[x] <= last}
               THEN stream[o] ELSE 0],
             !.meta = [o \in Object |->
               IF o \in {x \in Object : cursor[d] < stream[x] /\ stream[x] <= last}
               THEN remote[o] ELSE NoMeta]]]
  BY ZenonT(60) DEF DownFetch
<1>3. /\ down'[d].pc = "paged" /\ down'[d].last = last
      /\ \A p \in Object :
           /\ down'[d].at[p] = IF cursor[d] < stream[p] /\ stream[p] <= last
                               THEN stream[p] ELSE 0
           /\ down'[d].meta[p] = IF cursor[d] < stream[p] /\ stream[p] <= last
                                 THEN remote[p] ELSE NoMeta
      /\ \A g \in File : ~down'[d].seen[g].deleted
      /\ \A e \in Device : e # d => down'[e] = down[e]
  BY <1>2, Types DEF IdleDown, NoRow
<1>4. \A p \in Object : stream[p] \in Nat /\ cursor[d] \in Nat /\ remote[p].clock \in Nat
  BY Types, RowTypes
<1>5. Numbered' /\ Outcome'
  BY <1>1, OutcomeFrame
<1>6. Paged'
  <2>1. \A e \in Device, p \in Object : Event(down[e], p)'
    <3> SUFFICES ASSUME NEW e \in Device, NEW p \in Object PROVE Event(down[e], p)'
      OBVIOUS
    <3>1. CASE e = d
      <4>1. remote[p] # NoMeta => remote[p].clock > 0
        BY DEF Sound, Numbered
      <4> QED
        BY <1>1, <1>3, <1>4, <3>1, <4>1 DEF Event, Reached
    <3>2. CASE e # d
      <4>1. Event(down[e], p)
        BY DEF Sound, Paged
      <4> QED
        BY <1>1, <1>3, <3>2, <4>1 DEF Event, Reached
    <3> QED
      BY <3>1, <3>2
  <2>2. \A e \in Device, p \in Object : down'[e].at[p] > 0 => cursor[e] < down'[e].at[p]
    BY <1>3, <1>4 DEF Sound, Paged
  <2> QED
    BY <1>1, <2>1, <2>2 DEF Paged
<1>7. Classified'
  <2>1. \A g \in File : ~Deciding(d, g)'
    BY <1>3 DEF Deciding
  <2>2. \A e \in Device, g \in File : e # d => Deciding(e, g)' = Deciding(e, g)
    BY <1>3 DEF Deciding
  <2> QED
    BY <1>1, <1>3, <2>1, <2>2 DEF Sound, Classified
<1>8. Known'
  BY <1>1 DEF Sound, Known
<1>9. Tasked'
  BY <1>1, Untouched, Unmoved, TaskStays DEF Tasked
<1> QED
  BY <1>5, <1>6, <1>7, <1>8, <1>9 DEF Sound

LEMMA ClassifySound ==
  ASSUME SyncInv, SyncInv', Sound, NEW d \in Device, DownClassify(d)
  PROVE  Sound'
<1>1. /\ UNCHANGED <<remote, stream, row, obj, cursor, up, upl, applied>>
      /\ down[d].pc = "paged"
  BY DEF DownClassify, device
<1>2. /\ down'[d].pc = "classified" /\ down'[d].seen = row[d]
      /\ down'[d].held = {o \in Object : obj[d][o] # "none"}
      /\ down'[d].at = down[d].at /\ down'[d].meta = down[d].meta
      /\ down'[d].last = down[d].last
      /\ \A e \in Device : e # d => down'[e] = down[e]
  BY Types DEF DownClassify, Down
<1>3. Numbered' /\ Outcome'
  BY <1>1, OutcomeFrame
<1>4. Paged'
  <2>1. \A e \in Device, p \in Object : Event(down[e], p)'
    <3> SUFFICES ASSUME NEW e \in Device, NEW p \in Object PROVE Event(down[e], p)'
      OBVIOUS
    <3>1. Event(down[e], p)
      BY DEF Sound, Paged
    <3> QED
      BY <1>1, <1>2, <3>1 DEF Event, Reached
  <2>2. \A e \in Device, p \in Object : down'[e].at[p] > 0 => cursor[e] < down'[e].at[p]
    BY <1>2 DEF Sound, Paged
  <2> QED
    BY <1>1, <2>1, <2>2 DEF Paged
<1>5. Classified'
  <2>1. \A e \in Device, g \in File : e # d => Deciding(e, g)' = Deciding(e, g)
    BY <1>2 DEF Deciding
  <2>2. \A p \in Object : p \notin down'[d].held => obj[d][p] = "none"
    BY <1>2
  <2> QED
    BY <1>1, <1>2, <2>1, <2>2 DEF Sound, Classified
<1>6. Known'
  BY <1>1 DEF Sound, Known
<1>7. Tasked'
  BY <1>1, Untouched, Unmoved, TaskStays DEF Tasked
<1> QED
  BY <1>3, <1>4, <1>5, <1>6, <1>7 DEF Sound

(***************************************************************************)
(* The transaction that applies a page.  For a file whose row it leaves    *)
(* alive: either the newest event of the page is taken, and the object it  *)
(* is of is the file's witness, or row and objects stay as they were.      *)
(***************************************************************************)
Taken(w, f) == CHOOSE o \in Newest(w, f) : TRUE

LEMMA TakenIsNewest ==
  ASSUME SyncInv, NEW d \in Device, NEW f \in File, Newest(down[d], f) # {}
  PROVE  LET w == down[d]
             n == Taken(w, f)
         IN  /\ n \in Object /\ n \in Upserts(w) /\ FileOf[n] = f /\ RemoteNewer(w, n)
             /\ \A p \in Upserts(w) : FileOf[p] = f /\ RemoteNewer(w, p) =>
                  /\ w.meta[p].clock <= w.meta[n].clock
                  /\ w.meta[p].clock = w.meta[n].clock => w.at[p] <= w.at[n]
<1> DEFINE w == down[d]
           n == Taken(w, f)
<1>1. n \in Newest(w, f)
  BY DEF Taken
<1> HIDE DEF n
<1>2. n \in Object /\ n \in Upserts(w) /\ FileOf[n] = f /\ RemoteNewer(w, n)
  BY <1>1 DEF Newest, Upserts
<1>3. ASSUME NEW p \in Upserts(w), FileOf[p] = f, RemoteNewer(w, p)
      PROVE  /\ w.meta[p].clock <= w.meta[n].clock
             /\ w.meta[p].clock = w.meta[n].clock => w.at[p] <= w.at[n]
  <2>1. p \in Object
    BY DEF Upserts
  <2>2. \/ w.meta[p].clock < w.meta[n].clock
        \/ /\ w.meta[p].clock = w.meta[n].clock
           /\ w.at[p] <= w.at[n]
    BY <1>1, <1>3 DEF Newest
  <2> QED
    BY <1>2, <2>1, <2>2, DownTypes
<1> QED
  BY <1>2, <1>3 DEF n

\* What the step does to device d, file by file and object by object.
LEMMA ApplyMoves ==
  ASSUME SyncInv, NEW d \in Device, DownApply(d), hazard' = {}
  PROVE  LET w == down[d] IN
         /\ w.pc = "classified" /\ ~AdoptsClean(d, w)
         /\ UNCHANGED <<remote, stream, cursor, up, upl>>
         /\ \A f \in File : row'[d][f] = Buried(w, Merged(w, row[d][f], f), f, Date(d))
         /\ \A o \in Object : obj'[d][o] = Refreshed(w, obj[d][o], o)
         /\ \A o \in Object : applied'[d][o] = IF w.at[o] > 0 THEN w.at[o] ELSE applied[d][o]
         /\ \A e \in Device : e # d => /\ row'[e] = row[e] /\ obj'[e] = obj[e]
                                       /\ applied'[e] = applied[e] /\ down'[e] = down[e]
         /\ down'[d].pc = "applied" /\ down'[d].at = w.at /\ down'[d].meta = w.meta
         /\ down'[d].seen = w.seen /\ down'[d].held = w.held /\ down'[d].last = w.last
BY Types, ZenonT(60) DEF DownApply, Down

LEMMA ApplyFile ==
  ASSUME SyncInv, Sound, NEW d \in Device, DownApply(d), hazard' = {}, NEW f \in File,
         ~row'[d][f].deleted
  PROVE  LET w == down[d]
             n == Taken(w, f)
         IN
         /\ ~row[d][f].deleted
         /\ \A o \in Object : FileOf[o] = f => o \notin Deletes(w)
         /\ \A o \in Object : FileOf[o] = f =>
              (obj'[d][o] = "none" <=> obj[d][o] = "none" /\ o \notin Upserts(w))
         /\ \A o \in Upserts(w) : FileOf[o] = f =>
              w.seen[f] = row[d][f] /\ (RemoteNewer(w, o) => Newest(w, f) # {})
         /\ Newest(w, f) = {} =>
              /\ row'[d][f] = row[d][f]
              /\ \A o \in Object : FileOf[o] = f => obj'[d][o] = obj[d][o]
         /\ Newest(w, f) # {} =>
              /\ MetaOf(row'[d][f]) = w.meta[n]
              /\ row'[d][f].clock = w.meta[n].clock
              /\ row'[d][f].clock >= row[d][f].clock
<1> DEFINE w == down[d]
           n == Taken(w, f)
           r == row[d][f]
           m == Merged(w, r, f)
<1>1. /\ w.pc = "classified" /\ ~AdoptsClean(d, w)
      /\ row'[d][f] = Buried(w, m, f, Date(d))
      /\ \A o \in Object : obj'[d][o] = Refreshed(w, obj[d][o], o)
  BY ApplyMoves
<1>2. w \in Down /\ r \in Row /\ m \in Row
  BY Types, MergedType
<1>3. ~m.deleted /\ row'[d][f] = m
  <2> HIDE DEF m
  <2> QED
    BY <1>1, <1>2 DEF Buried, Row
<1>4. ~r.deleted /\ ~w.seen[f].deleted
  <2>1. r.deleted => m.deleted
    BY <1>2 DEF Merged, Row
  <2> QED
    BY <1>3, <2>1 DEF Sound, Classified
<1>5. \A o \in Object : FileOf[o] = f => o \notin Deletes(w)
  <2>1. Deletes(w) \cap {o \in Object : FileOf[o] = f} = {} \/ row'[d][f].deleted
    <3> HIDE DEF m
    <3> QED
      BY <1>1, <1>2, <1>3, <1>4 DEF Buried, Row
  <2> QED
    BY <2>1
<1>6. \A o \in Upserts(w) : FileOf[o] = f =>
        w.seen[f] = r /\ (RemoteNewer(w, o) => Newest(w, f) # {})
  <2>1. \A o \in Upserts(w) : FileOf[o] = f => Deciding(d, f)
    BY <1>1 DEF Deciding, Upserts
  <2>2. \A o \in Upserts(w) : FileOf[o] = f => w.seen[f] = r
    BY <2>1 DEF Sound, Classified
  <2> QED
    BY <1>2, <2>2, NewestExists
<1>7. \A o \in Object : FileOf[o] = f =>
        (obj'[d][o] = "none" <=> obj[d][o] = "none" /\ o \notin Upserts(w))
  BY <1>1, <1>5 DEF Refreshed
<1>8. ASSUME Newest(w, f) = {}
      PROVE  /\ row'[d][f] = r
             /\ \A o \in Object : FileOf[o] = f => obj'[d][o] = obj[d][o]
  <2>1. row'[d][f] = r
    BY <1>3, <1>8 DEF Merged
  <2>2. ASSUME NEW o \in Object, FileOf[o] = f PROVE obj'[d][o] = obj[d][o]
    <3>1. CASE o \in Upserts(w)
      <4>1. ~RemoteNewer(w, o)
        BY <1>6, <1>8, <2>2, <3>1
      <4>2. obj[d][o] # "none"
        BY <1>1, <3>1, <4>1 DEF AdoptsClean
      <4> QED
        BY <1>1, <1>5, <2>2, <3>1, <4>1, <4>2 DEF Refreshed
    <3>2. CASE o \notin Upserts(w)
      BY <1>1, <1>5, <2>2, <3>2 DEF Refreshed
    <3> QED
      BY <3>1, <3>2
  <2> QED
    BY <2>1, <2>2
<1>9. ASSUME Newest(w, f) # {}
      PROVE  /\ MetaOf(row'[d][f]) = w.meta[n]
             /\ row'[d][f].clock = w.meta[n].clock
             /\ row'[d][f].clock >= r.clock
  <2>1. n \in Object /\ n \in Upserts(w) /\ FileOf[n] = f /\ RemoteNewer(w, n)
    BY <1>9, TakenIsNewest
  <2> DEFINE x == w.meta[n]
  <2>2. x \in Meta
    BY <2>1, DownTypes
  <2>3. m = [r EXCEPT !.clock = x.clock, !.name = x.name, !.tags = x.tags]
    BY <1>4, <1>9 DEF Merged, Taken
  <2>4. m.clock = x.clock /\ MetaOf(m) = x
    <3> HIDE DEF x, m, r
    <3> QED
      BY <1>2, <2>2, <2>3 DEF Row, Meta, MetaOf
  <2>5. x.clock >= r.clock
    BY <1>6, <2>1 DEF RemoteNewer
  <2> QED
    BY <1>3, <2>4, <2>5
<1> QED
  BY <1>4, <1>5, <1>6, <1>7, <1>8, <1>9

LEMMA ApplyGood ==
  ASSUME SyncInv, SyncInv', Sound, NEW d \in Device, DownApply(d), hazard' = {},
         NEW f \in File, ~row'[d][f].deleted
  PROVE  /\ \A n \in Object :
              Newest(down[d], f) # {} /\ n = Taken(down[d], f) => Witness(d, n)'
         /\ Newest(down[d], f) # {} \/ Good(d, f) => Good(d, f)'
<1> DEFINE w == down[d]
<1>1. /\ UNCHANGED <<remote, stream>> /\ w.pc = "classified"
      /\ \A o \in Object : applied'[d][o] = IF w.at[o] > 0 THEN w.at[o] ELSE applied[d][o]
  BY ApplyMoves
<1>2. \A o \in Object : FileOf[o] = f => /\ RowOf(d, o)' = row'[d][f]
                                         /\ RowOf(d, o) = row[d][f]
  BY DEF RowOf
<1>3. \A o \in Object : /\ stream[o] \in Nat /\ w.at[o] \in Nat /\ w.meta[o].clock \in Nat
                        /\ Event(w, o)
  BY Types, DownTypes DEF Sound, Paged
<1>4. ASSUME Newest(w, f) # {}, NEW n, n = Taken(w, f)
      PROVE  n \in Object /\ FileOf[n] = f /\ Witness(d, n)'
  <2>1. /\ n \in Object /\ n \in Upserts(w) /\ FileOf[n] = f
        /\ MetaOf(row'[d][f]) = w.meta[n] /\ row'[d][f].clock = w.meta[n].clock
        /\ obj'[d][n] # "none"
    <3>1. n \in Object /\ n \in Upserts(w) /\ FileOf[n] = f
      BY <1>4, TakenIsNewest
    <3> QED
      BY <1>4, <3>1, ApplyFile
  <2>2. w.at[n] > 0 /\ applied'[d][n] = w.at[n]
    BY <1>1, <2>1 DEF Upserts
  <2>3. CASE w.at[n] = stream[n]
    <3>1. remote[n] = w.meta[n]
      BY <1>3, <2>1, <2>2, <2>3 DEF Event
    <3> QED
      BY <1>1, <1>2, <2>1, <3>1 DEF Witness
  <2>4. CASE w.at[n] # stream[n]
    <3>1. Reached(n, w.meta[n].clock)
      BY <1>3, <2>1, <2>2 DEF Event, Upserts
    <3> QED
      BY <1>1, <1>2, <2>1, <2>2, <2>4, <3>1 DEF Witness, Unread, Reached
  <2> QED
    BY <2>1, <2>3, <2>4
<1>5. ASSUME Newest(w, f) = {}, NEW o \in Object, FileOf[o] = f, Witness(d, o)
      PROVE  Witness(d, o)'
  <2>1. row'[d][f] = row[d][f] /\ obj'[d][o] = obj[d][o]
    BY <1>5, ApplyFile
  <2>2. CASE remote[o] = MetaOf(RowOf(d, o))
    BY <1>1, <1>2, <1>5, <2>1, <2>2 DEF Witness
  <2>3. CASE Unread(d, o) /\ Reached(o, RowOf(d, o).clock)
    <3>1. ASSUME w.at[o] > 0, w.at[o] = stream[o] PROVE FALSE
      <4>1. w.meta[o] = remote[o]
        BY <1>3, <3>1 DEF Event
      <4>2. CASE remote[o] = NoMeta
        <5>1. o \notin Deletes(w)
          BY <1>5, ApplyFile
        <5>2. o \notin w.held
          BY <3>1, <4>1, <4>2, <5>1 DEF Deletes
        <5>3. obj[d][o] = "none"
          BY <1>1, <3>1, <4>1, <4>2, <5>2 DEF Sound, Classified
        <5> QED
          BY <1>5, <5>3 DEF Witness
      <4>3. CASE remote[o] # NoMeta
        <5>1. o \in Upserts(w)
          BY <3>1, <4>1, <4>3 DEF Upserts
        <5>2. w.seen[f] = row[d][f] /\ ~RemoteNewer(w, o)
          BY <1>5, <5>1, ApplyFile
        <5>3. w.meta[o].clock >= row[d][f].clock
          BY <1>2, <1>5, <2>3, <4>1, <4>3 DEF Reached
        <5> QED
          BY <1>5, <5>2, <5>3 DEF RemoteNewer
      <4> QED
        BY <4>2, <4>3
    <3>2. Unread(d, o)'
      BY <1>1, <1>3, <2>3, <3>1 DEF Unread
    <3> QED
      BY <1>1, <1>2, <1>5, <2>1, <2>3, <3>2 DEF Witness, Reached
  <2> QED
    BY <1>5, <2>2, <2>3 DEF Witness
<1>6. Newest(w, f) = {} /\ Good(d, f) => Good(d, f)'
  BY <1>5 DEF Good
<1>7. Newest(w, f) # {} => Good(d, f)'
  <2> SUFFICES ASSUME Newest(w, f) # {} PROVE \E n \in Object : FileOf[n] = f /\ Witness(d, n)'
    BY DEF Good
  <2>1. \E n : n = Taken(w, f)
    OBVIOUS
  <2> QED
    BY <1>4, <2>1
<1> QED
  BY <1>4, <1>6, <1>7

LEMMA ApplySpares ==
  ASSUME SyncInv, Sound, NEW d \in Device, DownApply(d), hazard' = {}
  PROVE  /\ \A f \in File : row[d][f].deleted => row'[d][f].deleted
         /\ \A f \in File : ~row'[d][f].deleted => row'[d][f].clock >= row[d][f].clock
         /\ \A e \in Device, p \in Object : LibraryGrows(e, p)
<1>1. \A f \in File : row[d][f].deleted => row'[d][f].deleted
  BY ApplySparesTombstones DEF SyncInv, StaysBuried
<1>2. \A f \in File : ~row'[d][f].deleted => row'[d][f].clock >= row[d][f].clock
  <2> SUFFICES ASSUME NEW f \in File, ~row'[d][f].deleted
               PROVE  row'[d][f].clock >= row[d][f].clock
    OBVIOUS
  <2>1. CASE Newest(down[d], f) = {}
    <3>1. row'[d][f] = row[d][f]
      BY <2>1, ApplyFile
    <3> QED
      BY <3>1, RowTypes
  <2>2. CASE Newest(down[d], f) # {}
    BY <2>2, ApplyFile
  <2> QED
    BY <2>1, <2>2
<1>3. ASSUME NEW e \in Device, NEW p \in Object PROVE LibraryGrows(e, p)
  <2>1. CASE e = d
    <3>1. ~row'[d][FileOf[p]].deleted => (obj[d][p] # "none" => obj'[d][p] # "none")
      BY SetsAssumption, ApplyFile
    <3> QED
      BY <1>1, <1>2, <2>1, <3>1, SetsAssumption DEF LibraryGrows, RowOf
  <2>2. CASE e # d
    <3>1. row'[e] = row[e] /\ obj'[e] = obj[e]
      BY <2>2, ApplyMoves
    <3> QED
      BY <3>1, RowTypes DEF LibraryGrows, RowOf
  <2> QED
    BY <2>1, <2>2
<1> QED
  BY <1>1, <1>2, <1>3

LEMMA ApplyOutcome ==
  ASSUME SyncInv, SyncInv', Sound, NEW d \in Device, DownApply(d), hazard' = {}
  PROVE  Outcome'
<1> DEFINE w == down[d]
<1>1. /\ w.pc = "classified" /\ ~AdoptsClean(d, w)
      /\ UNCHANGED <<remote, stream, cursor, up, upl>>
      /\ \A o \in Object : obj'[d][o] = Refreshed(w, obj[d][o], o)
      /\ \A o \in Object : applied'[d][o] = IF w.at[o] > 0 THEN w.at[o] ELSE applied[d][o]
      /\ \A e \in Device : e # d => /\ row'[e] = row[e] /\ obj'[e] = obj[e]
                                    /\ applied'[e] = applied[e]
  BY ApplyMoves
<1>2. \A o \in Object : RowOf(d, o)' = row'[d][FileOf[o]] /\ RowOf(d, o) = row[d][FileOf[o]]
  BY DEF RowOf
<1>3. \A e \in Device, o \in Object : e # d => RowOf(e, o)' = RowOf(e, o)
  BY <1>1 DEF RowOf
<1>4. \A e \in Device, g \in File : e # d => Good(e, g)' = Good(e, g)
  BY <1>1, <1>3 DEF Good, Witness, Unread, Reached
<1>5. \A o \in Object : /\ stream[o] \in Nat /\ w.at[o] \in Nat /\ w.meta[o].clock \in Nat
                        /\ FileOf[o] \in File /\ Event(w, o)
                        /\ row[d][FileOf[o]].clock \in Nat /\ row'[d][FileOf[o]].clock \in Nat
  <2>1. row' \in [Device -> [File -> Row]]
    BY DEF SyncInv, TypeOK
  <2> QED
    BY <2>1, Types, DownTypes, RowTypes, SetsAssumption DEF Sound, Paged, Row
<1>6. Kept'
  <2> SUFFICES ASSUME NEW e \in Device, NEW o \in Object,
                      ~Unread(e, o)', remote[o] # NoMeta, ~RowOf(e, o)'.deleted
               PROVE  /\ obj'[e][o] # "none"
                      /\ RowOf(e, o)'.clock >= remote[o].clock
                      /\ RowOf(e, o)'.clock = remote[o].clock => Good(e, FileOf[o])'
    BY <1>1 DEF Kept
  <2>1. CASE e # d
    BY <1>1, <1>3, <1>4, <1>5, <2>1 DEF Sound, Outcome, Kept, Unread
  <2>2. CASE e = d
    <3> DEFINE f == FileOf[o]
               r == row[d][f]
               q == row'[d][f]
    <3>1. f \in File /\ ~q.deleted /\ ~r.deleted /\ r.clock \in Nat /\ q.clock \in Nat
      BY <1>2, <1>5, <2>2, ApplySpares
    <3>2. CASE w.at[o] = 0
      <4>1. ~Unread(d, o)
        BY <1>1, <2>2, <3>2 DEF Unread
      <4>2. /\ obj[d][o] # "none" /\ r.clock >= remote[o].clock
            /\ r.clock = remote[o].clock => Good(d, f)
        BY <1>2, <3>1, <4>1 DEF Sound, Outcome, Kept
      <4>3. obj'[d][o] # "none" /\ q.clock >= r.clock
        BY <3>1, <4>2, ApplyFile, ApplySpares
      <4>4. q.clock >= remote[o].clock
        BY <3>1, <4>2, <4>3, RowTypes
      <4>5. ASSUME q.clock = remote[o].clock PROVE Good(d, f)'
        <5>1. r.clock = remote[o].clock
          BY <3>1, <4>2, <4>3, <4>5, RowTypes
        <5> QED
          BY <3>1, <4>2, <5>1, ApplyGood
      <4> QED
        BY <1>2, <2>2, <4>3, <4>4, <4>5
    <3>3. CASE w.at[o] > 0
      <4>1. w.at[o] = stream[o] /\ w.meta[o] = remote[o] /\ o \in Upserts(w)
        BY <1>1, <1>5, <2>2, <3>3 DEF Unread, Event, Upserts
      <4>2. obj'[d][o] # "none" /\ w.seen[f] = r /\ (RemoteNewer(w, o) => Newest(w, f) # {})
        BY <3>1, <4>1, ApplyFile
      <4>3. CASE RemoteNewer(w, o)
        <5>1. /\ Newest(w, f) # {} /\ q.clock = w.meta[Taken(w, f)].clock
          BY <3>1, <4>2, <4>3, ApplyFile
        <5>2. remote[o].clock <= q.clock
          BY <3>1, <4>1, <4>3, <5>1, TakenIsNewest
        <5>3. Good(d, f)'
          BY <3>1, <5>1, ApplyGood
        <5> QED
          BY <1>2, <2>2, <3>1, <4>2, <5>2, <5>3, RowTypes
      <4>4. CASE ~RemoteNewer(w, o)
        <5>1. remote[o].clock < r.clock
          BY <1>5, <3>1, <4>1, <4>2, <4>4 DEF RemoteNewer
        <5>2. q.clock >= r.clock
          BY <3>1, ApplySpares
        <5> QED
          BY <1>2, <2>2, <3>1, <4>2, <5>1, <5>2, RowTypes
      <4> QED
        BY <4>3, <4>4
    <3> QED
      BY <1>5, <3>2, <3>3
  <2> QED
    BY <2>1, <2>2
<1>7. Gone'
  <2> SUFFICES ASSUME NEW e \in Device, NEW o \in Object,
                      ~Unread(e, o)', stream[o] > 0, remote[o] = NoMeta, ~RowOf(e, o)'.deleted
               PROVE  obj'[e][o] # "clean" /\ up[e][o].pc \in {"idle", "queued"}
    BY <1>1 DEF Gone
  <2>1. CASE e # d
    BY <1>1, <1>3, <2>1 DEF Sound, Outcome, Gone, Unread
  <2>2. CASE e = d
    <3>1. ~row'[d][FileOf[o]].deleted /\ ~row[d][FileOf[o]].deleted /\ o \notin Deletes(w)
      BY <1>2, <1>5, <2>2, ApplyFile
    <3>2. CASE w.at[o] = 0
      <4>1. obj[d][o] # "clean" /\ up[d][o].pc \in {"idle", "queued"}
        BY <1>1, <1>2, <2>2, <3>1, <3>2 DEF Sound, Outcome, Gone, Unread
      <4>2. obj'[d][o] = obj[d][o]
        BY <1>1, <3>1, <3>2 DEF Refreshed, Upserts
      <4> QED
        BY <2>2, <4>1, <4>2
    <3>3. CASE w.at[o] > 0
      <4>1. w.at[o] = stream[o] /\ w.meta[o] = NoMeta
        BY <1>1, <1>5, <2>2, <3>3 DEF Unread, Event
      <4>2. o \notin w.held
        BY <3>1, <3>3, <4>1 DEF Deletes
      <4>3. obj[d][o] = "none"
        BY <1>1, <4>1, <4>2 DEF Sound, Classified
      <4>4. obj'[d][o] = "none"
        BY <1>1, <3>1, <4>1, <4>3 DEF Refreshed, Upserts
      <4>5. up[d][o].pc = "idle"
        BY <1>2, <3>1, <4>3 DEF Sound, Tasked, Task
      <4> QED
        BY <2>2, <4>4, <4>5
    <3> QED
      BY <1>5, <3>2, <3>3
  <2> QED
    BY <2>1, <2>2
<1>8. Pushed'
  <2> SUFFICES ASSUME NEW e \in Device, NEW g \in File, Live(row'[e][g]),
                      NEW q \in Object, FileOf[q] = g, obj'[e][q] # "none",
                      \A p \in Object : FileOf[p] = g => obj'[e][p] # "dirty"
               PROVE  Good(e, g)'
    BY DEF Pushed
  <2>1. CASE e # d
    BY <1>1, <1>4, <2>1 DEF Sound, Outcome, Pushed
  <2>2. CASE e = d
    <3>1. ~row'[d][g].deleted
      BY <2>2 DEF Live
    <3>2. CASE Newest(w, g) # {}
      BY <2>2, <3>1, <3>2, ApplyGood
    <3>3. CASE Newest(w, g) = {}
      <4>1. /\ row'[d][g] = row[d][g]
            /\ \A o \in Object : FileOf[o] = g => obj'[d][o] = obj[d][o]
        BY <3>1, <3>3, ApplyFile
      <4>2. Good(d, g)
        BY <2>2, <4>1 DEF Sound, Outcome, Pushed
      <4> QED
        BY <2>2, <3>1, <4>2, ApplyGood
    <3> QED
      BY <3>2, <3>3
  <2> QED
    BY <2>1, <2>2
<1> QED
  BY <1>6, <1>7, <1>8 DEF Outcome

LEMMA ApplySound ==
  ASSUME SyncInv, SyncInv', Sound, NEW d \in Device, DownApply(d), hazard' = {}
  PROVE  Sound'
<1> DEFINE w == down[d]
<1>1. /\ w.pc = "classified"
      /\ UNCHANGED <<remote, stream, cursor, up, upl>>
      /\ \A o \in Object : obj'[d][o] = Refreshed(w, obj[d][o], o)
      /\ \A o \in Object : applied'[d][o] = IF w.at[o] > 0 THEN w.at[o] ELSE applied[d][o]
      /\ \A e \in Device : e # d => /\ row'[e] = row[e] /\ obj'[e] = obj[e]
                                    /\ applied'[e] = applied[e] /\ down'[e] = down[e]
      /\ down'[d].pc = "applied" /\ down'[d].at = w.at /\ down'[d].meta = w.meta
      /\ down'[d].seen = w.seen /\ down'[d].held = w.held /\ down'[d].last = w.last
  BY ApplyMoves
<1>2. \A o \in Object : Event(w, o) /\ w.at[o] \in Nat /\ stream[o] \in Nat
  BY Types, DownTypes DEF Sound, Paged
<1>3. Numbered'
  <2>1. \A e \in Device, o \in Object : applied'[e][o] <= stream[o]
    BY <1>1, <1>2 DEF Sound, Numbered, Event
  <2> QED
    BY <1>1, <2>1 DEF Sound, Numbered
<1>4. Paged'
  <2>1. \A e \in Device, p \in Object : Event(down[e], p)'
    <3> SUFFICES ASSUME NEW e \in Device, NEW p \in Object PROVE Event(down[e], p)'
      OBVIOUS
    <3>1. Event(down[e], p)
      BY DEF Sound, Paged
    <3>2. /\ down'[e].at = down[e].at /\ down'[e].meta = down[e].meta
          /\ down'[e].last = down[e].last
          /\ down[e].pc # "idle" => down'[e].pc # "idle"
      BY <1>1
    <3> QED
      BY <1>1, <3>1, <3>2 DEF Event, Reached
  <2>2. \A e \in Device, p \in Object : down'[e].at[p] > 0 => cursor[e] < down'[e].at[p]
    BY <1>1 DEF Sound, Paged
  <2> QED
    BY <1>1, <2>1, <2>2 DEF Paged
<1>5. Classified'
  <2>1. \A g \in File : ~Deciding(d, g)'
    BY <1>1 DEF Deciding
  <2>2. \A e \in Device, g \in File : e # d => Deciding(e, g)' = Deciding(e, g)
    BY <1>1 DEF Deciding
  <2>3. \A e \in Device, g \in File : down'[e].seen[g].deleted => row'[e][g].deleted
    BY <1>1, ApplySpares DEF Sound, Classified
  <2>4. \A e \in Device, g \in File : Deciding(e, g)' => row'[e][g] = down'[e].seen[g]
    BY <1>1, <2>1, <2>2 DEF Sound, Classified
  <2>5. \A e \in Device, p \in Object :
          /\ down'[e].pc = "classified" /\ p \notin down'[e].held
          /\ down'[e].at[p] = stream[p] /\ down'[e].meta[p] = NoMeta
          => obj'[e][p] = "none"
    BY <1>1 DEF Sound, Classified
  <2> QED
    BY <1>1, <2>3, <2>4, <2>5 DEF Classified
<1>6. Known'
  <2>1. ASSUME NEW e \in Device, NEW p \in Object, obj'[e][p] # "none" PROVE stream[p] > 0
    <3>1. CASE obj[e][p] # "none"
      BY <3>1 DEF Sound, Known
    <3>2. CASE obj[e][p] = "none"
      <4>1. e = d
        BY <1>1, <2>1, <3>2
      <4>2. w.at[p] > 0
        BY <1>1, <2>1, <3>2, <4>1 DEF Refreshed, Upserts, Deletes
      <4> QED
        BY <1>2, <4>2 DEF Event
    <3> QED
      BY <3>1, <3>2
  <2> QED
    BY <1>1, <2>1 DEF Sound, Known
<1>7. Tasked'
  BY <1>1, ApplySpares, Unmoved, TaskStays DEF Tasked
<1> QED
  BY <1>3, <1>4, <1>5, <1>6, <1>7, ApplyOutcome DEF Sound

(***************************************************************************)
(* Every step keeps it, up to the first race.                              *)
(***************************************************************************)
SoundInv == SyncInv /\ (hazard = {} => Sound)

LEMMA HazardGrows == ASSUME [Next]_vars, hazard' = {} PROVE hazard = {}
<1>1. ASSUME NEW d \in Device, UserStep(d) PROVE hazard = {}
  BY <1>1, ZenonT(60) DEF UserStep, Rename, EditTags, Tombstone, Edit, ResetCursor, MarkAll
<1>2. ASSUME NEW d \in Device, DownStep(d) \/ DownStop(d) \/ UpBatch(d) \/ Crash(d)
      PROVE  hazard = {}
  BY <1>2, ZenonT(60) DEF DownStep, DownFetch, DownClassify, DownApply, DownSave, DownStop,
    UpBatch, Crash
<1>3. ASSUME NEW d \in Device, NEW o \in Object,
             UploadStep(d, o) \/ UpTask(d, o) \/ UpFail(d, o)
      PROVE  hazard = {}
  <2>1. CASE UploadStep(d, o)
    BY <2>1 DEF UploadStep, UploadRead, UploadPin, UploadSave
  <2>2. CASE UpTask(d, o) \/ UpFail(d, o)
    BY <2>2 DEF UpTask, UpDelete, UpDrop, UpGet, UpReadRecord, UpReadTags, UpSkip, UpPush,
                UpClear, UpFail
  <2> QED
    BY <1>3, <2>1, <2>2
<1>4. CASE Tick \/ UNCHANGED vars
  BY <1>4 DEF Tick, vars
<1> QED
  BY <1>1, <1>2, <1>3, <1>4 DEF Next

LEMMA StillSound ==
  ASSUME SyncInv, SyncInv', Sound,
         UNCHANGED <<remote, stream, row, obj, cursor, down, up, upl, applied>>
  PROVE  Sound'
<1>1. Numbered' /\ Outcome' /\ Paged' /\ Classified'
  BY OutcomeFrame, TicksFrame
<1>2. Known'
  BY DEF Sound, Known
<1>3. Tasked'
  BY Untouched, Unmoved, TaskStays DEF Tasked
<1> QED
  BY <1>1, <1>2, <1>3 DEF Sound

LEMMA SoundStep ==
  ASSUME SyncInv, SyncInv', Sound, [Next]_vars, hazard' = {}
  PROVE  Sound'
<1>1. CASE Tick \/ UNCHANGED vars
  BY <1>1, StillSound DEF Tick, vars, device
<1>2. ASSUME NEW d \in Device, UserStep(d) PROVE Sound'
  BY <1>2, UserSound
<1>3. ASSUME NEW d \in Device, DownStep(d) \/ DownStop(d) PROVE Sound'
  BY <1>3, FetchSound, ClassifySound, ApplySound, StopSound DEF DownStep
<1>4. ASSUME NEW d \in Device, UpBatch(d) PROVE Sound'
  BY <1>4, BatchSound
<1>5. ASSUME NEW d \in Device, Crash(d) PROVE Sound'
  BY <1>5, CrashSound
<1>6. ASSUME NEW d \in Device, NEW o \in Object,
             UploadStep(d, o) \/ UpTask(d, o) \/ UpFail(d, o)
      PROVE  Sound'
  BY <1>6, UploadSound, UpSound
<1> QED
  BY <1>1, <1>2, <1>3, <1>4, <1>5, <1>6 DEF Next

LEMMA SoundInit == ASSUME Init PROVE Sound
<1>1. /\ \A o \in Object : remote[o] = NoMeta /\ stream[o] = 0
      /\ \A d \in Device : down[d] = IdleDown
      /\ \A d \in Device, o \in Object :
           /\ obj[d][o] = "none" /\ up[d][o] = IdleUp /\ upl[d][o] = IdleUpload
           /\ applied[d][o] = 0
  BY DEF Init
<1>2. Numbered
  BY <1>1 DEF Numbered
<1>3. Paged
  BY <1>1 DEF Paged, Event, IdleDown
<1>4. Known
  BY <1>1 DEF Known, IdleUp, IdleUpload
<1>5. Tasked
  BY <1>1 DEF Tasked, Task, IdleUp
<1>6. Classified
  BY <1>1 DEF Classified, Deciding, IdleDown, NoRow
<1>7. Outcome
  BY <1>1 DEF Outcome, Kept, Gone, Pushed
<1> QED
  BY <1>2, <1>3, <1>4, <1>5, <1>6, <1>7 DEF Sound

LEMMA SoundInvInit == Init => SoundInv
BY SyncInvInit, SoundInit DEF SoundInv

LEMMA SoundInvStep == SoundInv /\ [Next]_vars => SoundInv'
BY SyncInvStep, HazardGrows, SoundStep DEF SoundInv

(***************************************************************************)
(* The theorems.                                                           *)
(***************************************************************************)
LEMMA SoundKeeps == SoundInv => ReadIsKept
<1> SUFFICES ASSUME SoundInv, hazard = {}, NEW d \in Device, NEW o \in Object,
                    applied[d][o] = stream[o], remote[o] # NoMeta, Live(row[d][FileOf[o]])
             PROVE  row[d][FileOf[o]].clock >= remote[o].clock
  BY DEF ReadIsKept
<1> QED
  BY DEF SoundInv, Sound, Outcome, Kept, Unread, RowOf, Live

LEMMA SoundPushes == SoundInv => CleanMeansPushed
<1> SUFFICES ASSUME SoundInv, hazard = {}, NEW d \in Device, NEW f \in File, Live(row[d][f]),
                    NEW p \in Object, FileOf[p] = f, obj[d][p] # "none",
                    \A o \in Object : FileOf[o] = f =>
                      obj[d][o] # "dirty" /\ applied[d][o] = stream[o]
             PROVE  \E o \in Object : FileOf[o] = f /\ remote[o] = MetaOf(row[d][f])
  BY DEF CleanMeansPushed
<1>1. Good(d, f)
  BY DEF SoundInv, Sound, Outcome, Pushed
<1> QED
  BY <1>1 DEF Good, Witness, Unread, RowOf

\* Whatever order pages, pushes, edits, deletes, crashes and cursor resets come in,
\* a device that read an object's last event holds at least the clock it carried: no
\* later page, and no other event of the same page, puts an older version back
\* (syncDownEvents.ts, newestPerFile and the updatedAt comparison of the upsert).
THEOREM ReadsAreKept == Spec => []ReadIsKept
<1> QED
  BY SoundKeeps, SoundInvInit, SoundInvStep, PTL DEF Spec

\* Once a device has read the last event of every object of a file and none of them is
\* flagged, one of them carries the row's metadata on the indexer: the flag of an edit
\* that was never sent is dropped by neither direction (clearObjectIfUnchanged in
\* syncUpMetadata.ts, needsSyncUp in the upsert of syncDownEvents.ts).
THEOREM FlagsGoWhenPushed == Spec => []CleanMeansPushed
<1> QED
  BY SoundPushes, SoundInvInit, SoundInvStep, PTL DEF Spec

(***************************************************************************)
(* Deletes.  A deleted file has a device that finishes the delete: each    *)
(* object the indexer still has is flagged there, or unknown there with    *)
(* its event unread, and no task of it can clear a flag.                   *)
(***************************************************************************)
Reading == {"record", "tags", "pushed"}

Grave(e, f) ==
  /\ row[e][f].deleted
  /\ \A o \in Object : FileOf[o] = f =>
       \/ remote[o] = NoMeta
       \/ obj[e][o] = "dirty"
       \/ Unread(e, o) /\ obj[e][o] = "none"
  /\ \A o \in Object : FileOf[o] = f /\ up[e][o].pc \in Reading =>
       up[e][o].local.clock < row[e][f].clock

Graves ==
  /\ \A d \in Device, f \in File : row[d][f].deleted => \E e \in Device : Grave(e, f)
  /\ \A o \in Object : remote[o] = NoMeta /\ stream[o] > 0 => \E d \in Device : RowOf(d, o).deleted

LEMMA GraveQuiet ==
  ASSUME NEW e \in Device, NEW f \in File, Grave(e, f),
         row'[e][f].deleted, row'[e][f].clock = row[e][f].clock,
         UNCHANGED <<remote, stream, applied>>,
         \A o \in Object : FileOf[o] = f =>
           obj'[e][o] = obj[e][o] \/ obj'[e][o] = "dirty" \/ remote[o] = NoMeta,
         \A o \in Object : FileOf[o] = f =>
           \/ up'[e][o].pc \notin Reading
           \/ up[e][o].pc \in Reading /\ up'[e][o].local.clock = up[e][o].local.clock
  PROVE  Grave(e, f)'
<1>1. \A o \in Object : FileOf[o] = f =>
       \/ remote[o] = NoMeta
       \/ obj'[e][o] = "dirty"
       \/ Unread(e, o)' /\ obj'[e][o] = "none"
  <2> SUFFICES ASSUME NEW o \in Object, FileOf[o] = f, remote[o] # NoMeta
               PROVE  obj'[e][o] = "dirty" \/ (Unread(e, o)' /\ obj'[e][o] = "none")
    OBVIOUS
  <2>1. obj[e][o] = "dirty" \/ (Unread(e, o) /\ obj[e][o] = "none")
    BY DEF Grave
  <2> QED
    BY <2>1 DEF Unread
<1>2. \A o \in Object : FileOf[o] = f /\ up'[e][o].pc \in Reading =>
        up'[e][o].local.clock < row'[e][f].clock
  BY DEF Grave
<1> QED
  BY <1>1, <1>2 DEF Grave

LEMMA GravePublish ==
  ASSUME SyncInv, SyncInv', Sound, NEW e \in Device, NEW f \in File, Grave(e, f),
         NEW o \in Object, NEW m \in Meta, Publish(o, m), Forward(o, m),
         UNCHANGED <<row, obj, applied>>,
         \A p \in Object :
           \/ up'[e][p].pc \notin Reading
           \/ up[e][p].pc \in Reading /\ up'[e][p].local.clock = up[e][p].local.clock
  PROVE  Grave(e, f)'
<1>1. /\ stream'[o] = head + 1 /\ remote'[o] = m
      /\ \A p \in Object : p # o => stream'[p] = stream[p] /\ remote'[p] = remote[p]
      /\ \A p \in Object : stream[p] <= head
      /\ stream[o] > 0 /\ remote[o] = NoMeta => remote'[o] = NoMeta
  BY PublishMoves
<1>2. applied[e][o] <= stream[o] /\ applied[e][o] \in Nat /\ stream[o] \in Nat /\ head \in Nat
  BY Types DEF Sound, Numbered
<1>3. Unread(e, o)'
  BY <1>1, <1>2 DEF Unread
<1>4. \A p \in Object : FileOf[p] = f =>
       \/ remote'[p] = NoMeta
       \/ obj[e][p] = "dirty"
       \/ Unread(e, p)' /\ obj[e][p] = "none"
  <2> SUFFICES ASSUME NEW p \in Object, FileOf[p] = f, remote'[p] # NoMeta
               PROVE  obj[e][p] = "dirty" \/ (Unread(e, p)' /\ obj[e][p] = "none")
    OBVIOUS
  <2>1. CASE p # o
    BY <1>1, <2>1 DEF Grave, Unread
  <2>2. CASE p = o
    <3>1. CASE remote[o] = NoMeta
      <4>1. obj[e][o] = "none"
        BY <1>1, <1>2, <2>2, <3>1 DEF Sound, Known
      <4> QED
        BY <1>3, <2>2, <4>1
    <3>2. CASE remote[o] # NoMeta
      BY <1>3, <2>2, <3>2 DEF Grave
    <3> QED
      BY <3>1, <3>2
  <2> QED
    BY <2>1, <2>2
<1>5. \A p \in Object : FileOf[p] = f /\ up'[e][p].pc \in Reading =>
        up'[e][p].local.clock < row[e][f].clock
  BY DEF Grave
<1> QED
  BY <1>4, <1>5 DEF Grave

LEMMA GraveUp ==
  ASSUME SyncInv, SyncInv', Sound, hazard' = {}, NEW e \in Device, NEW f \in File, Grave(e, f),
         NEW d \in Device, NEW o \in Object, UpTask(d, o) \/ UpFail(d, o)
  PROVE  Grave(e, f)'
<1>0. row[e][f].deleted
  BY DEF Grave
<1>1. ASSUME UpEnd(d, o), UNCHANGED <<row, remote, stream, applied>>,
             \A p \in Object : FileOf[p] = f => obj'[e][p] = obj[e][p] \/ remote[p] = NoMeta
      PROVE  Grave(e, f)'
  <2>1. \A p \in Object : up'[e][p].pc = "idle" \/ up'[e][p] = up[e][p]
    BY <1>1, End
  <2> QED
    BY <1>0, <1>1, <2>1, GraveQuiet DEF Reading
<1>2. ASSUME NEW pc, UpGoto(d, o, pc), pc \in Reading => up[d][o].pc \in Reading
      PROVE  \A p \in Object :
               \/ up'[e][p].pc \notin Reading
               \/ up[e][p].pc \in Reading /\ up'[e][p].local.clock = up[e][p].local.clock
  BY <1>2, Goto
<1>3. CASE UpDelete(d, o)
  <2>1. /\ UpGoto(d, o, "deleted") /\ UNCHANGED <<row, obj, applied>>
    BY <1>3 DEF UpDelete, device
  <2>2. CASE Publish(o, NoMeta)
    <3>1. Forward(o, NoMeta)
      BY DEF Forward
    <3> QED
      BY <1>2, <2>1, <2>2, <3>1, EmptyTypes, GravePublish DEF Reading
  <2>3. CASE UNCHANGED <<remote, stream, head>>
    BY <1>0, <1>2, <2>1, <2>3, GraveQuiet DEF Reading
  <2> QED
    BY <1>3, <2>2, <2>3 DEF UpDelete
<1>4. CASE UpDrop(d, o)
  <2>1. /\ UpEnd(d, o) /\ UNCHANGED <<row, remote, stream, applied>>
        /\ obj' = [obj EXCEPT ![d][o] = "none"] /\ remote[o] = NoMeta
    BY <1>4 DEF UpDrop, Sound, Tasked, Task
  <2>2. \A p \in Object : obj'[e][p] = obj[e][p] \/ remote[p] = NoMeta
    BY <2>1, Types
  <2> QED
    BY <1>1, <2>1, <2>2
<1>5. CASE UpGet(d, o)
  <2>1. UNCHANGED <<row, obj, remote, stream, applied>>
    BY <1>5 DEF UpGet, device
  <2>2. \A p \in Object : up'[e][p].pc = "got" \/ up'[e][p] = up[e][p]
    BY <1>5, Types DEF UpGet, Up
  <2> QED
    BY <1>0, <2>1, <2>2, GraveQuiet DEF Reading
<1>6. CASE UpReadRecord(d, o)
  <2>1. UNCHANGED <<row, obj, remote, stream, applied>>
    BY <1>6 DEF UpReadRecord, device
  <2>2. CASE e = d /\ FileOf[o] = f
    <3>1. UpEnd(d, o)
      BY <1>0, <1>6, <2>2 DEF UpReadRecord, Live
    <3> QED
      BY <1>1, <2>1, <3>1
  <2>3. CASE ~(e = d /\ FileOf[o] = f)
    <3>1. \A p \in Object : FileOf[p] = f => up'[e][p] = up[e][p]
      <4>1. ASSUME UpEnd(d, o) PROVE \A p \in Object : FileOf[p] = f => up'[e][p] = up[e][p]
        BY <2>3, <4>1, End
      <4>2. ASSUME NEW m, up' = [up EXCEPT ![d][o].pc = "record", ![d][o].local = m]
            PROVE  \A p \in Object : FileOf[p] = f => up'[e][p] = up[e][p]
        BY <2>3, <4>2, Types
      <4> QED
        BY <1>6, <4>1, <4>2 DEF UpReadRecord
    <3> QED
      BY <1>0, <2>1, <3>1, GraveQuiet
  <2> QED
    BY <2>2, <2>3
<1>7. CASE UpReadTags(d, o)
  <2>1. UNCHANGED <<row, obj, remote, stream, applied>> /\ up[d][o].pc = "record"
    BY <1>7 DEF UpReadTags, device
  <2>2. /\ \A p \in Object : e # d \/ p # o => up'[e][p] = up[e][p]
        /\ up'[d][o].local.clock = up[d][o].local.clock
    <3>1. ASSUME NEW g, up' = [up EXCEPT ![d][o].pc = "tags", ![d][o].local.tags = g]
          PROVE  /\ \A p \in Object : e # d \/ p # o => up'[e][p] = up[e][p]
                 /\ up'[d][o].local.clock = up[d][o].local.clock
      BY <3>1, Types DEF Up, Meta
    <3> QED
      BY <1>7, <3>1 DEF UpReadTags
  <2>3. \A p \in Object :
           \/ up'[e][p].pc \notin Reading
           \/ up[e][p].pc \in Reading /\ up'[e][p].local.clock = up[e][p].local.clock
    BY <2>1, <2>2 DEF Reading
  <2> QED
    BY <1>0, <2>1, <2>3, GraveQuiet
<1>8. CASE UpSkip(d, o) \/ UpClear(d, o)
  <2>1. /\ up[d][o].pc \in Reading /\ UpEnd(d, o) /\ CasClear(d, o)
        /\ UNCHANGED <<remote, stream, row, applied>>
    BY <1>8 DEF UpSkip, UpClear, Reading
  <2>2. obj' = [obj EXCEPT ![d][o] =
                  IF obj[d][o] = "dirty" /\ row[d][FileOf[o]].clock = up[d][o].local.clock
                  THEN "clean" ELSE obj[d][o]]
    BY <2>1 DEF CasClear
  <2>3. e = d /\ FileOf[o] = f => row[d][FileOf[o]].clock # up[d][o].local.clock
    BY <2>1, RowTypes, TaskTypes DEF Grave
  <2>4. \A p \in Object : FileOf[p] = f => obj'[e][p] = obj[e][p]
    BY <2>2, <2>3, Types
  <2> QED
    BY <1>1, <2>1, <2>4
<1>9. CASE UpPush(d, o)
  <2> DEFINE t == up[d][o]
             m == t.local
  <2>1. /\ t.pc = "tags" /\ MustPush(t) /\ Publish(o, m) /\ UpGoto(d, o, "pushed")
        /\ remote[o] = t.got /\ UNCHANGED <<row, obj, applied>>
    BY <1>9 DEF UpPush, device
  <2>2. stream[o] > 0 /\ t.got # NoMeta /\ m.clock > 0
    BY <2>1 DEF Sound, Known, Tasked, Task
  <2>3. m \in Meta /\ Forward(o, m)
    BY <2>1, <2>2, TaskTypes DEF Forward, MustPush
  <2>4. \A p \in Object :
           \/ up'[e][p].pc \notin Reading
           \/ up[e][p].pc \in Reading /\ up'[e][p].local.clock = up[e][p].local.clock
    BY <1>2, <2>1 DEF Reading
  <2> HIDE DEF m
  <2> QED
    BY <2>1, <2>3, <2>4, GravePublish
<1>10. CASE UpFail(d, o)
  BY <1>1, <1>10 DEF UpFail, device
<1> QED
  BY <1>3, <1>4, <1>5, <1>6, <1>7, <1>8, <1>9, <1>10 DEF UpTask

LEMMA GraveUpload ==
  ASSUME SyncInv, SyncInv', Sound, hazard' = {}, NEW e \in Device, NEW f \in File, Grave(e, f),
         NEW d \in Device, NEW o \in Object, UploadStep(d, o)
  PROVE  Grave(e, f)'
<1>0. row[e][f].deleted
  BY DEF Grave
<1>1. CASE UploadRead(d, o)
  BY <1>0, <1>1, GraveQuiet DEF UploadRead, device
<1>2. CASE UploadPin(d, o)
  <2> DEFINE m == upl[d][o].meta
  <2>1. /\ Publish(o, m) /\ UNCHANGED <<row, obj, applied, up>>
        /\ upl[d][o].pc = "read"
    BY <1>2 DEF UploadPin, device
  <2>2. m \in Meta /\ Forward(o, m)
    BY <2>1, TaskTypes DEF Sound, Known, Forward
  <2> HIDE DEF m
  <2> QED
    BY <2>1, <2>2, GravePublish
<1>3. CASE UploadSave(d, o)
  <2>1. /\ UNCHANGED <<row, remote, stream, applied, up>>
        /\ obj' = [obj EXCEPT ![d][o] = "dirty"]
    BY <1>3 DEF UploadSave
  <2>2. \A p \in Object : obj'[e][p] = obj[e][p] \/ obj'[e][p] = "dirty"
    BY <2>1, Types
  <2> QED
    BY <1>0, <2>1, <2>2, GraveQuiet
<1> QED
  BY <1>1, <1>2, <1>3 DEF UploadStep

LEMMA GraveApply ==
  ASSUME SyncInv, SyncInv', Sound, hazard' = {}, NEW e \in Device, NEW f \in File, Grave(e, f),
         NEW d \in Device, DownApply(d)
  PROVE  Grave(e, f)'
<1>0. row[e][f].deleted
  BY DEF Grave
<1>1. CASE e # d
  <2>1. /\ UNCHANGED <<remote, stream, up>>
        /\ row'[e] = row[e] /\ obj'[e] = obj[e] /\ applied'[e] = applied[e]
    BY <1>1, ApplyMoves
  <2> QED
    BY <2>1 DEF Grave, Unread
<1>2. CASE e = d
  <2> DEFINE w == down[d]
             r == row[d][f]
             m == Merged(w, r, f)
  <2>1. /\ w.pc = "classified" /\ ~AdoptsClean(d, w)
        /\ UNCHANGED <<remote, stream, up>>
        /\ row'[d][f] = Buried(w, m, f, Date(d))
        /\ \A p \in Object : obj'[d][p] = Refreshed(w, obj[d][p], p)
        /\ \A p \in Object : applied'[d][p] = IF w.at[p] > 0 THEN w.at[p] ELSE applied[d][p]
    BY ApplyMoves
  <2>2. r \in Row /\ m \in Row /\ w \in Down
    BY Types, MergedType
  <2>3. \A p \in Upserts(w) : FileOf[p] = f => w.seen[f].deleted
    <3>1. \A p \in Upserts(w) : FileOf[p] = f => Deciding(d, f)
      BY <2>1 DEF Deciding, Upserts
    <3> QED
      BY <1>0, <1>2, <3>1 DEF Sound, Classified
  <2>4. m.clock = r.clock /\ m.deleted
    <3>1. CASE Newest(w, f) = {}
      BY <1>0, <1>2, <3>1 DEF Merged
    <3>2. CASE Newest(w, f) # {}
      <4>1. w.seen[f].deleted
        BY <2>3, <3>2 DEF Newest
      <4> DEFINE x == w.meta[CHOOSE o \in Newest(w, f) : TRUE].tags
      <4>2. m = [r EXCEPT !.tags = x]
        BY <3>2, <4>1 DEF Merged
      <4> HIDE DEF x, m
      <4> QED
        BY <1>0, <1>2, <2>2, <4>2 DEF Row
    <3> QED
      BY <3>1, <3>2
  <2>5. row'[d][f].clock = r.clock /\ row'[d][f].deleted
    <3> HIDE DEF m
    <3> QED
      BY <2>1, <2>4 DEF Buried
  <2>6. ASSUME NEW p \in Object, FileOf[p] = f, remote[p] # NoMeta
        PROVE  obj'[d][p] = "dirty" \/ (Unread(d, p)' /\ obj'[d][p] = "none")
    <3>0. Event(w, p) /\ w.at[p] \in Nat
      BY DownTypes DEF Sound, Paged
    <3>1. p \notin Deletes(w)
      BY <2>6, <3>0 DEF Deletes, Event
    <3>2. CASE obj[d][p] = "dirty"
      <4>1. obj'[d][p] = "dirty"
        BY <2>1, <2>3, <2>6, <3>1, <3>2 DEF Refreshed
      <4> QED
        BY <4>1
    <3>3. CASE Unread(d, p) /\ obj[d][p] = "none"
      <4>1. p \notin Upserts(w)
        BY <2>1, <2>3, <2>6, <3>3 DEF AdoptsClean
      <4>2. w.at[p] = 0
        BY <2>6, <3>0, <4>1 DEF Upserts, Event
      <4> QED
        BY <2>1, <3>1, <3>3, <4>1, <4>2 DEF Refreshed, Unread
    <3> QED
      BY <1>2, <2>6, <3>2, <3>3 DEF Grave
  <2>7. \A p \in Object : FileOf[p] = f /\ up[d][p].pc \in Reading =>
          up[d][p].local.clock < row'[d][f].clock
    BY <1>2, <2>5 DEF Grave
  <2> HIDE DEF m
  <2> QED
    BY <1>2, <2>1, <2>5, <2>6, <2>7 DEF Grave
<1> QED
  BY <1>1, <1>2

LEMMA GraveStays ==
  ASSUME SyncInv, SyncInv', Sound, hazard' = {}, [Next]_vars,
         NEW e \in Device, NEW f \in File, Grave(e, f)
  PROVE  Grave(e, f)'
<1>0. row[e][f].deleted
  BY DEF Grave
<1>1. ASSUME UNCHANGED <<row, obj, remote, stream, applied, up>> PROVE Grave(e, f)'
  BY <1>0, <1>1, GraveQuiet
<1>2. CASE Tick \/ UNCHANGED vars
  BY <1>1, <1>2 DEF Tick, vars, device
<1>3. ASSUME NEW d \in Device, UserStep(d) PROVE Grave(e, f)'
  <2>1. ASSUME NEW g \in File, NEW r, NEW races, Edit(d, g, r, races) PROVE Grave(e, f)'
    <3>1. /\ Live(row[d][g]) /\ row' = [row EXCEPT ![d][g] = r]
          /\ obj' = [obj EXCEPT ![d] = Flagged(d, g)]
          /\ UNCHANGED <<remote, stream, up, applied>>
      BY <2>1 DEF Edit
    <3>2. row'[e][f] = row[e][f]
      BY <1>0, <3>1, Types DEF Live
    <3>3. \A p \in Object : obj'[e][p] = obj[e][p] \/ obj'[e][p] = "dirty"
      BY <3>1, Types DEF Flagged
    <3> QED
      BY <1>0, <3>1, <3>2, <3>3, GraveQuiet
  <2>2. CASE ResetCursor(d)
    BY <1>1, <2>2 DEF ResetCursor
  <2>3. CASE MarkAll(d)
    <3>1. /\ UNCHANGED <<row, remote, stream, applied, up>>
          /\ obj' = [obj EXCEPT ![d] = [o \in Object |->
                       IF obj[d][o] = "none" THEN "none" ELSE "dirty"]]
      BY <2>3 DEF MarkAll
    <3>2. \A p \in Object : obj'[e][p] = obj[e][p] \/ obj'[e][p] = "dirty"
      BY <3>1, Types
    <3> QED
      BY <1>0, <3>1, <3>2, GraveQuiet
  <2> QED
    BY <1>3, <2>1, <2>2, <2>3, ZenonT(60) DEF UserStep, Rename, EditTags, Tombstone
<1>4. ASSUME NEW d \in Device, DownStep(d) \/ DownStop(d) PROVE Grave(e, f)'
  BY <1>1, <1>4, GraveApply, ZenonT(60) DEF DownStep, DownFetch, DownClassify, DownSave,
    DownStop, device
<1>5. ASSUME NEW d \in Device, UpBatch(d) \/ Crash(d) PROVE Grave(e, f)'
  <2>1. UNCHANGED <<row, obj, remote, stream, applied>>
    BY <1>5, ZenonT(60) DEF UpBatch, Crash, device
  <2>2. \A p \in Object : up'[e][p] = up[e][p] \/ up'[e][p].pc \notin Reading
    <3>1. CASE Crash(d)
      BY <3>1, Types DEF Crash, IdleUp, Reading
    <3>2. CASE UpBatch(d)
      <4>1. \A p \in Object :
              [IdleUp EXCEPT !.pc = "queued", !.tomb = row[d][FileOf[p]].deleted].pc = "queued"
        BY DEF IdleUp
      <4>2. IdleUp.pc = "idle"
        BY DEF IdleUp
      <4> QED
        BY <3>2, <4>1, <4>2, Types, ZenonT(60) DEF UpBatch, Reading
    <3> QED
      BY <1>5, <3>1, <3>2
  <2> QED
    BY <1>0, <2>1, <2>2, GraveQuiet
<1>6. ASSUME NEW d \in Device, NEW o \in Object,
             UploadStep(d, o) \/ UpTask(d, o) \/ UpFail(d, o)
      PROVE  Grave(e, f)'
  BY <1>6, GraveUpload, GraveUp
<1> QED
  BY <1>2, <1>3, <1>4, <1>5, <1>6 DEF Next

\* A tombstone is a grave of its own.
LEMMA TombstoneDigs ==
  ASSUME SyncInv, SyncInv', Sound, hazard' = {}, NEW d \in Device, NEW f \in File, Tombstone(d, f)
  PROVE  Grave(d, f)'
<1> DEFINE r == [row[d][f] EXCEPT !.clock = Date(d), !.deleted = TRUE]
<1>1. /\ Live(row[d][f]) /\ row' = [row EXCEPT ![d][f] = r]
      /\ obj' = [obj EXCEPT ![d] = Flagged(d, f)] /\ Stamp(d, f) = {}
      /\ UNCHANGED <<remote, stream, up, applied>>
  BY DEF Tombstone, Edit
<1>2. /\ row[d][f] \in Row /\ row[d][f].clock \in Nat /\ Date(d) \in Nat
      /\ r.clock = Date(d) /\ r.deleted
  BY Types, DateType DEF SyncInv, Row
<1>3. Date(d) > row[d][f].clock
  BY <1>1, <1>2 DEF Stamp
<1> HIDE DEF r
<1>4. row'[d][f] = r
  BY <1>1, Types
<1>5. \A p \in Object : FileOf[p] = f =>
        obj'[d][p] = IF obj[d][p] # "none" THEN "dirty" ELSE "none"
  BY <1>1, Types DEF Flagged
<1>6. \A p \in Object : FileOf[p] = f =>
       \/ remote[p] = NoMeta
       \/ obj'[d][p] = "dirty"
       \/ Unread(d, p)' /\ obj'[d][p] = "none"
  <2> SUFFICES ASSUME NEW p \in Object, FileOf[p] = f, remote[p] # NoMeta, obj'[d][p] # "dirty"
               PROVE  Unread(d, p)' /\ obj'[d][p] = "none"
    OBVIOUS
  <2>1. obj[d][p] = "none" /\ obj'[d][p] = "none"
    BY <1>5
  <2>2. Unread(d, p)
    BY <1>1, <2>1 DEF Sound, Outcome, Kept, Live, RowOf
  <2> QED
    BY <1>1, <2>1, <2>2 DEF Unread
<1>7. \A p \in Object : FileOf[p] = f /\ up[d][p].pc \in Reading =>
        up[d][p].local.clock < row'[d][f].clock
  <2> SUFFICES ASSUME NEW p \in Object, FileOf[p] = f, up[d][p].pc \in Reading
               PROVE  up[d][p].local.clock < row'[d][f].clock
    OBVIOUS
  <2>1. up[d][p].local.clock <= row[d][f].clock
    BY <1>1 DEF Sound, Tasked, Task, RowOf, Live, Reading
  <2> QED
    BY <1>2, <1>3, <1>4, <2>1, TaskTypes
<1> QED
  BY <1>1, <1>2, <1>4, <1>6, <1>7 DEF Grave

\* Where a row turns into a tombstone.
LEMMA Digs ==
  ASSUME SyncInv, SyncInv', Sound, hazard' = {}, [Next]_vars, Graves,
         NEW d \in Device, NEW f \in File, row'[d][f].deleted
  PROVE  \E e \in Device : Grave(e, f)'
<1>1. CASE row[d][f].deleted
  BY <1>1, GraveStays DEF Graves
<1>2. ASSUME ~row[d][f].deleted, NEW c \in Device, Tombstone(c, f) PROVE Grave(c, f)'
  BY <1>2, TombstoneDigs
<1>3. ASSUME ~row[d][f].deleted, NEW c \in Device, DownApply(c) PROVE \E e \in Device : Grave(e, f)'
  <2>1. c = d
    BY <1>3, ApplyMoves
  <2> DEFINE w == down[d]
             r == row[d][f]
             m == Merged(w, r, f)
  <2>2. row'[d][f] = Buried(w, m, f, Date(d)) /\ ~m.deleted
    <3>1. r \in Row
      BY Types
    <3>2. ~m.deleted
      BY <1>3, <3>1 DEF Merged, Row
    <3> QED
      BY <1>3, <2>1, <3>2, ApplyMoves
  <2>3. PICK o \in Deletes(w) : FileOf[o] = f
    <3> HIDE DEF m
    <3> QED
      BY <2>2 DEF Buried
  <2>4. o \in Object /\ w.at[o] > 0 /\ w.meta[o] = NoMeta
    BY <2>3, DownTypes DEF Deletes
  <2>5. remote[o] = NoMeta /\ stream[o] > 0
    <3>1. Event(w, o) /\ w.at[o] \in Nat /\ stream[o] \in Nat
      BY <2>4, Types, DownTypes DEF Sound, Paged
    <3> QED
      BY <2>4, <3>1 DEF Event
  <2>6. \E c2 \in Device : row[c2][f].deleted
    BY <2>3, <2>4, <2>5 DEF Graves, RowOf
  <2> QED
    BY <2>6, GraveStays DEF Graves
<1>4. ASSUME ~row[d][f].deleted
      PROVE  \/ \E c \in Device : Tombstone(c, f)
             \/ \E c \in Device : DownApply(c)
  <2>1. ASSUME row'[d][f] = row[d][f] PROVE FALSE
    BY <1>4, <2>1
  <2>2. ASSUME UNCHANGED row PROVE FALSE
    BY <2>1, <2>2
  <2>3. ASSUME NEW c \in Device, UserStep(c) PROVE Tombstone(c, f)
    <3>1. ASSUME NEW g \in File, NEW r, NEW races, Edit(c, g, r, races), ~r.deleted PROVE FALSE
      <4>1. row' = [row EXCEPT ![c][g] = r]
        BY <3>1 DEF Edit
      <4>2. row'[d][f] = row[d][f] \/ row'[d][f] = r
        BY <4>1, Types
      <4> QED
        BY <1>4, <3>1, <4>2
    <3>2. ASSUME NEW g \in File, Tombstone(c, g), g # f PROVE FALSE
      <4>1. row' = [row EXCEPT ![c][g] = [row[c][g] EXCEPT !.clock = Date(c), !.deleted = TRUE]]
        BY <3>2 DEF Tombstone, Edit
      <4> QED
        BY <2>1, <3>2, <4>1, Types
    <3>3. ASSUME NEW g \in File, Rename(c, g) PROVE FALSE
      <4> DEFINE stamp == IF Date(c) >= row[c][g].clock + 1 THEN Date(c) ELSE row[c][g].clock + 1
                 r == [row[c][g] EXCEPT !.clock = stamp, !.name = edits + 1]
      <4>1. Edit(c, g, r, {})
        BY <3>3 DEF Rename
      <4>2. row[c][g] \in Row /\ ~row[c][g].deleted
        BY <4>1, Types DEF Edit, Live
      <4> HIDE DEF stamp
      <4>3. ~r.deleted
        BY <4>2 DEF Row
      <4> HIDE DEF r
      <4> QED
        BY <3>1, <4>1, <4>3
    <3>4. ASSUME NEW g \in File, EditTags(c, g) PROVE FALSE
      <4> DEFINE r == [row[c][g] EXCEPT !.clock = Date(c), !.tags = edits + 1]
      <4>1. Edit(c, g, r, Stamp(c, g))
        BY <3>4 DEF EditTags
      <4>2. row[c][g] \in Row /\ ~row[c][g].deleted
        BY <4>1, Types DEF Edit, Live
      <4>3. ~r.deleted
        BY <4>2 DEF Row
      <4> HIDE DEF r
      <4> QED
        BY <3>1, <4>1, <4>3
    <3>5. ~ResetCursor(c) /\ ~MarkAll(c)
      BY <2>2 DEF ResetCursor, MarkAll
    <3> QED
      BY <2>3, <3>2, <3>3, <3>4, <3>5 DEF UserStep
  <2>4. ASSUME NEW c \in Device, DownStep(c) \/ DownStop(c) \/ UpBatch(c) \/ Crash(c)
        PROVE  DownApply(c)
    BY <2>2, <2>4, ZenonT(60) DEF DownStep, DownFetch, DownClassify, DownSave, DownStop,
      UpBatch, Crash, device
  <2>5. ASSUME NEW c \in Device, NEW o \in Object,
               UploadStep(c, o) \/ UpTask(c, o) \/ UpFail(c, o)
        PROVE  FALSE
    <3>1. ~UploadStep(c, o)
      BY <2>2 DEF UploadStep, UploadRead, UploadPin, UploadSave, device
    <3>2. ~UpTask(c, o) /\ ~UpFail(c, o)
      BY <2>2 DEF UpTask, UpDelete, UpDrop, UpGet, UpReadRecord, UpReadTags, UpSkip,
                  UpPush, UpClear, UpFail, device
    <3> QED
      BY <2>5, <3>1, <3>2
  <2>6. ~Tick /\ ~UNCHANGED vars
    BY <2>2 DEF Tick, vars, device
  <2> QED
    BY <2>3, <2>4, <2>5, <2>6 DEF Next
<1> QED
  BY <1>1, <1>2, <1>3, <1>4

LEMMA DeletesHaveRows ==
  ASSUME SyncInv, SyncInv', Sound, hazard' = {}, [Next]_vars, Graves,
         NEW o \in Object, remote'[o] = NoMeta, stream'[o] > 0
  PROVE  \E d \in Device : RowOf(d, o)'.deleted
<1>1. ASSUME NEW d \in Device, RowOf(d, o).deleted PROVE RowOf(d, o)'.deleted
  BY <1>1, StepSparesTombstones, SetsAssumption DEF StaysBuried, RowOf, SyncInv
<1>2. ASSUME remote[o] = NoMeta, stream[o] > 0 PROVE \E d \in Device : RowOf(d, o)'.deleted
  BY <1>1, <1>2 DEF Graves
<1>3. ASSUME UNCHANGED <<remote, stream>> PROVE \E d \in Device : RowOf(d, o)'.deleted
  BY <1>2, <1>3
<1>4. ASSUME NEW p \in Object, NEW m, Publish(p, m), m # NoMeta
      PROVE  \E d \in Device : RowOf(d, o)'.deleted
  <2>1. remote'[p] = m /\ \A q \in Object : q # p => remote'[q] = remote[q] /\ stream'[q] = stream[q]
    BY <1>4, Types DEF Publish
  <2> QED
    BY <1>2, <1>4, <2>1
<1>5. CASE Tick \/ UNCHANGED vars
  BY <1>3, <1>5 DEF Tick, vars
<1>6. ASSUME NEW d \in Device,
             UserStep(d) \/ DownStep(d) \/ DownStop(d) \/ UpBatch(d) \/ Crash(d)
      PROVE  \E e \in Device : RowOf(e, o)'.deleted
  <2>1. CASE UserStep(d)
    BY <1>3, <2>1, ZenonT(60) DEF UserStep, Rename, EditTags, Tombstone, Edit, ResetCursor, MarkAll
  <2>2. CASE DownStep(d) \/ DownStop(d) \/ UpBatch(d) \/ Crash(d)
    BY <1>3, <2>2, ZenonT(60) DEF DownStep, DownFetch, DownClassify, DownApply, DownSave,
      DownStop, UpBatch,
                      Crash
  <2> QED
    BY <1>6, <2>1, <2>2
<1>7. ASSUME NEW d \in Device, NEW p \in Object, UploadStep(d, p)
      PROVE  \E e \in Device : RowOf(e, o)'.deleted
  <2>1. CASE UploadPin(d, p)
    <3>1. Publish(p, upl[d][p].meta) /\ upl[d][p].meta.clock > 0
      BY <2>1 DEF UploadPin, Sound, Known
    <3>2. upl[d][p].meta # NoMeta
      BY <3>1 DEF NoMeta
    <3> QED
      BY <1>4, <3>1, <3>2
  <2>2. CASE UploadRead(d, p) \/ UploadSave(d, p)
    BY <1>3, <2>2 DEF UploadRead, UploadSave
  <2> QED
    BY <1>7, <2>1, <2>2 DEF UploadStep
<1>8. ASSUME NEW d \in Device, NEW p \in Object, UpTask(d, p) \/ UpFail(d, p)
      PROVE  \E e \in Device : RowOf(e, o)'.deleted
  <2>1. CASE UpDelete(d, p)
    <3>1. CASE UNCHANGED <<remote, stream, head>>
      BY <1>3, <3>1
    <3>2. CASE Publish(p, NoMeta)
      <4>1. RowOf(d, p).deleted
        BY <2>1 DEF UpDelete, Sound, Tasked, Task
      <4>2. CASE p = o
        BY <1>1, <4>1, <4>2
      <4>3. CASE p # o
        BY <1>2, <3>2, <4>3, Types DEF Publish
      <4> QED
        BY <4>2, <4>3
    <3> QED
      BY <2>1, <3>1, <3>2 DEF UpDelete
  <2>2. CASE UpPush(d, p)
    <3>1. Publish(p, up[d][p].local) /\ up[d][p].local.clock > 0
      BY <2>2 DEF UpPush, Sound, Tasked, Task
    <3>2. up[d][p].local # NoMeta
      BY <3>1 DEF NoMeta
    <3> QED
      BY <1>4, <3>1, <3>2
  <2>3. CASE UpDrop(d, p) \/ UpGet(d, p) \/ UpReadRecord(d, p) \/ UpReadTags(d, p)
             \/ UpSkip(d, p) \/ UpClear(d, p) \/ UpFail(d, p)
    BY <1>3, <2>3 DEF UpDrop, UpGet, UpReadRecord, UpReadTags, UpSkip, UpClear, UpFail
  <2> QED
    BY <1>8, <2>1, <2>2, <2>3 DEF UpTask
<1> QED
  BY <1>5, <1>6, <1>7, <1>8 DEF Next

LEMMA GravesStep ==
  ASSUME SyncInv, SyncInv', Sound, hazard' = {}, [Next]_vars, Graves
  PROVE  Graves'
<1>1. \A d \in Device, f \in File : row'[d][f].deleted => \E e \in Device : Grave(e, f)'
  BY Digs
<1>2. \A o \in Object : remote'[o] = NoMeta /\ stream'[o] > 0 =>
        \E d \in Device : RowOf(d, o)'.deleted
  BY DeletesHaveRows
<1> QED
  BY <1>1, <1>2 DEF Graves

LEMMA GravesInit == ASSUME Init PROVE Graves
<1>1. \A d \in Device, f \in File : ~row[d][f].deleted
  <2>1. \A d \in Device : ~[NoRow EXCEPT !.clock = 1 + Skew[d]].deleted
    BY DEF NoRow
  <2> QED
    BY <2>1 DEF Init, NoRow
<1>2. \A o \in Object : stream[o] = 0
  BY DEF Init
<1> QED
  BY <1>1, <1>2 DEF Graves

DeleteInv == SoundInv /\ (hazard = {} => Graves)

LEMMA DeleteInvInit == Init => DeleteInv
BY SoundInvInit, GravesInit DEF DeleteInv

LEMMA DeleteInvStep == DeleteInv /\ [Next]_vars => DeleteInv'
<1> SUFFICES ASSUME DeleteInv, [Next]_vars PROVE DeleteInv'
  OBVIOUS
<1>1. SoundInv'
  BY SoundInvStep DEF DeleteInv
<1>2. ASSUME hazard' = {} PROVE Graves'
  BY <1>1, <1>2, HazardGrows, GravesStep DEF DeleteInv, SoundInv
<1> QED
  BY <1>1, <1>2 DEF DeleteInv

\* What a device at rest has read.
LEMMA Rested ==
  ASSUME SyncInv, NEW d \in Device, Settled(d), NEW o \in Object, stream[o] > 0
  PROVE  /\ stream[o] <= cursor[d] /\ ~Unread(d, o)
         /\ obj[d][o] # "dirty" /\ up[d][o].pc = "idle" /\ down[d].pc = "idle"
BY DEF Settled, Idle, SyncInv, CursorInv, NoSkippedEvent, Unread

LEMMA DeletesAreSent == DeleteInv => StaysDeleted
<1> SUFFICES ASSUME DeleteInv, hazard = {}, Quiescent, NEW d \in Device, NEW o \in Object,
                    row[d][FileOf[o]].deleted, remote[o] # NoMeta
             PROVE  FALSE
  BY DEF StaysDeleted
<1>1. FileOf[o] \in File
  BY SetsAssumption
<1>2. PICK e \in Device : Grave(e, FileOf[o])
  BY <1>1 DEF DeleteInv, Graves
<1>3. SyncInv /\ stream[o] > 0 /\ Settled(e)
  BY DEF DeleteInv, SoundInv, Sound, Numbered, Quiescent
<1> QED
  BY <1>2, <1>3, Rested DEF Grave

\* A file that any device tombstoned, by hand or because it read a delete, has no
\* object left on the indexer once the devices are at rest: no page, push or upload
\* that crossed the delete leaves one it could come back from (the tombstone branch
\* of syncUpMetadata.ts and the deletes of syncDownEvents.ts).
THEOREM DeletesAreFinished == Spec => []StaysDeleted
<1> QED
  BY DeletesAreSent, DeleteInvInit, DeleteInvStep, PTL DEF Spec

(***************************************************************************)
(* Agreement.  Objects of a file may carry the same clock with different   *)
(* metadata; the later event wins.  Among the objects whose event a device *)
(* is past and whose clock is the row's, or above them, is one whose       *)
(* metadata the row has, or which the device will read again.              *)
(***************************************************************************)
Passed(d, o) ==
  /\ 0 < stream[o]
  /\ \/ stream[o] <= cursor[d]
     \/ /\ down[d].pc # "idle"
        /\ stream[o] <= down[d].last
        /\ down[d].pc = "applied" \/ down[d].at[o] = 0

Tied(d, o) == Passed(d, o) /\ remote[o] # NoMeta /\ remote[o].clock = RowOf(d, o).clock

Latest(d, t) ==
  /\ obj[d][t] # "none"
  /\ \/ remote[t] = MetaOf(RowOf(d, t))
     \/ ~Passed(d, t) /\ Reached(t, RowOf(d, t).clock)
  /\ \A o \in Object : FileOf[o] = FileOf[t] /\ Tied(d, o) => stream[o] <= stream[t]

Top(d, f) ==
  ~row[d][f].deleted /\ (\E o \in Object : FileOf[o] = f /\ Tied(d, o)) =>
    \E t \in Object : FileOf[t] = f /\ Latest(d, t)

\* The events a page leaves out come before those it holds.
Ordered ==
  \A d \in Device, o, n \in Object :
    /\ down[d].pc # "idle" /\ down[d].at[o] = 0 /\ stream[o] <= down[d].last
    /\ down[d].at[n] > 0
    => stream[o] < down[d].at[n]

Topped == Ordered /\ \A d \in Device, f \in File : Top(d, f)

LEMMA PassedIsRead ==
  ASSUME SyncInv, NEW d \in Device, NEW o \in Object, Passed(d, o)
  PROVE  ~Unread(d, o)
BY DEF SyncInv, CursorInv, NoSkippedEvent, PageCovers, Passed, Unread

LEMMA TopQuiet ==
  ASSUME SyncInv, NEW d \in Device, NEW f \in File, Top(d, f),
         row'[d][f] = row[d][f], UNCHANGED <<remote, stream>>,
         \A o \in Object : FileOf[o] = f /\ Passed(d, o)' => Passed(d, o),
         \A o \in Object : FileOf[o] = f /\ obj[d][o] # "none" => obj'[d][o] # "none"
  PROVE  Top(d, f)'
<1>1. \A o \in Object : FileOf[o] = f => RowOf(d, o)' = RowOf(d, o)
  BY DEF RowOf
<1>2. \A o \in Object : FileOf[o] = f /\ Tied(d, o)' => Tied(d, o)
  BY <1>1 DEF Tied
<1>3. ASSUME NEW t \in Object, FileOf[t] = f, Latest(d, t) PROVE Latest(d, t)'
  BY <1>1, <1>2, <1>3 DEF Latest, Reached
<1> QED
  BY <1>2, <1>3 DEF Top

LEMMA TopPublish ==
  ASSUME SyncInv, SyncInv', Sound, NEW o \in Object, NEW m \in Meta, Publish(o, m), Forward(o, m),
         UNCHANGED <<row, obj, cursor, down>>, Topped
  PROVE  Topped'
<1>1. /\ head' = head + 1 /\ stream'[o] = head + 1 /\ remote'[o] = m
      /\ \A p \in Object : p # o => stream'[p] = stream[p] /\ remote'[p] = remote[p]
      /\ \A p \in Object : stream[p] <= head /\ stream[p] <= stream'[p]
      /\ \A p \in Object : stream[p] > 0 =>
           /\ remote[p] = NoMeta => remote'[p] = NoMeta
           /\ \A c \in Nat : Reached(p, c) => Reached(p, c)'
  BY PublishMoves
<1>2. head \in Nat /\ \A p \in Object : stream[p] \in Nat /\ stream'[p] \in Nat
  BY Types DEF SyncInv, TypeOK
<1>3. \A d \in Device : /\ cursor[d] \in Nat /\ cursor[d] <= head
                        /\ down[d].pc # "idle" => down[d].last <= head
                        /\ down[d].last \in Nat
  BY Types, DownTypes DEF SyncInv, CursorInv, StreamBounded, PageCovers
<1>4. Ordered'
  <2> SUFFICES ASSUME NEW d \in Device, NEW p \in Object, NEW n \in Object,
                      down[d].pc # "idle", down[d].at[p] = 0, stream'[p] <= down[d].last,
                      down[d].at[n] > 0
               PROVE  stream'[p] < down[d].at[n]
    BY DEF Ordered
  <2>1. p # o
    BY <1>1, <1>2, <1>3
  <2> QED
    BY <1>1, <2>1 DEF Topped, Ordered
<1>5. ASSUME NEW d \in Device PROVE ~Passed(d, o)'
  BY <1>1, <1>2, <1>3 DEF Passed
<1>6. ASSUME NEW d \in Device, NEW p \in Object, p # o PROVE Passed(d, p)' = Passed(d, p)
  BY <1>1, <1>6 DEF Passed
<1>7. \A d \in Device, p \in Object : RowOf(d, p)' = RowOf(d, p)
  BY DEF RowOf
<1>8. \A d \in Device, p \in Object : Tied(d, p)' => p # o /\ Tied(d, p)
  BY <1>1, <1>5, <1>6, <1>7 DEF Tied
<1>9. ASSUME NEW d \in Device, NEW t \in Object, Latest(d, t) PROVE Latest(d, t)'
  <2>1. stream[t] > 0
    BY <1>9 DEF Latest, Sound, Known
  <2>2. remote'[t] = MetaOf(RowOf(d, t)') \/ (~Passed(d, t)' /\ Reached(t, RowOf(d, t).clock)')
    <3>1. CASE t # o
      BY <1>1, <1>6, <1>7, <1>9, <3>1 DEF Latest, Reached
    <3>2. CASE t = o
      <4>1. Reached(o, RowOf(d, o).clock)
        BY <1>9, <3>2, RowTypes, ClockOf DEF Latest, Reached
      <4>2. RowOf(d, o).clock \in Nat
        BY RowTypes
      <4>3. Reached(o, RowOf(d, o).clock)'
        BY <1>1, <1>7, <2>1, <3>2, <4>1, <4>2 DEF Reached
      <4> QED
        BY <1>5, <3>2, <4>3
    <3> QED
      BY <3>1, <3>2
  <2>3. \A p \in Object : FileOf[p] = FileOf[t] /\ Tied(d, p)' => stream'[p] <= stream'[t]
    <3> SUFFICES ASSUME NEW p \in Object, FileOf[p] = FileOf[t], Tied(d, p)'
                 PROVE  stream'[p] <= stream'[t]
      OBVIOUS
    <3>1. stream'[p] = stream[p] /\ stream[p] <= stream[t] /\ stream[t] <= stream'[t]
      BY <1>1, <1>8, <1>9 DEF Latest
    <3> QED
      BY <1>2, <3>1
  <2> QED
    BY <1>9, <2>2, <2>3 DEF Latest
<1>10. ASSUME NEW d \in Device, NEW f \in File PROVE Top(d, f)'
  <2>1. Top(d, f)
    BY DEF Topped
  <2> QED
    BY <1>8, <1>9, <2>1 DEF Top
<1> QED
  BY <1>4, <1>10 DEF Topped

\* The page in the transaction: what it newly passes, and what it then ties with.
LEMMA TopApply ==
  ASSUME SyncInv, SyncInv', Sound, Topped, hazard' = {}, NEW d \in Device, DownApply(d),
         NEW f \in File
  PROVE  Top(d, f)'
<1> DEFINE w == down[d]
<1>1. /\ w.pc = "classified" /\ UNCHANGED <<remote, stream, cursor>>
      /\ down'[d].pc = "applied" /\ down'[d].at = w.at /\ down'[d].last = w.last
  BY ApplyMoves
<1>2. /\ cursor[d] \in Nat /\ w.last \in Nat /\ cursor[d] <= w.last
      /\ \A o \in Object : /\ stream[o] \in Nat /\ w.at[o] \in Nat /\ w.meta[o].clock \in Nat
                           /\ Event(w, o)
                           /\ w.at[o] > 0 => cursor[d] < w.at[o]
  BY <1>1, Types, DownTypes DEF Sound, Paged, SyncInv, CursorInv, PageCovers
<1>3. \A o \in Object : FileOf[o] = f => RowOf(d, o)' = row'[d][f] /\ RowOf(d, o) = row[d][f]
  BY DEF RowOf
<1>4. ASSUME NEW o \in Object, Passed(d, o)'
      PROVE  \/ w.at[o] = 0 /\ stream[o] <= w.last /\ Passed(d, o)
             \/ w.at[o] > 0 /\ w.at[o] = stream[o] /\ w.meta[o] = remote[o]
  <2>1. 0 < stream[o] /\ stream[o] <= w.last
    BY <1>1, <1>2, <1>4 DEF Passed
  <2>2. CASE w.at[o] = 0
    BY <1>1, <2>1, <2>2 DEF Passed
  <2>3. CASE w.at[o] > 0
    BY <1>2, <2>1, <2>3 DEF Event
  <2> QED
    BY <1>2, <2>2, <2>3
<1>5. SUFFICES ASSUME ~row'[d][f].deleted, NEW p \in Object, FileOf[p] = f, Tied(d, p)'
               PROVE  \E t \in Object : FileOf[t] = f /\ Latest(d, t)'
  BY DEF Top
<1>6. CASE Newest(w, f) = {}
  <2>1. /\ row'[d][f] = row[d][f] /\ ~row[d][f].deleted
        /\ \A o \in Object : FileOf[o] = f => obj'[d][o] = obj[d][o] /\ o \notin Deletes(w)
        /\ \A o \in Upserts(w) : FileOf[o] = f => w.seen[f] = row[d][f] /\ ~RemoteNewer(w, o)
    BY <1>5, <1>6, ApplyFile
  <2>2. ASSUME NEW o \in Object, FileOf[o] = f, Passed(d, o)', obj[d][o] # "none",
               Reached(o, row[d][f].clock)
        PROVE  Passed(d, o)
    <3> SUFFICES ASSUME w.at[o] > 0, w.at[o] = stream[o], w.meta[o] = remote[o] PROVE FALSE
      BY <1>4, <2>2
    <3>1. CASE remote[o] = NoMeta
      <4>1. o \notin w.held
        BY <2>1, <2>2, <3>1 DEF Deletes
      <4> QED
        BY <1>1, <2>2, <3>1, <4>1 DEF Sound, Classified
    <3>2. CASE remote[o] # NoMeta
      <4>1. o \in Upserts(w)
        BY <3>2 DEF Upserts
      <4> QED
        BY <1>2, <2>1, <2>2, <3>2, <4>1, RowTypes DEF Reached, RemoteNewer
    <3> QED
      BY <3>1, <3>2
  <2>3. ASSUME NEW o \in Object, FileOf[o] = f, Tied(d, o)' PROVE Tied(d, o)
    <3>1. /\ Passed(d, o)' /\ remote[o] # NoMeta /\ remote[o].clock = row[d][f].clock
      BY <1>1, <1>3, <2>1, <2>3 DEF Tied
    <3>2. ~(w.at[o] > 0 /\ w.meta[o] = remote[o])
      <4> SUFFICES ASSUME w.at[o] > 0, w.meta[o] = remote[o] PROVE FALSE
        OBVIOUS
      <4>1. o \in Upserts(w)
        BY <3>1 DEF Upserts
      <4> QED
        BY <2>1, <2>3, <3>1, <4>1, RowTypes DEF RemoteNewer
    <3>3. Passed(d, o)
      BY <1>4, <3>1, <3>2
    <3> QED
      BY <1>3, <2>3, <3>1, <3>3 DEF Tied
  <2>4. PICK t \in Object : FileOf[t] = f /\ Latest(d, t)
    BY <1>5, <2>1, <2>3 DEF Topped, Top
  <2>5. Latest(d, t)'
    <3>1. obj'[d][t] # "none"
      BY <2>1, <2>4 DEF Latest
    <3>2. \/ remote[t] = MetaOf(row'[d][f])
          \/ ~Passed(d, t)' /\ Reached(t, row'[d][f].clock)
      BY <1>3, <2>1, <2>2, <2>4 DEF Latest
    <3>3. \A o \in Object : FileOf[o] = f /\ Tied(d, o)' => stream[o] <= stream[t]
      BY <2>3, <2>4 DEF Latest
    <3> QED
      BY <1>1, <1>3, <2>4, <3>1, <3>2, <3>3 DEF Latest, Reached
  <2> QED
    BY <2>4, <2>5
<1>7. CASE Newest(w, f) # {}
  <2>1. PICK n : n = Taken(w, f)
    OBVIOUS
  <2>2. /\ n \in Object /\ n \in Upserts(w) /\ FileOf[n] = f /\ RemoteNewer(w, n)
        /\ \A o \in Upserts(w) : FileOf[o] = f /\ RemoteNewer(w, o) =>
             /\ w.meta[o].clock <= w.meta[n].clock
             /\ w.meta[o].clock = w.meta[n].clock => w.at[o] <= w.at[n]
    BY <1>7, <2>1, TakenIsNewest
  <2>3. /\ MetaOf(row'[d][f]) = w.meta[n] /\ row'[d][f].clock = w.meta[n].clock
        /\ obj'[d][n] # "none"
    BY <1>5, <1>7, <2>1, <2>2, ApplyFile
  <2>4. w.at[n] > 0 /\ w.meta[n] # NoMeta /\ w.at[n] <= stream[n] /\ w.at[n] <= w.last
    BY <1>2, <2>2 DEF Upserts, Event
  <2>5. remote[n] = w.meta[n] \/ (~Passed(d, n)' /\ Reached(n, w.meta[n].clock))
    <3>1. CASE w.at[n] = stream[n]
      BY <1>2, <2>2, <2>4, <3>1 DEF Event
    <3>2. CASE w.at[n] # stream[n]
      <4>1. ~Passed(d, n)'
        BY <1>4, <2>2, <2>4, <3>2
      <4> QED
        BY <1>2, <2>2, <2>4, <3>2, <4>1 DEF Event
    <3> QED
      BY <3>1, <3>2
  <2>6. ASSUME NEW o \in Object, FileOf[o] = f, Tied(d, o)' PROVE stream[o] <= stream[n]
    <3>1. Passed(d, o)' /\ remote[o] # NoMeta /\ remote[o].clock = w.meta[n].clock
      BY <1>1, <1>3, <2>3, <2>6 DEF Tied
    <3>2. CASE w.at[o] = 0 /\ stream[o] <= w.last
      <4>1. stream[o] < w.at[n]
        BY <1>1, <2>2, <2>4, <3>2 DEF Topped, Ordered
      <4> QED
        BY <1>2, <2>2, <2>4, <4>1
    <3>3. CASE w.at[o] > 0 /\ w.at[o] = stream[o] /\ w.meta[o] = remote[o]
      <4>1. o \in Upserts(w)
        BY <3>1, <3>3 DEF Upserts
      <4>2. RemoteNewer(w, o)
        BY <2>2, <2>6, <3>1, <3>3 DEF RemoteNewer
      <4>3. w.at[o] <= w.at[n]
        BY <2>2, <2>6, <3>1, <3>3, <4>1, <4>2
      <4> QED
        BY <1>2, <2>2, <2>4, <3>3, <4>3
    <3> QED
      BY <1>4, <3>1, <3>2, <3>3
  <2>7. Latest(d, n)'
    BY <1>1, <1>3, <2>2, <2>3, <2>5, <2>6 DEF Latest, Reached
  <2> QED
    BY <2>2, <2>7
<1> QED
  BY <1>6, <1>7

\* Steps that leave the rows and the indexer as they are, and pass no event.
LEMMA ToppedQuiet ==
  ASSUME SyncInv, Topped, UNCHANGED <<row, remote, stream>>,
         \A d \in Device, o \in Object :
           obj[d][o] # "none" => obj'[d][o] # "none" \/ RowOf(d, o).deleted,
         \A d \in Device, o \in Object : Passed(d, o)' => Passed(d, o),
         Ordered'
  PROVE  Topped'
<1>1. ASSUME NEW d \in Device, NEW f \in File PROVE Top(d, f)'
  <2>1. CASE row[d][f].deleted
    BY <2>1 DEF Top
  <2>2. CASE ~row[d][f].deleted
    <3>1. \A o \in Object : FileOf[o] = f /\ obj[d][o] # "none" => obj'[d][o] # "none"
      BY <2>2 DEF RowOf
    <3>2. Top(d, f)
      BY DEF Topped
    <3> QED
      BY <3>1, <3>2, TopQuiet
  <2> QED
    BY <2>1, <2>2
<1> QED
  BY <1>1 DEF Topped

\* The events a device is past move with its tick and its cursor only.
LEMMA PassedFrame ==
  ASSUME Ordered, UNCHANGED <<stream, cursor, down>>
  PROVE  Ordered' /\ \A d \in Device, o \in Object : Passed(d, o)' = Passed(d, o)
BY DEF Ordered, Passed

LEMMA ToppedUser ==
  ASSUME SyncInv, SyncInv', Sound, hazard' = {}, Topped, NEW d \in Device, UserStep(d)
  PROVE  Topped'
<1>1. ASSUME NEW f \in File, Rename(d, f) \/ EditTags(d, f) \/ Tombstone(d, f)
      PROVE  Topped'
  <2>0. PICK r \in Row : \E races : Edit(d, f, r, races) /\ r.clock > row[d][f].clock
    BY <1>1, EditsSound
  <2>1. PICK races : Edit(d, f, r, races) /\ r.clock > row[d][f].clock
    BY <2>0
  <2>2. /\ Live(row[d][f]) /\ row' = [row EXCEPT ![d][f] = r]
        /\ obj' = [obj EXCEPT ![d] = Flagged(d, f)]
        /\ UNCHANGED <<remote, stream, cursor, down>>
    BY <2>1 DEF Edit
  <2>3. /\ row'[d][f] = r
        /\ \A e \in Device, g \in File : e # d \/ g # f => row'[e][g] = row[e][g]
        /\ \A e \in Device, o \in Object : obj[e][o] # "none" => obj'[e][o] # "none"
    BY <2>2, Types DEF Flagged
  <2>4. Ordered' /\ \A e \in Device, o \in Object : Passed(e, o)' = Passed(e, o)
    BY <2>2, PassedFrame DEF Topped
  <2>5. ASSUME NEW o \in Object, FileOf[o] = f PROVE ~Tied(d, o)'
    <3> SUFFICES ASSUME Passed(d, o), remote[o] # NoMeta, remote[o].clock = r.clock PROVE FALSE
      BY <2>2, <2>3, <2>4, <2>5 DEF Tied, RowOf
    <3>1. ~Unread(d, o)
      BY PassedIsRead
    <3>2. row[d][f].clock >= remote[o].clock
      BY <2>2, <2>5, <3>1 DEF Sound, Outcome, Kept, RowOf, Live
    <3> QED
      BY <2>1, <3>2, RowTypes DEF Row
  <2>6. ASSUME NEW e \in Device, NEW g \in File PROVE Top(e, g)'
    <3>1. CASE e = d /\ g = f
      BY <2>5, <3>1 DEF Top
    <3>2. CASE e # d \/ g # f
      <4>1. Top(e, g) /\ row'[e][g] = row[e][g]
        BY <2>3, <3>2 DEF Topped
      <4> QED
        BY <2>2, <2>3, <2>4, <4>1, TopQuiet
    <3> QED
      BY <3>1, <3>2
  <2> QED
    BY <2>4, <2>6 DEF Topped
<1>2. CASE ResetCursor(d)
  <2>1. /\ UNCHANGED <<remote, stream, row, obj, down>>
        /\ \A e \in Device : cursor'[e] = 0 \/ cursor'[e] = cursor[e]
    BY <1>2, Types DEF ResetCursor
  <2>2. Ordered'
    BY <2>1 DEF Topped, Ordered
  <2>3. ASSUME NEW e \in Device, NEW o \in Object, Passed(e, o)' PROVE Passed(e, o)
    <3>1. stream[o] \in Nat
      BY Types
    <3>2. (stream[o] <= cursor'[e] /\ stream[o] > 0) => stream[o] <= cursor[e]
      BY <2>1, <3>1
    <3> QED
      BY <2>1, <2>3, <3>2 DEF Passed
  <2> QED
    BY <2>1, <2>2, <2>3, ToppedQuiet
<1>3. CASE MarkAll(d)
  <2>1. UNCHANGED <<remote, stream, row, down, cursor>>
    BY <1>3 DEF MarkAll
  <2>2. \A e \in Device, p \in Object : obj[e][p] # "none" => obj'[e][p] # "none"
    BY <1>3, Types DEF MarkAll
  <2>3. Ordered' /\ \A e \in Device, o \in Object : Passed(e, o)' => Passed(e, o)
    BY <2>1, PassedFrame DEF Topped
  <2> QED
    BY <2>1, <2>2, <2>3, ToppedQuiet
<1> QED
  BY <1>1, <1>2, <1>3 DEF UserStep

\* A page holds every event up to `last` that the cursor is not past.
LEMMA ToppedFetch ==
  ASSUME SyncInv, Topped, NEW d \in Device, DownFetch(d)
  PROVE  Topped'
<1>1. UNCHANGED <<remote, stream, row, obj, cursor>>
  BY DEF DownFetch, device
<1>2. PICK last \in {stream[o] : o \in Object} :
        down' = [down EXCEPT ![d] =
          [IdleDown EXCEPT !.pc = "paged", !.last = last,
             !.at = [o \in Object |->
               IF o \in {x \in Object : cursor[d] < stream[x] /\ stream[x] <= last}
               THEN stream[o] ELSE 0],
             !.meta = [o \in Object |->
               IF o \in {x \in Object : cursor[d] < stream[x] /\ stream[x] <= last}
               THEN remote[o] ELSE NoMeta]]]
  BY ZenonT(60) DEF DownFetch
<1>3. /\ down'[d].pc = "paged" /\ down'[d].last = last
      /\ \A p \in Object : down'[d].at[p] = IF cursor[d] < stream[p] /\ stream[p] <= last
                                            THEN stream[p] ELSE 0
      /\ \A e \in Device : e # d => down'[e] = down[e]
  BY <1>2, Types DEF IdleDown
<1>4. last \in Nat /\ \A e \in Device, p \in Object : stream[p] \in Nat /\ cursor[e] \in Nat
  BY Types
<1>5. Ordered'
  <2> SUFFICES ASSUME NEW e \in Device, NEW o \in Object, NEW n \in Object,
                      down'[e].pc # "idle", down'[e].at[o] = 0, stream[o] <= down'[e].last,
                      down'[e].at[n] > 0
               PROVE  stream[o] < down'[e].at[n]
    BY <1>1 DEF Ordered
  <2>1. CASE e = d
    BY <1>3, <1>4, <2>1
  <2>2. CASE e # d
    BY <1>1, <1>3, <2>2 DEF Topped, Ordered
  <2> QED
    BY <2>1, <2>2
<1>6. ASSUME NEW e \in Device, NEW o \in Object, Passed(e, o)' PROVE Passed(e, o)
  <2>1. CASE e = d
    BY <1>1, <1>3, <1>4, <1>6, <2>1 DEF Passed
  <2>2. CASE e # d
    BY <1>1, <1>3, <1>6, <2>2 DEF Passed
  <2> QED
    BY <2>1, <2>2
<1> QED
  BY <1>1, <1>5, <1>6, ToppedQuiet

\* A tick that ends, with its cursor saved or not, is past nothing new.
LEMMA ToppedEnd ==
  ASSUME SyncInv, Topped, NEW d \in Device, DownSave(d) \/ DownStop(d) \/ Crash(d)
  PROVE  Topped'
<1>1. /\ UNCHANGED <<remote, stream, row, obj>>
      /\ down' = [down EXCEPT ![d] = IdleDown]
      /\ \A e \in Device : e # d => cursor'[e] = cursor[e]
      /\ cursor'[d] = cursor[d] \/ (down[d].pc = "applied" /\ cursor'[d] = down[d].last)
  BY Types DEF DownSave, DownStop, Crash, device
<1>2. down'[d].pc = "idle" /\ \A e \in Device : e # d => down'[e] = down[e]
  BY <1>1, Types DEF IdleDown
<1>3. Ordered'
  BY <1>1, <1>2 DEF Topped, Ordered
<1>4. ASSUME NEW e \in Device, NEW o \in Object, Passed(e, o)' PROVE Passed(e, o)
  <2>1. CASE e = d
    BY <1>1, <1>2, <1>4, <2>1 DEF Passed
  <2>2. CASE e # d
    BY <1>1, <1>2, <1>4, <2>2 DEF Passed
  <2> QED
    BY <2>1, <2>2
<1> QED
  BY <1>1, <1>3, <1>4, ToppedQuiet

LEMMA ToppedDown ==
  ASSUME SyncInv, SyncInv', Sound, hazard' = {}, Topped, NEW d \in Device,
         DownStep(d) \/ DownStop(d)
  PROVE  Topped'
<1>1. CASE DownClassify(d)
  <2>1. /\ UNCHANGED <<remote, stream, row, obj, cursor>>
        /\ \A e \in Device : /\ down'[e].at = down[e].at /\ down'[e].last = down[e].last
                             /\ down'[e].pc = "idle" <=> down[e].pc = "idle"
                             /\ down'[e].pc = "applied" <=> down[e].pc = "applied"
    BY <1>1, Types DEF DownClassify, device, Down
  <2>2. Ordered'
    BY <2>1 DEF Topped, Ordered
  <2>3. \A e \in Device, o \in Object : Passed(e, o)' => Passed(e, o)
    BY <2>1 DEF Passed
  <2> QED
    BY <2>1, <2>2, <2>3, ToppedQuiet
<1>2. CASE DownApply(d)
  <2>1. /\ UNCHANGED <<remote, stream, cursor>>
        /\ down[d].pc = "classified"
        /\ down'[d].at = down[d].at /\ down'[d].last = down[d].last
        /\ \A e \in Device : e # d => /\ row'[e] = row[e] /\ obj'[e] = obj[e]
                                      /\ down'[e] = down[e]
    BY <1>2, ApplyMoves
  <2>2. Ordered'
    <3> SUFFICES ASSUME NEW e \in Device, NEW o \in Object, NEW n \in Object,
                        down'[e].pc # "idle", down'[e].at[o] = 0, stream[o] <= down'[e].last,
                        down'[e].at[n] > 0
                 PROVE  stream[o] < down'[e].at[n]
      BY <2>1 DEF Ordered
    <3> QED
      BY <2>1 DEF Topped, Ordered
  <2>3. ASSUME NEW e \in Device, NEW f \in File, e # d PROVE Top(e, f)'
    <3>1. Top(e, f) /\ \A o \in Object : Passed(e, o)' = Passed(e, o)
      BY <2>1, <2>3 DEF Topped, Passed
    <3> QED
      BY <2>1, <2>3, <3>1, TopQuiet
  <2>4. \A f \in File : Top(d, f)'
    BY <1>2, TopApply
  <2> QED
    BY <2>2, <2>3, <2>4 DEF Topped
<1> QED
  BY <1>1, <1>2, ToppedFetch, ToppedEnd DEF DownStep

LEMMA ToppedUpload ==
  ASSUME SyncInv, SyncInv', Sound, hazard' = {}, Topped, NEW d \in Device, NEW o \in Object,
         UploadStep(d, o)
  PROVE  Topped'
<1>1. CASE UploadPin(d, o)
  <2> DEFINE m == upl[d][o].meta
  <2>1. /\ Publish(o, m) /\ UNCHANGED <<row, obj, cursor, down>>
        /\ upl[d][o].pc = "read"
    BY <1>1 DEF UploadPin, device
  <2>2. m \in Meta /\ Forward(o, m)
    BY <2>1, TaskTypes DEF Sound, Known, Forward
  <2> HIDE DEF m
  <2> QED
    BY <2>1, <2>2, TopPublish
<1>2. CASE UploadRead(d, o) \/ UploadSave(d, o)
  <2>1. UNCHANGED <<row, remote, stream, cursor, down>>
    BY <1>2 DEF UploadRead, UploadSave, device
  <2>2. \A e \in Device, p \in Object : obj[e][p] # "none" => obj'[e][p] # "none"
    <3>1. obj' = [obj EXCEPT ![d][o] = "dirty"] \/ obj' = obj
      BY <1>2 DEF UploadRead, UploadSave, device
    <3>2. CASE obj' = [obj EXCEPT ![d][o] = "dirty"]
      <4>1. \A e \in Device, p \in Object : obj'[e][p] = obj[e][p] \/ obj'[e][p] = "dirty"
        BY <3>2, Types
      <4> QED
        BY <4>1
    <3> QED
      BY <3>1, <3>2
  <2>3. Ordered' /\ \A e \in Device, p \in Object : Passed(e, p)' => Passed(e, p)
    BY <2>1, PassedFrame DEF Topped
  <2> QED
    BY <2>1, <2>2, <2>3, ToppedQuiet
<1> QED
  BY <1>1, <1>2 DEF UploadStep

LEMMA ToppedUp ==
  ASSUME SyncInv, SyncInv', Sound, hazard' = {}, Topped, NEW d \in Device, NEW o \in Object,
         UpTask(d, o) \/ UpFail(d, o)
  PROVE  Topped'
<1>1. ASSUME UNCHANGED <<row, remote, stream, cursor, down>>,
             \A e \in Device, p \in Object :
               obj[e][p] # "none" => obj'[e][p] # "none" \/ RowOf(e, p).deleted
      PROVE  Topped'
  <2>1. Ordered' /\ \A e \in Device, p \in Object : Passed(e, p)' => Passed(e, p)
    BY <1>1, PassedFrame DEF Topped
  <2> QED
    BY <1>1, <2>1, ToppedQuiet
<1>2. CASE UpDelete(d, o)
  <2>1. UNCHANGED <<row, obj, cursor, down>>
    BY <1>2 DEF UpDelete, device
  <2>2. CASE Publish(o, NoMeta)
    <3>1. Forward(o, NoMeta)
      BY DEF Forward
    <3> QED
      BY <2>1, <2>2, <3>1, EmptyTypes, TopPublish
  <2>3. CASE UNCHANGED <<remote, stream, head>>
    BY <1>1, <2>1, <2>3
  <2> QED
    BY <1>2, <2>2, <2>3 DEF UpDelete
<1>3. CASE UpDrop(d, o)
  <2>1. /\ UNCHANGED <<row, remote, stream, cursor, down>>
        /\ obj' = [obj EXCEPT ![d][o] = "none"]
        /\ RowOf(d, o).deleted
    BY <1>3 DEF UpDrop, Sound, Tasked, Task
  <2>2. \A e \in Device, p \in Object : obj'[e][p] = obj[e][p] \/ (e = d /\ p = o)
    BY <2>1, Types
  <2> QED
    BY <1>1, <2>1, <2>2
<1>4. CASE UpPush(d, o)
  <2> DEFINE t == up[d][o]
             m == t.local
  <2>1. /\ t.pc = "tags" /\ MustPush(t) /\ Publish(o, m)
        /\ remote[o] = t.got /\ UNCHANGED <<row, obj, cursor, down>>
    BY <1>4 DEF UpPush, device
  <2>2. stream[o] > 0 /\ t.got # NoMeta /\ m.clock > 0
    BY <2>1 DEF Sound, Known, Tasked, Task
  <2>3. m \in Meta /\ Forward(o, m)
    BY <2>1, <2>2, TaskTypes DEF Forward, MustPush
  <2> HIDE DEF m
  <2> QED
    BY <2>1, <2>3, TopPublish
<1>5. CASE UpSkip(d, o) \/ UpClear(d, o)
  <2>1. CasClear(d, o) /\ UNCHANGED <<row, remote, stream, cursor, down>>
    BY <1>5 DEF UpSkip, UpClear
  <2>2. \A e \in Device, p \in Object : obj'[e][p] = obj[e][p] \/ obj'[e][p] = "clean"
    BY <2>1, Types DEF CasClear
  <2> QED
    BY <1>1, <2>1, <2>2
<1>6. CASE UpGet(d, o) \/ UpReadRecord(d, o) \/ UpReadTags(d, o) \/ UpFail(d, o)
  <2>1. UNCHANGED <<row, obj, remote, stream, cursor, down>>
    BY <1>6 DEF UpGet, UpReadRecord, UpReadTags, UpFail, device
  <2> QED
    BY <1>1, <2>1
<1> QED
  BY <1>2, <1>3, <1>4, <1>5, <1>6 DEF UpTask

LEMMA ToppedStep ==
  ASSUME SyncInv, SyncInv', Sound, hazard' = {}, [Next]_vars, Topped
  PROVE  Topped'
<1>1. CASE Tick \/ UNCHANGED vars \/ \E d \in Device : UpBatch(d)
  <2>1. UNCHANGED <<row, obj, remote, stream, cursor, down>>
    BY <1>1, ZenonT(60) DEF Tick, vars, device, UpBatch
  <2>2. Ordered' /\ \A e \in Device, p \in Object : Passed(e, p)' => Passed(e, p)
    BY <2>1, PassedFrame DEF Topped
  <2> QED
    BY <2>1, <2>2, ToppedQuiet
<1>2. ASSUME NEW d \in Device, UserStep(d) \/ DownStep(d) \/ DownStop(d) \/ Crash(d)
      PROVE  Topped'
  BY <1>2, ToppedUser, ToppedDown, ToppedEnd
<1>3. ASSUME NEW d \in Device, NEW o \in Object,
             UploadStep(d, o) \/ UpTask(d, o) \/ UpFail(d, o)
      PROVE  Topped'
  BY <1>3, ToppedUpload, ToppedUp
<1> QED
  BY <1>1, <1>2, <1>3 DEF Next

LEMMA ToppedInit == ASSUME Init PROVE Topped
<1>1. \A d \in Device, o \in Object :
        /\ down[d].pc = "idle" /\ stream[o] = 0
  BY DEF Init, IdleDown
<1>2. \A d \in Device, o \in Object : ~Tied(d, o)
  BY <1>1 DEF Tied, Passed
<1> QED
  BY <1>1, <1>2 DEF Topped, Ordered, Top

AgreeInv == DeleteInv /\ (hazard = {} => Topped)

LEMMA AgreeInvInit == Init => AgreeInv
BY DeleteInvInit, ToppedInit DEF AgreeInv

LEMMA AgreeInvStep == AgreeInv /\ [Next]_vars => AgreeInv'
<1> SUFFICES ASSUME AgreeInv, [Next]_vars PROVE AgreeInv'
  OBVIOUS
<1>1. DeleteInv'
  BY DeleteInvStep DEF AgreeInv
<1>2. ASSUME hazard' = {} PROVE Topped'
  BY <1>1, <1>2, HazardGrows, ToppedStep DEF AgreeInv, DeleteInv, SoundInv
<1> QED
  BY <1>1, <1>2 DEF AgreeInv

\* A device at rest has an object of each file it shows, and that object is clean.
LEMMA RestedFile ==
  ASSUME SyncInv, Sound, NEW d \in Device, NEW f \in File, Settled(d), Live(row[d][f])
  PROVE  /\ \E o \in Object : FileOf[o] = f /\ obj[d][o] = "clean" /\ ~Unread(d, o)
         /\ \E o \in Object : FileOf[o] = f /\ remote[o] = MetaOf(row[d][f])
<1>1. PICK o \in Object : FileOf[o] = f /\ obj[d][o] # "none"
  BY DEF Settled
<1>2. stream[o] > 0
  BY <1>1 DEF Sound, Known
<1>3. obj[d][o] = "clean" /\ ~Unread(d, o)
  BY <1>1, <1>2, Rested, Types
<1>4. Good(d, f)
  BY <1>1 DEF Sound, Outcome, Pushed, Settled
<1>5. PICK p \in Object : FileOf[p] = f /\ Witness(d, p)
  BY <1>4 DEF Good
<1>6. ~Unread(d, p)
  BY <1>5, Rested DEF Witness, Sound, Known
<1> QED
  BY <1>1, <1>3, <1>5, <1>6 DEF Witness, RowOf

\* Two devices at rest agree on which files are deleted.
LEMMA DeletesAgree ==
  ASSUME DeleteInv, hazard = {}, Quiescent, NEW d \in Device, NEW e \in Device, NEW f \in File,
         row[d][f].deleted, row[e][f].clock > 0
  PROVE  row[e][f].deleted
<1> SUFFICES ASSUME ~row[e][f].deleted PROVE FALSE
  OBVIOUS
<1>1. SyncInv /\ Sound /\ Settled(e) /\ Live(row[e][f])
  BY DEF DeleteInv, SoundInv, Quiescent, Live
<1>2. PICK o \in Object : FileOf[o] = f /\ obj[e][o] = "clean" /\ ~Unread(e, o)
  BY <1>1, RestedFile
<1>3. stream[o] > 0
  BY <1>1, <1>2 DEF Sound, Known
<1>4. remote[o] = NoMeta
  BY <1>2, DeletesAreSent DEF StaysDeleted
<1> QED
  BY <1>1, <1>2, <1>3, <1>4 DEF Sound, Outcome, Gone, RowOf

\* Of the objects that tie with a device's row, the last one carries its metadata.
LEMMA LastTie ==
  ASSUME SyncInv, Sound, Topped, NEW d \in Device, NEW f \in File, Settled(d), Live(row[d][f])
  PROVE  \E t \in Object :
           /\ FileOf[t] = f /\ stream[t] > 0 /\ remote[t] = MetaOf(row[d][f])
           /\ \A o \in Object : FileOf[o] = f /\ remote[o] # NoMeta
                                /\ remote[o].clock = row[d][f].clock => stream[o] <= stream[t]
<1>1. \A o \in Object : FileOf[o] = f /\ remote[o] # NoMeta => Passed(d, o)
  <2> SUFFICES ASSUME NEW o \in Object, FileOf[o] = f, remote[o] # NoMeta PROVE Passed(d, o)
    OBVIOUS
  <2>1. stream[o] > 0
    BY DEF Sound, Numbered
  <2> QED
    BY <2>1, Rested DEF Passed
<1>2. PICK p \in Object : FileOf[p] = f /\ remote[p] = MetaOf(row[d][f])
  BY RestedFile
<1>3. row[d][f] \in Row /\ remote[p] # NoMeta /\ remote[p].clock = row[d][f].clock
  BY <1>2, Types, ClockOf DEF Live
<1>4. Tied(d, p)
  BY <1>1, <1>2, <1>3 DEF Tied, RowOf
<1>5. PICK t \in Object : FileOf[t] = f /\ Latest(d, t)
  BY <1>2, <1>4 DEF Topped, Top, Live
<1>6. stream[t] > 0
  BY <1>5 DEF Latest, Sound, Known
<1>7. Passed(d, t)
  BY <1>6, Rested DEF Passed
<1>8. remote[t] = MetaOf(row[d][f])
  BY <1>5, <1>7 DEF Latest, RowOf
<1>9. ASSUME NEW o \in Object, FileOf[o] = f, remote[o] # NoMeta,
             remote[o].clock = row[d][f].clock
      PROVE  stream[o] <= stream[t]
  <2>1. Tied(d, o)
    BY <1>1, <1>9 DEF Tied, RowOf
  <2> QED
    BY <1>5, <1>9, <2>1 DEF Latest
<1> QED
  BY <1>5, <1>6, <1>8, <1>9

LEMMA RowsAgree ==
  ASSUME AgreeInv, hazard = {}, Quiescent, NEW d \in Device, NEW e \in Device, NEW f \in File,
         Live(row[d][f]), Live(row[e][f])
  PROVE  row[d][f] = row[e][f]
<1>1. SyncInv /\ Sound /\ Topped /\ Settled(d) /\ Settled(e)
  BY DEF AgreeInv, DeleteInv, SoundInv, Quiescent
<1>2. PICK t \in Object :
        /\ FileOf[t] = f /\ stream[t] > 0 /\ remote[t] = MetaOf(row[d][f])
        /\ \A o \in Object : FileOf[o] = f /\ remote[o] # NoMeta
                             /\ remote[o].clock = row[d][f].clock => stream[o] <= stream[t]
  BY <1>1, LastTie
<1>3. PICK u \in Object :
        /\ FileOf[u] = f /\ stream[u] > 0 /\ remote[u] = MetaOf(row[e][f])
        /\ \A o \in Object : FileOf[o] = f /\ remote[o] # NoMeta
                             /\ remote[o].clock = row[e][f].clock => stream[o] <= stream[u]
  BY <1>1, LastTie
<1>4. /\ row[d][f] \in Row /\ row[e][f] \in Row /\ stream[t] \in Nat /\ stream[u] \in Nat
      /\ row[d][f].clock \in Nat /\ row[e][f].clock \in Nat
      /\ remote[t] # NoMeta /\ remote[t].clock = row[d][f].clock
      /\ remote[u] # NoMeta /\ remote[u].clock = row[e][f].clock
  BY <1>1, <1>2, <1>3, Types, RowTypes, ClockOf DEF Live
<1>5. row[d][f].clock >= remote[u].clock /\ row[e][f].clock >= remote[t].clock
  <2>1. ~Unread(d, u) /\ ~Unread(e, t)
    BY <1>1, <1>2, <1>3, Rested
  <2> QED
    BY <1>1, <1>2, <1>3, <1>4, <2>1 DEF Sound, Outcome, Kept, RowOf, Live
<1>6. row[d][f].clock = row[e][f].clock
  BY <1>4, <1>5
<1>7. stream[t] = stream[u]
  BY <1>2, <1>3, <1>4, <1>6
<1>8. t = u
  BY <1>1, <1>2, <1>7 DEF Sound, Numbered
<1>9. MetaOf(row[d][f]) = MetaOf(row[e][f]) /\ row[d][f].deleted = row[e][f].deleted
  <2>1. row[d][f].deleted \in BOOLEAN /\ row[e][f].deleted \in BOOLEAN
    BY <1>4 DEF Row
  <2> QED
    BY <1>2, <1>3, <1>8, <2>1 DEF Live
<1> QED
  BY <1>4, <1>9, RowEquality

LEMMA RestedAgree == AgreeInv => Converges
<1> SUFFICES ASSUME AgreeInv, hazard = {}, Quiescent,
                    NEW d \in Device, NEW e \in Device, NEW f \in File,
                    row[d][f].clock > 0, row[e][f].clock > 0
             PROVE  /\ row[d][f].deleted = row[e][f].deleted
                    /\ ~row[d][f].deleted => row[d][f] = row[e][f]
  BY DEF Converges
<1>1. DeleteInv /\ row[d][f].deleted \in BOOLEAN /\ row[e][f].deleted \in BOOLEAN
  BY Types DEF AgreeInv, DeleteInv, SoundInv, Row
<1>2. row[d][f].deleted <=> row[e][f].deleted
  BY <1>1, DeletesAgree
<1>3. ~row[d][f].deleted => row[d][f] = row[e][f]
  BY <1>2, RowsAgree DEF Live
<1> QED
  BY <1>1, <1>2, <1>3

\* Two devices with nothing left to send, to upload or to read hold the same row of
\* every file both of them know: the same clock, names and tags, or both a tombstone.
\* With two objects of a file that tie on the clock, what decides is that a page and
\* the pages after it take the later event (newestPerFile, `remote >= local` in
\* syncDownEvents.ts), in the order every device reads.
THEOREM DevicesAgree == Spec => []Converges
<1> QED
  BY RestedAgree, AgreeInvInit, AgreeInvStep, PTL DEF Spec
=============================================================================
