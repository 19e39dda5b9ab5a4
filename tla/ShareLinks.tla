----------------------------- MODULE ShareLinks -----------------------------
(***************************************************************************)
(* One share link of an account and the devices that keep it.  The indexer *)
(* keeps the key and the objects attached to it; each device keeps a copy  *)
(* of that list (att) and the files the link is of (files).  A pass lists  *)
(* the key's objects, takes in what other devices changed, and brings what *)
(* is attached in line with its own library.  A device runs one link       *)
(* operation at a time, each request to the indexer and each batch of      *)
(* reads or writes a step of its own; edits of the library, changes synced *)
(* from the other device and the other device's operations come between.   *)
(*                                                                         *)
(* The files of the model are all at the top of the library, which a       *)
(* trashed row reads as too, so a name is a stack.  Metadata travels from  *)
(* device to device in one step (MetadataSync has the steps of that), the  *)
(* devices' clocks agree, and no file is deleted for good.                 *)
(***************************************************************************)
EXTENDS Integers, Sequences, SequencesExt

CONSTANTS
  Device,
  Row,        \* ids of version rows; an object has its row's id
  Name,       \* names the user gives
  Maker,      \* the device the link is made on
  Budget      \* the link's mode, the devices in use, and bounds: edits of the library,
              \* changes of the link, operations cut short

ASSUME RowAssumption == Row \subseteq Nat \ {0} /\ Row # {}
ASSUME NameAssumption == Name \subseteq 1..9
ASSUME BudgetAssumption == \A b \in Budget :
  b.mode \in {"latest", "snapshot"} /\ Maker \in b.devices /\ b.devices \subseteq Device

VARIABLES
  lib,    \* lib[d][r]: d's row of r: name, at (updatedAt, 0: no row), trash (trashedAt, 0: live)
  has,    \* has[d]: the rows whose uploaded object d knows
  key,    \* the sharing key: "none", "active" or "revoked"
  shared, \* shared[r]: updatedAt of the metadata r's object is attached with, 0: not attached
  known,  \* known[d]: d has the link
  files,  \* files[d]: d's share_link_files in the order made: file, state
  att,    \* att[d][r]: d's share_link_objects: at (0: no row), off (detaching)
  op,     \* op[d]: d's link operation
  left,   \* what is left of the budget, and the edits made
  away,   \* away[d]: rows d had in the trash, and has neither added, newly listed nor followed since
  off,    \* whether a file was trashed or taken off, or the key revoked
  calm,   \* calm[d]: whether d's last full pass began after the last change and made none
  race    \* named races that happened

library == <<lib, has>>
link == <<key, shared, known, files, att>>
vars == <<library, link, op, left, away, off, calm, race>>

mode == left.mode
NoLink == [r \in Row |-> [at |-> 0, off |-> FALSE]]
NoPick == [row |-> 0, at |-> 0, file |-> 0]
Idle == [do |-> "none", pc |-> "idle", rows |-> {}, list |-> << >>, on |-> {}, drop |-> {},
         keep |-> {}, stacks |-> {}, pick |-> NoPick]

-----------------------------------------------------------------------------
(* The library, as far as a link reads it.                                 *)

Live(d, r) == lib[d][r].at > 0 /\ lib[d][r].trash = 0
Versions(d, n) == {r \in Row : Live(d, r) /\ lib[d][r].name = n}
Newer(d, p, q) == lib[d][p].at > lib[d][q].at \/ (lib[d][p].at = lib[d][q].at /\ p > q)
Newest(d, rows) == CHOOSE r \in rows : \A q \in rows \ {r} : Newer(d, r, q)
Current(d, n) == Newest(d, Versions(d, n))
IsCurrent(d, r) == Live(d, r) /\ r = Current(d, lib[d][r].name)

\* The rows' place from the newest, for stamps that keep their order.
Place(d, rows, r) == Cardinality({q \in rows : Newer(d, q, r)})
Now == 4 * (left.made + 1)
Restored(n) == n + 10

Linked(d) == {files[d][i].file : i \in DOMAIN files[d]}
Without(fs, rows) == SelectSeq(fs, LAMBDA f : f.file \notin rows)
\* takeTrashedFilesOffLinks, for the objects known as it runs.
OffLinks(d, rows) ==
  /\ files' = [files EXCEPT ![d] = Without(@, rows)]
  /\ att' = [att EXCEPT ![d] = [r \in Row |->
       IF r \in rows \cap has[d] /\ @[r].at > 0 THEN [@[r] EXCEPT !.off = TRUE] ELSE @[r]]]

Edit == /\ left.edits > 0
        /\ left' = [left EXCEPT !.edits = @ - 1, !.made = @ + 1]
Stamp(d, rows, base, change) ==
  lib' = [lib EXCEPT ![d] = [r \in Row |->
    IF r \in rows THEN [at |-> base - Place(d, rows, r)] @@ change @@ @[r] ELSE @[r]]]

\* A new file, or a new version of the one at its name.
Save(d, r, n) ==
  /\ Edit
  /\ \A e \in Device : lib[e][r].at = 0
  /\ lib' = [lib EXCEPT ![d][r] = [name |-> n, at |-> Now, trash |-> 0]]
  /\ UNCHANGED <<has, link, op, off, race>>

Rename(d, n, m) ==
  /\ Edit /\ n # m /\ Versions(d, n) # {}
  /\ Stamp(d, Versions(d, n), Now, [name |-> m])
  /\ UNCHANGED <<has, link, op, off, race>>

Trash(d, n) ==
  /\ Edit /\ Versions(d, n) # {}
  /\ Stamp(d, Versions(d, n), Now, [trash |-> Now])
  /\ OffLinks(d, Versions(d, n))
  /\ off' = TRUE
  /\ UNCHANGED <<has, key, shared, known, op, race>>

\* Versions trashed together come back together, renamed when another file has their name.
Restore(d, rows) ==
  LET n == lib[d][Newest(d, rows)].name
      top == lib[d][Newest(d, rows)].at + Cardinality(rows)
  IN /\ rows # {} /\ Edit
     /\ \E r \in rows : /\ lib[d][r].trash # 0
                       /\ rows = {q \in Row : lib[d][q].trash = lib[d][r].trash /\ lib[d][q].name = lib[d][r].name}
     /\ \E m \in {n} \cup (IF Versions(d, n) # {} THEN {Restored(n)} ELSE {}) :
          Stamp(d, rows, top, [trash |-> 0, name |-> m])
     /\ UNCHANGED <<has, link, op, off, race>>

\* Only the version a stack shows is uploaded.
Upload(d, r) ==
  /\ IsCurrent(d, r) /\ r \notin has[d]
  /\ has' = [has EXCEPT ![d] = @ \cup {r}]
  /\ UNCHANGED <<lib, link, op, left, off, race>>

\* The newer metadata of an uploaded row reaches another device.  An object that comes
\* with its row is not known yet when the trash looks for the objects to mark.
Sync(d, e, r) ==
  /\ r \in has[e] /\ lib[e][r].at > lib[d][r].at
  /\ lib' = [lib EXCEPT ![d][r] = lib[e][r]]
  /\ has' = [has EXCEPT ![d] = @ \cup {r}]
  /\ IF lib[e][r].trash # 0 THEN OffLinks(d, {r}) ELSE UNCHANGED <<files, att>>
  /\ race' = IF lib[e][r].trash # 0 /\ r \notin has[d] /\ att[d][r].at > 0 THEN race \cup {"unmarked"} ELSE race
  /\ UNCHANGED <<key, shared, known, op, left, off>>

-----------------------------------------------------------------------------
(* Operations on the link, one at a time on a device.                      *)

Resting(d) == op[d].pc \in {"idle", "done"}
At(d, pc) == op[d].pc = pc
Ended(how) == [Idle EXCEPT !.pc = how]
\* Once every file has its version, the older ones come off a latest link.
Older(o) == IF mode = "snapshot" THEN {} ELSE {x.row : x \in {y \in o.on : y.row \notin o.keep /\ y.name \in o.stacks}}
Onward(o) ==
  CASE o.pc = "sync" /\ o.drop = {} /\ o.list = << >> ->
         IF Older(o) = {} THEN Ended("done") ELSE [Idle EXCEPT !.do = o.do, !.pc = "older", !.on = o.on, !.drop = Older(o)]
    [] o.pc = "older" /\ o.drop = {} -> Ended("done")
    [] OTHER -> o
Goto(d, change) == op' = [op EXCEPT ![d] = Onward(change @@ @)]
End(d, how) == op' = [op EXCEPT ![d] = Ended(how)]
OnlyOp == UNCHANGED <<library, link, left, off, race>>
Change == /\ left.changes > 0
          /\ left' = [left EXCEPT !.changes = @ - 1]
Start(d, do, rows, pc) ==
  /\ Resting(d)
  /\ op' = [op EXCEPT ![d] = [Idle EXCEPT !.do = do, !.rows = rows, !.pc = pc]]

Stacks(d, fs) == [i \in DOMAIN fs |->
  [name |-> lib[d][fs[i].file].name, live |-> Live(d, fs[i].file)] @@ fs[i]]
Attached(d, a) == {[row |-> r, at |-> a[r].at, off |-> a[r].off, here |-> r \in has[d],
                    name |-> lib[d][r].name, upd |-> lib[d][r].at, live |-> Live(d, r)] : r \in {q \in Row : a[q].at > 0}}

\* The files a latest link names twice over, after a rename merged their stacks.
Doubled(fs) == IF mode = "snapshot" THEN {} ELSE {fs[i].file : i \in {j \in DOMAIN fs :
  fs[j].live /\ \E k \in 1..(j - 1) : fs[k].live /\ fs[k].name = fs[j].name}}

\* syncLink reads the link's files, here rows, and its objects.
SyncLink(d, do, rows) ==
  LET fs == Stacks(d, rows)
      kept == Without(fs, Doubled(fs))
      objects == Attached(d, att[d])
      live == {o \in objects : o.here /\ ~o.off /\ o.live}
  IN /\ files' = [files EXCEPT ![d] = Without(rows, Doubled(fs))]
     /\ op' = [op EXCEPT ![d] = Onward([Idle EXCEPT
          !.do = do, !.pc = "sync", !.list = kept, !.on = live,
          !.drop = {o.row : o \in {p \in objects \ live : p.here \/ p.off}},
          !.stacks = {f.name : f \in {g \in ToSet(kept) : g.live}},
          !.keep = IF mode = "latest" THEN {} ELSE {f.file : f \in ToSet(kept)}])]

\* What follows findLink.
After(do) == CASE do = "add" -> "pick" [] do = "remove" -> "unlink" [] OTHER -> "revoke"

\* A pass that lists the key anew, and one that makes do with what it last listed.
RefreshPass(d) ==
  /\ Start(d, "pass", {}, "keys")
  /\ UNCHANGED <<library, link, left, off, race>>
QuickPass(d) ==
  /\ Resting(d) /\ known[d] /\ SyncLink(d, "pass", files[d])
  /\ UNCHANGED <<library, key, shared, known, att, left, off, race>>

\* One row for each stack, leaving out the stacks taken.
Distinct(d, rows, taken) ==
  {r \in rows : /\ Live(d, r) /\ lib[d][r].name \notin taken
                /\ \A q \in rows : Live(d, q) /\ lib[d][q].name = lib[d][r].name => r <= q}

\* createLink: reads the files, then makes the key.
Create(d, rows) ==
  /\ key = "none" /\ Distinct(d, rows, {}) # {}
  /\ Start(d, "create", Distinct(d, rows, {}), "insert")
  /\ key' = "active"
  /\ UNCHANGED <<library, shared, known, files, att, left, off, race>>

Ask(d, do, rows) ==
  /\ key # "none" /\ Change
  /\ Start(d, do, rows, IF known[d] THEN After(do) ELSE "keys")
  /\ UNCHANGED <<library, link, off, race>>

\* The network or the process fails; what is done so far stays.
Fault == /\ left.faults > 0
         /\ left' = [left EXCEPT !.faults = @ - 1]
CutShort(d) ==
  /\ ~Resting(d) /\ Fault /\ End(d, "idle")
  /\ UNCHANGED <<library, link, off, race>>

(* refresh *)

Forget(d) ==
  /\ known' = [known EXCEPT ![d] = FALSE]
  /\ files' = [files EXCEPT ![d] = << >>]
  /\ att' = [att EXCEPT ![d] = NoLink]

\* The account's keys, then the objects attached to this one.
ListLink(d) ==
  /\ At(d, "keys")
  /\ IF key = "active"
     THEN /\ known' = [known EXCEPT ![d] = TRUE]
          /\ Goto(d, [pc |-> "replace", on |-> {[row |-> r, at |-> shared[r]] : r \in {q \in Row : shared[q] > 0}}])
          /\ UNCHANGED <<files, att>>
     ELSE Forget(d) /\ End(d, IF op[d].do \in {"pass", "revoke"} THEN "done" ELSE "idle")
  /\ UNCHANGED <<library, key, shared, left, off, race>>

\* replaceShareLinkObjects keeps the marks of the objects still listed.
Replaced(d, heard) == [r \in Row |->
  IF \E o \in heard : o.row = r THEN [at |-> (CHOOSE o \in heard : o.row = r).at, off |-> att[d][r].off]
  ELSE NoLink[r]]
ReplaceObjects(d) ==
  LET new == Replaced(d, op[d].on)
  IN /\ At(d, "replace")
     /\ att' = [att EXCEPT ![d] = new]
     /\ Goto(d, [pc |-> "adopt", list |-> Stacks(d, files[d]), on |-> Attached(d, new)])
     /\ UNCHANGED <<library, key, shared, known, files, left, off, race>>

\* A latest link names a stack by one of its rows, a snapshot each of its versions.
Identity(name, r) == IF mode = "latest" THEN name ELSE r
Listed(d, f) == Identity(f.name, f.file)
Shown(o) == Identity(o.name, o.row)

Adoptable(d) ==
  LET named == {Listed(d, f) : f \in {g \in ToSet(op[d].list) : g.live}}
  IN {o \in op[d].on : o.here /\ ~o.off /\ o.live /\ Shown(o) \notin named}
Dropped(d) ==
  IF \E o \in op[d].on : ~o.here THEN {}
  ELSE {f.file : f \in {g \in ToSet(op[d].list) :
          g.state = "shared" /\ ~\E o \in op[d].on : ~o.off /\ Shown(o) = Listed(d, g)}}
Appended(fs, new, state) ==
  fs \o [i \in 1..Cardinality(new) |-> [file |-> SetToSortSeq(new, <)[i], state |-> state]]

AdoptFiles(d) ==
  /\ At(d, "adopt")
  /\ \E new \in SUBSET Adoptable(d) :
       /\ \A o \in Adoptable(d) : \E p \in new : Shown(p) = Shown(o)
       /\ \A o, p \in new : Shown(p) = Shown(o) => p = o
       /\ LET fs == Without(Appended(files[d], {o.row : o \in new} \ Linked(d), "shared"), Dropped(d))
          IN IF op[d].do = "pass" THEN SyncLink(d, "pass", fs)
             ELSE /\ files' = [files EXCEPT ![d] = fs]
                  /\ Goto(d, [pc |-> After(op[d].do), list |-> << >>, on |-> {}])
       /\ race' = IF \E o \in new : lib[d][o.row].at # o.upd THEN race \cup {"listedTrash"} ELSE race
  /\ UNCHANGED <<library, key, shared, known, att, left, off>>

\* unshare: an object or a key that is gone counts as detached.
Unshare(d, r) ==
  /\ shared' = [shared EXCEPT ![r] = 0]
  /\ att' = [att EXCEPT ![d][r] = NoLink[r]]
  /\ Goto(d, [drop |-> op[d].drop \ {r}])
  /\ UNCHANGED <<library, key, known, files, left, off>>

\* Trashed and marked objects, the versions replaced, and those of a file being removed.
Detach(d) ==
  \E r \in op[d].drop :
    /\ Unshare(d, r)
    /\ race' = race \cup (IF At(d, "older") /\ shared[r] # att[d][r].at THEN {"crossed"} ELSE {})
                    \cup (IF At(d, "older") /\ att[d][r].at > lib[d][r].at THEN {"behind"} ELSE {})
                    \cup (IF At(d, "older") /\ ~\E o \in op[d].on : o.row = r /\ o.upd = lib[d][r].at
                          THEN {"renamed"} ELSE {})

Next1(d, change) == Goto(d, [list |-> Tail(op[d].list), pc |-> "sync"] @@ change)
\* updateShareLinkFile: moves the row naming from to r.
Moved(fs, from, r, state) ==
  [i \in DOMAIN fs |-> IF fs[i].file = from THEN [file |-> r, state |-> state] ELSE fs[i]]
\* The table's key: a link names a row once.
Collides(d, from, r) == from # r /\ {from, r} \subseteq Linked(d)
Move(d, r, state, change) ==
  LET f == Head(op[d].list)
  IN IF Collides(d, f.file, r) THEN End(d, "idle") /\ UNCHANGED files
     ELSE files' = [files EXCEPT ![d] = Moved(@, f.file, r, state)] /\ Next1(d, change)
DropFile(d, change) ==
  files' = [files EXCEPT ![d] = Without(@, {Head(op[d].list).file})] /\ Next1(d, change)
Skip(d, change) == UNCHANGED files /\ Next1(d, change)
Attaching(d, r, change) ==
  /\ Goto(d, [pc |-> "attach", pick |-> [row |-> r, at |-> lib[d][r].at, file |-> Head(op[d].list).file]] @@ change)
  /\ UNCHANGED files

InStack(d, n) == {o \in op[d].on : o.name = n}
\* Mutants: attached whenever its metadata differs; attached once only.
DueBack(d, attached, cur) == \A o \in attached : lib[d][cur].at # o.at
DueOnce(d, attached, cur) == attached = {}
\* The current version is not attached, or with metadata from before its last edit.
Due(d, attached, cur) == \A o \in attached : lib[d][cur].at > o.at
\* Mutant: the older versions come off before the current one is uploaded.
MeanwhileNone(d, n) == {}
\* Until the current version is uploaded, what is attached of the stack stays.
Meanwhile(d, n) == {o.row : o \in InStack(d, n)}
LatestFile(d, f, cur) ==
  LET attached == {o \in InStack(d, f.name) : o.row = cur}
      kept(rows) == [keep |-> op[d].keep \cup rows]
  IN IF cur \notin has[d]
     THEN IF f.state = "pending" THEN Skip(d, kept(Meanwhile(d, f.name)))
          ELSE Move(d, f.file, "pending", kept(Meanwhile(d, f.name)))
     ELSE IF Due(d, attached, cur) THEN Attaching(d, cur, kept({cur}))
     ELSE IF f.file = cur /\ f.state = "shared" THEN Skip(d, kept({cur}))
     ELSE Move(d, cur, "shared", kept({cur}))

SnapshotFile(d, f, cur) ==
  LET replaced == f.file \notin has[d] /\ f.state = "pending" /\ cur # f.file
      r == IF replaced THEN cur ELSE f.file
      attached == \E o \in InStack(d, f.name) : o.row = r
      moved == [keep |-> (op[d].keep \ {f.file}) \cup {r}]
  IN CASE replaced /\ cur \in op[d].keep -> DropFile(d, [keep |-> op[d].keep \ {f.file}])
       [] ~(replaced /\ cur \in op[d].keep) /\ r \notin has[d] ->
            IF f.state = "pending" THEN Skip(d, << >>) ELSE Move(d, f.file, "pending", << >>)
       [] ~(replaced /\ cur \in op[d].keep) /\ r \in has[d] ->
            IF ~attached THEN Attaching(d, r, moved)
            ELSE IF f.state = "shared" THEN Skip(d, << >>) ELSE Move(d, r, "shared", moved)

\* Picks the version of the next file on the link from its stack as it is now.
SyncFile(d) ==
  /\ At(d, "sync") /\ op[d].drop = {} /\ op[d].list # << >>
  /\ LET f == Head(op[d].list)
     IN IF ~f.live THEN DropFile(d, [keep |-> op[d].keep \ {f.file}])
        ELSE IF Versions(d, f.name) = {} THEN Skip(d, << >>)
        ELSE IF mode = "latest" THEN LatestFile(d, f, Current(d, f.name))
        ELSE SnapshotFile(d, f, Current(d, f.name))
  /\ UNCHANGED <<library, key, shared, known, att, left, off, race>>

\* Mutant: recorded as listed, whatever became of its file.
RecordedPlain(d, p) == [at |-> p.at, off |-> att[d][p.row].off]
\* recordAttachedObject: marked at once when its file has left the link meanwhile.
Recorded(d, p) ==
  [at |-> p.at, off |-> att[d][p.row].off \/ p.file \notin Linked(d)]

\* Over newer metadata: it came on since this device listed it, or it is listed and not
\* compared, its row having come here, or into the stack, since the pass read the link.
Crossed(d, p) ==
  race \cup (IF p.at >= shared[p.row] THEN {}
             ELSE IF shared[p.row] # att[d][p.row].at THEN {"crossed"}
             ELSE IF \E o \in InStack(d, Head(op[d].list).name) : o.row = p.row THEN {} ELSE {"unread"})

Attach(d) ==
  LET p == op[d].pick
  IN /\ At(d, "attach")
     /\ IF key = "active"
        THEN /\ shared' = [shared EXCEPT ![p.row] = p.at]
             /\ att' = [att EXCEPT ![d][p.row] = Recorded(d, p)]
             /\ Move(d, p.row, "shared", [pick |-> NoPick])
        ELSE End(d, "idle") /\ UNCHANGED <<shared, att, files>>
     /\ race' = Crossed(d, p) \cup (IF p.file \in Linked(d) /\ lib[d][p.row].trash # 0 THEN {"listedTrash"} ELSE {})
     /\ UNCHANGED <<library, key, known, left, off>>

\* Attached, and cut short before it is recorded, or before the file is moved to it.
AttachCut(d) ==
  LET p == op[d].pick
  IN /\ At(d, "attach") /\ key = "active" /\ Fault
     /\ shared' = [shared EXCEPT ![p.row] = p.at]
     /\ \E recorded \in BOOLEAN :
          att' = IF recorded THEN [att EXCEPT ![d][p.row] = Recorded(d, p)] ELSE att
     /\ End(d, "idle")
     /\ race' = Crossed(d, p)
     /\ UNCHANGED <<library, key, known, files, off>>

(* The files a link is made with or given, and those taken off *)

PickFiles(d) ==
  /\ At(d, "pick")
  /\ Goto(d, [pc |-> "insert", rows |-> Distinct(d, op[d].rows, {lib[d][r].name : r \in Linked(d)})])
  /\ OnlyOp

InsertFiles(d) ==
  LET new == op[d].rows \ Linked(d)
  IN /\ At(d, "insert")
     /\ known' = [known EXCEPT ![d] = TRUE]
     /\ SyncLink(d, op[d].do, Appended(files[d], new, "pending"))
     /\ race' = IF \E r \in new : lib[d][r].trash # 0 THEN race \cup {"listedTrash"} ELSE race
     /\ UNCHANGED <<library, key, shared, att, left, off>>

RemoveRead(d) ==
  LET names == {lib[d][r].name : r \in op[d].rows}
  IN /\ At(d, "unlink")
     /\ Goto(d, [pc |-> "remove", rows |-> {}, stacks |-> names,
                 drop |-> {o.row : o \in {p \in Attached(d, att[d]) : p.here /\ p.name \in names}}])
     /\ off' = TRUE
     /\ UNCHANGED <<library, link, left, race>>

RemoveFiles(d) ==
  /\ At(d, "remove") /\ op[d].drop = {}
  /\ files' = [files EXCEPT ![d] = Without(@, {r \in Row : lib[d][r].name \in op[d].stacks})]
  /\ End(d, "done")
  /\ UNCHANGED <<library, key, shared, known, att, left, off, race>>

Revoke(d) ==
  /\ At(d, "revoke")
  /\ key' = "revoked" /\ shared' = [r \in Row |-> 0] /\ off' = TRUE
  /\ Goto(d, [pc |-> "forget"])
  /\ UNCHANGED <<library, known, files, att, left, race>>

ForgetLink(d) ==
  /\ At(d, "forget") /\ Forget(d) /\ End(d, "done")
  /\ UNCHANGED <<library, key, shared, left, off, race>>

-----------------------------------------------------------------------------
(* Histories, from what a step changed.                                    *)

\* The live versions a step puts on the link for a file listed: found attached, or attached.
Followed(d) == {r \in Row : Live(d, r) /\
  \/ At(d, "sync") /\ r \in Linked(d)' \ Linked(d)
  \/ /\ At(d, "attach") /\ r = op[d].pick.row /\ op[d].pick.file \in Linked(d)
     /\ <<shared, att>>' # <<shared, att>>}

Watch ==
  /\ calm' = [d \in Device |->
       CASE <<library, link>>' # <<library, link>> -> "no"
         [] <<library, link>>' = <<library, link>> /\ calm[d] = "no" /\ op'[d].do = "pass" /\ op'[d].pc = "keys" -> "passing"
         [] <<library, link>>' = <<library, link>> /\ calm[d] = "passing" /\ op'[d].pc \in {"idle", "done"} ->
              IF op'[d].pc = "done" THEN "settled" ELSE "no"
         [] OTHER -> calm[d]]
  /\ away' = [d \in Device |->
       (away[d] \cup {r \in Row : lib[d][r].trash = 0 /\ lib'[d][r].trash # 0})
       \ (IF At(d, "insert") THEN op[d].rows
          ELSE Followed(d) \cup {r \in Row : At(d, "replace") /\ att[d][r].at = 0 /\ att'[d][r].at > 0})]

Edits(d) ==
  \/ \E r \in Row, n \in Name : Save(d, r, n)
  \/ \E n \in Name, m \in Name : Rename(d, n, m)
  \/ \E n \in {lib[d][r].name : r \in Row} : Trash(d, n)
  \/ \E rows \in SUBSET Row : Restore(d, rows)
  \/ \E r \in Row : Upload(d, r)
  \/ \E e \in left.devices, r \in Row : Sync(d, e, r)
Asks(d) ==
  \/ \E rows \in SUBSET {r \in Row : IsCurrent(d, r)} : d = Maker /\ Create(d, rows)
  \/ \E r \in Row : IsCurrent(d, r) /\ (Ask(d, "add", {r}) \/ Ask(d, "remove", {r}))
  \/ Ask(d, "revoke", {})
Runs(d) ==
  \/ ListLink(d) \/ ReplaceObjects(d) \/ AdoptFiles(d)
  \/ Detach(d) \/ SyncFile(d) \/ Attach(d)
  \/ PickFiles(d) \/ InsertFiles(d)
  \/ RemoveRead(d) \/ RemoveFiles(d) \/ Revoke(d) \/ ForgetLink(d)
Step(d) == Edits(d) \/ Asks(d) \/ Runs(d) \/ CutShort(d) \/ AttachCut(d) \/ RefreshPass(d) \/ QuickPass(d)

Init ==
  /\ lib = [d \in Device |-> [r \in Row |-> [name |-> 1, at |-> IF r = 1 THEN 1 ELSE 0, trash |-> 0]]]
  /\ has = [d \in Device |-> {1}]
  /\ key = "none" /\ shared = [r \in Row |-> 0]
  /\ known = [d \in Device |-> FALSE] /\ files = [d \in Device |-> << >>]
  /\ att = [d \in Device |-> NoLink] /\ op = [d \in Device |-> Idle]
  /\ \E b \in Budget : left = [made |-> 0] @@ b
  /\ away = [d \in Device |-> {}] /\ off = FALSE /\ calm = [d \in Device |-> "no"] /\ race = {}

Next == (\E d \in left.devices : Step(d)) /\ Watch
Spec == Init /\ [][Next]_vars

-----------------------------------------------------------------------------
\* Every device has every row and object, and each stack shows an uploaded version.
Synced ==
  /\ \A d, e \in left.devices : lib[d] = lib[e] /\ has[d] = has[e]
  /\ \A d \in left.devices, r \in Row : IsCurrent(d, r) => r \in has[d]
AtRest == key = "active" /\ Synced /\ \A d \in left.devices : calm[d] = "settled"
OnLink == {r \in Row : shared[r] > 0}

(* At rest - the devices in sync, each having run a whole pass that had    *)
(* nothing to do, syncLink of shareLinks.ts - the link shows exactly the   *)
(* files each device lists for it, all of them live, and a latest link     *)
(* shows the current version of each with the metadata of its last edit.   *)
Agrees ==
  AtRest => \A d \in left.devices :
    /\ OnLink = Linked(d) /\ \A f \in ToSet(files[d]) : f.state = "shared"
    /\ \A r \in OnLink : /\ Live(d, r)
                         /\ mode = "latest" => IsCurrent(d, r) /\ shared[r] = lib[d][r].at

(* A file a device trashed and has not put on the link since, nor newly    *)
(* heard of on it, is not among the link's files there, restored or not:   *)
(* takeTrashedFilesOffLinks takes its row off and marks its object, and    *)
(* recordAttachedObject marks the one an attach in flight brings back.  A  *)
(* link that follows a listed file's stack to a live version is right to.  *)
(* Excepted, by name: a row listed just after it was trashed, the races    *)
(* of race.                                                                *)
StaysOff ==
  race = {} => \A d \in left.devices : away[d] \cap Linked(d) = {}

(* syncLink attaches what is due before it detaches what that replaces: a  *)
(* link that shows a file never shows none in between, while no file is    *)
(* trashed or taken off and the key stands, whatever is renamed or saved   *)
(* and whichever device does it, but for the races of race.                *)
NoGap == [][OnLink # {} /\ ~off' /\ race' = {} => OnLink' # {}]_vars

(* An attach never replaces an object's metadata on the link by older: the *)
(* pass compares what it last listed with its own row's updatedAt, and     *)
(* leaves alone what another device attached from a later edit.            *)
NeverBack ==
  [][\A r \in Row : shared[r] > 0 /\ shared'[r] > 0 /\ race' = {} => shared'[r] >= shared[r]]_vars
=============================================================================
