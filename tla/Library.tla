------------------------------ MODULE Library ------------------------------
(***************************************************************************)
(* The library one device shows: file rows grouped into version stacks,    *)
(* the folder tree, the trash, and the feed of changes SQLite's triggers   *)
(* number.  Every operation is one transaction, so it is an operator from  *)
(* a database to a database, written row by row because each row write     *)
(* takes its own number in the feed; an action applies it to db.           *)
(*                                                                         *)
(* A row's name and folder name its stack; its stackId is the identity the *)
(* OS shell is given.  A folder's path is a sequence of segments, and its  *)
(* parentId says the same once more.  Root stands for NULL and "".         *)
(***************************************************************************)
EXTENDS Integers, Sequences, SequencesExt

CONSTANTS
  Row,       \* ids of file rows
  Spare,     \* what uniqueId returns for a stack that cannot keep an id
  Dir,       \* ids of folders
  Name,      \* names a file is given (Restored makes others)
  Path,      \* paths a folder may have, with every prefix of each
  Fold(_),   \* a segment as LIKE compares it, which ignores the case of a to z
  Now,       \* the wall clock
  RemoteAt,  \* clocks other devices stamp
  RemotePath, \* folders other devices file into
  MaxWrites  \* bound on operations

Root == 0
Top == << >>
Depth == Max({Len(p) : p \in Path})
Seg == UNION {ToSet(p) : p \in Path}

ASSUME PathAssumption == \A p \in Path : Len(p) > 1 => Front(p) \in Path
ASSUME IdAssumption ==
  /\ Row \cup Spare \cup Dir \subseteq Nat \ {Root}
  /\ \A r \in Row, s \in Spare, d \in Dir : r < s /\ s < d

VARIABLES
  db,        \* the database: file, dir, left (the departures ledger), seq
  indexer,   \* the indexer in the settings
  owed,      \* the indexer before a change whose restamp is not done, or 0
  writes,    \* operations done
  race       \* named races that happened

vars == <<db, indexer, owed, writes, race>>

NoRow == [state |-> "none", name |-> 0, dir |-> Root, at |-> 0, stack |-> 0, current |-> FALSE,
          from |-> Top, when |-> 0, with |-> Top, on |-> {}, seq |-> 0]
NoDir == [path |-> Top, parent |-> Root, seq |-> 0]

-----------------------------------------------------------------------------
(* Reads.                                                                  *)

Live(d, r) == d.file[r].state = "live"
Visible(d, r) == Live(d, r) /\ d.file[r].current
Newer(d, a, b) ==
  \/ d.file[a].at > d.file[b].at
  \/ d.file[a].at = d.file[b].at /\ a > b
NewestFirst(d, rows) == SetToSortSeq(rows, LAMBDA a, b : Newer(d, a, b))
Group(d, r) == <<d.file[r].name, d.file[r].dir>>
Versions(d, g) == {r \in Row : Live(d, r) /\ Group(d, r) = g}
\* One above every clock a stack holds, so the new stamp is the newest anywhere.
Above(d, rows, n) == Max({Now} \cup {d.file[r].at + n : r \in rows})

Folders(d) == {x \in Dir : d.dir[x].path # Top}
DirAt(d, p) == IF p = Top THEN Root ELSE CHOOSE x \in Dir : d.dir[x].path = p
Has(d, p) == p = Top \/ \E x \in Dir : d.dir[x].path = p
PathOf(d, x) == IF x = Root THEN Top ELSE d.dir[x].path
Like(p, f) == Len(p) > Len(f) /\ \A i \in DOMAIN f : Fold(p[i]) = Fold(f[i])
Tree(d, f) == {x \in Folders(d) : d.dir[x].path = f \/ Like(d.dir[x].path, f)}
Inside(d, f) == {x \in Folders(d) : Len(d.dir[x].path) > Len(f) /\ IsPrefix(f, d.dir[x].path)}

-----------------------------------------------------------------------------
(* The triggers that number changes.  SQLite runs the last made first, so  *)
(* a departure's number is below that of the row that left.                *)

Departs(d, id, kind, parent, reason) ==
  [d EXCEPT !.seq = @ + 1,
            !.left = {e \in @ : <<e.id, e.parent>> # <<id, parent>>} \cup
                     {[id |-> id, kind |-> kind, parent |-> parent, reason |-> reason, seq |-> d.seq + 1]}]
Stamped(d, r) == [d EXCEPT !.seq = @ + 1, !.file[r].seq = d.seq + 1]
Shown(f) == <<f.name, f.dir, f.state, f.current, f.at>>

Left(d, r, old) ==
  IF d.file[r].dir = old.dir THEN d ELSE Departs(d, old.stack, "file", old.dir, "moved")
Told(d, r, old) == IF Shown(d.file[r]) = Shown(old) THEN d ELSE Stamped(d, r)
Put(d, r, f) == Told(Left([d EXCEPT !.file[r] = f], r, d.file[r]), r, d.file[r])

\* A new row joins the stack already at its name.
Insert(d, r, f) ==
  LET held == {c \in Versions(d, <<f.name, f.dir>>) : d.file[c].current}
  IN Stamped([d EXCEPT !.file[r] = [f EXCEPT !.stack =
       IF f.state = "live" /\ held # {} THEN d.file[NewestFirst(d, held)[1]].stack ELSE r]], r)

Carried(d, old) ==
  IF \E c \in Row : Live(d, c) /\ d.file[c].stack = old.stack THEN d
  ELSE Departs(d, old.stack, "file", old.dir, "deleted")
PutStack(d, r, s) == Carried(Stamped([d EXCEPT !.file[r].stack = s], r), d.file[r])

DirLeft(d, x, old) ==
  IF d.dir[x].parent = old.parent THEN d ELSE Departs(d, x, "dir", old.parent, "moved")
DirTold(d, x, old) ==
  IF d.dir[x].path = old.path THEN d ELSE [d EXCEPT !.seq = @ + 1, !.dir[x].seq = d.seq + 1]
PutDir(d, x, path, parent) ==
  DirTold(DirLeft([d EXCEPT !.dir[x].path = path, !.dir[x].parent = parent], x, d.dir[x]), x, d.dir[x])

\* The foreign key clears the folder of the rows still in it.
DropDir(d, x) ==
  Departs([FoldLeft(LAMBDA e, r : Put(e, r, [e.file[r] EXCEPT !.dir = Root]), d,
                    SetToSeq({r \in Row : d.file[r].dir = x}))
             EXCEPT !.dir[x] = NoDir],
          x, "dir", d.dir[x].parent, "deleted")
DropDirs(d, xs) == FoldLeft(DropDir, d, SetToSeq(xs))

-----------------------------------------------------------------------------
(* Stacks: their identity, then their current version.                     *)

UsedStacks(d) == {d.file[r].stack : r \in Row} \cup {e.id : e \in d.left}

Elsewhere(d, g, s) == {c \in Row : Live(d, c) /\ d.file[c].stack = s /\ Group(d, c) # g}
\* Whether a row may pass its id on to its stack, given the groups recalculated with it.
Keeps(d, gs, r) ==
  \A c \in Elsewhere(d, Group(d, r), d.file[r].stack) :
    IF Group(d, c) \in gs THEN Newer(d, r, c) ELSE ~d.file[c].current
\* The id of a stack of these rows, newest first: one it carries, its newest row's, or a new one.
Target(d, rows, kept, spare) ==
  CASE kept # << >> -> d.file[kept[1]].stack
    [] kept = << >> /\ Elsewhere(d, Group(d, rows[1]), rows[1]) = {} -> rows[1]
    [] OTHER -> spare
Identify(d, rows, target) ==
  FoldLeft(LAMBDA e, r : PutStack(e, r, target), d, SelectSeq(rows, LAMBDA r : d.file[r].stack # target))
AssignStackIds(d, gs) ==
  FoldLeft(LAMBDA e, rows :
             Identify(e, rows, Target(d, rows, SelectSeq(rows, LAMBDA r : Keeps(d, gs, r)),
                                      Min(Spare \ UsedStacks(e)))),
           d, SetToSeq({NewestFirst(d, Versions(d, g)) : g \in {h \in gs : Versions(d, h) # {}}}))

Elect(d, rows) ==
  FoldLeft(LAMBDA e, r : Put(e, r, [e.file[r] EXCEPT !.current =
             \A q \in Versions(d, Group(d, r)) : q = r \/ Newer(d, r, q)]),
           d, SetToSeq(rows))
Recalculate(d, gs) == Elect(AssignStackIds(d, gs), {r \in Row : Live(d, r) /\ Group(d, r) \in gs})

\* Rows in this order, each given its new fields, stamped one apart from base.
StampInOrder(d, rows, base, new) ==
  FoldLeft(LAMBDA e, i : Put(e, rows[i], [at |-> base - i + 1] @@ new[rows[i]] @@ e.file[rows[i]]),
           d, [i \in 1..Len(rows) |-> i])

-----------------------------------------------------------------------------
(* Folders.                                                                *)

\* An id is never used again: a folder that went left a departure.
NewDirs(d) == {x \in Dir \ Folders(d) : \A e \in d.left : e.id # x}
MakeDir(d, p) ==
  IF Has(d, p) THEN d
  ELSE [d EXCEPT !.seq = @ + 1,
                 !.dir[Min(NewDirs(d))] = [path |-> p, parent |-> DirAt(d, Front(p)), seq |-> d.seq + 1]]
\* Root to leaf, so a folder is numbered before what is in it.
EnsureAt(d, p) == FoldLeft(MakeDir, d, [n \in 1..Len(p) |-> SubSeq(p, 1, n)])
\* Whether a folder's tree may take a new path, within the model's paths.
Fits(d, x, path) ==
  \A y \in Tree(d, d.dir[x].path) :
    path \o SubSeq(d.dir[y].path, Len(d.dir[x].path) + 1, Len(d.dir[y].path)) \in Path
\* Whether the model's ids are enough for the folders and stacks an operation may make.
Room(d, p) ==
  /\ Cardinality({n \in 1..Len(p) : ~Has(d, SubSeq(p, 1, n))}) <= Cardinality(NewDirs(d))
  /\ Cardinality(Spare \ UsedStacks(d)) >= 2

Empty(d, x) ==
  /\ x \in Folders(d)
  /\ \A r \in Row : Visible(d, r) => d.file[r].dir # x
  /\ Inside(d, d.dir[x].path) = {}

\* The empty ones among xs, then their parents, up the tree.
DropLevel(d, going) ==
  [d |-> DropDirs(d, going),
   xs |-> {y \in Folders(d) : \E x \in going : Front(d.dir[x].path) = d.dir[y].path}]
DeleteEmpty(d, xs) ==
  FoldLeft(LAMBDA e, i : DropLevel(e.d, {x \in e.xs : Empty(e.d, x)}),
           [d |-> d, xs |-> xs], [i \in 1..Depth |-> i]).d

\* A folder and what is under it take a new path; then their files a new stamp.
Touched(d, rows) ==
  FoldLeft(LAMBDA e, r : Put(e, r, [e.file[r] EXCEPT !.at = Max({Now, @ + 1})]), d, SetToSeq(rows))
TouchTree(d, path) == Touched(d, {r \in Row : d.file[r].dir \in Tree(d, path)})
Rebase(d, x, path, parent, old) ==
  TouchTree(FoldLeft(LAMBDA e, y : PutDir(e, y, path \o SubSeq(e.dir[y].path, Len(old) + 1, Len(e.dir[y].path)),
                                          e.dir[y].parent),
                     PutDir(d, x, path, parent),
                     SetToSeq({y \in Folders(d) : Like(d.dir[y].path, old)})),
            path)

-----------------------------------------------------------------------------
(* Files.                                                                  *)

Added(d, r, n, x) ==
  Recalculate(Insert(d, r, [NoRow EXCEPT !.state = "live", !.name = n, !.dir = x, !.current = TRUE,
                                         !.at = Above(d, Versions(d, <<n, x>>), 1)]),
              {<<n, x>>})

\* renameAllFileVersions and moveAllFileVersions: the whole stack takes the new group.
Regrouped(d, g, to) ==
  Recalculate(StampInOrder(d, NewestFirst(d, Versions(d, g)),
                           Above(d, Versions(d, g), Cardinality(Versions(d, g))),
                           [r \in Row |-> [name |-> to[1], dir |-> to[2]]]),
              {to})

Trashed(d, rows, with) ==
  Recalculate(StampInOrder(d, NewestFirst(d, rows), Above(d, rows, Cardinality(rows)),
                [r \in rows |-> [state |-> "trashed", from |-> PathOf(d, d.file[r].dir),
                                 when |-> writes + 1, with |-> with, dir |-> Root]]),
              {Group(d, r) : r \in rows})
FoldersOf(d, rows) == {d.file[r].dir : r \in rows} \ {Root}

\* The rows of r's entry in the trash.
Entry(d, r) ==
  LET e == d.file[r]
  IN {q \in Row : LET f == d.file[q] IN
        /\ f.state = "trashed" /\ f.when = e.when /\ f.with = e.with
        /\ e.with = Top => f.name = e.name /\ f.from = e.from}

Restored(n, k) == IF k = 0 THEN n ELSE 10 * n + k

\* One stack back under the first of its names no other stack's live file has.
Taken(d, rows, n, x) ==
  \E c \in Versions(d, <<n, x>>) : \A r \in rows : d.file[c].stack # d.file[r].stack
Back(d, rows, order, head, x) ==
  LET free == Min({k \in 0..Cardinality(Row) : ~Taken(d, rows, Restored(head.name, k), x)})
  IN StampInOrder(d, order, head.at + Len(order),
       [r \in Row |-> [state |-> "live", from |-> Top, when |-> 0, with |-> Top, dir |-> x,
                       name |-> Restored(d.file[r].name, free)]])
StackRestored(d, rows, order) ==
  Back(d, rows, order, d.file[order[1]], DirAt(d, d.file[order[1]].from))

RestoreIn(d, rows) ==
  FoldLeft(LAMBDA e, stack : StackRestored(e, stack, NewestFirst(e, stack)), d,
           SetToSeq({{q \in rows : d.file[q].name = d.file[r].name /\ d.file[q].from = d.file[r].from} :
                       r \in rows}))
RecalculateOf(d, rows) == Recalculate(d, {Group(d, r) : r \in rows})
EntryRestored(d, rows) ==
  RecalculateOf(RestoreIn(FoldLeft(EnsureAt, d, SetToSeq({d.file[r].from : r \in rows})), rows), rows)

Deleted(d, rows) ==
  FoldLeft(LAMBDA e, r : Put(e, r, [e.file[r] EXCEPT !.state = "deleted", !.at = Now]), d, SetToSeq(rows))
Tombstoned(d, rows) ==
  DeleteEmpty(Recalculate(Deleted(d, rows), {Group(d, r) : r \in rows}), FoldersOf(d, rows))

\* An object arrives on, or leaves, an indexer: the file's badge may change.
HasObject(d, r, i) ==
  IF i \in d.file[r].on THEN d ELSE Stamped([d EXCEPT !.file[r].on = @ \cup {i}], r)
NoObject(d, r, i) ==
  IF i \in d.file[r].on THEN Stamped([d EXCEPT !.file[r].on = @ \ {i}], r) ELSE d

-----------------------------------------------------------------------------
(* The operations.                                                         *)

Does(d) ==
  /\ writes < MaxWrites
  /\ writes' = writes + 1
  /\ db' = d
  /\ UNCHANGED <<indexer, owed, race>>

Create == \E r \in Row, n \in Name, x \in Folders(db) \cup {Root} :
  /\ db.file[r].state = "none" /\ \A q \in Row : q < r => db.file[q].state # "none"
  /\ Room(db, Top)
  /\ Does(Added(db, r, n, x))

RenameFile == \E r \in Row, n \in Name :
  /\ Visible(db, r) /\ n # db.file[r].name /\ Room(db, Top)
  /\ Does(Regrouped(db, Group(db, r), <<n, db.file[r].dir>>))

MoveFile == \E r \in Row, x \in Folders(db) \cup {Root} :
  /\ Visible(db, r) /\ Room(db, Top)
  /\ Does(Regrouped(db, Group(db, r), <<db.file[r].name, x>>))

TrashFile == \E r \in Row, keepFolder \in BOOLEAN :
  LET rows == Versions(db, Group(db, r))
  IN /\ Visible(db, r) /\ Room(db, Top)
     /\ Does(DeleteEmpty(Trashed(db, rows, Top), IF keepFolder THEN {} ELSE FoldersOf(db, rows)))

TombstoneFile == \E r \in Row :
  /\ Visible(db, r) /\ Room(db, Top)
  /\ Does(Tombstoned(db, Versions(db, Group(db, r))))

RestoreEntry == \E r \in Row :
  /\ db.file[r].state = "trashed"
  /\ \A q \in Entry(db, r) : Room(db, db.file[q].from)
  /\ Does(EntryRestored(db, Entry(db, r)))

CreateDir == \E p \in Path :
  /\ ~Has(db, p) /\ Room(db, p)
  /\ Does(EnsureAt(db, p))

RenameDir == \E x \in Folders(db), s \in Seg :
  LET path == Front(db.dir[x].path) \o <<s>>
  IN /\ Has(db, path) => DirAt(db, path) = x
     /\ Room(db, Top) /\ Fits(db, x, path)
     /\ Does(Rebase(db, x, path, db.dir[x].parent, db.dir[x].path))

MovedDir(d, x, p, path) == Rebase(d, x, path, DirAt(d, p), d.dir[x].path)
MoveDir == \E x \in Folders(db), p \in Path \cup {Top} :
  LET path == p \o <<Last(db.dir[x].path)>>
  IN /\ ~IsPrefix(db.dir[x].path, p)
     /\ Has(db, path) => DirAt(db, path) = x
     /\ Room(db, p) /\ Fits(db, x, path)
     /\ Does(MovedDir(EnsureAt(db, p), x, p, path))

DeleteDir == \E x \in Folders(db) :
  LET tree == Tree(db, db.dir[x].path)
  IN /\ \A r \in Row : db.file[r].state \in {"live", "trashed"} => db.file[r].dir \notin tree
     /\ Does(DropDirs(db, tree))

DeleteDirAndTrash == \E x \in Folders(db), keepParent \in BOOLEAN :
  LET tree == Tree(db, db.dir[x].path)
      rows == {r \in Row : Live(db, r) /\ db.file[r].dir \in tree}
  IN /\ Room(db, Top)
     /\ Does(DeleteEmpty(DropDirs(Trashed(db, rows, db.dir[x].path), tree),
                         IF keepParent THEN {} ELSE {db.dir[x].parent} \ {Root}))

\* Sync-down's transaction for a newer version of a row: its folders, the row, its object, where it is
\* filed, the stacks it joined and left, and the folder it left.
Upserted(d, r, n, at, state, x) ==
  IF d.file[r].state = "none"
  THEN Insert(d, r, [NoRow EXCEPT !.state = state, !.name = n, !.at = at, !.dir = x, !.current = TRUE])
  ELSE Put(d, r, [d.file[r] EXCEPT !.state = state, !.name = n, !.at = at])
Filed(d, r, x, from, when) ==
  Put(d, r, [d.file[r] EXCEPT !.dir = x, !.with = Top, !.when = when, !.from = from])
Ingested(d, r, n, at, state, p, to) ==
  Filed(HasObject(Upserted(d, r, n, at, state, DirAt(d, to)), r, indexer), r, DirAt(d, to),
        IF state = "live" THEN Top ELSE p, IF state = "live" THEN 0 ELSE writes + 1)
\* Mutant of Regroup: the group the row's old name left is not recalculated.
RegroupForward(d, r, old) == Recalculate(d, {Group(d, r)})

\* The group it is in, then the one its folder changed from, then the one its name changed from.
Regroup(d, r, old) ==
  IF old.state = "none" THEN Recalculate(d, {Group(d, r)})
  ELSE Recalculate(Recalculate(Recalculate(d, {Group(d, r)}), {<<d.file[r].name, old.dir>>}),
                   {<<old.name, old.dir>>})

RemoteChange == \E r \in Row, n \in Name, p \in RemotePath, at \in RemoteAt, state \in {"live", "trashed"} :
  LET to == IF state = "live" THEN p ELSE Top
      old == db.file[r]
      did == Regroup(Ingested(EnsureAt(db, to), r, n, at, state, p, to), r, old)
  IN /\ old.state = "none" => \A q \in Row : q < r => db.file[q].state # "none"
     /\ old.state # "deleted" /\ at > old.at
     /\ Room(db, to)
     /\ Does(DeleteEmpty(did, IF PathOf(db, old.dir) = to THEN {} ELSE {old.dir} \ {Root}))

RemoteDelete == \E r \in Row :
  /\ db.file[r].state \in {"live", "trashed"} /\ Room(db, Top)
  /\ Does(DeleteEmpty(Recalculate(Deleted(NoObject(db, r, indexer), {r}), {Group(db, r)}),
                      {db.file[r].dir} \ {Root}))

Uploaded == \E r \in Row :
  /\ Visible(db, r) /\ indexer \notin db.file[r].on
  /\ Does(HasObject(db, r, indexer))

-----------------------------------------------------------------------------
(* Switching indexers: the setting is stored, then every row is stamped.   *)

SetIndexerURL ==
  /\ owed = 0 /\ writes < MaxWrites
  /\ owed' = indexer /\ indexer' = 3 - indexer
  /\ writes' = writes + 1
  /\ UNCHANGED <<db, race>>

RestampAll ==
  /\ owed # 0
  /\ db' = [db EXCEPT !.seq = @ + 1,
                      !.file = [r \in Row |-> IF @[r].state = "none" THEN @[r]
                                              ELSE [@[r] EXCEPT !.seq = db.seq + 1]]]
  /\ owed' = 0
  /\ UNCHANGED <<indexer, writes, race>>

\* The stamp fails and the setting goes back; or the process dies before it.
RestampFails ==
  /\ owed # 0
  /\ indexer' = owed /\ owed' = 0
  /\ race' = race \cup {"putBack"}
  /\ UNCHANGED <<db, writes>>
RestampLost ==
  /\ owed # 0
  /\ owed' = 0
  /\ race' = race \cup {"unstamped"}
  /\ UNCHANGED <<db, indexer, writes>>

-----------------------------------------------------------------------------
Blank == [file |-> [r \in Row |-> NoRow], dir |-> [x \in Dir |-> NoDir], left |-> {}, seq |-> 0]

Write ==
  \/ Create \/ RenameFile \/ MoveFile \/ TrashFile \/ TombstoneFile \/ RestoreEntry
  \/ CreateDir \/ RenameDir \/ MoveDir \/ DeleteDir \/ DeleteDirAndTrash
  \/ RemoteChange \/ RemoteDelete \/ Uploaded
  \/ SetIndexerURL \/ RestampAll \/ RestampFails \/ RestampLost
=============================================================================
