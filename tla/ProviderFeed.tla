---------------------------- MODULE ProviderFeed ----------------------------
(***************************************************************************)
(* The OS shell follows the library through the provider namespace: it     *)
(* lists one scope page by page (the working set, the top, or a folder)    *)
(* and then asks for the changes since its anchor, a position in the feed. *)
(* Each call is a few reads with awaits between them, and writes commit at *)
(* every await; only the reads of one Promise.all see one database.        *)
(*                                                                         *)
(* The OS keeps what it is given: it takes a page's items, then its        *)
(* deletions, and drops an item under a folder it has not met.             *)
(***************************************************************************)
EXTENDS Library

CONSTANTS
  PageSize,  \* entries of a page
  Scopes     \* what may be followed: Everything, Root, a folder

Everything == -1
PastAllIds == 1000
Start == <<0, 0>>

VARIABLES
  scope,   \* the scope followed
  phase,   \* "dirs" and "files" of the listing, "changes", or "gone"
  cursor,  \* the position the next call asks from
  started, \* the feed's number when the listing began, or -1
  call,    \* the call in flight
  view,    \* the items the OS holds
  repathed \* history, a named race: a call read another folder than the scope

follower == <<scope, phase, cursor, started, call, view, repathed>>
allVars == <<vars, follower>>

Idle == [step |-> "none", path |-> Top, dir |-> Root, high |-> 0, files |-> {}, dirs |-> {},
         gone |-> {}, left |-> {}, drop |-> {}, next |-> Start]

-----------------------------------------------------------------------------
(* Items.                                                                  *)

FileItem(f, on) ==
  [id |-> f.stack, parent |-> f.dir, name |-> f.name, at |-> f.at, row |-> f.id, uploaded |-> on]
DirItem(d, x) ==
  [id |-> x, parent |-> d.dir[x].parent, name |-> Last(d.dir[x].path), at |-> 0, row |-> 0, uploaded |-> TRUE]
\* A row as a read returns it.
Read(r) == [id |-> r, stack |-> db.file[r].stack, name |-> db.file[r].name, dir |-> db.file[r].dir,
            at |-> db.file[r].at, seq |-> db.file[r].seq]
ReadDir(x) == [id |-> x, path |-> db.dir[x].path, item |-> DirItem(db, x)]
\* What a folder's own reads return carries the folder that was asked for.
Child(x) == [ReadDir(x) EXCEPT !.item.parent = IF scope = Everything THEN @ ELSE scope]
IsUploaded(r) == indexer \in db.file[r].on

Met(v, x) == x = Root \/ \E i \in v : i.id = x
\* A scope's enumerator speaks for the items in it; one it hands elsewhere has left.
Take(v, i) ==
  LET others == {j \in v : j.id # i.id}
  IN IF scope = Everything THEN IF Met(v, i.parent) THEN others \cup {i} ELSE v
     ELSE IF i.parent = scope THEN others \cup {i} ELSE others
Forget(v, ids) ==
  FoldLeft(LAMBDA w, n : LET lost == {j.id : j \in v \ w}
                         IN {j \in w : j.id \notin ids /\ j.parent \notin lost \cup ids},
           v, [n \in 1..Depth |-> n])
\* Folders in path order, a parent before its own, then files.
Shows(files, dirs, drop) ==
  LET before(a, b) == Len(a.path) < Len(b.path)
      inDirs == FoldLeft(LAMBDA v, x : Take(v, x.item), view, SetToSortSeq(dirs, before))
      inFiles == FoldLeft(LAMBDA v, f : Take(v, FileItem(f, IsUploaded(f.id))), inDirs, SetToSeq(files))
  IN Forget(inFiles, drop)

-----------------------------------------------------------------------------
(* Pages: entries past a position, in the feed's order, cut at a size.     *)

Cut(entries, after, size) ==
  LET below(a, b) == a.seq < b.seq \/ (a.seq = b.seq /\ a.id < b.id)
      past == {e \in entries : below([seq |-> after[1], id |-> after[2]], e)}
      first == {e \in past : Cardinality({p \in past : below(p, e)}) < size}
  IN SetToSortSeq(first, below)
Position(page) == <<Last(page).seq, Last(page).id>>
FileRows(x) == {r \in Row : db.file[r].state # "none" /\ (x = Everything \/ db.file[r].dir = x)}
Numbered(kind, id, seq) == [kind |-> kind, id |-> id, seq |-> seq]

\* What the feed holds of the whole library, or of the folder x.
Entries(x) ==
  LET files == {Numbered("file", r, db.file[r].seq) : r \in FileRows(x)}
      dirs == {Numbered("dir", y, db.dir[y].seq) :
                 y \in {z \in Folders(db) : x \in {Everything, db.dir[z].parent}}}
      left == {Numbered(e.kind \o "Left", e.id, e.seq) :
                 e \in {l \in db.left : IF x = Everything THEN l.reason = "deleted" ELSE l.parent = x}}
  IN files \cup dirs \cup left

Of(page, kind) == {page[i].id : i \in {j \in DOMAIN page : page[j].kind = kind}}

-----------------------------------------------------------------------------
(* A folder is asked for by its id, which every call turns into the path    *)
(* it has and then into the id that has the path, over two awaits.         *)

\* A call starts from the position it carries; changes has read the feed's number first.
Asked == call.step = IF phase = "changes" THEN "meta" ELSE "none"
\* The whole library and its top are not looked up: their reads start where a folder's look-up ends.
Fixed == scope \in {Everything, Root}
Scoped == IF Fixed THEN Asked /\ started # -1 ELSE call.step = "scoped"

FolderPath ==
  /\ Asked /\ scope \in Folders(db) /\ phase # "gone"
  /\ call' = [call EXCEPT !.step = "path", !.path = db.dir[scope].path]
  /\ UNCHANGED <<scope, phase, cursor, started, view, repathed>>

\* The first call of a listing notes the feed's number: before it reads anything, but for a
\* folder between the path and the id.
Began ==
  /\ phase = "dirs" /\ started = -1
  /\ call.step = IF Fixed THEN "none" ELSE "path"
  /\ started' = db.seq
  /\ UNCHANGED <<scope, phase, cursor, call, view, repathed>>

DirIdFor ==
  LET dir == DirAt(db, call.path)
  IN /\ call.step = "path" /\ started # -1 /\ Has(db, call.path)
     /\ call' = [call EXCEPT !.step = "scoped", !.dir = dir]
     /\ repathed' = (repathed \/ dir # scope)
     /\ UNCHANGED <<scope, phase, cursor, started, view>>

\* The folder is gone, or has another path by now.
NotThere ==
  \/ Asked /\ ~Fixed /\ scope \notin Folders(db)
  \/ call.step = "path" /\ started # -1 /\ ~Has(db, call.path)

\* A listing reads as empty, with no anchor to follow.
ListGone ==
  /\ NotThere /\ phase \in {"dirs", "files"}
  /\ phase' = "gone" /\ call' = Idle
  /\ UNCHANGED <<scope, cursor, started, view, repathed>>

\* Changes answer with the anchor they were given.
NoFolder ==
  /\ NotThere /\ phase = "changes"
  /\ call' = Idle
  /\ UNCHANGED <<scope, phase, cursor, started, view, repathed>>

-----------------------------------------------------------------------------
(* Listing: the whole library's folders by path, then its files by the     *)
(* feed; a folder's subfolders by name, then its files by name.            *)

ListDirs ==
  LET below(a, b) == \/ Len(a) < Len(b) /\ SubSeq(b, 1, Len(a)) = a
                     \/ \E i \in DOMAIN a \cap DOMAIN b : a[i] < b[i] /\ \A j \in 1..(i - 1) : a[j] = b[j]
      order == SetToSortSeq({x \in Folders(db) : below(cursor, db.dir[x].path)},
                            LAMBDA a, b : below(db.dir[a].path, db.dir[b].path))
      page == SubSeq(order, 1, Min({PageSize, Len(order)}))
  IN /\ scope = Everything /\ Scoped /\ phase = "dirs"
     /\ view' = Shows({}, {Child(x) : x \in ToSet(page)}, {})
     /\ IF Len(page) = PageSize
        THEN phase' = "dirs" /\ cursor' = db.dir[Last(page)].path
        ELSE phase' = "files" /\ cursor' = Start
     /\ UNCHANGED <<scope, started, call, repathed>>

\* A page that is not full of subfolders goes on with the first files.
ListChildren ==
  LET children == {Numbered("dir", x, Last(db.dir[x].path)) :
                     x \in {y \in Folders(db) : db.dir[y].parent = call.dir}}
      page == Cut(children, cursor, PageSize)
      dirs == {Child(x) : x \in Of(page, "dir")}
  IN /\ scope # Everything /\ Scoped /\ phase = "dirs"
     /\ IF Len(page) = PageSize
        THEN view' = Shows({}, dirs, {}) /\ cursor' = Position(page) /\ call' = Idle
        ELSE call' = [call EXCEPT !.step = "children", !.dirs = dirs] /\ UNCHANGED <<view, cursor>>
     /\ UNCHANGED <<scope, phase, started, repathed>>

\* The rows are read; what their badges show is read after.
Files(page, size, items) ==
  /\ call' = [call EXCEPT !.step = IF page # << >> /\ Len(page) = size THEN "listed" ELSE "lastListed",
                          !.files = items,
                          !.next = IF page = << >> THEN cursor ELSE Position(page)]
  /\ UNCHANGED <<scope, phase, cursor, started, view, repathed>>

ListFiles ==
  LET rows == {Numbered("file", r, db.file[r].seq) : r \in FileRows(Everything)}
      page == Cut(rows, cursor, PageSize)
  IN /\ scope = Everything /\ Scoped /\ phase = "files"
     /\ Files(page, PageSize, {Read(r) : r \in {q \in Of(page, "file") : Visible(db, q)}})

ListFolderFiles ==
  LET rows == {Numbered("file", r, db.file[r].name) :
                 r \in {q \in FileRows(call.dir) : Visible(db, q)}}
      size == PageSize - Cardinality(call.dirs)
      page == Cut(rows, IF phase = "dirs" THEN Start ELSE cursor, size)
  IN /\ scope # Everything
     /\ call.step = "children" \/ (Scoped /\ phase = "files")
     /\ Files(page, size, {[Read(r) EXCEPT !.dir = scope] : r \in Of(page, "file")})

\* Mutant of Listed: the anchor is the feed's number when the listing ended.
ListedLate ==
  /\ call.step \in {"listed", "lastListed"}
  /\ view' = Shows(call.files, call.dirs, {})
  /\ IF call.step = "listed" THEN phase' = "files" /\ cursor' = call.next
     ELSE phase' = "changes" /\ cursor' = <<db.seq, PastAllIds>>
  /\ call' = Idle
  /\ UNCHANGED <<scope, started, repathed>>

\* The last page hands over the number the listing began at.
Listed ==
  /\ call.step \in {"listed", "lastListed"}
  /\ view' = Shows(call.files, call.dirs, {})
  /\ IF call.step = "listed" THEN phase' = "files" /\ cursor' = call.next
     ELSE phase' = "changes" /\ cursor' = <<started, PastAllIds>>
  /\ call' = Idle
  /\ UNCHANGED <<scope, started, repathed>>

-----------------------------------------------------------------------------
(* Changes.                                                                *)

\* The feed's number is read before the window, so an empty window reached it.
HighWater ==
  /\ call.step = "none" /\ phase = "changes"
  /\ call' = [Idle EXCEPT !.step = "meta", !.high = db.seq]
  /\ UNCHANGED <<scope, phase, cursor, started, view, repathed>>

Window ==
  LET page == Cut(Entries(IF scope = Everything THEN scope ELSE call.dir), cursor, PageSize)
      rows == Of(page, "file")
      shown == {r \in rows : Visible(db, r)}
  IN /\ Scoped /\ phase = "changes"
     /\ call' = [call EXCEPT
          !.step = "window",
          !.files = {Read(r) : r \in shown},
          !.dirs = {Child(x) : x \in Of(page, "dir")},
          !.gone = ({db.file[r].stack : r \in rows \ shown} \cup Of(page, "fileLeft"))
                     \ {db.file[r].stack : r \in shown},
          !.left = Of(page, "dirLeft") \ Of(page, "dir"),
          !.next = IF page = << >> THEN <<call.high, PastAllIds>> ELSE Position(page)]
     /\ UNCHANGED <<scope, phase, cursor, started, view, repathed>>

\* An id that left is the file that carries it now, or a deletion.
ResolveGone ==
  LET carried == {r \in Row : Visible(db, r) /\ db.file[r].stack \in call.gone}
      newest == {r \in carried : \A q \in carried :
                   db.file[q].stack = db.file[r].stack => q = r \/ Newer(db, r, q)}
  IN /\ call.step = "window"
     /\ call' = [call EXCEPT
          !.step = "files",
          !.files = @ \cup {Read(r) : r \in newest},
          !.drop = call.gone \ {db.file[r].stack : r \in newest}]
     /\ UNCHANGED <<scope, phase, cursor, started, view, repathed>>

\* A folder that left is where it is now, or a deletion; of the whole library only deletions are read.
ResolveDirs ==
  LET kept == IF scope = Everything THEN {} ELSE call.left \cap Folders(db)
  IN /\ call.step = "files"
     /\ call' = [call EXCEPT
          !.step = "resolved",
          !.dirs = @ \cup {ReadDir(x) : x \in kept},
          !.drop = @ \cup (call.left \ kept)]
     /\ UNCHANGED <<scope, phase, cursor, started, view, repathed>>

Deliver ==
  /\ call.step = "resolved"
  /\ view' = Shows(call.files, call.dirs, call.drop)
  /\ cursor' = call.next /\ call' = Idle
  /\ UNCHANGED <<scope, phase, started, repathed>>

-----------------------------------------------------------------------------
Follow ==
  \/ FolderPath \/ Began \/ DirIdFor \/ ListGone \/ NoFolder
  \/ ListDirs \/ ListChildren \/ ListFiles \/ ListFolderFiles \/ Listed
  \/ HighWater \/ Window \/ ResolveGone \/ ResolveDirs \/ Deliver

\* A file in a folder in a folder, and one in the trash whose name it took.
Nested == EnsureAt(Blank, <<1, 2>>)
WithFile(d, r) == Added(d, r, 1, DirAt(d, <<1, 2>>))
Filled == WithFile(Trashed(WithFile(Nested, 1), {1}, Top), 2)

Init ==
  /\ writes = 0 /\ db = Filled /\ indexer = 1 /\ owed = 0 /\ race = {}
  /\ scope \in Scopes /\ phase = "dirs" /\ started = -1
  /\ cursor = IF scope = Everything THEN Top ELSE Start
  /\ call = Idle /\ view = {} /\ repathed = FALSE

Next == (Write /\ UNCHANGED follower) \/ (Follow /\ UNCHANGED vars)
Spec == Init /\ [][Next]_allVars

-----------------------------------------------------------------------------
(* Properties.                                                             *)

\* What the library says twice agrees: a name has one current version and one identity, an
\* identity is one visible file, a folder's parent is the folder its path names, and the feed
\* numbers a folder before everything shown in it.
LibraryAgrees ==
  /\ \A r \in Row : Live(db, r) =>
       LET stack == Versions(db, Group(db, r))
       IN /\ Cardinality({q \in stack : db.file[q].current}) = 1
          /\ \A q \in stack : db.file[q].stack = db.file[r].stack
  /\ \A r, q \in Row : Visible(db, r) /\ Visible(db, q) /\ r # q => db.file[r].stack # db.file[q].stack
  /\ \A x \in Folders(db) :
       LET up == db.dir[x].parent
       IN PathOf(db, up) = Front(db.dir[x].path) /\ (up # Root => db.dir[up].seq < db.dir[x].seq)
  /\ \A r \in Row : Visible(db, r) /\ db.file[r].dir # Root =>
       db.dir[db.file[r].dir].seq < db.file[r].seq

InScope(i) == scope \in {Everything, i.parent}
Expected ==
  {i \in {FileItem(Read(r), IsUploaded(r)) : r \in {q \in Row : Visible(db, q)}}
       \cup {DirItem(db, x) : x \in Folders(db)} : InScope(i)}

\* A shell past whose anchor nothing is left in the feed shows its scope as the library has it:
\* nothing missed, kept or shown stale, whatever committed between the reads of its calls.  The
\* badge is stale where the indexer was changed and no stamp followed; and a call that read another
\* folder, which took the scope's path between its two look-ups, may have passed what it missed.
CaughtUp ==
  (/\ phase = "changes" /\ call.step = "none" /\ owed = 0 /\ race = {} /\ ~repathed
   /\ (Fixed \/ scope \in Folders(db)) /\ Cut(Entries(scope), cursor, 1) = << >>)
  => view = Expected
=============================================================================
