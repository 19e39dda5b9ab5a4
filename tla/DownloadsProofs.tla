--------------------------- MODULE DownloadsProofs ---------------------------
(***************************************************************************)
(* For any ids, sizes, slots, runs and calls: the entries of an id lead to *)
(* its download under way, what downloads promise each other fits, the     *)
(* pool's room is used, and the user's downloads go first.                 *)
(*                                                                         *)
(* Reachable is not inductive alone: that a new run takes the entries of   *)
(* no other rests on its number being new, and the runs are numbered as    *)
(* they start (Numbered).  The pool, the lock, the probe and the bytes     *)
(* play no part in it: whatever they make a run wait for, it ends with its *)
(* own entries or is the one whose entries were taken by a cancel.         *)
(*                                                                         *)
(* PromisedFits rests on it: a run's size stays counted from before its    *)
(* check until it ends (Promises), for who takes an id's size back is the  *)
(* run its entries lead to, or the cancel that aborts that run.  The sums  *)
(* are folds over sets; what is needed of them is shown by a least set of  *)
(* which it fails.                                                         *)
(*                                                                         *)
(* RoomIsUsed and UserFirst are reached together (Rests).  That no waiter  *)
(* fits (Settled) is kept by every operation of the pool, for a queue in   *)
(* which a run waits once (Once) and holders that do not wait (Apart):     *)
(* serving it is a fold whose stages are compared with the queue it        *)
(* leaves.  UserFirst also needs what is known of a file when its run      *)
(* calls for a slot (Led, Ranked), that a waiter in the background is no   *)
(* one's whom the user asked for (Queued), and that the entry of one who   *)
(* was asked for is never dropped (Awaited).                               *)
(***************************************************************************)
EXTENDS Downloads, FiniteSetTheorems, SequenceTheorems, WellFoundedInduction, TLAPS

\* What the provers may take over a leaf that names none.
USE SMTT(30), ZenonT(30), SMTT(60)

\* A run's record.  What its free holds is not told: it is a sum over a set of sizes.
IsRow(q) == q = [id |-> q.id, pc |-> q.pc, aborted |-> q.aborted, asked |-> q.asked, free |-> q.free]

\* The entries of each id name a run or none, and a run under way has an id.
Entries ==
  /\ controllers \in [Id -> {0} \union RunId] /\ inFlight \in [Id -> {0} \union RunId]
  /\ run = [r \in RunId |-> run[r]] /\ \A r \in RunId : IsRow(run[r])
  /\ \A r \in RunId : run[r].pc \notin {"none", "over"} => run[r].id \in Id

\* The runs started are the first ones.
Numbered == \E n \in 0 .. MaxRuns : Started = 1 .. n

\* What Reachable rests on, and itself.
Inv == Entries /\ Numbered /\ Reachable

\* No run has the number that stands for none.
LEMMA Ids == Id = File \union Share /\ MaxRuns \in Nat /\ RunId = 1 .. MaxRuns /\ 0 \notin RunId
             /\ RunId \subseteq Nat
  BY DownloadsAssumption DEF Id, RunId

-----------------------------------------------------------------------------
(* What an action does to the runs and to the entries of the ids.          *)

\* No run starts, and none that was over or cancelled goes on.
RunsGoOn ==
  /\ run' = [r \in RunId |-> run'[r]] /\ \A r \in RunId : IsRow(run'[r])
  /\ \A r \in RunId : /\ run'[r].pc = "none" <=> run[r].pc = "none"
                      /\ Live(r)' => Live(r)
                      /\ run'[r].pc \notin {"none", "over"} =>
                           run'[r].id = run[r].id /\ run[r].pc \notin {"none", "over"}

Onward == RunsGoOn /\ controllers' = controllers /\ inFlight' = inFlight /\ hazard \subseteq hazard'

\* A run is over and clears the entries of its id, if they are its own or race is the crossed one.
Closes(r) ==
  /\ RunsGoOn /\ run'[r].pc = "over"
  /\ \E c, u \in BOOLEAN :
       /\ controllers' = [controllers EXCEPT ![run[r].id] = IF c THEN 0 ELSE @]
       /\ inFlight' = [inFlight EXCEPT ![run[r].id] = IF u THEN 0 ELSE @]
       /\ \/ (c \/ u) => controllers[run[r].id] = r
          \/ inFlight[run[r].id] \in {0, r}
          \/ "crossed" \in hazard'
  /\ hazard \subseteq hazard'

\* Ids lose their entries, and the runs those led to are aborted.
Cancels(ids) ==
  /\ RunsGoOn
  /\ controllers' = [i \in Id |-> IF i \in ids THEN 0 ELSE controllers[i]]
  /\ inFlight' = [i \in Id |-> IF i \in ids THEN 0 ELSE inFlight[i]]
  /\ \A r \in RunId : Live(r)' => \A i \in ids : controllers[i] # r
  /\ hazard' = hazard

\* A new run takes the entries of an id that had none.
Enters(r, i) ==
  /\ inFlight[i] = 0 /\ r = Cardinality(Started) + 1 /\ r \in RunId
  /\ run' = [run EXCEPT ![r] = run'[r]] /\ IsRow(run'[r])
  /\ run'[r].id = i /\ run'[r].pc = "start"
  /\ controllers' = [controllers EXCEPT ![i] = r] /\ inFlight' = [inFlight EXCEPT ![i] = r]
  /\ hazard' = hazard

-----------------------------------------------------------------------------
(* Each keeps the invariant.                                               *)

\* Where no run starts the runs are numbered as before, and each under way has its id.
LEMMA NumbersStay ==
  ASSUME Entries, Numbered, RunsGoOn
  PROVE  /\ Numbered' /\ Started' = Started
         /\ \A r \in RunId : run'[r].pc \notin {"none", "over"} => run'[r].id \in Id
<1>1. Started' = Started  BY DEF Started, RunsGoOn
<1>2. Numbered'  BY <1>1 DEF Numbered
<1> QED  BY <1>1, <1>2 DEF RunsGoOn, Entries

\* Runs that go on with the entries untouched leave each entry leading where it did.
LEMMA OnwardKeeps == Inv /\ Onward => Inv'
<1> SUFFICES ASSUME Inv, Onward PROVE Inv'  OBVIOUS
<1>1. Entries /\ Numbered /\ RunsGoOn  BY DEF Inv, Onward
<1>2. Numbered' /\ Started' = Started  BY <1>1, NumbersStay
<1>3. Entries'  BY <1>1, NumbersStay DEF Onward, RunsGoOn, Entries
<1>4. Reachable'
  <2>1. hazard' \cap {"crossed"} = {} => hazard \cap {"crossed"} = {}  BY DEF Onward
  <2>2. \A r \in Started : Live(r)' => run'[r].id = run[r].id /\ Live(r)
    BY DEF Onward, RunsGoOn, Started, Live
  <2> QED  BY <1>2, <2>1, <2>2 DEF Reachable, Inv, Onward
<1> QED  BY <1>2, <1>3, <1>4 DEF Inv

\* A run's end takes no entries but its own, or the race crossed is told.
LEMMA ClosesKeeps ==
  ASSUME Inv, NEW r \in RunId, run[r].id \in Id, Closes(r)
  PROVE  Inv'
<1>1. Entries /\ Numbered /\ RunsGoOn  BY DEF Inv, Closes
<1>2. Numbered' /\ Started' = Started  BY <1>1, NumbersStay
<1>3. PICK c \in BOOLEAN, u \in BOOLEAN :
        /\ controllers' = [controllers EXCEPT ![run[r].id] = IF c THEN 0 ELSE @]
        /\ inFlight' = [inFlight EXCEPT ![run[r].id] = IF u THEN 0 ELSE @]
        /\ \/ (c \/ u) => controllers[run[r].id] = r
           \/ inFlight[run[r].id] \in {0, r}
           \/ "crossed" \in hazard'
  BY DEF Closes
<1>4. Entries'
  <2>1. controllers' \in [Id -> {0} \union RunId] /\ inFlight' \in [Id -> {0} \union RunId]
    BY <1>1, <1>3 DEF Entries
  <2> QED  BY <2>1, <1>1, NumbersStay DEF RunsGoOn, Entries
<1>5. Reachable'
  <2> SUFFICES ASSUME hazard' \cap {"crossed"} = {}, NEW q \in RunId, q \in Started, Live(q)'
               PROVE  controllers'[run'[q].id] = q /\ inFlight'[run'[q].id] = q
    BY <1>2 DEF Reachable, Started
  <2>1. Live(q) /\ run'[q].id = run[q].id /\ q # r /\ run[q].id \in Id
    BY <1>1 DEF Closes, RunsGoOn, Live, Entries
  <2>2. controllers[run[q].id] = q /\ inFlight[run[q].id] = q
    BY <2>1 DEF Inv, Reachable, Closes
  <2>3. 0 # q  BY Ids
  <2> QED  BY <1>1, <1>3, <2>1, <2>2, <2>3 DEF Entries
<1> QED  BY <1>2, <1>4, <1>5 DEF Inv

\* A cancel takes the entries of a run it aborts.
LEMMA CancelsKeeps ==
  ASSUME Inv, NEW ids \in SUBSET Id, Cancels(ids)
  PROVE  Inv'
<1>1. Entries /\ Numbered /\ RunsGoOn  BY DEF Inv, Cancels
<1>2. Numbered' /\ Started' = Started  BY <1>1, NumbersStay
<1>3. Entries'
  <2>1. controllers' \in [Id -> {0} \union RunId] /\ inFlight' \in [Id -> {0} \union RunId]
    BY <1>1 DEF Cancels, Entries
  <2> QED  BY <2>1, <1>1, NumbersStay DEF RunsGoOn, Entries
<1>4. Reachable'
  <2> SUFFICES ASSUME hazard' \cap {"crossed"} = {}, NEW q \in RunId, q \in Started, Live(q)'
               PROVE  controllers'[run'[q].id] = q /\ inFlight'[run'[q].id] = q
    BY <1>2 DEF Reachable, Started
  <2>1. Live(q) /\ run'[q].id = run[q].id /\ run[q].id \in Id
    BY <1>1 DEF RunsGoOn, Live, Entries
  <2>2. controllers[run[q].id] = q /\ inFlight[run[q].id] = q
    BY <2>1 DEF Inv, Reachable, Cancels
  <2>3. run[q].id \notin ids  BY <2>2 DEF Cancels
  <2> QED  BY <2>1, <2>2, <2>3 DEF Cancels
<1> QED  BY <1>2, <1>3, <1>4 DEF Inv

\* A new run's number is new, so no other id leads to it and it takes no entries away.
LEMMA EntersKeeps ==
  ASSUME Inv, NEW r, NEW i \in Id, Enters(r, i)
  PROVE  Inv'
<1>1. Entries /\ Numbered  BY DEF Inv
<1>2. r \in RunId /\ IsRow(run'[r]) /\ run'[r].id = i /\ run'[r].pc = "start"
      /\ run' = [q \in RunId |-> IF q = r THEN run'[r] ELSE run[q]]
  <2>1. run = [q \in RunId |-> run[q]]  BY <1>1 DEF Entries
  <2>2. run' = [run EXCEPT ![r] = run'[r]] /\ r \in RunId  BY DEF Enters
  <2> QED  BY <2>1, <2>2 DEF Enters
<1>3. PICK n \in 0 .. MaxRuns : Started = 1 .. n  BY <1>1 DEF Numbered
<1>4. Cardinality(Started) = n /\ r = n + 1 /\ r \notin Started
  <2>1. Cardinality(1 .. n) = n  BY <1>3, FS_Interval
  <2> QED  BY <1>3, <2>1 DEF Enters
<1>5. Started' = Started \union {r}  BY <1>2 DEF Started
<1>6. Numbered'
  <2>1. Started' = 1 .. (n + 1) /\ n + 1 \in 0 .. MaxRuns  BY <1>2, <1>3, <1>4, <1>5, Ids
  <2> QED  BY <2>1 DEF Numbered
<1>7. Entries'
  <2>1. controllers' \in [Id -> {0} \union RunId] /\ inFlight' \in [Id -> {0} \union RunId]
    BY <1>1, <1>2 DEF Enters, Entries
  <2>2. run' = [q \in RunId |-> run'[q]]  BY <1>2
  <2>3. \A q \in RunId : IsRow(run'[q])  BY <1>1, <1>2 DEF Entries
  <2>4. \A q \in RunId : run'[q].pc \notin {"none", "over"} => run'[q].id \in Id
    BY <1>1, <1>2 DEF Entries
  <2> QED  BY <2>1, <2>2, <2>3, <2>4 DEF Entries
<1>8. Reachable'
  <2> SUFFICES ASSUME hazard' \cap {"crossed"} = {}, NEW q \in RunId, q \in Started', Live(q)'
               PROVE  controllers'[run'[q].id] = q /\ inFlight'[run'[q].id] = q
    BY DEF Reachable, Started
  <2>1. CASE q = r  BY <2>1, <1>1, <1>2 DEF Enters, Entries
  <2>2. CASE q # r
    <3>1. run'[q] = run[q] /\ q \in Started /\ Live(q) /\ run[q].id \in Id
      BY <2>2, <1>1, <1>2, <1>5 DEF Live, Entries
    <3>2. controllers[run[q].id] = q /\ inFlight[run[q].id] = q
      BY <3>1 DEF Inv, Reachable, Enters
    <3>3. run[q].id # i  BY <3>2, Ids DEF Enters
    <3> QED  BY <3>1, <3>2, <3>3, <1>1 DEF Enters, Entries
  <2> QED  BY <2>1, <2>2
<1> QED  BY <1>6, <1>7, <1>8 DEF Inv

-----------------------------------------------------------------------------
(* What each action does.                                                  *)

\* A run that goes on from one await to the next.
LEMMA GoesOn ==
  ASSUME Entries, NEW r \in RunId, run[r].pc \notin {"none", "over"}, NEW pc, pc \notin {"none", "over"},
         \/ run' = [run EXCEPT ![r].pc = pc]
         \/ \E free : run' = [run EXCEPT ![r].pc = pc, ![r].free = free]
  PROVE  RunsGoOn
<1>1. run = [q \in RunId |-> run[q]] /\ \A q \in RunId : IsRow(run[q])  BY ZenonT(60) DEF Entries
<1>2. \A q \in RunId \ {r} : run'[q] = run[q]  BY <1>1, ZenonT(60)
<1>3. run' = [q \in RunId |-> run'[q]]  BY <1>1, ZenonT(60)
<1>4. /\ IsRow(run'[r]) /\ run'[r].pc = pc /\ run'[r].id = run[r].id
      /\ run'[r].aborted = run[r].aborted
  <2>1. IsRow(run[r])  BY <1>1, ZenonT(60)
  <2> QED  BY <1>1, <2>1, ZenonT(60) DEF IsRow
<1> QED  BY <1>1, <1>2, <1>3, <1>4, ZenonT(60) DEF RunsGoOn, Live

\* A run that ends, and what its end clears.
LEMMA EndCloses ==
  ASSUME Entries, NEW r \in RunId, run[r].pc \notin {"none", "over"}, NEW how, Ends(r, how)
  PROVE  Closes(r)
<1>1. run = [q \in RunId |-> run[q]] /\ \A q \in RunId : IsRow(run[q])  BY DEF Entries
<1>2. run' = [run EXCEPT ![r] = [NoRun EXCEPT !.pc = "over"]]
  BY DEF Ends, FileEnds, ShareEnds, Over
<1>3. run'[r] = [NoRun EXCEPT !.pc = "over"] /\ \A q \in RunId \ {r} : run'[q] = run[q]
  BY <1>1, <1>2
<1>3b. run' = [q \in RunId |-> run'[q]]  BY <1>1, <1>2
<1>4. run'[r].pc = "over" /\ IsRow(run'[r])  BY <1>3 DEF NoRun, IsRow
<1>5. RunsGoOn
  <2>1. \A q \in RunId : IsRow(run'[q])  BY <1>1, <1>3, <1>4
  <2>2. \A q \in RunId : /\ run'[q].pc = "none" <=> run[q].pc = "none"
                         /\ Live(q)' => Live(q)
                         /\ run'[q].pc \notin {"none", "over"} =>
                              run'[q].id = run[q].id /\ run[q].pc \notin {"none", "over"}
    BY <1>3, <1>4 DEF Live
  <2> QED  BY <1>3b, <2>1, <2>2 DEF RunsGoOn, Live
<1>6. CASE run[r].id \in File
  <2>1. FileEnds(r, how)  BY <1>6 DEF Ends
  <2>2. Clear(run[r].id, current(r), current(r)) /\ hazard' = hazard  BY <2>1 DEF FileEnds
  <2> QED  BY <1>4, <1>5, <2>2 DEF Closes, Clear, current
<1>7. CASE run[r].id \notin File
  <2>1. ShareEnds(r, how)  BY <1>7 DEF Ends
  <2>2. Clear(run[r].id, how = "removed", TRUE)  BY <2>1 DEF ShareEnds
  <2>3. hazard \subseteq hazard' /\ (inFlight[run[r].id] \in {0, r} \/ "crossed" \in hazard')
    BY <2>1 DEF ShareEnds
  <2> QED  BY <1>4, <1>5, <2>2, <2>3 DEF Closes, Clear
<1> QED  BY <1>6, <1>7

\* Whatever a run does next, its id's entries stay or it ends.
LEMMA StepDoes ==
  ASSUME Entries, NEW r \in Started, Step(r)
  PROVE  r \in RunId /\ run[r].pc \notin {"none", "over"} /\ (Onward \/ Closes(r))
<1>1. r \in RunId /\ run[r].pc # "none"  BY DEF Started
<1>2. run[r].pc # "over"
  BY DEF Step, Sized, Present, CheckSpace, Acquire, Granted, Evicted, Locked, Transferred, Record, Fails, Stops
<1> SUFFICES Onward \/ Closes(r)  BY <1>1, <1>2
<1>3. ASSUME NEW how, Ends(r, how) PROVE Closes(r)  BY <1>1, <1>2, <1>3, EndCloses
<1>4. ASSUME NEW pc, pc \notin {"none", "over"}, Goto(r, pc), UNCHANGED <<controllers, inFlight, hazard>>
      PROVE  Onward
  BY <1>1, <1>2, <1>4, GoesOn DEF Goto, Onward
<1>5. CASE Sized(r)  BY <1>3, <1>4, <1>5 DEF Sized, Reserve, maps
<1>6. CASE Present(r)  BY <1>3, <1>6 DEF Present
<1>7. CASE CheckSpace(r)
  <2>1. CASE HasSpace(run[r].id, run[r].free)
    <3>1. PICK pc \in {"objects", "ready"} : run' = [run EXCEPT ![r].pc = pc, ![r].free = -1]
      BY <1>7, <2>1 DEF CheckSpace
    <3>2. RunsGoOn  BY <1>1, <1>2, <3>1, GoesOn
    <3> QED  BY <1>7, <2>1, <3>2 DEF CheckSpace, maps, Onward
  <2> QED  BY <1>3, <1>7, <2>1 DEF CheckSpace
<1>8. CASE Acquire(r)  BY <1>3, <1>4, <1>8 DEF Acquire, maps
<1>9. CASE Granted(r)
  <2>1. PICK pc \in {"lock", "transfer"} : Goto(r, pc)  BY <1>9 DEF Granted
  <2> QED  BY <1>4, <1>9, <2>1 DEF Granted
<1>10. CASE Evicted(r)  BY <1>3, <1>10 DEF Evicted
<1>11. CASE Locked(r)  BY <1>3, <1>4, <1>11 DEF Locked, maps
<1>12. CASE Transferred(r)  BY <1>4, <1>12 DEF Transferred, maps
<1>13. CASE Record(r)  BY <1>3, <1>13 DEF Record
<1>14. CASE Fails(r)  BY <1>3, <1>14 DEF Fails
<1>15. CASE Stops(r)  BY <1>3, <1>15 DEF Stops
<1> QED
  BY <1>5, <1>6, <1>7, <1>8, <1>9, <1>10, <1>11, <1>12, <1>13, <1>14, <1>15 DEF Step

\* Runs that stay as they are, or of which some are aborted, go on.
LEMMA AbortedGoOn ==
  ASSUME Entries, NEW rs, run' = Aborted(rs)
  PROVE  RunsGoOn /\ \A r \in RunId : Live(r)' => r \notin rs
<1>1. run = [q \in RunId |-> run[q]] /\ \A q \in RunId : IsRow(run[q])  BY DEF Entries
<1>2. \A q \in RunId : run'[q] = IF q \in rs THEN [run[q] EXCEPT !.aborted = TRUE] ELSE run[q]
  BY DEF Aborted
<1>3. \A q \in RunId : IsRow(run'[q]) /\ run'[q].pc = run[q].pc /\ run'[q].id = run[q].id
                       /\ (q \in rs => run'[q].aborted) /\ (q \notin rs => run'[q].aborted = run[q].aborted)
  <2> SUFFICES ASSUME NEW q \in RunId
               PROVE  IsRow(run'[q]) /\ run'[q].pc = run[q].pc /\ run'[q].id = run[q].id
                      /\ (q \in rs => run'[q].aborted) /\ (q \notin rs => run'[q].aborted = run[q].aborted)
    OBVIOUS
  <2>1. IsRow(run[q])  BY <1>1
  <2> QED  BY <1>2, <2>1 DEF IsRow
<1>4. run' = [q \in RunId |-> run'[q]]  BY DEF Aborted
<1> QED  BY <1>3, <1>4 DEF RunsGoOn, Live

\* cancel() is a Cancels of its one id.
LEMMA CancelDoes ==
  ASSUME Entries, NEW i \in Id, cancel(i)
  PROVE  Cancels({i})
<1>1. RunsGoOn /\ \A r \in RunId : Live(r)' => r \notin {controllers[i]}
  BY AbortedGoOn DEF cancel
<1>2. controllers' = [controllers EXCEPT ![i] = 0] /\ inFlight' = [inFlight EXCEPT ![i] = 0]
      /\ hazard' = hazard
  BY DEF cancel
<1> QED  BY <1>1, <1>2 DEF Cancels, Entries

\* cancelAll() is a Cancels of every id.
LEMMA CancelAllDoes ==
  ASSUME Entries, cancelAll
  PROVE  Cancels(Id)
<1>1. run' = Aborted({controllers[i] : i \in Id} \ {0}) /\ hazard' = hazard
      /\ controllers' = [i \in Id |-> 0] /\ inFlight' = [i \in Id |-> 0]
  BY ZenonT(60) DEF cancelAll
<1>2. RunsGoOn /\ \A r \in RunId : Live(r)' => r \notin {controllers[i] : i \in Id} \ {0}
  BY <1>1, AbortedGoOn
<1> QED  BY <1>1, <1>2, Ids DEF Cancels

\* register() starts a run at an id that has no download under way.
LEMMA RegisterEnters ==
  ASSUME Entries, NEW r, NEW i \in Id, NEW priority, inFlight[i] = 0, register(r, i, priority), hazard' = hazard
  PROVE  Enters(r, i)
<1>1. run = [q \in RunId |-> run[q]]  BY DEF Entries
<1>2. r \in RunId /\ run' = [run EXCEPT ![r] = [NoRun EXCEPT !.id = i, !.pc = "start", !.asked = (priority = "user")]]
  BY DEF register
<1>3. run'[r] = [NoRun EXCEPT !.id = i, !.pc = "start", !.asked = (priority = "user")]  BY <1>1, <1>2
<1>4. IsRow(run'[r]) /\ run'[r].id = i /\ run'[r].pc = "start"  BY <1>3 DEF IsRow, NoRun
<1> QED  BY <1>2, <1>3, <1>4 DEF Enters, register

\* A call for a file starts a run, or joins the one under way and touches no entry.
LEMMA DownloadFileDoes ==
  ASSUME Entries, NEW i \in File, NEW priority, downloadFile(i, priority)
  PROVE  Onward \/ \E r : Enters(r, i)
<1>1. i \in Id  BY Ids
<1>2. CASE inFlight[i] = 0
  <2>1. PICK r : register(r, i, priority)  BY <1>2 DEF downloadFile
  <2> QED  BY <1>1, <1>2, <2>1, RegisterEnters DEF downloadFile
<1>3. CASE inFlight[i] # 0
  <2> DEFINE r == inFlight[i]
  <2>1. r \in RunId  BY <1>1, <1>3 DEF Entries
  <2>2. run = [q \in RunId |-> run[q]] /\ \A q \in RunId : IsRow(run[q])  BY DEF Entries
  <2>3. run' = [run EXCEPT ![r].asked = TRUE] /\ UNCHANGED <<controllers, inFlight, hazard>>
    BY <1>3 DEF downloadFile
  <2>4. \A q \in RunId \ {r} : run'[q] = run[q]  BY <2>2, <2>3
  <2>5. run'[r] = [run[r] EXCEPT !.asked = TRUE] /\ run' = [q \in RunId |-> run'[q]]
    BY <2>1, <2>2, <2>3
  <2>6. IsRow(run'[r]) /\ run'[r].pc = run[r].pc /\ run'[r].id = run[r].id /\ run'[r].aborted = run[r].aborted
    <3>1. IsRow(run[r])  BY <2>1, <2>2
    <3> QED  BY <2>5, <3>1 DEF IsRow
  <2>7. RunsGoOn  BY <2>2, <2>4, <2>5, <2>6 DEF RunsGoOn, Live
  <2> QED  BY <2>3, <2>7 DEF Onward
<1> QED  BY <1>2, <1>3

\* A call for a share link starts a run.
LEMMA ShareUrlDoes ==
  ASSUME Entries, NEW i \in Share, downloadFromShareUrl(i)
  PROVE  \E r : Enters(r, i)
<1>1. i \in Id /\ inFlight[i] = 0 /\ hazard' = hazard  BY Ids DEF downloadFromShareUrl
<1>2. PICK r : register(r, i, "background")  BY DEF downloadFromShareUrl
<1> QED  BY <1>1, <1>2, RegisterEnters

\* The probe answers every run that waits for it.
LEMMA ProbeSettlesDoes ==
  ASSUME Entries, ProbeSettles
  PROVE  Onward
<1>1. \A q \in RunId : IsRow(run[q])  BY DEF Entries
<1>2. /\ run' = [q \in RunId |-> IF run[q].pc = "probe"
                                 THEN [run[q] EXCEPT !.pc = "check", !.free = probe.free] ELSE run[q]]
      /\ UNCHANGED <<controllers, inFlight, hazard>>
  BY ZenonT(60) DEF ProbeSettles, maps
<1>3. \A q \in RunId : /\ IsRow(run'[q]) /\ run'[q].id = run[q].id /\ run'[q].aborted = run[q].aborted
                       /\ run'[q] = run[q] \/ (run[q].pc = "probe" /\ run'[q].pc = "check")
  <2> SUFFICES ASSUME NEW q \in RunId
               PROVE  /\ IsRow(run'[q]) /\ run'[q].id = run[q].id /\ run'[q].aborted = run[q].aborted
                      /\ run'[q] = run[q] \/ (run[q].pc = "probe" /\ run'[q].pc = "check")
    OBVIOUS
  <2>1. IsRow(run[q])  BY <1>1
  <2> QED  BY <1>2, <2>1, ZenonT(60) DEF IsRow
<1>4. run' = [q \in RunId |-> run'[q]]  BY <1>2, ZenonT(60)
<1>5. RunsGoOn  BY <1>3, <1>4 DEF RunsGoOn, Live
<1> QED  BY <1>2, <1>5, ZenonT(60) DEF Onward

\* Steps of the screens and of the settings touch no run.
LEMMA Quietly ==
  ASSUME Entries, UNCHANGED <<controllers, inFlight, run, hazard>>
  PROVE  Onward
  BY DEF Entries, Onward, RunsGoOn, Live

-----------------------------------------------------------------------------
(* The whole of Next.                                                      *)

\* No run is started and no entry set.
LEMMA InitInv == Init => Inv
<1> SUFFICES ASSUME Init PROVE Inv  OBVIOUS
<1>1. run = [r \in RunId |-> NoRun] /\ controllers = [i \in Id |-> 0] /\ inFlight = [i \in Id |-> 0]
  BY DEF Init
<1>2. \A r \in RunId : run[r] = NoRun /\ IsRow(run[r]) /\ run[r].pc = "none"  BY <1>1 DEF NoRun, IsRow
<1>3. Started = {}  BY <1>2 DEF Started
<1>4. Numbered
  <2>1. 0 \in 0 .. MaxRuns /\ 1 .. 0 = {}  BY Ids
  <2> QED  BY <2>1, <1>3 DEF Numbered
<1>5. Entries  BY <1>1, <1>2 DEF Entries
<1> QED  BY <1>3, <1>4, <1>5 DEF Inv, Reachable

\* Every action of Next keeps the invariant.
LEMMA StepInv == Inv /\ [Next]_vars => Inv'
<1> SUFFICES ASSUME Inv, [Next]_vars PROVE Inv'  OBVIOUS
<1>0. Entries  BY DEF Inv
<1>1. ASSUME NEW r \in Started, Step(r) PROVE Inv'
  <2>1. r \in RunId /\ run[r].id \in Id /\ (Onward \/ Closes(r))
    BY <1>0, <1>1, StepDoes DEF Entries
  <2> QED  BY <2>1, OnwardKeeps, ClosesKeeps
<1>2. ASSUME NEW i \in File, NEW priority \in {"user", "background"}, downloadFile(i, priority) PROVE Inv'
  <2>1. i \in Id  BY Ids
  <2> QED  BY <1>0, <1>2, <2>1, DownloadFileDoes, OnwardKeeps, EntersKeeps
<1>3. ASSUME NEW i \in Share, downloadFromShareUrl(i) PROVE Inv'
  <2>1. i \in Id  BY Ids
  <2> QED  BY <1>0, <1>3, <2>1, ShareUrlDoes, EntersKeeps
<1>4. ASSUME NEW i \in Id, cancel(i) PROVE Inv'  BY <1>0, <1>4, CancelDoes, CancelsKeeps
<1>5. ASSUME cancelAll PROVE Inv'  BY <1>0, <1>5, CancelAllDoes, CancelsKeeps
<1>6. ASSUME NEW n \in Slots, SetSlots(n) PROVE Inv'
  BY <1>0, <1>6, Quietly, OnwardKeeps DEF SetSlots, maps
<1>7. ASSUME Precheck PROVE Inv'  BY <1>0, <1>7, Quietly, OnwardKeeps DEF Precheck, maps
<1>8. ASSUME ProbeReads PROVE Inv'  BY <1>0, <1>8, Quietly, OnwardKeeps DEF ProbeReads, maps
<1>9. ASSUME ProbeSettles PROVE Inv'  BY <1>0, <1>9, ProbeSettlesDoes, OnwardKeeps
<1>10. ASSUME UNCHANGED vars PROVE Inv'  BY <1>0, <1>10, Quietly, OnwardKeeps DEF vars, maps
<1> QED  BY <1>1, <1>2, <1>3, <1>4, <1>5, <1>6, <1>7, <1>8, <1>9, <1>10 DEF Next, Call

\* A call for an id joins the download under way, and a cancel finds it.
THEOREM DownloadsAreReachable == Spec => []Reachable
<1>1. Inv => Reachable  BY DEF Inv
<1> QED  BY <1>1, InitInv, StepInv, PTL DEF Spec

-----------------------------------------------------------------------------
(* Sums over finite sets: of the sizes of ids, of the weights of entries.   *)

\* The element the sum takes next, and what its function is.
pick(s) == CHOOSE x \in s : TRUE
IsSum(f, w, S) == f = [s \in SUBSET S |-> IF s = {} THEN 0 ELSE w[pick(s)] + f[s \ {pick(s)}]]
Total(w, S) == (CHOOSE f : IsSum(f, w, S))[S]

\* Of sets of subsets of a finite set, some member has none of its own subsets there.
LEMMA Least ==
  ASSUME NEW S, IsFiniteSet(S), NEW B \in SUBSET (SUBSET S), B # {}
  PROVE  \E s \in B : \A t \in B : t \subseteq s => t = s
<1>1. IsWellFoundedOn(StrictSubsetOrdering(S), SUBSET S)
  BY FS_StrictSubsetOrderingWellFounded, FS_FiniteSubsetsOfFinite
<1>2. PICK s \in B : \A t \in B : ~ (<<t, s>> \in StrictSubsetOrdering(S))
  BY <1>1, WFMin
<1>3. \A t \in B : t \subseteq s => t = s
  BY <1>2 DEF StrictSubsetOrdering
<1> QED  BY <1>3

\* What is picked is an element.
LEMMA Picked == \A s : s # {} => pick(s) \in s
  BY DEF pick

\* Every finite set has its sum: there is one of the subsets of up to n elements for each n.
LEMMA SumExists ==
  ASSUME NEW S, IsFiniteSet(S), NEW w
  PROVE  \E f : IsSum(f, w, S)
<1> DEFINE upto(n) == {s \in SUBSET S : Cardinality(s) <= n}
           Sums(f, n) == f = [s \in upto(n) |-> IF s = {} THEN 0 ELSE w[pick(s)] + f[s \ {pick(s)}]]
           Bad == {n \in Nat : \A f : ~Sums(f, n)}
<1>1. \A s \in SUBSET S : IsFiniteSet(s) /\ Cardinality(s) \in Nat
  BY FS_Subset, FS_CardinalityType
<1>2. \A s \in SUBSET S : s # {} => Cardinality(s \ {pick(s)}) = Cardinality(s) - 1
  BY <1>1, Picked, FS_RemoveElement
<1>3. 0 \notin Bad
  <2> DEFINE f == [s \in upto(0) |-> 0]
  <2>1. \A s \in upto(0) : s = {}  BY <1>1, FS_EmptySet
  <2>2. f = [s \in upto(0) |-> IF s = {} THEN 0 ELSE w[pick(s)] + f[s \ {pick(s)}]]
    BY <2>1
  <2> QED  BY <2>2
<1>4. ASSUME NEW n \in Nat, n \notin Bad PROVE n + 1 \notin Bad
  <2>1. PICK f : Sums(f, n)  BY <1>4
  <2> DEFINE g == [s \in upto(n + 1) |-> IF s = {} THEN 0 ELSE w[pick(s)] + f[s \ {pick(s)}]]
  <2>2. \A s \in upto(n + 1) : s # {} => s \ {pick(s)} \in upto(n)
    BY <1>1, <1>2
  <2>3. \A s \in upto(n) : s \in upto(n + 1) /\ g[s] = f[s]
    <3> SUFFICES ASSUME NEW s \in upto(n) PROVE s \in upto(n + 1) /\ g[s] = f[s]  OBVIOUS
    <3>1. s \in upto(n + 1)  BY <1>1
    <3>2. f[s] = IF s = {} THEN 0 ELSE w[pick(s)] + f[s \ {pick(s)}]  BY <2>1
    <3> QED  BY <3>1, <3>2
  <2>4. g = [s \in upto(n + 1) |-> IF s = {} THEN 0 ELSE w[pick(s)] + g[s \ {pick(s)}]]
    BY <2>2, <2>3
  <2> QED  BY <2>4
<1>5. Bad = {}
  <2> SUFFICES ASSUME Bad # {} PROVE FALSE  OBVIOUS
  <2>1. Bad \subseteq Nat  OBVIOUS
  <2> HIDE DEF Bad
  <2>2. PICK n \in Bad : \A m \in Bad : ~ (<<m, n>> \in OpToRel(<, Nat))
    BY <2>1, NatLessThanWellFounded, WFMin, ZenonT(60)
  <2>3. n \in Nat /\ n # 0  BY <2>1, <1>3
  <2>4. n - 1 \in Nat /\ (n - 1) + 1 = n  BY <2>3
  <2>5. n - 1 \in Bad  BY <2>4, <1>4
  <2>6. <<n - 1, n>> \in OpToRel(<, Nat)  BY <2>3, <2>4 DEF OpToRel
  <2> QED  BY <2>2, <2>5, <2>6, ZenonT(60)
<1>6. Cardinality(S) \in Nat /\ upto(Cardinality(S)) = SUBSET S
  BY FS_CardinalityType, FS_Subset
<1>7. PICK f : Sums(f, Cardinality(S))
  <2>1. \A n \in Nat : \E f : Sums(f, n)  BY <1>5, ZenonT(60)
  <2> HIDE DEF Sums
  <2> QED  BY <2>1, <1>6
<1>8. IsSum(f, w, S)  BY <1>6, <1>7 DEF IsSum
<1> QED  BY <1>8

\* Sums of a set and of one of its subsets agree.
LEMMA SumsAgree ==
  ASSUME NEW S, IsFiniteSet(S), NEW T \in SUBSET S, NEW w, NEW f, NEW g, IsSum(f, w, S), IsSum(g, w, T)
  PROVE  \A s \in SUBSET T : f[s] = g[s]
<1> DEFINE Bad == {s \in SUBSET T : f[s] # g[s]}
<1>1. IsFiniteSet(T)  BY FS_Subset
<1>2. SUFFICES ASSUME Bad # {} PROVE FALSE  OBVIOUS
<1>3. PICK s \in Bad : \A t \in Bad : t \subseteq s => t = s
  <2>1. Bad \in SUBSET (SUBSET T)  OBVIOUS
  <2> HIDE DEF Bad
  <2> QED  BY <1>1, <1>2, <2>1, Least
<1>4. /\ s \in SUBSET S /\ s \in SUBSET T /\ f[s] # g[s]
      /\ f[s] = IF s = {} THEN 0 ELSE w[pick(s)] + f[s \ {pick(s)}]
      /\ g[s] = IF s = {} THEN 0 ELSE w[pick(s)] + g[s \ {pick(s)}]
  BY DEF IsSum
<1>5. s # {} /\ pick(s) \in s  BY <1>4, Picked
<1>6. s \ {pick(s)} \in SUBSET T /\ s \ {pick(s)} # s /\ s \ {pick(s)} \subseteq s  BY <1>4, <1>5
<1>7. f[s \ {pick(s)}] = g[s \ {pick(s)}]  BY <1>3, <1>6
<1> QED  BY <1>4, <1>5, <1>7

\* The sum of a set is that of one element and of the others.
LEMMA TotalTakes ==
  ASSUME NEW U, IsFiniteSet(U), NEW w, NEW A \in SUBSET U
  PROVE  /\ A = {} => Total(w, A) = 0
         /\ A # {} => Total(w, A) = w[pick(A)] + Total(w, A \ {pick(A)})
<1>1. ASSUME NEW S \in SUBSET U PROVE IsSum(CHOOSE f : IsSum(f, w, S), w, S)
  <2>1. IsFiniteSet(S)  BY FS_Subset
  <2>2. PICK f : IsSum(f, w, S)  BY <2>1, SumExists
  <2> QED  BY <2>2
<1>2. PICK f : IsSum(f, w, U)  BY SumExists
<1>3. ASSUME NEW S \in SUBSET U PROVE Total(w, S) = f[S]
  <2>1. IsSum(CHOOSE g : IsSum(g, w, S), w, S)  BY <1>1
  <2>2. \A s \in SUBSET S : f[s] = (CHOOSE g : IsSum(g, w, S))[s]
    BY <1>2, <2>1, SumsAgree
  <2>3. S \in SUBSET S  OBVIOUS
  <2> QED  BY <2>2, <2>3 DEF Total
<1>4. f[A] = IF A = {} THEN 0 ELSE w[pick(A)] + f[A \ {pick(A)}]
  BY <1>2 DEF IsSum
<1>5. A \ {pick(A)} \in SUBSET U  OBVIOUS
<1> QED  BY <1>3, <1>4, <1>5

\* A sum is a natural number.
LEMMA TotalType ==
  ASSUME NEW U, IsFiniteSet(U), NEW w, \A x \in U : w[x] \in Nat
  PROVE  \A A \in SUBSET U : Total(w, A) \in Nat
<1> DEFINE Bad == {A \in SUBSET U : Total(w, A) \notin Nat}
<1>1. SUFFICES ASSUME Bad # {} PROVE FALSE  OBVIOUS
<1>2. PICK A \in Bad : \A t \in Bad : t \subseteq A => t = A
  <2>1. Bad \in SUBSET (SUBSET U)  OBVIOUS
  <2> HIDE DEF Bad
  <2> QED  BY <1>1, <2>1, Least
<1>3. A \in SUBSET U /\ A # {}
  <2>1. A \in SUBSET U /\ Total(w, A) \notin Nat  OBVIOUS
  <2>2. A = {} => Total(w, A) = 0  BY <2>1, TotalTakes
  <2> QED  BY <2>1, <2>2
<1>4. pick(A) \in A /\ w[pick(A)] \in Nat  BY <1>3, Picked
<1>5. A \ {pick(A)} \in SUBSET U /\ A \ {pick(A)} \notin Bad  BY <1>2, <1>3, <1>4
<1>6. Total(w, A \ {pick(A)}) \in Nat /\ Total(w, A) \notin Nat  BY <1>5
<1>7. Total(w, A) = w[pick(A)] + Total(w, A \ {pick(A)})  BY <1>3, TotalTakes
<1> QED  BY <1>4, <1>6, <1>7

\* An element more adds what it counts, whatever the order of the sum.
LEMMA TotalAdd ==
  ASSUME NEW U, IsFiniteSet(U), NEW w, \A x \in U : w[x] \in Nat
  PROVE  \A A \in SUBSET U : \A i \in U \ A : Total(w, A \union {i}) = Total(w, A) + w[i]
<1> DEFINE Bad == {A \in SUBSET U : \E i \in U \ A : Total(w, A \union {i}) # Total(w, A) + w[i]}
<1>1. SUFFICES ASSUME Bad # {} PROVE FALSE  BY ZenonT(60)
<1>2. PICK A \in Bad : \A t \in Bad : t \subseteq A => t = A
  <2>1. Bad \in SUBSET (SUBSET U)  OBVIOUS
  <2> HIDE DEF Bad
  <2> QED  BY <1>1, <2>1, Least
<1>3. PICK i \in U \ A : Total(w, A \union {i}) # Total(w, A) + w[i]  OBVIOUS
<1>4. A \in SUBSET U /\ A \union {i} \in SUBSET U /\ A \union {i} # {}  OBVIOUS
<1> DEFINE c == pick(A \union {i})
<1>5. c \in A \union {i} /\ Total(w, A \union {i}) = w[c] + Total(w, (A \union {i}) \ {c})
  <2>1. \A S \in SUBSET U : S # {} => Total(w, S) = w[pick(S)] + Total(w, S \ {pick(S)})
    BY TotalTakes
  <2> QED  BY <2>1, <1>4, Picked
<1>6. \A x \in U : w[x] \in Nat  OBVIOUS
<1>7. \A B \in SUBSET U : Total(w, B) \in Nat  BY TotalType
<1> HIDE DEF c
<1>8. c # i
  <2> SUFFICES ASSUME c = i PROVE FALSE  OBVIOUS
  <2>1. (A \union {i}) \ {c} = A  BY <1>3
  <2>2. Total(w, A \union {i}) = w[i] + Total(w, A)  BY <1>5, <2>1
  <2>3. w[i] \in Nat /\ Total(w, A) \in Nat  BY <1>3, <1>4, <1>6, <1>7
  <2> QED  BY <1>3, <2>2, <2>3
<1>9. c \in A /\ (A \union {i}) \ {c} = (A \ {c}) \union {i}  BY <1>5, <1>8
<1>10. A \ {c} \in SUBSET U /\ A \ {c} \notin Bad  BY <1>2, <1>4, <1>9
<1>11. Total(w, (A \ {c}) \union {i}) = Total(w, A \ {c}) + w[i]  BY <1>3, <1>10
<1>12. (A \ {c}) \union {c} = A  BY <1>9
<1>13. Total(w, (A \ {c}) \union {c}) = Total(w, A \ {c}) + w[c]  BY <1>4, <1>9, <1>10
<1>14. w[c] \in Nat /\ w[i] \in Nat /\ Total(w, A \ {c}) \in Nat  BY <1>3, <1>4, <1>6, <1>7, <1>9, <1>10
<1>15. Total(w, A) = Total(w, A \ {c}) + w[c]  BY <1>12, <1>13
<1>16. Total(w, A \union {i}) = w[c] + (Total(w, A \ {c}) + w[i])  BY <1>5, <1>9, <1>11
<1> QED  BY <1>3, <1>14, <1>15, <1>16

\* What a fold over a set of ids adds up.
LEMMA BytesIsTotal == \A A : Bytes(A) = Total(Size, A)
  BY DEF Bytes, MapThenSumSet, MapThenFoldSet, IsSum, Total, pick

\* The bytes of ids are a number.
LEMMA BytesType == \A A \in SUBSET Id : Bytes(A) \in Nat
<1>1. IsFiniteSet(Id) /\ \A i \in Id : Size[i] \in Nat  BY DownloadsAssumption
<1>2. \A A \in SUBSET Id : Total(Size, A) \in Nat  BY <1>1, TotalType
<1> QED  BY <1>2, BytesIsTotal

\* An id more adds its size.
LEMMA BytesAdd == \A A \in SUBSET Id : \A i \in Id \ A : Bytes(A \union {i}) = Bytes(A) + Size[i]
<1>1. IsFiniteSet(Id) /\ \A i \in Id : Size[i] \in Nat  BY DownloadsAssumption
<1>2. \A A \in SUBSET Id : \A i \in Id \ A : Total(Size, A \union {i}) = Total(Size, A) + Size[i]
  BY <1>1, TotalAdd, ZenonT(60)
<1> QED  BY <1>2, BytesIsTotal, ZenonT(60)

\* The bytes of two sets together are at most those of each.
LEMMA BytesUnion == \A A, B \in SUBSET Id : Bytes(A \union B) <= Bytes(A) + Bytes(B)
<1> SUFFICES ASSUME NEW A \in SUBSET Id PROVE \A B \in SUBSET Id : Bytes(A \union B) <= Bytes(A) + Bytes(B)
  BY ZenonT(60)
<1> DEFINE Bad == {B \in SUBSET Id : ~(Bytes(A \union B) <= Bytes(A) + Bytes(B))}
<1>1. SUFFICES ASSUME Bad # {} PROVE FALSE  OBVIOUS
<1>2. PICK B \in Bad : \A t \in Bad : t \subseteq B => t = B
  <2>1. Bad \in SUBSET (SUBSET Id)  OBVIOUS
  <2> HIDE DEF Bad
  <2> QED  BY <1>1, <2>1, Least, DownloadsAssumption
<1>3. \A S \in SUBSET Id : Bytes(S) \in Nat  BY BytesType
<1>4. B \in SUBSET Id /\ ~(Bytes(A \union B) <= Bytes(A) + Bytes(B))  OBVIOUS
<1>5. B # {}
  <2> SUFFICES ASSUME B = {} PROVE FALSE  OBVIOUS
  <2>1. A \union B = A  OBVIOUS
  <2> QED  BY <1>3, <1>4, <2>1
<1>6. PICK i \in B : i \in Id  BY <1>4, <1>5
<1> DEFINE C == B \ {i}
<1>7. C \in SUBSET Id /\ C \notin Bad  BY <1>2, <1>4, <1>6
<1>8. Bytes(A \union C) <= Bytes(A) + Bytes(C)  BY <1>7
<1>9. B = C \union {i} /\ i \in Id \ C /\ A \union B = (A \union C) \union {i}  BY <1>4, <1>6
<1> HIDE DEF C, Bad
<1>10. Bytes(B) = Bytes(C) + Size[i]  BY <1>7, <1>9, BytesAdd
<1>11. Size[i] \in Nat  BY <1>6, DownloadsAssumption
<1>12. A \union C \in SUBSET Id  BY <1>7
<1>13. Bytes(A \union B) <= Bytes(A \union C) + Size[i]
  <2>1. CASE i \in A
    <3>1. A \union B = A \union C  BY <2>1, <1>9
    <3> QED  BY <3>1, <1>3, <1>11, <1>12
  <2>2. CASE i \notin A
    <3>1. i \in Id \ (A \union C)  BY <2>2, <1>9
    <3>2. Bytes(A \union B) = Bytes(A \union C) + Size[i]  BY <3>1, <1>9, <1>12, BytesAdd
    <3> QED  BY <3>2, <1>3, <1>11, <1>12
  <2> QED  BY <2>1, <2>2
<1> QED
  <2>1. Bytes(A) \in Nat /\ Bytes(B) \in Nat /\ Bytes(C) \in Nat /\ Bytes(A \union C) \in Nat
        /\ Bytes(A \union B) \in Nat
    BY <1>3, <1>4, <1>7, <1>12
  <2> QED  BY <2>1, <1>4, <1>8, <1>10, <1>11, <1>13

\* A subset has at most the bytes of the set.
LEMMA BytesGrows == \A A, B \in SUBSET Id : A \subseteq B => Bytes(A) <= Bytes(B)
<1> SUFFICES ASSUME NEW A \in SUBSET Id PROVE \A B \in SUBSET Id : A \subseteq B => Bytes(A) <= Bytes(B)
  OBVIOUS
<1> DEFINE Bad == {B \in SUBSET Id : A \subseteq B /\ ~(Bytes(A) <= Bytes(B))}
<1>1. SUFFICES ASSUME Bad # {} PROVE FALSE  OBVIOUS
<1>2. PICK B \in Bad : \A t \in Bad : t \subseteq B => t = B
  <2>1. Bad \in SUBSET (SUBSET Id)  OBVIOUS
  <2> HIDE DEF Bad
  <2> QED  BY <1>1, <2>1, Least, DownloadsAssumption
<1>3. \A S \in SUBSET Id : Bytes(S) \in Nat  BY BytesType
<1>4. B \in SUBSET Id /\ A \subseteq B /\ ~(Bytes(A) <= Bytes(B))  OBVIOUS
<1>5. B # A  BY <1>3, <1>4
<1>6. PICK i \in B : i \notin A  BY <1>4, <1>5
<1> DEFINE C == B \ {i}
<1>7. C \in SUBSET Id /\ A \subseteq C /\ C \notin Bad  BY <1>2, <1>4, <1>6
<1>8. Bytes(A) <= Bytes(C)  BY <1>7
<1>9. B = C \union {i} /\ i \in Id \ C  BY <1>4, <1>6
<1> HIDE DEF C, Bad
<1>10. Bytes(B) = Bytes(C) + Size[i]  BY <1>7, <1>9, BytesAdd
<1>11. Size[i] \in Nat  BY <1>9, DownloadsAssumption
<1>12. Bytes(A) \in Nat /\ Bytes(B) \in Nat /\ Bytes(C) \in Nat  BY <1>3, <1>4, <1>7
<1> QED  BY <1>4, <1>8, <1>10, <1>11, <1>12

-----------------------------------------------------------------------------
(* What downloads promise each other.                                      *)

\* A run past its space check, and one whose size is counted.
Passed(r) == Live(r) /\ run[r].pc \in {"objects", "ready", "wait", "lock", "transfer", "record"}
\* Its bytes are promised.
Reserved(r) == Live(r) /\ run[r].pc \notin {"start", "present"}
\* What those that passed download.
PassedIds == {run[r].id : r \in {q \in RunId : Passed(q)}}

\* Every run that asked for space has its size counted until it ends, and what was granted fits.
Promises ==
  /\ inFlightSizes \in SUBSET Id /\ written \in SUBSET Id
  /\ hazard = {} => /\ \A r \in RunId : Reserved(r) => run[r].id \in inFlightSizes
                    /\ Bytes(written \union PassedIds) <= Disk

\* No run passes its check in the step, nothing is written, and who reserved is still counted.
Lessens ==
  /\ hazard \subseteq hazard' /\ written' = written /\ inFlightSizes' \in SUBSET Id
  /\ hazard' = {} => \A q \in RunId : /\ Reserved(q)' => run'[q].id \in inFlightSizes'
                                      /\ Passed(q)' => Passed(q) /\ run'[q].id = run[q].id

\* The ids of the runs past their check are ids.
LEMMA PassedIdsType == Entries => PassedIds \in SUBSET Id
  BY DEF Entries, PassedIds, Passed, Live

\* The sum of PromisedFits is over the ids of those runs.
LEMMA PromisesFit == Promises => PromisedFits
<1>1. {q \in RunId : Passed(q)}
        = {r \in Started : Live(r) /\ run[r].pc \in {"objects", "ready", "wait", "lock", "transfer", "record"}}
  BY DEF Passed, Started, Live
<1> QED  BY <1>1 DEF Promises, PromisedFits, PassedIds

\* What fits goes on fitting while no run passes its check.
LEMMA LessensKeeps ==
  ASSUME Entries, Promises, Lessens
  PROVE  Promises'
<1> SUFFICES ASSUME hazard' = {} PROVE Bytes(written' \union PassedIds') <= Disk
  BY DEF Promises, Lessens
<1>1. hazard = {} /\ Bytes(written \union PassedIds) <= Disk  BY DEF Promises, Lessens
<1>2. PassedIds' \subseteq PassedIds /\ written' = written  BY DEF Lessens, PassedIds
<1>3. written \union PassedIds \in SUBSET Id /\ written' \union PassedIds' \in SUBSET Id
      /\ written' \union PassedIds' \subseteq written \union PassedIds
  BY <1>2, PassedIdsType DEF Promises
<1>4. Bytes(written' \union PassedIds') <= Bytes(written \union PassedIds)
      /\ Bytes(written' \union PassedIds') \in Nat /\ Bytes(written \union PassedIds) \in Nat
  BY <1>3, BytesGrows, BytesType
<1> QED  BY <1>1, <1>4, DownloadsAssumption

\* A run that moves to another await keeps its id.
LEMMA Moved ==
  ASSUME Entries, NEW r \in RunId, NEW pc,
         \/ run' = [run EXCEPT ![r].pc = pc]
         \/ \E free : run' = [run EXCEPT ![r].pc = pc, ![r].free = free]
  PROVE  /\ run'[r].pc = pc /\ run'[r].id = run[r].id /\ run'[r].aborted = run[r].aborted
         /\ \A q \in RunId \ {r} : run'[q] = run[q]
<1>1. run = [q \in RunId |-> run[q]] /\ IsRow(run[r])  BY ZenonT(60) DEF Entries
<1> QED  BY <1>1, ZenonT(60) DEF IsRow

\* A step between two awaits on the same side of the check.
LEMMA MovedLessens ==
  ASSUME Entries, Promises, NEW r \in RunId, NEW pc, Goto(r, pc),
         pc \in {"none", "over", "start", "present"} \/ run[r].pc \notin {"none", "over", "start", "present"},
         pc \in {"objects", "ready", "wait", "lock", "transfer", "record"}
           => run[r].pc \in {"objects", "ready", "wait", "lock", "transfer", "record"},
         UNCHANGED <<inFlightSizes, written, hazard>>
  PROVE  Lessens
<1>1. /\ run'[r].pc = pc /\ run'[r].id = run[r].id /\ run'[r].aborted = run[r].aborted
      /\ \A q \in RunId \ {r} : run'[q] = run[q]
  BY Moved DEF Goto
<1>2. \A q \in RunId : Reserved(q)' => Reserved(q) /\ run'[q].id = run[q].id
  BY <1>1 DEF Reserved, Live
<1>3. \A q \in RunId : Passed(q)' => Passed(q) /\ run'[q].id = run[q].id
  BY <1>1 DEF Passed, Live
<1> QED  BY <1>2, <1>3 DEF Lessens, Promises

\* A run's end takes back no size but its own, or the race crossed is told.
LEMMA EndLessens ==
  ASSUME Inv, Promises, NEW r \in RunId, run[r].pc \notin {"none", "over"}, NEW how, Ends(r, how)
  PROVE  Lessens
<1>1. run = [q \in RunId |-> run[q]] /\ run[r].id \in Id  BY DEF Inv, Entries
<1>2. run' = [run EXCEPT ![r] = [NoRun EXCEPT !.pc = "over"]] /\ written' = written
  BY DEF Ends, FileEnds, ShareEnds, Over
<1>3. run'[r].pc = "over" /\ \A q \in RunId \ {r} : run'[q] = run[q]
  <2>1. run'[r] = [NoRun EXCEPT !.pc = "over"] /\ \A q \in RunId \ {r} : run'[q] = run[q]
    BY <1>1, <1>2
  <2> QED  BY <2>1 DEF NoRun
<1>4. PICK u \in BOOLEAN :
        /\ inFlightSizes' = inFlightSizes \ (IF u THEN {run[r].id} ELSE {})
        /\ u => \/ controllers[run[r].id] = r
                \/ inFlight[run[r].id] \in {0, r}
                \/ hazard' # {}
  <2>1. CASE run[r].id \in File
    <3>1. FileEnds(r, how)  BY <2>1 DEF Ends
    <3>2. Clear(run[r].id, current(r), current(r))  BY <3>1 DEF FileEnds
    <3> QED  BY <3>2 DEF Clear, current
  <2>2. CASE run[r].id \notin File
    <3>1. ShareEnds(r, how)  BY <2>2 DEF Ends
    <3>2. Clear(run[r].id, how = "removed", TRUE)  BY <3>1 DEF ShareEnds
    <3>3. inFlight[run[r].id] \in {0, r} \/ hazard' # {}  BY <3>1 DEF ShareEnds
    <3> QED  BY <3>2, <3>3 DEF Clear
  <2> QED  BY <2>1, <2>2
<1>5. hazard \subseteq hazard'
  BY DEF Ends, FileEnds, ShareEnds
<1>6. ASSUME hazard' = {}, NEW q \in RunId, Reserved(q)'
      PROVE  run'[q].id \in inFlightSizes'
  <2>1. q # r /\ run'[q] = run[q] /\ Reserved(q) /\ q \in Started
    BY <1>3, <1>6 DEF Reserved, Live, Started
  <2>2. hazard = {} /\ run[q].id \in inFlightSizes  BY <1>5, <1>6, <2>1 DEF Promises
  <2>3. controllers[run[q].id] = q /\ inFlight[run[q].id] = q
    BY <2>1, <2>2 DEF Inv, Reachable, Reserved
  <2> QED  BY <1>4, <1>6, <2>1, <2>2, <2>3, Ids
<1>7. \A q \in RunId : Passed(q)' => Passed(q) /\ run'[q].id = run[q].id
  BY <1>3 DEF Passed, Live
<1> QED  BY <1>2, <1>4, <1>5, <1>6, <1>7 DEF Lessens, Promises

\* A run that asks for space has its size counted first.
LEMMA ReserveLessens ==
  ASSUME Entries, Promises, NEW r \in RunId, run[r].id \in Id, Reserve(r), UNCHANGED <<written, hazard>>
  PROVE  Lessens
<1>1. /\ run'[r].pc = "probe" /\ run'[r].id = run[r].id
      /\ \A q \in RunId \ {r} : run'[q] = run[q]
  BY Moved DEF Reserve, Goto
<1>2. inFlightSizes' = inFlightSizes \union {run[r].id}  BY DEF Reserve
<1>3. \A q \in RunId \ {r} : (Reserved(q)' => Reserved(q)) /\ (Passed(q)' => Passed(q))
  BY <1>1 DEF Reserved, Passed, Live
<1>4. ~Passed(r)'  BY <1>1 DEF Passed
<1> QED  BY <1>1, <1>2, <1>3, <1>4 DEF Lessens, Promises

\* A run passes its check only where its size fits beside the bytes written and those
\* counted for the others, or a race is told.
LEMMA CheckKeeps ==
  ASSUME Entries, Promises, NEW r \in RunId, run[r].id \in Id,
         CheckSpace(r), HasSpace(run[r].id, run[r].free)
  PROVE  Promises'
<1>1. /\ \E pc \in {"objects", "ready"} : run' = [run EXCEPT ![r].pc = pc, ![r].free = -1]
      /\ run[r].pc = "check" /\ hazard' = hazard \union Misread(r)
      /\ inFlightSizes' = inFlightSizes /\ written' = written
  BY DEF CheckSpace, maps
<1> SUFFICES ASSUME hazard' = {}
             PROVE  /\ \A q \in RunId : Reserved(q)' => run'[q].id \in inFlightSizes'
                    /\ Bytes(written' \union PassedIds') <= Disk
  BY <1>1 DEF Promises
<1>2. /\ run'[r].id = run[r].id /\ run'[r].aborted = run[r].aborted
      /\ \A q \in RunId \ {r} : run'[q] = run[q]
  <2>1. PICK pc \in {"objects", "ready"} : run' = [run EXCEPT ![r].pc = pc, ![r].free = -1]
    BY <1>1
  <2> QED  BY <2>1, Moved
<1>3. \A q \in RunId : Reserved(q)' => Reserved(q) /\ run'[q].id = run[q].id
  BY <1>1, <1>2 DEF Reserved, Live
<1>4. \A q \in RunId : Reserved(q)' => run'[q].id \in inFlightSizes'
  BY <1>1, <1>3 DEF Promises
<1>5. PassedIds' \subseteq inFlightSizes
  BY <1>1, <1>4 DEF PassedIds, Passed, Reserved, Live
<1> DEFINE i == run[r].id
           others == inFlightSizes \ {i}
<1>6. Disk - Bytes(written) - Bytes(others) >= Size[i]
  BY <1>1 DEF Misread, HasSpace, Promised, Free
<1>7. /\ others \in SUBSET Id /\ i \in Id \ others /\ PassedIds' \subseteq others \union {i}
      /\ written \in SUBSET Id /\ others \union {i} \in SUBSET Id
      /\ written \union PassedIds' \in SUBSET Id /\ written \union (others \union {i}) \in SUBSET Id
  BY <1>5 DEF Promises
<1> HIDE DEF i, others
<1>8. Bytes(written \union PassedIds') <= Bytes(written \union (others \union {i}))
  BY <1>7, BytesGrows
<1>9. Bytes(written \union (others \union {i})) <= Bytes(written) + Bytes(others \union {i})
  BY <1>7, BytesUnion
<1>10. Bytes(others \union {i}) = Bytes(others) + Size[i]  BY <1>7, BytesAdd
<1>11. /\ Bytes(written \union PassedIds') \in Nat /\ Bytes(written \union (others \union {i})) \in Nat
       /\ Bytes(written) \in Nat /\ Bytes(others) \in Nat /\ Size[i] \in Nat /\ Disk \in Nat
  BY <1>7, BytesType, DownloadsAssumption
<1>12. Bytes(written \union PassedIds') <= Disk  BY <1>6, <1>8, <1>9, <1>10, <1>11
<1> QED  BY <1>1, <1>4, <1>12

\* The bytes that arrive are those that were promised.
LEMMA TransferKeeps ==
  ASSUME Entries, Promises, NEW r \in RunId, run[r].id \in Id, Transferred(r)
  PROVE  Promises'
<1>1. /\ run[r].pc = "transfer" /\ ~run[r].aborted /\ written' = written \union {run[r].id}
      /\ Goto(r, "record") /\ inFlightSizes' = inFlightSizes /\ hazard' = hazard
  BY DEF Transferred, maps
<1> SUFFICES ASSUME hazard' = {}
             PROVE  /\ \A q \in RunId : Reserved(q)' => run'[q].id \in inFlightSizes'
                    /\ Bytes(written' \union PassedIds') <= Disk
  BY <1>1 DEF Promises
<1>2. /\ run'[r].pc = "record" /\ run'[r].id = run[r].id /\ run'[r].aborted = run[r].aborted
      /\ \A q \in RunId \ {r} : run'[q] = run[q]
  BY <1>1, Moved DEF Goto
<1>3. \A q \in RunId : (Reserved(q)' => Reserved(q)) /\ run'[q].id = run[q].id
  BY <1>1, <1>2 DEF Reserved, Live
<1>4. \A q \in RunId : Passed(q)' => Passed(q)
  BY <1>1, <1>2 DEF Passed, Live
<1>5. Passed(r)  BY <1>1 DEF Passed, Live
<1>6. written' \union PassedIds' \subseteq written \union PassedIds
  BY <1>1, <1>3, <1>4, <1>5 DEF PassedIds
<1>7. written \union PassedIds \in SUBSET Id /\ written' \union PassedIds' \in SUBSET Id
  BY <1>6, PassedIdsType DEF Promises
<1>8. /\ Bytes(written' \union PassedIds') <= Bytes(written \union PassedIds)
      /\ Bytes(written' \union PassedIds') \in Nat /\ Bytes(written \union PassedIds) \in Nat
  BY <1>6, <1>7, BytesGrows, BytesType
<1>9. Bytes(written' \union PassedIds') <= Disk
  BY <1>1, <1>8, DownloadsAssumption DEF Promises
<1> QED  BY <1>1, <1>3, <1>9 DEF Promises

\* Whatever a run does next, what was granted fits.
LEMMA StepPromises ==
  ASSUME Inv, Promises, NEW r \in Started, Step(r)
  PROVE  Promises'
<1>0. Entries  BY DEF Inv
<1>1. r \in RunId /\ run[r].pc \notin {"none", "over"}  BY <1>0, StepDoes
<1>2. run[r].id \in Id  BY <1>0, <1>1 DEF Entries
<1>3. ASSUME NEW how, Ends(r, how) PROVE Promises'
  BY <1>0, <1>1, <1>3, EndLessens, LessensKeeps
<1>4. ASSUME NEW pc, Goto(r, pc), UNCHANGED <<inFlightSizes, written, hazard>>,
             \/ pc = "present"
             \/ /\ run[r].pc \in {"objects", "ready", "wait", "lock", "transfer", "record"}
                /\ pc \in {"wait", "lock", "transfer"}
      PROVE  Promises'
  BY <1>0, <1>1, <1>4, MovedLessens, LessensKeeps
<1>5. CASE Sized(r)
  <2>1. CASE Reserve(r) /\ UNCHANGED <<written, hazard>>
    BY <1>0, <1>1, <1>2, <2>1, ReserveLessens, LessensKeeps
  <2> QED  BY <1>3, <1>4, <1>5, <2>1 DEF Sized, maps
<1>6. CASE Present(r)  BY <1>3, <1>6 DEF Present
<1>7. CASE CheckSpace(r)
  <2>1. CASE HasSpace(run[r].id, run[r].free)  BY <1>0, <1>1, <1>2, <1>7, <2>1, CheckKeeps
  <2> QED  BY <1>3, <1>7, <2>1 DEF CheckSpace
<1>8. CASE Acquire(r)
  <2>1. run[r].pc \in {"objects", "ready"}  BY <1>8 DEF Acquire
  <2> QED  BY <1>3, <1>4, <1>8, <2>1 DEF Acquire, maps
<1>9. CASE Granted(r)
  <2>1. PICK pc \in {"lock", "transfer"} : Goto(r, pc)  BY <1>9 DEF Granted
  <2>2. run[r].pc = "wait"  BY <1>9 DEF Granted
  <2> QED  BY <1>4, <1>9, <2>1, <2>2 DEF Granted
<1>10. CASE Evicted(r)  BY <1>3, <1>10 DEF Evicted
<1>11. CASE Locked(r)
  <2>1. run[r].pc = "lock"  BY <1>11 DEF Locked
  <2> QED  BY <1>3, <1>4, <1>11, <2>1 DEF Locked, maps
<1>12. CASE Transferred(r)  BY <1>0, <1>1, <1>2, <1>12, TransferKeeps
<1>13. CASE Record(r)  BY <1>3, <1>13 DEF Record
<1>14. CASE Fails(r)  BY <1>3, <1>14 DEF Fails
<1>15. CASE Stops(r)  BY <1>3, <1>15 DEF Stops
<1> QED
  BY <1>5, <1>6, <1>7, <1>8, <1>9, <1>10, <1>11, <1>12, <1>13, <1>14, <1>15 DEF Step

\* A cancel aborts the runs whose sizes it takes back.
LEMMA CancelPromises ==
  ASSUME Inv, Promises, NEW ids \in SUBSET Id, Cancels(ids), NEW rs, run' = Aborted(rs),
         inFlightSizes' = inFlightSizes \ ids, written' = written
  PROVE  Promises'
<1>1. Entries /\ RunsGoOn /\ hazard' = hazard  BY DEF Inv, Cancels
<1>2. \A q \in RunId : run'[q].pc = run[q].pc
  <2> SUFFICES ASSUME NEW q \in RunId PROVE run'[q].pc = run[q].pc  OBVIOUS
  <2>1. IsRow(run[q])  BY <1>1 DEF Entries
  <2>2. run'[q] = run[q] \/ run'[q] = [run[q] EXCEPT !.aborted = TRUE]  BY DEF Aborted
  <2> QED  BY <2>1, <2>2 DEF IsRow
<1>3. ASSUME hazard' = {}, NEW q \in RunId, Live(q)'
      PROVE  run[q].id \notin ids /\ run'[q].id = run[q].id /\ Live(q)
  <2>1. Live(q) /\ run'[q].id = run[q].id /\ q \in Started /\ run[q].id \in Id
    BY <1>1, <1>3 DEF RunsGoOn, Live, Started, Entries
  <2>2. controllers[run[q].id] = q  BY <1>1, <1>3, <2>1 DEF Inv, Reachable
  <2> QED  BY <1>3, <2>1, <2>2 DEF Cancels
<1>4. Lessens
  <2>1. ASSUME hazard' = {}, NEW q \in RunId, Reserved(q)' PROVE run'[q].id \in inFlightSizes'
    BY <1>1, <1>2, <1>3, <2>1 DEF Reserved, Promises
  <2>2. ASSUME hazard' = {}, NEW q \in RunId, Passed(q)' PROVE Passed(q) /\ run'[q].id = run[q].id
    BY <1>2, <1>3, <2>2 DEF Passed
  <2> QED  BY <1>1, <2>1, <2>2 DEF Lessens, Promises
<1> QED  BY <1>1, <1>4, LessensKeeps

\* A new run has asked for nothing yet.
LEMMA EnterPromises ==
  ASSUME Inv, Promises, NEW r, NEW i \in Id, Enters(r, i), UNCHANGED <<inFlightSizes, written>>
  PROVE  Promises'
<1>1. Entries /\ run = [q \in RunId |-> run[q]]  BY DEF Inv, Entries
<1>2. r \in RunId /\ run'[r].pc = "start" /\ hazard' = hazard /\ \A q \in RunId \ {r} : run'[q] = run[q]
  BY <1>1 DEF Enters
<1>3. \A q \in RunId : /\ Reserved(q)' => Reserved(q) /\ run'[q].id = run[q].id
                       /\ Passed(q)' => Passed(q) /\ run'[q].id = run[q].id
  BY <1>2 DEF Reserved, Passed, Live
<1>4. Lessens  BY <1>2, <1>3 DEF Lessens, Promises
<1> QED  BY <1>1, <1>4, LessensKeeps

\* A call for a file enters a new run, or asks for the one under way.
LEMMA DownloadFilePromises ==
  ASSUME Inv, Promises, NEW i \in File, NEW priority, downloadFile(i, priority)
  PROVE  Promises'
<1>1. i \in Id /\ Entries /\ UNCHANGED <<inFlightSizes, written, hazard>>  BY Ids DEF Inv, downloadFile
<1>2. CASE inFlight[i] = 0
  <2>1. PICK r : register(r, i, priority)  BY <1>2 DEF downloadFile
  <2> QED  BY <1>1, <1>2, <2>1, RegisterEnters, EnterPromises
<1>3. CASE inFlight[i] # 0
  <2>1. run' = [run EXCEPT ![inFlight[i]].asked = TRUE]  BY <1>3 DEF downloadFile
  <2>2. inFlight[i] \in RunId /\ run = [q \in RunId |-> run[q]] /\ \A q \in RunId : IsRow(run[q])
    BY <1>1, <1>3 DEF Entries
  <2>3. \A q \in RunId : run'[q].pc = run[q].pc /\ run'[q].id = run[q].id /\ run'[q].aborted = run[q].aborted
    <3> SUFFICES ASSUME NEW q \in RunId
                 PROVE  run'[q].pc = run[q].pc /\ run'[q].id = run[q].id /\ run'[q].aborted = run[q].aborted
      OBVIOUS
    <3>1. IsRow(run[q])  BY <2>2
    <3>2. run'[q] = run[q] \/ run'[q] = [run[q] EXCEPT !.asked = TRUE]  BY <2>1, <2>2
    <3> QED  BY <3>1, <3>2 DEF IsRow
  <2>4. Lessens  BY <1>1, <2>3 DEF Lessens, Promises, Reserved, Passed, Live
  <2> QED  BY <1>1, <2>4, LessensKeeps
<1> QED  BY <1>2, <1>3

\* A reading passes nothing by itself.
LEMMA ProbeSettlesPromises ==
  ASSUME Entries, Promises, ProbeSettles
  PROVE  Promises'
<1>1. /\ run' = [q \in RunId |-> IF run[q].pc = "probe"
                                 THEN [run[q] EXCEPT !.pc = "check", !.free = probe.free] ELSE run[q]]
      /\ UNCHANGED <<inFlightSizes, written, hazard>>
  BY ZenonT(60) DEF ProbeSettles, maps
<1>2. \A q \in RunId : /\ run'[q].id = run[q].id /\ run'[q].aborted = run[q].aborted
                       /\ run'[q] = run[q] \/ (run[q].pc = "probe" /\ run'[q].pc = "check")
  <2> SUFFICES ASSUME NEW q \in RunId
               PROVE  /\ run'[q].id = run[q].id /\ run'[q].aborted = run[q].aborted
                      /\ run'[q] = run[q] \/ (run[q].pc = "probe" /\ run'[q].pc = "check")
    OBVIOUS
  <2>1. IsRow(run[q])  BY DEF Entries
  <2> QED  BY <1>1, <2>1, ZenonT(60) DEF IsRow
<1>3. \A q \in RunId : (Reserved(q)' => Reserved(q)) /\ (Passed(q)' => Passed(q))
  BY <1>2 DEF Reserved, Passed, Live
<1>4. /\ hazard' = hazard /\ inFlightSizes' = inFlightSizes /\ written' = written
      /\ \A q \in RunId : run'[q].id = run[q].id
  BY <1>1, <1>2, ZenonT(60)
<1>5. Lessens  BY <1>3, <1>4 DEF Lessens, Promises
<1> QED  BY <1>5, LessensKeeps

\* Steps of the screens and of the settings promise nothing.
LEMMA QuietPromises ==
  ASSUME Entries, Promises, UNCHANGED <<run, inFlightSizes, written, hazard>>
  PROVE  Promises'
<1>1. Lessens  BY DEF Lessens, Promises, Reserved, Passed, Live
<1> QED  BY <1>1, LessensKeeps

\* Nothing is written and nobody has asked.
LEMMA InitPromises == Init => Promises
<1> SUFFICES ASSUME Init PROVE Promises  OBVIOUS
<1>1. inFlightSizes = {} /\ written = {} /\ \A r \in RunId : run[r].pc = "none"  BY DEF Init, NoRun
<1>2. PassedIds = {} /\ \A r \in RunId : ~Reserved(r)  BY <1>1 DEF PassedIds, Passed, Reserved, Live
<1>3. Bytes(written \union PassedIds) = 0
  <2>1. written \union PassedIds = {} /\ {} \in SUBSET Id  BY <1>1, <1>2
  <2>2. Total(Size, {}) = 0  BY DownloadsAssumption, TotalTakes
  <2> QED  BY <2>1, <2>2, BytesIsTotal
<1>4. Disk \in Nat  BY DownloadsAssumption
<1> QED  BY <1>1, <1>2, <1>3, <1>4 DEF Promises

\* Every action of Next keeps what was promised within the space there was.
LEMMA NextPromises == Inv /\ Promises /\ [Next]_vars => Promises'
<1> SUFFICES ASSUME Inv, Promises, [Next]_vars PROVE Promises'  OBVIOUS
<1>0. Entries  BY DEF Inv
<1>1. ASSUME NEW r \in Started, Step(r) PROVE Promises'  BY <1>1, StepPromises
<1>2. ASSUME NEW i \in File, NEW priority \in {"user", "background"}, downloadFile(i, priority) PROVE Promises'
  BY <1>2, DownloadFilePromises
<1>3. ASSUME NEW i \in Share, downloadFromShareUrl(i) PROVE Promises'
  <2>1. i \in Id /\ UNCHANGED <<inFlightSizes, written>>  BY <1>3, Ids DEF downloadFromShareUrl
  <2>2. PICK r : Enters(r, i)  BY <1>0, <1>3, ShareUrlDoes
  <2> QED  BY <2>1, <2>2, EnterPromises
<1>4. ASSUME NEW i \in Id, cancel(i) PROVE Promises'
  <2>1. run' = Aborted({controllers[i]}) /\ inFlightSizes' = inFlightSizes \ {i} /\ written' = written
    BY <1>4 DEF cancel
  <2> QED  BY <1>0, <1>4, <2>1, CancelDoes, CancelPromises
<1>5. ASSUME cancelAll PROVE Promises'
  <2>1. run' = Aborted({controllers[i] : i \in Id} \ {0}) /\ inFlightSizes' = {} /\ written' = written
    BY <1>5, ZenonT(60) DEF cancelAll
  <2>2. inFlightSizes' = inFlightSizes \ Id  BY <2>1 DEF Promises
  <2> QED  BY <1>0, <1>5, <2>1, <2>2, CancelAllDoes, CancelPromises
<1>6. ASSUME NEW n \in Slots, SetSlots(n) PROVE Promises'
  BY <1>0, <1>6, QuietPromises DEF SetSlots, maps
<1>7. ASSUME Precheck PROVE Promises'  BY <1>0, <1>7, QuietPromises DEF Precheck, maps
<1>8. ASSUME ProbeReads PROVE Promises'  BY <1>0, <1>8, QuietPromises DEF ProbeReads, maps
<1>9. ASSUME ProbeSettles PROVE Promises'  BY <1>0, <1>9, ProbeSettlesPromises
<1>10. ASSUME UNCHANGED vars PROVE Promises'  BY <1>0, <1>10, QuietPromises DEF vars, maps
<1> QED
  BY <1>1, <1>2, <1>3, <1>4, <1>5, <1>6, <1>7, <1>8, <1>9, <1>10 DEF Next, Call

\* The downloads under way that passed their space check, and what is written, fit in the
\* space there was, however checks, transfers, failures and cancels cross, but for the races.
THEOREM PromisesAreKept == Spec => []PromisedFits
<1>1. Inv /\ Promises /\ [Next]_vars => (Inv /\ Promises)'  BY StepInv, NextPromises
<1>2. Init => Inv /\ Promises  BY InitInv, InitPromises
<1> QED  BY <1>1, <1>2, PromisesFit, PTL DEF Spec


-----------------------------------------------------------------------------
(* Folds over a sequence, by their stages.                                 *)

\* What holds at the start and is kept by each stage holds at all of them.
LEMMA Upward ==
  ASSUME NEW n \in Nat, NEW Good, 0 \in Good, \A i \in 0 .. (n - 1) : i \in Good => i + 1 \in Good
  PROVE  \A i \in 0 .. n : i \in Good
<1> DEFINE Bad == {i \in 0 .. n : i \notin Good}
<1>1. SUFFICES ASSUME Bad # {} PROVE FALSE  OBVIOUS
<1>2. Bad \subseteq Nat /\ \A i \in Bad : i \in 0 .. n /\ i \notin Good  OBVIOUS
<1>3. \A i \in 0 .. n : i \notin Bad => i \in Good  OBVIOUS
<1> HIDE DEF Bad
<1>4. PICK i \in Bad : \A j \in Bad : ~ (<<j, i>> \in OpToRel(<, Nat))
  BY <1>1, <1>2, NatLessThanWellFounded, WFMin, ZenonT(60)
<1>5. i \in 0 .. n /\ i # 0 /\ i - 1 \in 0 .. (n - 1) /\ (i - 1) + 1 = i  BY <1>2
<1>6. i - 1 \notin Good  BY <1>2, <1>5
<1>7. i - 1 \in Bad /\ <<i - 1, i>> \in OpToRel(<, Nat)  BY <1>3, <1>5, <1>6 DEF OpToRel
<1> QED  BY <1>4, <1>7, ZenonT(60)

\* The last position of some positions is one of them.
LEMMA LastIsOne ==
  ASSUME NEW n \in Nat, NEW s \in SUBSET (1 .. n), s # {}
  PROVE  Max(s) \in s /\ \A x \in s : x <= Max(s)
<1> DEFINE B == {n - x : x \in s}
<1>1. B \subseteq Nat /\ B # {}
  <2>1. \A x \in s : n - x \in Nat  OBVIOUS
  <2>2. PICK x \in s : TRUE  OBVIOUS
  <2> QED  BY <2>1, <2>2
<1>2. PICK m \in B : \A j \in B : ~ (<<j, m>> \in OpToRel(<, Nat))
  <2> HIDE DEF B
  <2> QED  BY <1>1, NatLessThanWellFounded, WFMin, ZenonT(60)
<1>3. PICK x \in s : m = n - x  BY <1>2, ZenonT(60)
<1>4. \A y \in s : x >= y
  <2> SUFFICES ASSUME NEW y \in s, ~(x >= y) PROVE FALSE  OBVIOUS
  <2>1. n - y \in B /\ n - y \in Nat /\ m \in Nat /\ n - y < m  BY <1>3
  <2> QED  BY <1>2, <2>1 DEF OpToRel
<1>5. \A y \in s : y \in Int  OBVIOUS
<1> QED  BY <1>4, <1>5 DEF Max

\* The last of the first positions.
LEMMA LastOfFirst ==
  ASSUME NEW n \in Nat, NEW i \in 1 .. n
  PROVE  Max(1 .. i) = i /\ (1 .. i) \ {i} = 1 .. (i - 1)
<1>1. 1 .. i \in SUBSET (1 .. n) /\ 1 .. i # {}  OBVIOUS
<1>2. Max(1 .. i) \in 1 .. i /\ \A x \in 1 .. i : x <= Max(1 .. i)  BY <1>1, LastIsOne
<1>3. i \in 1 .. i  OBVIOUS
<1>4. Max(1 .. i) = i  BY <1>2, <1>3
<1> QED  BY <1>4

\* The function of a fold of t over the positions 1 .. n, from the last to none.
IsFold(f, n, A, base, t) ==
  /\ f \in [SUBSET (1 .. n) -> A] /\ f[{}] = base
  /\ \A s \in SUBSET (1 .. n) : s # {} => f[s] = t[Max(s)][f[s \ {Max(s)}]]

\* Every fold has its function.
LEMMA FoldExists ==
  ASSUME NEW n \in Nat, NEW A, NEW base \in A, NEW t \in [1 .. n -> [A -> A]]
  PROVE  \E f : IsFold(f, n, A, base, t)
<1> DEFINE Folds(f, i) ==
             f = [s \in SUBSET (1 .. i) |-> IF s = {} THEN base ELSE t[Max(s)][f[s \ {Max(s)}]]]
           Good == {i \in 0 .. n : \E f \in [SUBSET (1 .. i) -> A] : Folds(f, i)}
<1>1. 0 \in Good
  <2> DEFINE f == [s \in SUBSET (1 .. 0) |-> base]
  <2>1. \A s \in SUBSET (1 .. 0) : s = {}  OBVIOUS
  <2>2. Folds(f, 0) /\ f \in [SUBSET (1 .. 0) -> A]  BY <2>1
  <2> QED  BY <2>2
<1>2. ASSUME NEW i \in 0 .. (n - 1), i \in Good PROVE i + 1 \in Good
  <2>1. PICK f \in [SUBSET (1 .. i) -> A] : Folds(f, i)  BY <1>2
  <2>2. i + 1 \in 0 .. n /\ i + 1 \in Nat /\ i \in Nat  OBVIOUS
  <2> DEFINE g == [s \in SUBSET (1 .. (i + 1)) |-> IF s = {} THEN base ELSE t[Max(s)][f[s \ {Max(s)}]]]
  <2>3. ASSUME NEW s \in SUBSET (1 .. (i + 1)), s # {}
        PROVE  s \ {Max(s)} \in SUBSET (1 .. i) /\ Max(s) \in 1 .. n
    <3>1. Max(s) \in s /\ \A x \in s : x <= Max(s)  BY <2>2, <2>3, LastIsOne
    <3>2. Max(s) \in 1 .. (i + 1)  BY <3>1
    <3>3. \A x \in s \ {Max(s)} : x \in 1 .. i
      <4> SUFFICES ASSUME NEW x \in s, x # Max(s) PROVE x \in 1 .. i  OBVIOUS
      <4>1. x \in 1 .. (i + 1) /\ x <= Max(s)  BY <3>1
      <4> QED  BY <2>2, <3>2, <4>1
    <3>4. 1 .. (i + 1) \subseteq 1 .. n  BY <2>2
    <3> QED  BY <3>2, <3>3, <3>4
  <2>4. ASSUME NEW s \in SUBSET (1 .. i) PROVE s \in SUBSET (1 .. (i + 1)) /\ g[s] = f[s]
    <3>1. s \in SUBSET (1 .. (i + 1))  BY <2>2
    <3>2. f[s] = IF s = {} THEN base ELSE t[Max(s)][f[s \ {Max(s)}]]  BY <2>1
    <3> QED  BY <3>1, <3>2
  <2>5. g = [s \in SUBSET (1 .. (i + 1)) |-> IF s = {} THEN base ELSE t[Max(s)][g[s \ {Max(s)}]]]
    BY <2>3, <2>4
  <2>6. g \in [SUBSET (1 .. (i + 1)) -> A]
    <3>1. ASSUME NEW s \in SUBSET (1 .. (i + 1)) PROVE g[s] \in A
      <4>1. CASE s = {}  BY <4>1
      <4>2. CASE s # {}
        <5>1. f[s \ {Max(s)}] \in A /\ t[Max(s)] \in [A -> A]  BY <2>3, <4>2
        <5> QED  BY <4>2, <5>1
      <4> QED  BY <4>1, <4>2
    <3> QED  BY <3>1
  <2> QED  BY <2>2, <2>5, <2>6
<1>3. n \in 0 .. n  OBVIOUS
<1> HIDE DEF Good
<1>4. n \in Good  BY <1>1, <1>2, <1>3, Upward
<1>5. PICK f \in [SUBSET (1 .. n) -> A] : Folds(f, n)  BY <1>4 DEF Good
<1>6. f[{}] = base /\ \A s \in SUBSET (1 .. n) : s # {} => f[s] = t[Max(s)][f[s \ {Max(s)}]]
  BY <1>5
<1> QED  BY <1>6 DEF IsFold

-----------------------------------------------------------------------------
(* The slot pool's entries and what fits.                                  *)

\* What waits or holds a slot, and the states of the pool.
Entry == [run : RunId, key : Id \union {"none"}, priority : {0, 1}, weight : Nat]
Pools ==
  [max : Nat, capacity : Nat, queue : Seq(Entry), holders : {H \in SUBSET Entry : IsFiniteSet(H)}]

\* What holds back, for the waiter at a position of the queue.
heldFor(queue, i) == IF i = 1 THEN <<>> ELSE <<queue[1].weight>>

\* No waiter fits.
Settled(p) == \A i \in DOMAIN p.queue : ~fits(p, p.queue[i].weight, heldFor(p.queue, i))

\* A run waits once.
Once(queue) == \A i, j \in DOMAIN queue : queue[i].run = queue[j].run => i = j

\* Who waits does not hold a slot.
Apart(p) == \A e \in ToSet(p.queue), h \in p.holders : e.run # h.run

entries(p) == ToSet(p.queue) \union p.holders

\* The weight in use is a sum over any finite set the holders are of.
LEMMA WeightIsTotal ==
  ASSUME NEW U, IsFiniteSet(U), NEW p, p.holders \in SUBSET U
  PROVE  inUseWeight(p) = Total([e \in U |-> e.weight], p.holders)
<1> DEFINE H == p.holders
           w == [e \in U |-> e.weight]
           Weighed(f) == f = [s \in SUBSET H |-> IF s = {} THEN 0 ELSE pick(s).weight + f[s \ {pick(s)}]]
<1>1. inUseWeight(p) = (CHOOSE f : Weighed(f))[H]
  BY DEF inUseWeight, MapThenSumSet, MapThenFoldSet, pick
<1>2. ASSUME NEW f PROVE Weighed(f) <=> IsSum(f, w, H)
  <2>1. \A s \in SUBSET H : s # {} => w[pick(s)] = pick(s).weight  BY Picked
  <2>2. [s \in SUBSET H |-> IF s = {} THEN 0 ELSE pick(s).weight + f[s \ {pick(s)}]]
          = [s \in SUBSET H |-> IF s = {} THEN 0 ELSE w[pick(s)] + f[s \ {pick(s)}]]
    BY <2>1
  <2> QED  BY <2>2 DEF IsSum
<1>3. IsFiniteSet(H)  BY FS_Subset
<1>4. PICK g : IsSum(g, w, H)  BY <1>3, SumExists
<1>5. IsSum(CHOOSE f : IsSum(f, w, H), w, H)
  <2> HIDE DEF w
  <2> QED  BY <1>4
<1>6. Weighed(CHOOSE f : Weighed(f))
  <2>1. Weighed(g)  BY <1>2, <1>4
  <2> HIDE DEF Weighed
  <2> QED  BY <2>1
<1>7. IsSum(CHOOSE f : Weighed(f), w, H)
  <2> HIDE DEF Weighed, w, H
  <2> QED  BY <1>2, <1>6
<1>8. (CHOOSE f : Weighed(f))[H] = (CHOOSE f : IsSum(f, w, H))[H]
  <2>1. H \in SUBSET H /\ H \in SUBSET H  OBVIOUS
  <2> HIDE DEF Weighed, w, H
  <2>2. \A s \in SUBSET H : (CHOOSE f : Weighed(f))[s] = (CHOOSE f : IsSum(f, w, H))[s]
    BY <1>3, <1>5, <1>7, <2>1, SumsAgree
  <2> QED  BY <2>1, <2>2
<1> QED  BY <1>1, <1>8 DEF Total

\* A holder more uses no less weight.
LEMMA WeightGrows ==
  ASSUME NEW p \in Pools, NEW e \in Entry
  PROVE  /\ inUseWeight(p) \in Nat /\ inUseWeight(take(p, e)) \in Nat
         /\ inUseWeight(p) <= inUseWeight(take(p, e))
<1> DEFINE U == p.holders \union {e}
           w == [x \in U |-> x.weight]
<1>1. IsFiniteSet(p.holders) /\ p.holders \in SUBSET Entry  BY DEF Pools
<1>2. IsFiniteSet(U)  BY <1>1, FS_AddElement
<1>3. \A x \in U : w[x] \in Nat  BY <1>1 DEF Entry
<1>4. take(p, e).holders = U  BY DEF take, Pools
<1>5. inUseWeight(p) = Total(w, p.holders)  BY <1>2, WeightIsTotal
<1>6. inUseWeight(take(p, e)) = Total(w, U)  BY <1>2, <1>4, WeightIsTotal
<1> HIDE DEF w
<1>7. Total(w, p.holders) \in Nat /\ Total(w, U) \in Nat
  <2>1. p.holders \in SUBSET U /\ U \in SUBSET U  OBVIOUS
  <2> HIDE DEF U
  <2> QED  BY <1>2, <1>3, <2>1, TotalType
<1>8. CASE e \in p.holders
  <2>1. U = p.holders  BY <1>8
  <2> QED  BY <1>5, <1>6, <1>7, <2>1
<1>9. CASE e \notin p.holders
  <2>1. \A A \in SUBSET U : \A i \in U \ A : Total(w, A \union {i}) = Total(w, A) + w[i]
    BY <1>2, <1>3, TotalAdd, ZenonT(60)
  <2>2. Total(w, U) = Total(w, p.holders) + w[e] /\ w[e] \in Nat  BY <1>3, <1>9, <2>1
  <2> QED  BY <1>5, <1>6, <1>7, <2>2
<1> QED  BY <1>8, <1>9

\* Once a holder more runs, nothing fits that did not.
LEMMA FitsLess ==
  ASSUME NEW p \in Pools, NEW e \in Entry, NEW v \in Nat, NEW held \in Seq(Nat),
         fits(take(p, e), v, held)
  PROVE  fits(p, v, held)
<1>1. take(p, e).holders = p.holders \union {e} /\ take(p, e).max = p.max /\ take(p, e).capacity = p.capacity
  BY DEF take, Pools
<1>2. IsFiniteSet(p.holders) /\ p.max \in Nat /\ p.capacity \in Nat  BY DEF Pools
<1>3. Cardinality(p.holders) \in Nat /\ Cardinality(p.holders \union {e}) \in Nat
      /\ Cardinality(p.holders) <= Cardinality(p.holders \union {e})
  <2>1. Cardinality(p.holders) \in Nat  BY <1>2, FS_CardinalityType
  <2>2. Cardinality(p.holders \union {e}) = IF e \in p.holders THEN Cardinality(p.holders) ELSE Cardinality(p.holders) + 1
    BY <1>2, FS_AddElement
  <2> QED  BY <2>1, <2>2
<1>4. Len(held) \in Nat /\ (IF held = <<>> THEN 0 ELSE held[1]) \in Nat  OBVIOUS
<1>5. /\ inUseWeight(p) \in Nat /\ inUseWeight(take(p, e)) \in Nat
      /\ inUseWeight(p) <= inUseWeight(take(p, e))
  BY WeightGrows
<1>6. Cardinality(p.holders) + Len(held) < p.max  BY <1>1, <1>2, <1>3, <1>4 DEF fits
<1>7. inUseWeight(take(p, e)) + v + (IF held = <<>> THEN 0 ELSE held[1]) <= p.capacity
  BY <1>1 DEF fits
<1>8. inUseWeight(p) + v + (IF held = <<>> THEN 0 ELSE held[1]) <= p.capacity
  BY <1>2, <1>4, <1>5, <1>7
<1> QED  BY <1>6, <1>8 DEF fits

\* What fits does not depend on who waits.
LEMMA FitsAlike ==
  ASSUME NEW p, NEW q, p.holders = q.holders, p.max = q.max, p.capacity = q.capacity, NEW v, NEW held
  PROVE  fits(p, v, held) <=> fits(q, v, held)
<1>1. inUseWeight(p) = inUseWeight(q)  BY DEF inUseWeight
<1> QED  BY <1>1 DEF fits

-----------------------------------------------------------------------------
(* Serving the queue.                                                      *)

\* Where serving a queue is, and where it starts.
Acc == [pool : Pools, held : Seq(Nat)]
Emptied(p) == [pool |-> [p EXCEPT !.queue = <<>>], held |-> <<>>]

\* What one waiter's turn does.
LEMMA Serves ==
  ASSUME NEW a \in Acc, NEW e \in Entry
  PROVE  /\ serve(a, e) \in Acc
         /\ fits(a.pool, e.weight, a.held) =>
              serve(a, e).pool = take(a.pool, e) /\ serve(a, e).held = a.held
         /\ ~fits(a.pool, e.weight, a.held) =>
              /\ serve(a, e).pool = [a.pool EXCEPT !.queue = Append(@, e)]
              /\ serve(a, e).held = IF a.held = <<>> THEN <<e.weight>> ELSE a.held
<1>1. a.pool \in Pools /\ a.held \in Seq(Nat) /\ e.weight \in Nat  BY DEF Acc, Entry
<1>2. a.pool.holders \in SUBSET Entry /\ IsFiniteSet(a.pool.holders) /\ a.pool.queue \in Seq(Entry)
  BY <1>1 DEF Pools
<1>3. CASE fits(a.pool, e.weight, a.held)
  <2>1. serve(a, e) = [a EXCEPT !.pool = take(@, e)]  BY <1>3 DEF serve
  <2>2. serve(a, e).pool = take(a.pool, e) /\ serve(a, e).held = a.held
        /\ serve(a, e) = [pool |-> take(a.pool, e), held |-> a.held]
    BY <2>1 DEF Acc
  <2>3. a.pool.holders \union {e} \in {H \in SUBSET Entry : IsFiniteSet(H)}  BY <1>2, FS_AddElement
  <2>4. take(a.pool, e) \in Pools  BY <1>1, <2>3 DEF take, Pools
  <2> QED  BY <1>1, <1>3, <2>2, <2>4 DEF Acc
<1>4. CASE ~fits(a.pool, e.weight, a.held)
  <2>1. serve(a, e) = [pool |-> [a.pool EXCEPT !.queue = Append(@, e)],
                       held |-> IF a.held = <<>> THEN <<e.weight>> ELSE a.held]
    BY <1>4 DEF serve
  <2>2. Append(a.pool.queue, e) \in Seq(Entry)  BY <1>2
  <2>3. [a.pool EXCEPT !.queue = Append(@, e)] \in Pools  BY <1>1, <2>2 DEF Pools
  <2>4. (IF a.held = <<>> THEN <<e.weight>> ELSE a.held) \in Seq(Nat)  BY <1>1
  <2> QED  BY <1>4, <2>1, <2>3, <2>4 DEF Acc
<1> QED  BY <1>3, <1>4

\* The queue is served waiter by waiter.
LEMMA DrainStages ==
  ASSUME NEW p \in Pools
  PROVE  \E g \in [0 .. Len(p.queue) -> Acc] :
           /\ g[0] = Emptied(p) /\ drain(p) = g[Len(p.queue)].pool
           /\ \A i \in 0 .. (Len(p.queue) - 1) : g[i + 1] = serve(g[i], p.queue[i + 1])
<1> DEFINE n == Len(p.queue)
           D == DOMAIN p.queue
           Folds(f) == f = [s \in SUBSET D |-> IF s = {} THEN Emptied(p) ELSE serve(f[s \ {Max(s)}], p.queue[Max(s)])]
           t == [i \in 1 .. n |-> [a \in Acc |-> serve(a, p.queue[i])]]
           h == CHOOSE f : Folds(f)
<1>1. n \in Nat /\ D = 1 .. n /\ \A i \in 1 .. n : p.queue[i] \in Entry  BY DEF Pools
<1>2. Emptied(p) \in Acc
  <2>1. <<>> \in Seq(Entry) /\ <<>> \in Seq(Nat)  BY EmptySeq
  <2>2. \A q \in Seq(Entry) : [p EXCEPT !.queue = q] \in Pools  BY DEF Pools
  <2> QED  BY <2>1, <2>2 DEF Emptied, Acc
<1>3. t \in [1 .. n -> [Acc -> Acc]]
  <2>1. \A i \in 1 .. n : \A a \in Acc : serve(a, p.queue[i]) \in Acc  BY <1>1, Serves
  <2> QED  BY <2>1
<1>4. drain(p) = h[D].pool
  BY DEF drain, FoldLeft, MapThenFoldSet, Emptied
<1>5. Folds(h)
  <2>1. PICK f : IsFold(f, n, Acc, Emptied(p), t)
    <3>1. n \in Nat  BY <1>1
    <3> HIDE DEF t, n
    <3> QED  BY <3>1, <1>2, <1>3, FoldExists
  <2>2. ASSUME NEW s \in SUBSET (1 .. n), s # {}
        PROVE  t[Max(s)][f[s \ {Max(s)}]] = serve(f[s \ {Max(s)}], p.queue[Max(s)])
    <3>1. Max(s) \in 1 .. n  BY <1>1, <2>2, LastIsOne
    <3>2. f[s \ {Max(s)}] \in Acc  BY <2>1, <2>2 DEF IsFold
    <3> QED  BY <3>1, <3>2
  <2>3. Folds(f)
    <3>1. f = [s \in SUBSET (1 .. n) |-> f[s]]  BY <2>1 DEF IsFold
    <3>2. \A s \in SUBSET (1 .. n) :
            f[s] = IF s = {} THEN Emptied(p) ELSE serve(f[s \ {Max(s)}], p.queue[Max(s)])
      BY <2>1, <2>2 DEF IsFold
    <3> HIDE DEF t
    <3> QED  BY <1>1, <3>1, <3>2
  <2> HIDE DEF Folds
  <2> QED  BY <2>3
<1> DEFINE g == [i \in 0 .. n |-> h[1 .. i]]
<1>6. h[{}] = Emptied(p) /\ \A s \in SUBSET D : s # {} => h[s] = serve(h[s \ {Max(s)}], p.queue[Max(s)])
  <2> HIDE DEF h
  <2> QED  BY <1>5
<1> HIDE DEF h
<1>7. g[0] = Emptied(p)
  <2>1. 1 .. 0 = {} /\ 0 \in 0 .. n  BY <1>1
  <2> QED  BY <1>6, <2>1
<1>8. ASSUME NEW i \in 0 .. (n - 1) PROVE g[i + 1] = serve(g[i], p.queue[i + 1])
  <2>1. i + 1 \in 1 .. n /\ i + 1 \in 0 .. n /\ i \in 0 .. n /\ (i + 1) - 1 = i  BY <1>1
  <2>2. Max(1 .. (i + 1)) = i + 1 /\ (1 .. (i + 1)) \ {i + 1} = 1 .. i  BY <1>1, <2>1, LastOfFirst
  <2>3. 1 .. (i + 1) \in SUBSET D /\ 1 .. (i + 1) # {}
    <3>1. 1 .. (i + 1) \subseteq 1 .. n  BY <1>1, <2>1
    <3>2. i + 1 \in 1 .. (i + 1)  BY <1>1, <2>1
    <3> QED  BY <1>1, <3>1, <3>2
  <2>4. h[1 .. (i + 1)] = serve(h[1 .. i], p.queue[i + 1])  BY <1>6, <2>2, <2>3
  <2> QED  BY <2>1, <2>4
<1>9. g \in [0 .. n -> Acc]
  <2> DEFINE Good == {i \in 0 .. n : g[i] \in Acc}
  <2>1. 0 \in Good  BY <1>1, <1>2, <1>7
  <2>2. ASSUME NEW i \in 0 .. (n - 1), i \in Good PROVE i + 1 \in Good
    <3>1. i + 1 \in 0 .. n /\ p.queue[i + 1] \in Entry /\ g[i] \in Acc  BY <1>1, <2>2
    <3>2. serve(g[i], p.queue[i + 1]) \in Acc
      <4> HIDE DEF g
      <4> QED  BY <3>1, Serves
    <3> QED  BY <1>8, <3>1, <3>2
  <2> HIDE DEF Good
  <2>3. \A i \in 0 .. n : i \in Good  BY <1>1, <2>1, <2>2, Upward
  <2> QED  BY <2>3 DEF Good
<1>10. drain(p) = g[n].pool
  <2>1. n \in 0 .. n  BY <1>1
  <2> QED  BY <1>1, <1>4, <2>1
<1> QED  BY <1>7, <1>8, <1>9, <1>10

\* What the stages keep: after i waiters nothing fits of those that stay, the first of them
\* holds back, and none of the i is lost.
Served(p, a, i) ==
  /\ a.pool.max = p.max /\ a.pool.capacity = p.capacity
  /\ a.held = heldFor(a.pool.queue, Len(a.pool.queue) + 1)
  /\ Settled(a.pool)
  /\ \A k \in DOMAIN a.pool.queue : \E j \in 1 .. i : a.pool.queue[k] = p.queue[j]
  /\ Once(a.pool.queue) /\ Apart(a.pool)
  /\ entries(a.pool) = p.holders \union {p.queue[j] : j \in 1 .. i}

\* A waiter more at the end of a queue.
LEMMA Appended ==
  ASSUME NEW q \in Seq(Entry), NEW e \in Entry
  PROVE  /\ Append(q, e) \in Seq(Entry) /\ Len(Append(q, e)) = Len(q) + 1
         /\ DOMAIN Append(q, e) = 1 .. (Len(q) + 1) /\ DOMAIN q = 1 .. Len(q)
         /\ Append(q, e)[Len(q) + 1] = e /\ \A k \in 1 .. Len(q) : Append(q, e)[k] = q[k]
         /\ ToSet(Append(q, e)) = ToSet(q) \union {e}
         /\ \A k \in 1 .. (Len(q) + 1) : heldFor(Append(q, e), k) = heldFor(q, k)
<1>1. /\ Append(q, e) \in Seq(Entry) /\ Len(Append(q, e)) = Len(q) + 1 /\ Len(q) \in Nat
      /\ DOMAIN Append(q, e) = 1 .. (Len(q) + 1) /\ DOMAIN q = 1 .. Len(q)
      /\ Append(q, e)[Len(q) + 1] = e /\ \A k \in 1 .. Len(q) : Append(q, e)[k] = q[k]
  OBVIOUS
<1> DEFINE r == Append(q, e)
<1> HIDE DEF r
<1>2. ToSet(r) = ToSet(q) \union {e}
  <2>1. \A x : x \in ToSet(r) <=> \E k \in 1 .. (Len(q) + 1) : r[k] = x  BY <1>1 DEF ToSet, r
  <2>2. \A x : x \in ToSet(q) <=> \E k \in 1 .. Len(q) : q[k] = x  BY <1>1 DEF ToSet
  <2>3. \A k \in 1 .. (Len(q) + 1) : k \in 1 .. Len(q) \/ k = Len(q) + 1  BY <1>1
  <2>4. Len(q) + 1 \in 1 .. (Len(q) + 1) /\ \A k \in 1 .. Len(q) : k \in 1 .. (Len(q) + 1)  BY <1>1
  <2>5. r[Len(q) + 1] = e /\ \A k \in 1 .. Len(q) : r[k] = q[k]  BY <1>1 DEF r
  <2>6. ASSUME NEW x PROVE x \in ToSet(r) <=> x \in ToSet(q) \union {e}
    BY <2>1, <2>2, <2>3, <2>4, <2>5
  <2> QED  BY <2>6
<1>3. \A k \in 1 .. (Len(q) + 1) : heldFor(r, k) = heldFor(q, k)
  <2> SUFFICES ASSUME NEW k \in 1 .. (Len(q) + 1) PROVE heldFor(r, k) = heldFor(q, k)  OBVIOUS
  <2>1. CASE k = 1  BY <2>1 DEF heldFor
  <2>2. CASE k # 1
    <3>1. 1 \in 1 .. Len(q)  BY <1>1, <2>2
    <3>2. r[1] = q[1]  BY <1>1, <3>1 DEF r
    <3> QED  BY <2>2, <3>2 DEF heldFor
  <2> QED  BY <2>1, <2>2
<1> QED  BY <1>1, <1>2, <1>3 DEF r

\* A turn keeps it.
LEMMA ServedOn ==
  ASSUME NEW p \in Pools, Once(p.queue), Apart(p), NEW i \in 0 .. (Len(p.queue) - 1), NEW a \in Acc,
         Served(p, a, i)
  PROVE  Served(p, serve(a, p.queue[i + 1]), i + 1)
<1> DEFINE e == p.queue[i + 1]
           b == serve(a, e)
           q == a.pool.queue
           L == Len(q)
<1>1. e \in Entry /\ i \in Nat /\ i + 1 \in DOMAIN p.queue /\ \A j \in 1 .. i : j \in DOMAIN p.queue /\ j # i + 1
  BY DEF Pools
<1>2. a.pool \in Pools /\ a.held \in Seq(Nat) /\ q \in Seq(Entry) /\ L \in Nat /\ e.weight \in Nat
  BY <1>1 DEF Acc, Pools, Entry
<1>3. \A k \in DOMAIN q : q[k].weight \in Nat /\ heldFor(q, k) \in Seq(Nat)
  <2> SUFFICES ASSUME NEW k \in DOMAIN q PROVE q[k].weight \in Nat /\ heldFor(q, k) \in Seq(Nat)
    OBVIOUS
  <2>1. q[k] \in Entry /\ q[1] \in Entry  BY <1>2
  <2>2. q[k].weight \in Nat /\ q[1].weight \in Nat  BY <2>1 DEF Entry
  <2> QED  BY <2>2 DEF heldFor
<1>4. {p.queue[j] : j \in 1 .. (i + 1)} = {p.queue[j] : j \in 1 .. i} \union {e}
  <2>1. 1 .. (i + 1) = 1 .. i \union {i + 1}  BY <1>1
  <2> QED  BY <2>1
<1>5. \A j \in 1 .. i : j \in 1 .. (i + 1)  BY <1>1
<1> SUFFICES Served(p, b, i + 1)  OBVIOUS
<1>8. e \in ToSet(p.queue) /\ \A j \in 1 .. i : p.queue[j].run # e.run
  <2>1. e \in ToSet(p.queue)  BY <1>1 DEF ToSet
  <2> QED  BY <1>1, <2>1 DEF Once
<1>9. \A x \in entries(a.pool) : x \in p.holders \/ \E j \in 1 .. i : x = p.queue[j]  BY DEF Served
<1>10. \A x \in entries(a.pool) : x.run # e.run  BY <1>8, <1>9 DEF Apart
<1> HIDE DEF e
<1>6. CASE fits(a.pool, e.weight, a.held)
  <2>1. b.pool = take(a.pool, e) /\ b.held = a.held  BY <1>1, <1>6, Serves
  <2>2. /\ b.pool.max = a.pool.max /\ b.pool.capacity = a.pool.capacity
        /\ b.pool.queue = q /\ b.pool.holders = a.pool.holders \union {e}
    BY <1>2, <2>1 DEF take, Pools
  <2> HIDE DEF b, q
  <2>3. Settled(b.pool)
    <3> SUFFICES ASSUME NEW k \in DOMAIN q, fits(b.pool, q[k].weight, heldFor(q, k)) PROVE FALSE
      BY <2>2 DEF Settled
    <3>1. fits(a.pool, q[k].weight, heldFor(q, k))  BY <1>1, <1>2, <1>3, <2>1, FitsLess
    <3> QED  BY <3>1 DEF Served, Settled, q
  <2>4. entries(b.pool) = p.holders \union {p.queue[j] : j \in 1 .. (i + 1)}
    BY <1>4, <2>2 DEF Served, entries, q
  <2>5. Apart(b.pool)  BY <1>10, <2>2 DEF Served, Apart, entries, q
  <2> QED  BY <1>5, <2>1, <2>2, <2>3, <2>4, <2>5 DEF Served, q
<1>7. CASE ~fits(a.pool, e.weight, a.held)
  <2>1. /\ b.pool = [a.pool EXCEPT !.queue = Append(@, e)]
        /\ b.held = IF a.held = <<>> THEN <<e.weight>> ELSE a.held
    BY <1>1, <1>7, Serves
  <2>2. /\ b.pool.max = a.pool.max /\ b.pool.capacity = a.pool.capacity
        /\ b.pool.queue = Append(q, e) /\ b.pool.holders = a.pool.holders
    BY <1>2, <2>1 DEF Pools
  <2> DEFINE r == Append(q, e)
  <2>3. /\ Len(r) = L + 1 /\ DOMAIN r = 1 .. (L + 1) /\ DOMAIN q = 1 .. L
        /\ r[L + 1] = e /\ \A k \in 1 .. L : r[k] = q[k]
        /\ ToSet(r) = ToSet(q) \union {e}
        /\ \A k \in 1 .. (L + 1) : heldFor(r, k) = heldFor(q, k)
    BY <1>1, <1>2, Appended
  <2>4. a.held = heldFor(q, L + 1)  BY DEF Served
  <2> HIDE DEF b, q, L, r
  <2>5. b.held = heldFor(r, L + 2)
    <3>1. CASE L = 0
      <4>1. a.held = <<>>  BY <2>4, <3>1 DEF heldFor
      <4>2. r[1] = e  BY <2>3, <3>1
      <4> QED  BY <2>1, <3>1, <4>1, <4>2 DEF heldFor
    <3>2. CASE L # 0
      <4>1. 1 \in 1 .. L /\ L + 1 # 1 /\ L + 2 # 1  BY <1>2, <3>2
      <4>2. a.held = <<q[1].weight>> /\ r[1] = q[1]  BY <2>3, <2>4, <4>1 DEF heldFor
      <4>3. a.held # <<>>  BY <4>2
      <4> QED  BY <2>1, <4>1, <4>2, <4>3 DEF heldFor
    <3> QED  BY <3>1, <3>2
  <2>6. Settled(b.pool)
    <3> SUFFICES ASSUME NEW k \in 1 .. (L + 1), fits(b.pool, r[k].weight, heldFor(r, k)) PROVE FALSE
      BY <2>2, <2>3 DEF Settled, r
    <3>1. fits(a.pool, r[k].weight, heldFor(q, k))
      <4>1. heldFor(r, k) = heldFor(q, k)  BY <2>3
      <4> QED  BY <2>2, <4>1, FitsAlike
    <3>2. CASE k = L + 1  BY <1>7, <2>3, <2>4, <3>1, <3>2
    <3>3. CASE k # L + 1
      <4>1. k \in 1 .. L  BY <1>2, <3>3
      <4>2. fits(a.pool, q[k].weight, heldFor(q, k))  BY <2>3, <3>1, <4>1
      <4> QED  BY <2>3, <4>1, <4>2 DEF Served, Settled, q
    <3> QED  BY <3>2, <3>3
  <2>7. \A k \in DOMAIN r : \E j \in 1 .. (i + 1) : r[k] = p.queue[j]
    <3> SUFFICES ASSUME NEW k \in 1 .. (L + 1) PROVE \E j \in 1 .. (i + 1) : r[k] = p.queue[j]
      BY <2>3
    <3>1. CASE k = L + 1
      <4>1. i + 1 \in 1 .. (i + 1)  BY <1>1
      <4> QED  BY <2>3, <3>1, <4>1 DEF e
    <3>2. CASE k # L + 1
      <4>1. k \in 1 .. L  BY <1>2, <3>2
      <4>2. PICK j \in 1 .. i : q[k] = p.queue[j]  BY <2>3, <4>1 DEF Served, q
      <4> QED  BY <1>5, <2>3, <4>1, <4>2
    <3> QED  BY <3>1, <3>2
  <2>8. Once(r)
    <3>1. ASSUME NEW k \in 1 .. L PROVE q[k].run # e.run
      <4>1. PICK j \in 1 .. i : q[k] = p.queue[j]  BY <2>3 DEF Served, q
      <4> QED  BY <1>1, <4>1 DEF Once, e
    <3>2. \A k \in 1 .. (L + 1) : k \in 1 .. L \/ k = L + 1  BY <1>2
    <3>3. \A k, m \in 1 .. L : q[k].run = q[m].run => k = m  BY <2>3 DEF Served, Once, q
    <3> QED  BY <2>3, <3>1, <3>2, <3>3 DEF Once
  <2>9. entries(b.pool) = p.holders \union {p.queue[j] : j \in 1 .. (i + 1)}
    BY <1>4, <2>2, <2>3 DEF Served, entries, q, r
  <2>10. Apart(b.pool)  BY <1>10, <2>2, <2>3 DEF Served, Apart, entries, q, r
  <2> QED  BY <1>2, <2>2, <2>3, <2>5, <2>6, <2>7, <2>8, <2>9, <2>10 DEF Served, r
<1> QED  BY <1>6, <1>7

\* After a service no waiter fits, none is lost, and only they were let in.
LEMMA DrainDoes ==
  ASSUME NEW p \in Pools, Once(p.queue), Apart(p)
  PROVE  /\ drain(p) \in Pools /\ drain(p).max = p.max /\ drain(p).capacity = p.capacity
         /\ Settled(drain(p)) /\ Once(drain(p).queue) /\ Apart(drain(p))
         /\ ToSet(drain(p).queue) \subseteq ToSet(p.queue) /\ entries(drain(p)) = entries(p)
<1> DEFINE n == Len(p.queue)
<1>1. n \in Nat /\ DOMAIN p.queue = 1 .. n  BY DEF Pools
<1>2. PICK g \in [0 .. n -> Acc] :
        /\ g[0] = Emptied(p) /\ drain(p) = g[n].pool
        /\ \A i \in 0 .. (n - 1) : g[i + 1] = serve(g[i], p.queue[i + 1])
  BY DrainStages
<1>3. Served(p, g[0], 0)
  <2>1. /\ g[0].pool.max = p.max /\ g[0].pool.capacity = p.capacity /\ g[0].pool.queue = <<>>
        /\ g[0].pool.holders = p.holders /\ g[0].held = <<>>
    BY <1>2 DEF Emptied, Pools
  <2>2. 1 .. 0 = {} /\ DOMAIN <<>> = {} /\ Len(<<>>) = 0  OBVIOUS
  <2>3. ToSet(<<>>) = {}  BY <2>2 DEF ToSet
  <2>4. g[0].held = heldFor(<<>>, Len(<<>>) + 1)  BY <2>1, <2>2 DEF heldFor
  <2>5. Settled(g[0].pool) /\ Once(g[0].pool.queue)  BY <2>1, <2>2 DEF Settled, Once
  <2>7. Apart(g[0].pool)  BY <2>1, <2>3 DEF Apart
  <2>6. entries(g[0].pool) = p.holders \union {p.queue[j] : j \in 1 .. 0}
    BY <2>1, <2>2, <2>3 DEF entries
  <2> QED  BY <2>1, <2>2, <2>4, <2>5, <2>6, <2>7 DEF Served
<1> DEFINE Kept == {i \in 0 .. n : Served(p, g[i], i)}
<1>4. 0 \in Kept  BY <1>1, <1>3
<1>5. ASSUME NEW i \in 0 .. (n - 1), i \in Kept PROVE i + 1 \in Kept
  <2>1. i \in 0 .. n /\ i + 1 \in 0 .. n /\ Served(p, g[i], i) /\ g[i] \in Acc  BY <1>1, <1>2, <1>5
  <2>2. Served(p, serve(g[i], p.queue[i + 1]), i + 1)  BY <2>1, ServedOn
  <2> QED  BY <1>2, <2>1, <2>2
<1>6. n \in Kept
  <2> HIDE DEF Kept, n
  <2>1. \A i \in 0 .. n : i \in Kept  BY <1>1, <1>4, <1>5, Upward
  <2> QED  BY <1>1, <2>1
<1>8. Served(p, g[n], n) /\ g[n] \in Acc  BY <1>1, <1>2, <1>6
<1>9. \A x : x \in ToSet(drain(p).queue) => x \in ToSet(p.queue)
  BY <1>1, <1>2, <1>8 DEF Served, ToSet
<1>10. {p.queue[j] : j \in 1 .. n} = ToSet(p.queue)  BY <1>1 DEF ToSet
<1> QED  BY <1>2, <1>8, <1>9, <1>10 DEF Served, Acc, entries

\* Serving a queue of which nobody fits changes nothing.
LEMMA DrainRests ==
  ASSUME NEW p \in Pools, Settled(p)
  PROVE  drain(p) = p
<1> DEFINE n == Len(p.queue)
           rest(i) == [pool |-> [p EXCEPT !.queue = SubSeq(p.queue, 1, i)], held |-> heldFor(p.queue, i + 1)]
<1>1. n \in Nat /\ DOMAIN p.queue = 1 .. n /\ p.queue \in Seq(Entry)  BY DEF Pools
<1>2. PICK g \in [0 .. n -> Acc] :
        /\ g[0] = Emptied(p) /\ drain(p) = g[n].pool
        /\ \A i \in 0 .. (n - 1) : g[i + 1] = serve(g[i], p.queue[i + 1])
  BY DrainStages
<1>3. g[0] = rest(0)
  <2>1. SubSeq(p.queue, 1, 0) = <<>>  BY <1>1
  <2>2. heldFor(p.queue, 0 + 1) = <<>>  BY DEF heldFor
  <2> QED  BY <1>2, <2>1, <2>2 DEF Emptied
<1>4. ASSUME NEW i \in 0 .. (n - 1), g[i] = rest(i) PROVE g[i + 1] = rest(i + 1)
  <2> DEFINE e == p.queue[i + 1]
             s == SubSeq(p.queue, 1, i)
  <2>1. i \in Nat /\ i + 1 \in 1 .. n /\ i + 1 \in DOMAIN p.queue  BY <1>1
  <2>2. s \in Seq(Entry) /\ Append(s, e) = SubSeq(p.queue, 1, i + 1)  BY <1>1, <2>1
  <2>3. /\ g[i].pool.holders = p.holders /\ g[i].pool.max = p.max /\ g[i].pool.capacity = p.capacity
        /\ g[i].pool.queue = s /\ g[i].held = heldFor(p.queue, i + 1)
    <3>1. g[i].pool = [p EXCEPT !.queue = s] /\ g[i].held = heldFor(p.queue, i + 1)  BY <1>4
    <3> HIDE DEF s
    <3> QED  BY <3>1 DEF Pools
  <2>4. ~fits(p, e.weight, heldFor(p.queue, i + 1))  BY <2>1 DEF Settled
  <2> HIDE DEF e, s
  <2>5. ~fits(g[i].pool, e.weight, g[i].held)
    <3>1. fits(g[i].pool, e.weight, heldFor(p.queue, i + 1)) <=> fits(p, e.weight, heldFor(p.queue, i + 1))
      BY <2>3, FitsAlike
    <3> QED  BY <2>3, <2>4, <3>1
  <2>6. g[i + 1] = [pool |-> [g[i].pool EXCEPT !.queue = Append(@, e)],
                    held |-> IF g[i].held = <<>> THEN <<e.weight>> ELSE g[i].held]
    BY <1>2, <2>5 DEF serve, e
  <2>7. [g[i].pool EXCEPT !.queue = Append(@, e)] = [p EXCEPT !.queue = SubSeq(p.queue, 1, i + 1)]
    <3>1. g[i].pool = [p EXCEPT !.queue = s]  BY <1>4 DEF s
    <3>2. [g[i].pool EXCEPT !.queue = Append(@, e)] = [p EXCEPT !.queue = Append(s, e)]
      BY <3>1 DEF Pools
    <3> QED  BY <2>2, <3>2
  <2>8. (IF g[i].held = <<>> THEN <<e.weight>> ELSE g[i].held) = heldFor(p.queue, (i + 1) + 1)
    <3>1. (i + 1) + 1 # 1  BY <2>1
    <3>2. CASE i = 0
      <4>1. g[i].held = <<>>  BY <2>3, <3>2 DEF heldFor
      <4> QED  BY <3>1, <3>2, <4>1 DEF heldFor, e
    <3>3. CASE i # 0
      <4>1. g[i].held = <<p.queue[1].weight>>  BY <2>1, <2>3, <3>3 DEF heldFor
      <4>2. g[i].held # <<>>  BY <4>1
      <4> QED  BY <3>1, <4>1, <4>2 DEF heldFor
    <3> QED  BY <3>2, <3>3
  <2> QED  BY <2>6, <2>7, <2>8
<1> DEFINE Kept == {i \in 0 .. n : g[i] = rest(i)}
<1>5. 0 \in Kept  BY <1>1, <1>3
<1>6. ASSUME NEW i \in 0 .. (n - 1), i \in Kept PROVE i + 1 \in Kept
  <2>1. i + 1 \in 0 .. n /\ g[i] = rest(i)  BY <1>1, <1>6
  <2>2. g[i + 1] = rest(i + 1)  BY <1>4, <2>1
  <2> QED  BY <2>1, <2>2
<1>7. g[n] = rest(n)
  <2>1. n \in Kept
    <3> HIDE DEF Kept, n
    <3>1. \A i \in 0 .. n : i \in Kept  BY <1>1, <1>5, <1>6, Upward
    <3> QED  BY <1>1, <3>1
  <2> QED  BY <2>1
<1>8. g[n].pool = [p EXCEPT !.queue = SubSeq(p.queue, 1, n)]  BY <1>7
<1>9. SubSeq(p.queue, 1, n) = p.queue  BY <1>1, SubSeqFull
<1>10. [p EXCEPT !.queue = p.queue] = p  BY DEF Pools
<1> QED  BY <1>2, <1>8, <1>9, <1>10

\* Who stays does so waiter by waiter.
IsStay(g, q, S) ==
  /\ g \in [0 .. Len(q) -> Seq(Entry)] /\ g[0] = <<>> /\ stay(q, S) = g[Len(q)]
  /\ \A i \in 0 .. (Len(q) - 1) :
       g[i + 1] = IF q[i + 1] \in S THEN Append(g[i], q[i + 1]) ELSE g[i]

\* Its stages are those of the fold.
LEMMA StayStages ==
  ASSUME NEW q \in Seq(Entry), NEW S
  PROVE  \E g : IsStay(g, q, S)
<1> DEFINE n == Len(q)
           D == DOMAIN q
           on(r, e) == IF e \in S THEN Append(r, e) ELSE r
           Folds(f) == f = [s \in SUBSET D |-> IF s = {} THEN <<>> ELSE on(f[s \ {Max(s)}], q[Max(s)])]
           t == [i \in 1 .. n |-> [r \in Seq(Entry) |-> on(r, q[i])]]
           h == CHOOSE f : Folds(f)
<1>1. n \in Nat /\ D = 1 .. n /\ \A i \in 1 .. n : q[i] \in Entry  OBVIOUS
<1>2. <<>> \in Seq(Entry)  OBVIOUS
<1>3. \A r \in Seq(Entry) : \A i \in 1 .. n : on(r, q[i]) \in Seq(Entry)  BY <1>1
<1>4. stay(q, S) = h[D]
  BY DEF stay, FoldLeft, MapThenFoldSet
<1> HIDE DEF on
<1>5. Folds(h)
  <2>1. PICK f : IsFold(f, n, Seq(Entry), <<>>, t)
    <3>1. n \in Nat /\ t \in [1 .. n -> [Seq(Entry) -> Seq(Entry)]]  BY <1>1, <1>3
    <3> HIDE DEF t, n
    <3> QED  BY <3>1, <1>2, FoldExists
  <2>2. ASSUME NEW s \in SUBSET (1 .. n), s # {}
        PROVE  t[Max(s)][f[s \ {Max(s)}]] = on(f[s \ {Max(s)}], q[Max(s)])
    <3>1. Max(s) \in 1 .. n  BY <1>1, <2>2, LastIsOne
    <3>2. f[s \ {Max(s)}] \in Seq(Entry)  BY <2>1, <2>2 DEF IsFold
    <3> QED  BY <3>1, <3>2
  <2>3. Folds(f)
    <3>1. f = [s \in SUBSET (1 .. n) |-> f[s]]  BY <2>1 DEF IsFold
    <3>2. \A s \in SUBSET (1 .. n) :
            f[s] = IF s = {} THEN <<>> ELSE on(f[s \ {Max(s)}], q[Max(s)])
      BY <2>1, <2>2 DEF IsFold
    <3> HIDE DEF t
    <3> QED  BY <1>1, <3>1, <3>2
  <2> HIDE DEF Folds
  <2> QED  BY <2>3
<1> DEFINE g == [i \in 0 .. n |-> h[1 .. i]]
<1>6. h[{}] = <<>> /\ \A s \in SUBSET D : s # {} => h[s] = on(h[s \ {Max(s)}], q[Max(s)])
  <2> HIDE DEF h
  <2> QED  BY <1>5
<1> HIDE DEF h
<1>7. g[0] = <<>>
  <2>1. 1 .. 0 = {} /\ 0 \in 0 .. n  BY <1>1
  <2> QED  BY <1>6, <2>1
<1>8. ASSUME NEW i \in 0 .. (n - 1) PROVE g[i + 1] = on(g[i], q[i + 1])
  <2>1. i + 1 \in 1 .. n /\ i + 1 \in 0 .. n /\ i \in 0 .. n /\ (i + 1) - 1 = i  BY <1>1
  <2>2. Max(1 .. (i + 1)) = i + 1 /\ (1 .. (i + 1)) \ {i + 1} = 1 .. i  BY <1>1, <2>1, LastOfFirst
  <2>3. 1 .. (i + 1) \in SUBSET D /\ 1 .. (i + 1) # {}
    <3>1. 1 .. (i + 1) \subseteq 1 .. n  BY <1>1, <2>1
    <3>2. i + 1 \in 1 .. (i + 1)  BY <1>1, <2>1
    <3> QED  BY <1>1, <3>1, <3>2
  <2>4. h[1 .. (i + 1)] = on(h[1 .. i], q[i + 1])  BY <1>6, <2>2, <2>3
  <2> QED  BY <2>1, <2>4
<1>9. g \in [0 .. n -> Seq(Entry)]
  <2> DEFINE Kept == {i \in 0 .. n : g[i] \in Seq(Entry)}
  <2>1. 0 \in Kept
    <3>1. 0 \in 0 .. n  BY <1>1
    <3> HIDE DEF g
    <3>2. g[0] \in Seq(Entry)  BY <1>2, <1>7
    <3> QED  BY <3>1, <3>2
  <2>2. ASSUME NEW i \in 0 .. (n - 1), i \in Kept PROVE i + 1 \in Kept
    <3>1. i + 1 \in 0 .. n /\ i + 1 \in 1 .. n /\ g[i] \in Seq(Entry)  BY <1>1, <2>2
    <3>2. on(g[i], q[i + 1]) \in Seq(Entry)
      <4> HIDE DEF g
      <4> QED  BY <1>3, <3>1
    <3> QED  BY <1>8, <3>1, <3>2
  <2> HIDE DEF Kept
  <2>3. \A i \in 0 .. n : i \in Kept  BY <1>1, <2>1, <2>2, Upward
  <2> QED  BY <2>3 DEF Kept
<1>10. stay(q, S) = g[n]
  <2>1. n \in 0 .. n  BY <1>1
  <2> QED  BY <1>1, <1>4, <2>1
<1>11. IsStay(g, q, S)
  <2> HIDE DEF g
  <2> QED  BY <1>7, <1>8, <1>9, <1>10 DEF on, IsStay
<1> QED  BY <1>11

\* Of the first i waiters of q, those of S are in r, in their order.
Stayed(q, S, r, i) ==
  /\ \A k \in DOMAIN r : \E j \in 1 .. i : r[k] = q[j]
  /\ ToSet(r) = {q[j] : j \in 1 .. i} \intersect S
  /\ Once(q) => Once(r)
  /\ i # 0 /\ q[1] \in S => r # <<>> /\ r[1] = q[1]

\* Those of S stay, and the first of the queue, if it is of S, remains the first.
LEMMA StayDoes ==
  ASSUME NEW q \in Seq(Entry), NEW S
  PROVE  /\ stay(q, S) \in Seq(Entry) /\ ToSet(stay(q, S)) = ToSet(q) \intersect S
         /\ Once(q) => Once(stay(q, S))
         /\ q # <<>> /\ q[1] \in S => stay(q, S) # <<>> /\ stay(q, S)[1] = q[1]
<1> DEFINE n == Len(q)
<1>1. n \in Nat /\ DOMAIN q = 1 .. n /\ (n = 0 <=> q = <<>>) /\ \A j \in 1 .. n : q[j] \in Entry
  OBVIOUS
<1> PICK g : IsStay(g, q, S)  BY StayStages
<1>2. /\ g \in [0 .. n -> Seq(Entry)] /\ g[0] = <<>> /\ stay(q, S) = g[n]
      /\ \A i \in 0 .. (n - 1) : g[i + 1] = IF q[i + 1] \in S THEN Append(g[i], q[i + 1]) ELSE g[i]
  BY DEF IsStay
<1>3. Stayed(q, S, g[0], 0)
  <2>1. 1 .. 0 = {} /\ DOMAIN <<>> = {}  OBVIOUS
  <2>2. ToSet(<<>>) = {} /\ Once(<<>>)  BY <2>1 DEF ToSet, Once
  <2> QED  BY <1>2, <2>1, <2>2 DEF Stayed
<1>4. ASSUME NEW i \in 0 .. (n - 1), Stayed(q, S, g[i], i) PROVE Stayed(q, S, g[i + 1], i + 1)
  <2> DEFINE e == q[i + 1]
             r == g[i]
             L == Len(r)
  <2>1. i \in Nat /\ i + 1 \in 1 .. n /\ i + 1 # 0 /\ e \in Entry /\ r \in Seq(Entry)
        /\ L \in Nat /\ DOMAIN r = 1 .. L /\ \A j \in 1 .. i : j \in 1 .. (i + 1) /\ j \in 1 .. n /\ j # i + 1
    BY <1>1, <1>2
  <2>2. {q[j] : j \in 1 .. (i + 1)} = {q[j] : j \in 1 .. i} \union {e}
    <3>1. 1 .. (i + 1) = 1 .. i \union {i + 1}  BY <2>1
    <3> QED  BY <3>1
  <2>3. CASE e \notin S
    <3>1. g[i + 1] = r  BY <1>2, <2>3
    <3>2. q[1] \in S => i # 0  BY <2>3
    <3> HIDE DEF e
    <3> QED  BY <1>4, <2>1, <2>2, <2>3, <3>1, <3>2 DEF Stayed
  <2>4. CASE e \in S
    <3> DEFINE b == Append(r, e)
    <3>1. g[i + 1] = b  BY <1>2, <2>4
    <3>2. /\ b \in Seq(Entry) /\ Len(b) = L + 1 /\ DOMAIN b = 1 .. (L + 1)
          /\ b[L + 1] = e /\ \A k \in 1 .. L : b[k] = r[k]
          /\ ToSet(b) = ToSet(r) \union {e}
      BY <2>1, Appended
    <3>3. \A k \in 1 .. (L + 1) : k \in 1 .. L \/ k = L + 1  BY <2>1
    <3>4. i + 1 \in 1 .. (i + 1)  BY <2>1
    <3> HIDE DEF b, r, L
    <3>5. b # <<>>
      <4>1. Len(b) # 0  BY <2>1, <3>2
      <4>2. Len(<<>>) = 0  OBVIOUS
      <4> QED  BY <4>1, <4>2, ZenonT(60)
    <3>6. \A k \in DOMAIN b : \E j \in 1 .. (i + 1) : b[k] = q[j]
      BY <1>4, <2>1, <3>2, <3>3, <3>4 DEF Stayed, r, e
    <3>7. ToSet(b) = {q[j] : j \in 1 .. (i + 1)} \intersect S
      BY <1>4, <2>2, <2>4, <3>2 DEF Stayed, r
    <3>8. Once(q) => Once(b)
      <4> SUFFICES ASSUME Once(q) PROVE Once(b)  OBVIOUS
      <4>1. ASSUME NEW k \in 1 .. L PROVE r[k].run # e.run
        <5>1. PICK j \in 1 .. i : r[k] = q[j]  BY <1>4, <2>1 DEF Stayed, r, L
        <5> QED  BY <1>1, <2>1, <5>1 DEF Once, e
      <4>2. \A k, m \in 1 .. L : r[k].run = r[m].run => k = m
        BY <1>4, <2>1 DEF Stayed, Once, r, L
      <4> QED  BY <3>2, <3>3, <4>1, <4>2 DEF Once
    <3>9. q[1] \in S => b[1] = q[1]
      <4>1. CASE i = 0
        <5>1. 1 .. i = {}  BY <4>1
        <5>2. ToSet(r) = {}  BY <1>4, <5>1 DEF Stayed, r
        <5>3. L = 0
          <6>1. L # 0 => 1 \in DOMAIN r  BY <2>1 DEF r, L
          <6> QED  BY <5>2, <6>1 DEF ToSet
        <5> QED  BY <3>2, <4>1, <5>3 DEF e
      <4>2. CASE i # 0
        <5> SUFFICES ASSUME q[1] \in S PROVE b[1] = q[1]  OBVIOUS
        <5>1. r # <<>> /\ r[1] = q[1]  BY <1>4, <4>2 DEF Stayed, r
        <5>2. 1 \in 1 .. L  BY <2>1, <5>1 DEF r, L
        <5> QED  BY <3>2, <5>1, <5>2
      <4> QED  BY <4>1, <4>2
    <3> QED  BY <3>1, <3>5, <3>6, <3>7, <3>8, <3>9 DEF Stayed
  <2> QED  BY <2>3, <2>4
<1> DEFINE Kept == {i \in 0 .. n : Stayed(q, S, g[i], i)}
<1>5. 0 \in Kept  BY <1>1, <1>3
<1>6. ASSUME NEW i \in 0 .. (n - 1), i \in Kept PROVE i + 1 \in Kept
  <2>1. i + 1 \in 0 .. n /\ Stayed(q, S, g[i], i)  BY <1>1, <1>6
  <2>2. Stayed(q, S, g[i + 1], i + 1)  BY <1>4, <2>1
  <2> QED  BY <2>1, <2>2
<1>7. n \in Kept
  <2> HIDE DEF Kept, n
  <2>1. \A i \in 0 .. n : i \in Kept  BY <1>1, <1>5, <1>6, Upward
  <2> QED  BY <1>1, <2>1
<1>8. Stayed(q, S, g[n], n) /\ g[n] \in Seq(Entry)  BY <1>1, <1>2, <1>7
<1>9. {q[j] : j \in 1 .. n} = ToSet(q)  BY <1>1 DEF ToSet
<1> QED  BY <1>1, <1>2, <1>8, <1>9 DEF Stayed

-----------------------------------------------------------------------------
(* What each operation of the pool keeps: who waits does so once, no       *)
(* waiter fits, and nobody leaves but whom the operation takes away.       *)

\* A pool as every operation leaves it.
Good(p) == p \in Pools /\ Once(p.queue) /\ Apart(p) /\ Settled(p)

\* A waiter more at a place of its own.
LEMMA Inserted ==
  ASSUME NEW q \in Seq(Entry), NEW e \in Entry, NEW a \in 0 .. Len(q)
  PROVE  /\ InsertAt(q, a + 1, e) \in Seq(Entry) /\ Len(InsertAt(q, a + 1, e)) = Len(q) + 1
         /\ \A k \in 1 .. (Len(q) + 1) :
              InsertAt(q, a + 1, e)[k] = IF k <= a THEN q[k] ELSE IF k = a + 1 THEN e ELSE q[k - 1]
<1> DEFINE n == Len(q)
           u == SubSeq(q, 1, a)
           v == SubSeq(q, a + 1, n)
<1>1. n \in Nat /\ a \in Nat /\ a <= n  OBVIOUS
<1>2. u \in Seq(Entry) /\ Len(u) = a /\ \A k \in 1 .. a : u[k] = q[k]  BY <1>1
<1>3. v \in Seq(Entry) /\ Len(v) = n - a /\ \A k \in 1 .. (n - a) : v[k] = q[a + k]  BY <1>1
<1>4. InsertAt(q, a + 1, e) = u \o <<e>> \o v
  <2>1. (a + 1) - 1 = a  BY <1>1
  <2> QED  BY <2>1 DEF InsertAt
<1> HIDE DEF u, v
<1>5. /\ u \o <<e>> \in Seq(Entry) /\ Len(u \o <<e>>) = a + 1
      /\ \A k \in 1 .. a : (u \o <<e>>)[k] = q[k]
  BY <1>1, <1>2
<1>6. (u \o <<e>>)[a + 1] = e  BY <1>1, <1>2
<1> DEFINE w == u \o <<e>>
<1>7. w \in Seq(Entry) /\ Len(w) = a + 1 /\ w[a + 1] = e /\ \A k \in 1 .. a : w[k] = q[k]  BY <1>5, <1>6
<1> HIDE DEF w
<1>8. /\ w \o v \in Seq(Entry) /\ Len(w \o v) = Len(w) + Len(v)
      /\ \A k \in 1 .. (Len(w) + Len(v)) : (w \o v)[k] = IF k <= Len(w) THEN w[k] ELSE v[k - Len(w)]
  BY <1>3, <1>7, ConcatProperties
<1>9. Len(w) + Len(v) = n + 1  BY <1>1, <1>3, <1>7
<1> DEFINE r == w \o v
<1>10. /\ r \in Seq(Entry) /\ Len(r) = n + 1
       /\ \A k \in 1 .. (n + 1) : r[k] = IF k <= a + 1 THEN w[k] ELSE v[k - (a + 1)]
  <2>1. Len(w) = a + 1  BY <1>7
  <2> QED  BY <1>8, <1>9, <2>1
<1> HIDE DEF r, n
<1>11. \A k \in 1 .. (n + 1) : r[k] = IF k <= a THEN q[k] ELSE IF k = a + 1 THEN e ELSE q[k - 1]
  <2> SUFFICES ASSUME NEW k \in 1 .. (n + 1)
               PROVE  r[k] = IF k <= a THEN q[k] ELSE IF k = a + 1 THEN e ELSE q[k - 1]
    OBVIOUS
  <2>1. CASE k <= a
    <3>1. k \in 1 .. a /\ k <= a + 1  BY <1>1, <2>1
    <3> QED  BY <1>7, <1>10, <2>1, <3>1
  <2>2. CASE k = a + 1
    <3>1. k <= a + 1 /\ ~(k <= a)  BY <1>1, <2>2
    <3> QED  BY <1>7, <1>10, <2>2, <3>1
  <2>3. CASE k > a + 1
    <3>1. k - (a + 1) \in 1 .. (n - a) /\ a + (k - (a + 1)) = k - 1 /\ ~(k <= a + 1) /\ ~(k <= a) /\ k # a + 1
      BY <1>1, <2>3
    <3>2. r[k] = v[k - (a + 1)]  BY <1>10, <3>1
    <3> QED  BY <1>3, <3>1, <3>2
  <2>4. k <= a \/ k = a + 1 \/ k > a + 1  BY <1>1
  <2> QED  BY <2>1, <2>2, <2>3, <2>4
<1>12. InsertAt(q, a + 1, e) = r  BY <1>4 DEF r, w
<1> QED  BY <1>10, <1>11, <1>12 DEF n

\* insert() loses nobody.
LEMMA InsertDoes ==
  ASSUME NEW q \in Seq(Entry), NEW e \in Entry
  PROVE  /\ insert(q, e) \in Seq(Entry) /\ ToSet(insert(q, e)) = ToSet(q) \union {e}
         /\ Once(q) /\ (\A k \in DOMAIN q : q[k].run # e.run) => Once(insert(q, e))
<1> DEFINE a == Cardinality({i \in DOMAIN q : q[i].priority < e.priority})
           n == Len(q)
           r == InsertAt(q, a + 1, e)
<1>1. n \in Nat /\ DOMAIN q = 1 .. n  OBVIOUS
<1>2. a \in 0 .. n
  <2>1. IsFiniteSet(1 .. n) /\ Cardinality(1 .. n) = n  BY <1>1, FS_Interval
  <2>2. {i \in DOMAIN q : q[i].priority < e.priority} \in SUBSET (1 .. n)  BY <1>1
  <2>3. a \in Nat /\ a <= n  BY <2>1, <2>2, FS_Subset, FS_CardinalityType
  <2> QED  BY <1>1, <2>3
<1>3. insert(q, e) = r  BY DEF insert
<1> HIDE DEF a
<1>4. /\ r \in Seq(Entry) /\ Len(r) = n + 1
      /\ \A k \in 1 .. (n + 1) : r[k] = IF k <= a THEN q[k] ELSE IF k = a + 1 THEN e ELSE q[k - 1]
  BY <1>2, Inserted
<1>5. DOMAIN r = 1 .. (n + 1)  BY <1>4
<1> HIDE DEF r
<1>6. \A k \in 1 .. n : \/ k \in 1 .. (n + 1) /\ r[k] = q[k] /\ k <= a
                        \/ k + 1 \in 1 .. (n + 1) /\ r[k + 1] = q[k] /\ ~(k <= a)
  BY <1>1, <1>2, <1>4
<1>7. a + 1 \in 1 .. (n + 1) /\ r[a + 1] = e  BY <1>1, <1>2, <1>4
<1>8. \A k \in 1 .. (n + 1) : \/ k = a + 1 /\ r[k] = e
                              \/ k <= a /\ k \in 1 .. n /\ r[k] = q[k]
                              \/ k > a + 1 /\ k - 1 \in 1 .. n /\ r[k] = q[k - 1]
  BY <1>1, <1>2, <1>4
<1>9. ToSet(r) = ToSet(q) \union {e}
  <2>1. \A x : x \in ToSet(r) <=> \E k \in 1 .. (n + 1) : r[k] = x  BY <1>5 DEF ToSet
  <2>2. \A x : x \in ToSet(q) <=> \E k \in 1 .. n : q[k] = x  BY <1>1 DEF ToSet
  <2>3. \A x : x \in ToSet(r) => x \in ToSet(q) \union {e}  BY <2>1, <2>2, <1>8
  <2>4. \A x : x \in ToSet(q) => x \in ToSet(r)  BY <2>1, <2>2, <1>6
  <2>5. e \in ToSet(r)  BY <2>1, <1>7
  <2> QED  BY <2>3, <2>4, <2>5
<1>10. ASSUME Once(q), \A k \in DOMAIN q : q[k].run # e.run PROVE Once(r)
  <2> SUFFICES ASSUME NEW k \in 1 .. (n + 1), NEW m \in 1 .. (n + 1), r[k].run = r[m].run PROVE k = m
    BY <1>5 DEF Once
  <2>1. \A x, y \in 1 .. n : q[x].run = q[y].run => x = y  BY <1>1, <1>10 DEF Once
  <2>2. \A x \in 1 .. n : q[x].run # e.run  BY <1>1, <1>10
  <2>3. CASE r[k] = e /\ k = a + 1
    BY <1>1, <1>2, <1>8, <2>2, <2>3
  <2>4. CASE k <= a /\ k \in 1 .. n /\ r[k] = q[k]
    <3>1. CASE m = a + 1 /\ r[m] = e  BY <2>2, <2>4, <3>1
    <3>2. CASE m <= a /\ m \in 1 .. n /\ r[m] = q[m]  BY <2>1, <2>4, <3>2
    <3>3. CASE m > a + 1 /\ m - 1 \in 1 .. n /\ r[m] = q[m - 1]
      <4>1. k = m - 1  BY <2>1, <2>4, <3>3
      <4> QED  BY <1>2, <2>4, <3>3, <4>1
    <3> QED  BY <1>8, <3>1, <3>2, <3>3
  <2>5. CASE k > a + 1 /\ k - 1 \in 1 .. n /\ r[k] = q[k - 1]
    <3>1. CASE m = a + 1 /\ r[m] = e  BY <2>2, <2>5, <3>1
    <3>2. CASE m <= a /\ m \in 1 .. n /\ r[m] = q[m]
      <4>1. m = k - 1  BY <2>1, <2>5, <3>2
      <4> QED  BY <1>2, <2>5, <3>2, <4>1
    <3>3. CASE m > a + 1 /\ m - 1 \in 1 .. n /\ r[m] = q[m - 1]
      <4>1. k - 1 = m - 1  BY <2>1, <2>5, <3>3
      <4> QED  BY <4>1
    <3> QED  BY <1>8, <3>1, <3>2, <3>3
  <2> QED  BY <1>8, <2>3, <2>4, <2>5
<1> QED  BY <1>3, <1>4, <1>9, <1>10

\* A waiter less.
LEMMA RemoveDoes ==
  ASSUME NEW q \in Seq(Entry), Once(q), NEW i \in DOMAIN q
  PROVE  /\ RemoveAt(q, i) \in Seq(Entry) /\ Once(RemoveAt(q, i))
         /\ ToSet(RemoveAt(q, i)) = ToSet(q) \ {q[i]}
<1> DEFINE n == Len(q)
           u == SubSeq(q, 1, i - 1)
           v == SubSeq(q, i + 1, n)
           r == RemoveAt(q, i)
<1>1. n \in Nat /\ DOMAIN q = 1 .. n /\ i \in 1 .. n  OBVIOUS
<1>2. u \in Seq(Entry) /\ Len(u) = i - 1 /\ \A k \in 1 .. (i - 1) : u[k] = q[k]  BY <1>1
<1>3. v \in Seq(Entry) /\ Len(v) = n - i /\ \A k \in 1 .. (n - i) : v[k] = q[i + k]  BY <1>1
<1>4. r = u \o v  BY DEF RemoveAt
<1> HIDE DEF u, v, r
<1>5. /\ r \in Seq(Entry) /\ Len(r) = n - 1
      /\ \A k \in 1 .. (n - 1) : r[k] = IF k <= i - 1 THEN u[k] ELSE v[k - (i - 1)]
  <2>1. /\ u \o v \in Seq(Entry) /\ Len(u \o v) = Len(u) + Len(v)
        /\ \A k \in 1 .. (Len(u) + Len(v)) : (u \o v)[k] = IF k <= Len(u) THEN u[k] ELSE v[k - Len(u)]
    BY <1>2, <1>3, ConcatProperties
  <2>2. Len(u) + Len(v) = n - 1 /\ Len(u) = i - 1  BY <1>1, <1>2, <1>3
  <2> QED  BY <1>4, <2>1, <2>2
<1>6. DOMAIN r = 1 .. (n - 1)  BY <1>1, <1>5
<1>7. \A k \in 1 .. (n - 1) : \/ k < i /\ k \in 1 .. n /\ r[k] = q[k]
                              \/ ~(k < i) /\ k + 1 \in 1 .. n /\ k + 1 # i /\ r[k] = q[k + 1]
  <2> SUFFICES ASSUME NEW k \in 1 .. (n - 1)
               PROVE  \/ k < i /\ k \in 1 .. n /\ r[k] = q[k]
                      \/ ~(k < i) /\ k + 1 \in 1 .. n /\ k + 1 # i /\ r[k] = q[k + 1]
    OBVIOUS
  <2>1. CASE k < i
    <3>1. k \in 1 .. (i - 1) /\ k <= i - 1 /\ k \in 1 .. n  BY <1>1, <2>1
    <3> QED  BY <1>2, <1>5, <2>1, <3>1
  <2>2. CASE ~(k < i)
    <3>1. ~(k <= i - 1) /\ k - (i - 1) \in 1 .. (n - i) /\ i + (k - (i - 1)) = k + 1
          /\ k + 1 \in 1 .. n /\ k + 1 # i
      BY <1>1, <2>2
    <3>2. r[k] = v[k - (i - 1)]  BY <1>5, <3>1
    <3> QED  BY <1>3, <2>2, <3>1, <3>2
  <2> QED  BY <2>1, <2>2
<1>8. \A k \in 1 .. n : k # i => \/ k \in 1 .. (n - 1) /\ r[k] = q[k]
                                 \/ k - 1 \in 1 .. (n - 1) /\ r[k - 1] = q[k]
  <2> SUFFICES ASSUME NEW k \in 1 .. n, k # i
               PROVE  \/ k \in 1 .. (n - 1) /\ r[k] = q[k]
                      \/ k - 1 \in 1 .. (n - 1) /\ r[k - 1] = q[k]
    OBVIOUS
  <2>1. CASE k < i
    <3>1. k \in 1 .. (n - 1)  BY <1>1, <2>1
    <3> QED  BY <1>7, <2>1, <3>1
  <2>2. CASE ~(k < i)
    <3>1. k - 1 \in 1 .. (n - 1) /\ ~(k - 1 < i) /\ (k - 1) + 1 = k  BY <1>1, <2>2
    <3> QED  BY <1>7, <3>1
  <2> QED  BY <2>1, <2>2
<1>9. \A k, m \in 1 .. n : q[k].run = q[m].run => k = m  BY <1>1 DEF Once
<1>10. ToSet(r) = ToSet(q) \ {q[i]}
  <2>1. \A x : x \in ToSet(r) <=> \E k \in 1 .. (n - 1) : r[k] = x  BY <1>6 DEF ToSet
  <2>2. \A x : x \in ToSet(q) <=> \E k \in 1 .. n : q[k] = x  BY <1>1 DEF ToSet
  <2>3. \A k \in 1 .. (n - 1) : r[k] \in ToSet(q) /\ r[k] # q[i]
    <3> SUFFICES ASSUME NEW k \in 1 .. (n - 1) PROVE r[k] \in ToSet(q) /\ r[k] # q[i]  OBVIOUS
    <3>1. CASE k < i /\ k \in 1 .. n /\ r[k] = q[k]
      <4>1. k # i  BY <1>1, <3>1
      <4> QED  BY <1>1, <1>9, <2>2, <3>1, <4>1
    <3>2. CASE ~(k < i) /\ k + 1 \in 1 .. n /\ k + 1 # i /\ r[k] = q[k + 1]
      BY <1>1, <1>9, <2>2, <3>2
    <3> QED  BY <1>7, <3>1, <3>2
  <2>4. \A k \in 1 .. n : q[k] # q[i] => q[k] \in ToSet(r)  BY <2>1, <1>8
  <2> QED  BY <2>1, <2>2, <2>3, <2>4
<1>11. Once(r)
  <2> SUFFICES ASSUME NEW k \in 1 .. (n - 1), NEW m \in 1 .. (n - 1), r[k].run = r[m].run PROVE k = m
    BY <1>6 DEF Once
  <2>1. CASE k < i /\ m < i  BY <1>7, <1>9, <2>1
  <2>2. CASE ~(k < i) /\ ~(m < i)
    <3>1. k + 1 = m + 1  BY <1>7, <1>9, <2>2
    <3> QED  BY <3>1
  <2>3. CASE k < i /\ ~(m < i)
    <3>1. k = m + 1  BY <1>7, <1>9, <2>3
    <3> QED  BY <1>1, <2>3, <3>1
  <2>4. CASE ~(k < i) /\ m < i
    <3>1. k + 1 = m  BY <1>7, <1>9, <2>4
    <3> QED  BY <1>1, <2>4, <3>1
  <2> QED  BY <2>1, <2>2, <2>3, <2>4
<1> QED  BY <1>5, <1>10, <1>11 DEF r

\* What an operation that takes runs away keeps: of the others nobody is lost.
Spares(p, q, gone) ==
  /\ Good(q)
  /\ \A e \in ToSet(q.queue) : e \in ToSet(p.queue) /\ e.run \notin gone
  /\ \A e \in q.holders : e \in entries(p)
  /\ \A e \in entries(p) : e.run \notin gone => e \in entries(q)

\* A waiter's entry is one.
LEMMA Members ==
  ASSUME NEW q \in Seq(Entry)
  PROVE  /\ DOMAIN q = 1 .. Len(q) /\ Len(q) \in Nat
         /\ \A e \in ToSet(q) : e \in Entry /\ \E i \in DOMAIN q : q[i] = e
         /\ \A i \in DOMAIN q : q[i] \in Entry /\ q[i] \in ToSet(q)
<1>1. DOMAIN q = 1 .. Len(q) /\ Len(q) \in Nat /\ \A i \in DOMAIN q : q[i] \in Entry  OBVIOUS
<1> QED  BY <1>1 DEF ToSet

\* A service loses nobody, whoever waited or had left before it.
LEMMA DrainSpares ==
  ASSUME NEW p \in Pools, Once(p.queue), Apart(p)
  PROVE  Spares(p, drain(p), {})
  BY DrainDoes DEF Spares, Good, entries

\* A service after some runs left.
LEMMA DrainAfter ==
  ASSUME NEW p, NEW m \in Pools, Once(m.queue), Apart(m), NEW gone, m.holders \subseteq entries(p),
         \A e \in ToSet(m.queue) : e \in ToSet(p.queue) /\ e.run \notin gone,
         \A e \in entries(p) : e.run \notin gone => e \in entries(m)
  PROVE  Spares(p, drain(m), gone)
  BY DrainDoes DEF Spares, Good, entries

\* Where some waiters leave but the first does not, no other fits for it.
LEMMA StayKeeps ==
  ASSUME NEW p, Good(p), NEW S, p.queue # <<>> => p.queue[1] \in S
  PROVE  /\ Good([p EXCEPT !.queue = stay(@, S)])
         /\ [p EXCEPT !.queue = stay(@, S)].holders = p.holders
         /\ ToSet([p EXCEPT !.queue = stay(@, S)].queue) = ToSet(p.queue) \intersect S
<1> DEFINE r == [p EXCEPT !.queue = stay(@, S)]
           q == p.queue
           t == stay(q, S)
<1>1. p \in Pools /\ q \in Seq(Entry) /\ Once(q) /\ Settled(p)  BY DEF Good, Pools
<1>2. t \in Seq(Entry) /\ ToSet(t) = ToSet(q) \intersect S /\ Once(t)
      /\ (q # <<>> => t # <<>> /\ t[1] = q[1])
  BY <1>1, StayDoes
<1> HIDE DEF t
<1>3. /\ r.queue = t /\ r.holders = p.holders /\ r.max = p.max /\ r.capacity = p.capacity /\ r \in Pools
  <2>1. r = [p EXCEPT !.queue = t]  BY DEF t
  <2> QED  BY <1>1, <1>2, <2>1 DEF Pools
<1> HIDE DEF r, q
<1>4. ASSUME NEW k \in DOMAIN t PROVE ~fits(r, t[k].weight, heldFor(t, k))
  <2>1. DOMAIN t = 1 .. Len(t) /\ Len(t) \in Nat /\ DOMAIN q = 1 .. Len(q) /\ Len(q) \in Nat
    BY <1>1, <1>2, Members
  <2>2. t[k] \in ToSet(q)  BY <1>2, Members
  <2>3. PICK j \in DOMAIN q : q[j] = t[k]  BY <1>1, <2>2, Members
  <2>4. q # <<>>
    <3>1. j \in 1 .. Len(q)  BY <2>1
    <3>2. Len(q) # 0  BY <2>1, <3>1
    <3>3. Len(<<>>) = 0  OBVIOUS
    <3> QED  BY <3>2, <3>3, ZenonT(60)
  <2>5. t[1] = q[1] /\ 1 \in DOMAIN t /\ 1 \in DOMAIN q
    <3>1. k \in 1 .. Len(t) /\ j \in 1 .. Len(q)  BY <2>1
    <3> QED  BY <1>2, <2>1, <2>4, <3>1
  <2>6. k = 1 <=> j = 1
    <3>1. \A x, y \in DOMAIN q : q[x].run = q[y].run => x = y  BY <1>1 DEF Once
    <3>2. \A x, y \in DOMAIN t : t[x].run = t[y].run => x = y  BY <1>2 DEF Once
    <3> QED  BY <2>3, <2>5, <3>1, <3>2
  <2>7. heldFor(t, k) = heldFor(q, j)  BY <2>5, <2>6 DEF heldFor
  <2>8. ~fits(p, q[j].weight, heldFor(q, j))  BY <1>1 DEF Settled, q
  <2>9. fits(r, t[k].weight, heldFor(t, k)) <=> fits(p, t[k].weight, heldFor(t, k))
    BY <1>3, FitsAlike
  <2> QED  BY <2>3, <2>7, <2>8, <2>9
<1>6. Apart(r)  BY <1>2, <1>3 DEF Good, Apart, q
<1>5. Good(r)  BY <1>2, <1>3, <1>4, <1>6 DEF Good, Settled
<1> QED  BY <1>2, <1>3, <1>5 DEF r, q

\* An eviction takes waiters of its priority only.
LEMMA EvictDoes ==
  ASSUME NEW p, Good(p), NEW priority, NEW depth \in Nat \ {0}
  PROVE  /\ Good(evictBeyond(p, priority, depth))
         /\ ToSet(evictBeyond(p, priority, depth).queue) \subseteq ToSet(p.queue)
         /\ \A e \in entries(p) : e.priority # priority => e \in entries(evictBeyond(p, priority, depth))
         /\ evictBeyond(p, priority, depth).holders = p.holders
<1> DEFINE q == p.queue
           rank(i) == Cardinality({j \in 1 .. i : q[j].priority = priority})
           kept == {i \in DOMAIN q : q[i].priority # priority \/ rank(i) <= depth}
           S == {q[i] : i \in kept}
           r == [p EXCEPT !.queue = stay(@, S)]
<1>1. p \in Pools /\ q \in Seq(Entry)  BY DEF Good, Pools
<1>2. DOMAIN q = 1 .. Len(q) /\ Len(q) \in Nat  BY <1>1, Members
<1>3. evictBeyond(p, priority, depth) = r  BY DEF evictBeyond
<1>4. rank(1) <= depth
  <2>1. IsFiniteSet(1 .. 1) /\ Cardinality(1 .. 1) = 1
    <3>1. 1 .. 1 = {1}  OBVIOUS
    <3>2. IsFiniteSet({1}) /\ Cardinality({1}) = 1  BY FS_Singleton, ZenonT(60)
    <3> QED  BY <3>1, <3>2
  <2>2. {j \in 1 .. 1 : q[j].priority = priority} \in SUBSET (1 .. 1)  OBVIOUS
  <2>3. rank(1) \in Nat /\ rank(1) <= 1  BY <2>1, <2>2, FS_Subset, FS_CardinalityType
  <2> HIDE DEF rank
  <2> QED  BY <2>3
<1> HIDE DEF rank
<1>5. q # <<>> => q[1] \in S
  <2> SUFFICES ASSUME q # <<>> PROVE q[1] \in S  OBVIOUS
  <2>1. 1 \in DOMAIN q  BY <1>1
  <2>2. 1 \in kept  BY <1>4, <2>1
  <2> QED  BY <2>2
<1>6. \A e \in ToSet(q) : e.priority # priority => e \in S
  <2> SUFFICES ASSUME NEW e \in ToSet(q), e.priority # priority PROVE e \in S  OBVIOUS
  <2>1. PICK i \in DOMAIN q : q[i] = e  BY <1>1, Members
  <2>2. i \in kept  BY <2>1
  <2> QED  BY <2>1, <2>2
<1> HIDE DEF S
<1>7. Good(r) /\ r.holders = p.holders /\ ToSet(r.queue) = ToSet(q) \intersect S
  BY <1>5, StayKeeps
<1> HIDE DEF r
<1> QED  BY <1>3, <1>6, <1>7 DEF entries

\* abort() of some runs' waiters.
LEMMA AbortDoes ==
  ASSUME NEW p, Good(p), NEW runs
  PROVE  Spares(p, abortWaiters(p, runs), runs)
<1> DEFINE q == p.queue
           S == {e \in ToSet(q) : e.run \notin runs}
           m == [p EXCEPT !.queue = stay(@, S)]
<1>1. p \in Pools /\ q \in Seq(Entry) /\ Once(q)  BY DEF Good, Pools
<1>2. CASE \E e \in ToSet(q) : e.run \in runs
  <2>1. abortWaiters(p, runs) = drain(m)  BY <1>2 DEF abortWaiters
  <2> HIDE DEF S
  <2>2. stay(q, S) \in Seq(Entry) /\ ToSet(stay(q, S)) = ToSet(q) \intersect S /\ Once(stay(q, S))
    BY <1>1, StayDoes
  <2> DEFINE t == stay(q, S)
  <2> HIDE DEF t
  <2>3. m = [p EXCEPT !.queue = t]  BY DEF t
  <2>4. m \in Pools /\ m.queue = t /\ m.holders = p.holders  BY <1>1, <2>2, <2>3 DEF Pools, t
  <2> HIDE DEF m
  <2>5. \A e \in ToSet(m.queue) : e \in ToSet(q) /\ e.run \notin runs  BY <2>2, <2>4 DEF t, S
  <2>6. \A e \in entries(p) : e.run \notin runs => e \in entries(m)  BY <2>2, <2>4 DEF t, S, entries
  <2>7. Once(m.queue)  BY <2>2, <2>4 DEF t
  <2>8. Apart(m) /\ m.holders \subseteq entries(p)  BY <2>4, <2>5 DEF Good, Apart, entries
  <2> QED  BY <2>1, <2>4, <2>5, <2>6, <2>7, <2>8, DrainAfter
<1>3. CASE ~\E e \in ToSet(q) : e.run \in runs
  <2>1. abortWaiters(p, runs) = p  BY <1>3 DEF abortWaiters
  <2> QED  BY <1>3, <2>1 DEF Spares, entries
<1> QED  BY <1>2, <1>3

\* The release of a run that does not wait.
LEMMA ReleaseDoes ==
  ASSUME NEW p, Good(p), NEW r, r \notin waiting(p)
  PROVE  Spares(p, releaseSlot(p, r), {r}) /\ r \notin holding(releaseSlot(p, r))
<1>1. p \in Pools /\ Once(p.queue) /\ p.holders \in SUBSET Entry /\ IsFiniteSet(p.holders)  BY DEF Good, Pools
<1>2. \A e \in ToSet(p.queue) : e.run \notin {r}  BY DEF waiting
<1>3. CASE \E e \in p.holders : e.run = r
  <2> DEFINE H == {e \in p.holders : e.run # r}
             m == [p EXCEPT !.holders = H]
  <2>1. releaseSlot(p, r) = drain(m)  BY <1>3 DEF releaseSlot
  <2>2. H \in SUBSET Entry /\ IsFiniteSet(H)  BY <1>1, FS_Subset
  <2>3. \A e \in p.holders : e.run \notin {r} => e \in H  OBVIOUS
  <2> HIDE DEF H
  <2>4. m \in Pools /\ m.queue = p.queue /\ m.holders = H  BY <1>1, <2>2 DEF Pools
  <2> HIDE DEF m
  <2>5. \A e \in entries(p) : e.run \notin {r} => e \in entries(m)  BY <2>3, <2>4 DEF entries
  <2>6. Apart(m) /\ m.holders \subseteq entries(p)  BY <2>4 DEF Good, Apart, entries, H
  <2>7. Spares(p, drain(m), {r})  BY <1>1, <1>2, <2>4, <2>5, <2>6, DrainAfter
  <2>8. \A e \in drain(m).holders : e \in entries(m)  BY <1>1, <2>4, <2>6, DrainDoes DEF entries
  <2>9. \A e \in entries(m) : e.run # r  BY <1>2, <2>4 DEF entries, H
  <2> QED  BY <2>1, <2>7, <2>8, <2>9 DEF holding
<1>4. CASE ~\E e \in p.holders : e.run = r
  <2>1. releaseSlot(p, r) = p  BY <1>4 DEF releaseSlot
  <2> QED  BY <1>2, <1>4, <2>1 DEF Spares, entries, holding
<1> QED  BY <1>3, <1>4

\* A setting takes nobody away.
LEMMA SetDoes ==
  ASSUME NEW p, Good(p), NEW n \in Nat
  PROVE  Spares(p, setMaxSlots(p, n), {}) /\ Spares(p, setCapacity(p, n), {})
<1>1. p \in Pools /\ Once(p.queue)  BY DEF Good
<1> DEFINE a == [p EXCEPT !.max = n]
           b == [p EXCEPT !.capacity = n]
<1>2. a \in Pools /\ b \in Pools /\ a.queue = p.queue /\ b.queue = p.queue
      /\ a.holders = p.holders /\ b.holders = p.holders
  BY <1>1 DEF Pools
<1>3. entries(a) = entries(p) /\ entries(b) = entries(p)  BY <1>2 DEF entries
<1>4. setMaxSlots(p, n) = drain(a) /\ setCapacity(p, n) = drain(b)  BY DEF setMaxSlots, setCapacity
<1> HIDE DEF a, b
<1>6. Apart(a) /\ Apart(b) /\ a.holders \subseteq entries(p) /\ b.holders \subseteq entries(p)
  BY <1>2 DEF Good, Apart, entries
<1>5. Spares(p, drain(a), {}) /\ Spares(p, drain(b), {})  BY <1>1, <1>2, <1>3, <1>6, DrainAfter
<1> QED  BY <1>4, <1>5

\* A call that may be queued: it waits or runs, and of the others only waiters of its own
\* priority leave, and they only if a depth is given.
LEMMA AcquireDoes ==
  ASSUME NEW p, Good(p), NEW e \in Entry, e.run \notin waiting(p) \union holding(p), NEW depth,
         depth = <<>> \/ (depth # <<>> /\ depth[1] \in Nat \ {0})
  PROVE  /\ Good(acquire(p, e, depth))
         /\ \A x \in ToSet(acquire(p, e, depth).queue) : x \in ToSet(p.queue) \/ x = e
         /\ \A x \in acquire(p, e, depth).holders : x \in entries(p) \/ x = e
         /\ p.holders \subseteq acquire(p, e, depth).holders
         /\ \A x \in entries(p) \union {e} :
              depth = <<>> \/ x.priority # e.priority => x \in entries(acquire(p, e, depth))
<1> DEFINE q == p.queue
<1>1. p \in Pools /\ q \in Seq(Entry) /\ Once(q) /\ Settled(p) /\ p.holders \in SUBSET Entry /\ IsFiniteSet(p.holders)
  BY DEF Good, Pools
<1>2. CASE q = <<>> /\ fits(p, e.weight, <<>>)
  <2>1. acquire(p, e, depth) = take(p, e)  BY <1>2 DEF acquire
  <2>2. p.holders \union {e} \in SUBSET Entry /\ IsFiniteSet(p.holders \union {e})  BY <1>1, FS_AddElement
  <2> DEFINE H == p.holders \union {e}
             r == take(p, e)
  <2>3. e \in H /\ p.holders \subseteq H  OBVIOUS
  <2>4. r = [p EXCEPT !.holders = H]  BY DEF take
  <2> HIDE DEF H
  <2>5. r \in Pools /\ r.queue = q /\ r.holders = H  BY <1>1, <2>2, <2>4 DEF Pools, H
  <2>6. DOMAIN <<>> = {}  OBVIOUS
  <2> HIDE DEF r
  <2>7. DOMAIN r.queue = {}  BY <1>2, <2>5, <2>6, ZenonT(60)
  <2>8. Good(r)
    <3>1. ToSet(r.queue) = {}  BY <2>7 DEF ToSet
    <3> QED  BY <2>5, <2>7, <3>1 DEF Good, Settled, Once, Apart
  <2>9. ToSet(r.queue) = ToSet(q)  BY <2>5
  <2>10. \A x \in entries(p) \union {e} : x \in entries(r)  BY <2>3, <2>5 DEF entries
  <2>11. p.holders \subseteq r.holders /\ \A x \in r.holders : x \in entries(p) \/ x = e
    BY <2>5 DEF entries, H
  <2> QED  BY <2>1, <2>8, <2>9, <2>10, <2>11 DEF r
<1>3. CASE ~(q = <<>> /\ fits(p, e.weight, <<>>))
  <2> DEFINE t == insert(q, e)
             m == [p EXCEPT !.queue = insert(@, e)]
             d == drain(m)
  <2>1. acquire(p, e, depth) = IF depth = <<>> THEN d ELSE evictBeyond(d, e.priority, depth[1])
    BY <1>3 DEF acquire
  <2>2. \A k \in DOMAIN q : q[k].run # e.run
    <3>1. \A k \in DOMAIN q : q[k] \in ToSet(q)  BY <1>1, Members
    <3> QED  BY <3>1 DEF waiting
  <2>3. t \in Seq(Entry) /\ ToSet(t) = ToSet(q) \union {e} /\ Once(t)  BY <1>1, <2>2, InsertDoes
  <2> HIDE DEF t
  <2>4. m = [p EXCEPT !.queue = t]  BY DEF t
  <2>5. m \in Pools /\ m.queue = t /\ m.holders = p.holders  BY <1>1, <2>3, <2>4 DEF Pools
  <2> HIDE DEF m
  <2>11. Apart(m)
    <3>1. \A h \in p.holders : h.run # e.run  BY DEF holding
    <3> QED  BY <2>3, <2>5, <3>1 DEF Good, Apart
  <2>6. Spares(m, d, {})  BY <2>3, <2>5, <2>11, DrainSpares
  <2> HIDE DEF d
  <2>12. p.holders \subseteq d.holders /\ \A x \in d.holders : x \in entries(p) \/ x = e
    <3>1. \A x \in p.holders : x \in d.holders
      BY <2>5, <2>6, <2>11 DEF Spares, Apart, entries
    <3> QED  BY <2>3, <2>5, <2>6, <3>1 DEF Spares, entries
  <2>7. Good(d) /\ \A x \in ToSet(d.queue) : x \in ToSet(q) \/ x = e  BY <2>3, <2>5, <2>6 DEF Spares
  <2>8. \A x \in entries(p) \union {e} : x \in entries(d)  BY <2>3, <2>5, <2>6 DEF Spares, entries
  <2>9. CASE depth = <<>>  BY <2>1, <2>7, <2>8, <2>9, <2>12
  <2>10. CASE depth # <<>>
    <3> DEFINE r == evictBeyond(d, e.priority, depth[1])
    <3>1. acquire(p, e, depth) = r  BY <2>1, <2>10
    <3>2. depth[1] \in Nat \ {0}  BY <2>10
    <3>3. Good(r) /\ ToSet(r.queue) \subseteq ToSet(d.queue) /\ r.holders = d.holders
          /\ \A x \in entries(d) : x.priority # e.priority => x \in entries(r)
      BY <2>7, <3>2, EvictDoes
    <3> HIDE DEF r
    <3> QED  BY <2>7, <2>8, <2>10, <2>12, <3>1, <3>3
  <2> QED  BY <2>9, <2>10
<1> QED  BY <1>2, <1>3

\* A promotion: nothing below the priority has the key, or one waiter with it is moved up.
LEMMA PromoteDoes ==
  ASSUME NEW p, Good(p), NEW key
  PROVE  LET q == promote(p, key, 0) IN
         \/ q = p /\ \A e \in ToSet(p.queue) : ~(e.key = key /\ e.priority > 0)
         \/ \E x \in ToSet(p.queue) :
              /\ x.key = key /\ x.priority > 0 /\ Good(q)
              /\ \A e \in ToSet(q.queue) :
                   (e \in ToSet(p.queue) /\ e # x) \/ e = [x EXCEPT !.priority = 0]
              /\ \A e \in q.holders : \E f \in entries(p) : f.run = e.run
              /\ \A e \in entries(p) : \E f \in entries(q) : f.run = e.run
<1> DEFINE q == p.queue
           below == {i \in DOMAIN q : q[i].key = key /\ q[i].priority > 0}
<1>1. p \in Pools /\ q \in Seq(Entry) /\ Once(q)  BY DEF Good, Pools
<1>2. CASE below = {}
  <2>1. promote(p, key, 0) = p  BY <1>2 DEF promote
  <2>2. \A e \in ToSet(q) : \E i \in DOMAIN q : q[i] = e  BY <1>1, Members
  <2>3. \A i \in DOMAIN q : i \notin below  BY <1>2
  <2> QED  BY <2>1, <2>2, <2>3
<1>3. CASE below # {}
  <2> DEFINE i == CHOOSE j \in below : TRUE
  <2>1. i \in below  BY <1>3
  <2>2. promote(p, key, 0) = drain([p EXCEPT !.queue = insert(RemoveAt(@, i), [@[i] EXCEPT !.priority = 0])])
    BY <1>3 DEF promote
  <2> HIDE DEF i
  <2> DEFINE x == q[i]
             y == [x EXCEPT !.priority = 0]
             u == RemoveAt(q, i)
             t == insert(u, y)
             m == [p EXCEPT !.queue = t]
             d == drain(m)
  <2>3. i \in DOMAIN q /\ x \in Entry /\ x \in ToSet(q) /\ x.key = key /\ x.priority > 0  BY <1>1, <2>1, Members
  <2>4. u \in Seq(Entry) /\ Once(u) /\ ToSet(u) = ToSet(q) \ {x}  BY <1>1, <2>3, RemoveDoes
  <2>5. promote(p, key, 0) = d  BY <2>2
  <2> HIDE DEF x, u
  <2>6. y \in Entry /\ y.run = x.run  BY <2>3 DEF Entry
  <2> HIDE DEF y
  <2>7. \A k \in DOMAIN u : u[k].run # y.run
    <3> SUFFICES ASSUME NEW k \in DOMAIN u, u[k].run = y.run PROVE FALSE  OBVIOUS
    <3>1. u[k] \in ToSet(q) /\ u[k] # x  BY <2>4, Members
    <3>2. PICK j \in DOMAIN q : q[j] = u[k]  BY <1>1, <3>1, Members
    <3>3. q[j].run = q[i].run  BY <2>6, <3>2 DEF x
    <3>4. j = i  BY <1>1, <2>3, <3>3 DEF Once
    <3> QED  BY <3>1, <3>2, <3>4 DEF x
  <2>8. t \in Seq(Entry) /\ ToSet(t) = ToSet(u) \union {y} /\ Once(t)  BY <2>4, <2>6, <2>7, InsertDoes
  <2> HIDE DEF t
  <2>9. m \in Pools /\ m.queue = t /\ m.holders = p.holders  BY <1>1, <2>8 DEF Pools
  <2> HIDE DEF m
  <2>13. Apart(m)  BY <2>3, <2>4, <2>6, <2>8, <2>9 DEF Good, Apart
  <2>10. Spares(m, d, {})  BY <2>8, <2>9, <2>13, DrainSpares
  <2> HIDE DEF d
  <2>11. Good(d) /\ \A e \in ToSet(d.queue) : (e \in ToSet(q) /\ e # x) \/ e = y
    BY <2>4, <2>8, <2>9, <2>10 DEF Spares
  <2>14. \A e \in d.holders : \E f \in entries(p) : f.run = e.run
    <3>1. \A e \in d.holders : e \in entries(m)  BY <2>10 DEF Spares
    <3>2. \A e \in entries(m) : e = y \/ e \in entries(p)  BY <2>4, <2>8, <2>9 DEF entries
    <3>3. x \in entries(p)  BY <2>3 DEF entries
    <3> QED  BY <2>6, <3>1, <3>2, <3>3
  <2>12. \A e \in entries(p) : \E f \in entries(d) : f.run = e.run
    <3>1. \A e \in entries(m) : e \in entries(d)  BY <2>10 DEF Spares
    <3>2. y \in entries(m)  BY <2>8, <2>9 DEF entries
    <3>3. \A e \in entries(p) : e = x \/ e \in entries(m)  BY <2>4, <2>8, <2>9 DEF entries
    <3> QED  BY <2>6, <3>1, <3>2, <3>3
  <2> QED  BY <2>3, <2>5, <2>11, <2>12, <2>14 DEF y
<1> QED  BY <1>2, <1>3

\* The aborts of cancelAll(), run by run.
AllAborted(p, all) == FoldLeft(LAMBDA o, r : abortWaiters(o, {r} \intersect all), p, [r \in RunId |-> r])

\* They take away the waiters of those runs and nobody else.
LEMMA AbortAllDoes ==
  ASSUME NEW p, Good(p), NEW all \in SUBSET RunId
  PROVE  Spares(p, AllAborted(p, all), all)
<1> DEFINE n == MaxRuns
           seq == [r \in RunId |-> r]
           D == DOMAIN seq
           Goods == {o \in Pools : Good(o)}
           on(o, r) == abortWaiters(o, {r} \intersect all)
           Folds(f) == f = [s \in SUBSET D |-> IF s = {} THEN p ELSE on(f[s \ {Max(s)}], seq[Max(s)])]
           t == [r \in 1 .. n |-> [o \in Goods |-> on(o, r)]]
           h == CHOOSE f : Folds(f)
<1>1. n \in Nat /\ D = 1 .. n /\ RunId = 1 .. n /\ \A r \in 1 .. n : seq[r] = r  BY Ids
<1>2. p \in Goods  BY DEF Good
<1>3. ASSUME NEW o \in Goods, NEW r \in 1 .. n PROVE on(o, r) \in Goods /\ Spares(o, on(o, r), {r} \intersect all)
  <2>1. Spares(o, on(o, r), {r} \intersect all)  BY AbortDoes
  <2> QED  BY <2>1 DEF Spares, Good
<1>4. AllAborted(p, all) = h[D]
  BY DEF AllAborted, FoldLeft, MapThenFoldSet
<1> HIDE DEF on, seq, Goods
<1>5. Folds(h)
  <2>1. PICK f : IsFold(f, n, Goods, p, t)
    <3>1. n \in Nat /\ t \in [1 .. n -> [Goods -> Goods]]  BY <1>1, <1>3
    <3> HIDE DEF t, n
    <3> QED  BY <3>1, <1>2, FoldExists
  <2>2. ASSUME NEW s \in SUBSET (1 .. n), s # {}
        PROVE  t[Max(s)][f[s \ {Max(s)}]] = on(f[s \ {Max(s)}], seq[Max(s)])
    <3>1. Max(s) \in 1 .. n  BY <1>1, <2>2, LastIsOne
    <3>2. f[s \ {Max(s)}] \in Goods  BY <2>1, <2>2 DEF IsFold
    <3>3. seq[Max(s)] = Max(s)  BY <1>1, <3>1
    <3> QED  BY <3>1, <3>2, <3>3
  <2>3. Folds(f)
    <3>1. f = [s \in SUBSET (1 .. n) |-> f[s]]  BY <2>1 DEF IsFold
    <3>2. \A s \in SUBSET (1 .. n) : f[s] = IF s = {} THEN p ELSE on(f[s \ {Max(s)}], seq[Max(s)])
      BY <2>1, <2>2 DEF IsFold
    <3> HIDE DEF t
    <3> QED  BY <1>1, <3>1, <3>2
  <2> HIDE DEF Folds
  <2> QED  BY <2>3
<1> DEFINE g == [i \in 0 .. n |-> h[1 .. i]]
<1>6. h[{}] = p /\ \A s \in SUBSET D : s # {} => h[s] = on(h[s \ {Max(s)}], seq[Max(s)])
  <2> HIDE DEF h
  <2> QED  BY <1>5
<1> HIDE DEF h
<1>7. g[0] = p
  <2>1. 1 .. 0 = {} /\ 0 \in 0 .. n  BY <1>1
  <2> QED  BY <1>6, <2>1
<1>8. ASSUME NEW i \in 0 .. (n - 1) PROVE g[i + 1] = on(g[i], i + 1)
  <2>1. i + 1 \in 1 .. n /\ i + 1 \in 0 .. n /\ i \in 0 .. n /\ (i + 1) - 1 = i  BY <1>1
  <2>2. Max(1 .. (i + 1)) = i + 1 /\ (1 .. (i + 1)) \ {i + 1} = 1 .. i  BY <1>1, <2>1, LastOfFirst
  <2>3. 1 .. (i + 1) \in SUBSET D /\ 1 .. (i + 1) # {}
    <3>1. 1 .. (i + 1) \subseteq 1 .. n  BY <1>1, <2>1
    <3>2. i + 1 \in 1 .. (i + 1)  BY <1>1, <2>1
    <3> QED  BY <1>1, <3>1, <3>2
  <2>4. h[1 .. (i + 1)] = on(h[1 .. i], i + 1)  BY <1>1, <1>6, <2>1, <2>2, <2>3
  <2> QED  BY <2>1, <2>4
<1>9. AllAborted(p, all) = g[n]
  <2>1. n \in 0 .. n  BY <1>1
  <2> QED  BY <1>1, <1>4, <2>1
<1> DEFINE Kept == {i \in 0 .. n : Spares(p, g[i], (1 .. i) \intersect all)}
<1>10. 0 \in Kept
  <2>1. 0 \in 0 .. n /\ 1 .. 0 = {}  BY <1>1
  <2>2. Spares(p, p, {})  BY DEF Spares, entries
  <2>3. (1 .. 0) \intersect all = {}  BY <2>1
  <2> HIDE DEF g
  <2> QED  BY <1>7, <2>1, <2>2, <2>3
<1> HIDE DEF g
<1>11. ASSUME NEW i \in 0 .. (n - 1), i \in Kept PROVE i + 1 \in Kept
  <2>1. i + 1 \in 1 .. n /\ i + 1 \in 0 .. n /\ i \in Nat  BY <1>1
  <2>2. Spares(p, g[i], (1 .. i) \intersect all)  BY <1>11
  <2>3. g[i] \in Goods  BY <2>2 DEF Spares, Goods, Good
  <2>4. Spares(g[i], g[i + 1], {i + 1} \intersect all)  BY <1>3, <1>8, <2>1, <2>3
  <2>5. \A r : r \in (1 .. (i + 1)) \intersect all <=> r \in (1 .. i) \intersect all \/ r \in {i + 1} \intersect all
    <3>1. 1 .. (i + 1) = 1 .. i \union {i + 1}  BY <2>1
    <3> QED  BY <3>1
  <2>6. Spares(p, g[i + 1], (1 .. (i + 1)) \intersect all)
    <3>1. \A e \in entries(g[i]) : e \in entries(p)  BY <2>2 DEF Spares, entries
    <3> QED  BY <2>2, <2>4, <2>5, <3>1 DEF Spares
  <2> QED  BY <2>1, <2>6
<1>12. n \in Kept
  <2> HIDE DEF Kept, n
  <2>1. \A i \in 0 .. n : i \in Kept  BY <1>1, <1>10, <1>11, Upward
  <2> QED  BY <1>1, <2>1
<1>13. (1 .. n) \intersect all = all  BY <1>1
<1> QED  BY <1>9, <1>12, <1>13

-----------------------------------------------------------------------------
(* The pool is used, and the user comes first.                             *)

\* A file's entries lead to its download under way and to no other run: only execute()
\* clears them, and it asks whose they are.
Led ==
  /\ \A i \in Id : controllers[i] # 0 =>
       /\ run[controllers[i]].pc # "none"
       /\ run[controllers[i]].pc = "over" \/ run[controllers[i]].id = i
  /\ \A i \in File : inFlight[i] = controllers[i]
  /\ \A i \in File : controllers[i] # 0 => Live(controllers[i]) /\ run[controllers[i]].id = i
  /\ \A r \in RunId : Live(r) /\ run[r].id \in File => controllers[run[r].id] = r

\* What a file's download has when it calls for a slot: the user's priority if the user asked.
Ranked ==
  /\ priorities \in [Id -> {"user", "background", "none"}]
  /\ \A r \in RunId : Live(r) /\ run[r].id \in File \ Share =>
       /\ priorities[run[r].id] # "none"
       /\ run[r].asked => priorities[run[r].id] = "user"

\* A waiter in the background is a file's that nobody asked for.
Queued ==
  \A e \in ToSet(pool.queue) :
    /\ run[e.run].pc = "wait" /\ ~run[e.run].aborted
    /\ e.priority = 1 => run[e.run].id \notin Share /\ e.key = run[e.run].id /\ ~run[e.run].asked

\* A holder has been let in and is not over.
Held == \A e \in pool.holders : run[e.run].pc \in {"wait", "lock", "transfer", "record"}

\* Who was asked for is still in the pool.
Awaited ==
  \A r \in RunId : Live(r) /\ run[r].asked /\ run[r].pc = "wait" => r \in waiting(pool) \union holding(pool)

\* What is kept of the pool, and with it of the runs.
PoolInv == Good(pool) /\ Queued /\ Held /\ Awaited
Rests == Led /\ Ranked /\ PoolInv

\* Whoever is in the pool is its waiter or its holder.
LEMMA InPool ==
  ASSUME NEW p
  PROVE  \A r : r \in waiting(p) \union holding(p) <=> \E e \in entries(p) : e.run = r
  BY DEF waiting, holding, entries

\* Both properties follow.
LEMMA RestsAnswers == Rests => RoomIsUsed /\ UserFirst
<1> SUFFICES ASSUME Rests PROVE RoomIsUsed /\ UserFirst  OBVIOUS
<1>1. Good(pool) /\ Queued /\ Awaited  BY DEF Rests, PoolInv
<1>2. drain(pool) = pool  BY <1>1, DrainRests DEF Good
<1>3. ASSUME NEW r \in Started, run[r].asked, ~run[r].aborted, run[r].pc = "wait"
      PROVE  /\ r \in waiting(pool) \union holding(pool)
             /\ \A i \in DOMAIN pool.queue : pool.queue[i].run = r => pool.queue[i].priority = 0
  <2>1. r \in RunId /\ Live(r)  BY <1>3 DEF Started, Live
  <2>2. r \in waiting(pool) \union holding(pool)  BY <1>1, <1>3, <2>1 DEF Awaited
  <2>3. ASSUME NEW i \in DOMAIN pool.queue, pool.queue[i].run = r PROVE pool.queue[i].priority = 0
    <3>1. pool.queue \in Seq(Entry)  BY <1>1 DEF Good, Pools
    <3>2. pool.queue[i] \in Entry /\ pool.queue[i] \in ToSet(pool.queue)  BY <3>1, Members
    <3>3. pool.queue[i].priority \in {0, 1}  BY <3>2 DEF Entry
    <3>4. pool.queue[i].priority # 1  BY <1>1, <1>3, <2>3, <3>2 DEF Queued
    <3> QED  BY <3>3, <3>4
  <2> QED  BY <2>2, <2>3
<1> QED  BY <1>2, <1>3 DEF RoomIsUsed, UserFirst

\* Nothing is asked for at the start.
LEMMA InitRests == Init => Rests
<1> SUFFICES ASSUME Init PROVE Rests  OBVIOUS
<1>1. /\ controllers = [i \in Id |-> 0] /\ inFlight = [i \in Id |-> 0] /\ priorities = [i \in Id |-> "none"]
      /\ run = [r \in RunId |-> NoRun]
  BY DEF Init
<1>2. \A r \in RunId : run[r].pc = "none" /\ ~Live(r)  BY <1>1 DEF NoRun, Live
<1>3. File \subseteq Id  BY Ids
<1>4. Led  BY <1>1, <1>2, <1>3 DEF Led
<1>5. Ranked  BY <1>1, <1>2 DEF Ranked
<1>6. PICK n \in Slots, c \in Room : pool = [max |-> n, capacity |-> c, queue |-> <<>>, holders |-> {}]
  BY DEF Init
<1>7. pool.queue = <<>> /\ pool.holders = {} /\ pool.max = n /\ pool.capacity = c  BY <1>6
<1>8. n \in Nat /\ c \in Nat  BY DownloadsAssumption
<1>9. <<>> \in Seq(Entry)  OBVIOUS
<1>10. {} \in {H \in SUBSET Entry : IsFiniteSet(H)}  BY FS_EmptySet
<1>11. pool \in Pools  BY <1>6, <1>8, <1>9, <1>10 DEF Pools
<1>12. DOMAIN <<>> = {}  OBVIOUS
<1>13. DOMAIN pool.queue = {}  BY <1>7, <1>12, ZenonT(60)
<1>14. ToSet(pool.queue) = {}  BY <1>13 DEF ToSet
<1>15. Good(pool)  BY <1>11, <1>13, <1>14 DEF Good, Once, Apart, Settled
<1>16. Queued /\ Held /\ Awaited  BY <1>2, <1>7, <1>14 DEF Queued, Held, Awaited
<1> QED  BY <1>4, <1>5, <1>15, <1>16 DEF Rests, PoolInv

-----------------------------------------------------------------------------
(* What keeps each part.                                                   *)

\* Files' entries that stay with runs that stay live, or go.
LEMMA LedKept ==
  ASSUME Entries, Led, RunsGoOn, controllers' \in [Id -> {0} \union RunId],
         \A i \in Id : controllers'[i] \in {0, controllers[i]},
         \A i \in File : inFlight'[i] = controllers'[i],
         \A c \in RunId : \A i \in File : controllers'[i] = c => Live(c)',
         \A q \in RunId : Live(q)' /\ run[q].id \in File => controllers'[run[q].id] = controllers[run[q].id]
  PROVE  Led'
<1>1. \A q \in RunId : Live(q)' => Live(q) /\ run'[q].id = run[q].id  BY DEF RunsGoOn, Live
<1>2. \A q \in RunId : run[q].pc # "none" =>
        run'[q].pc # "none" /\ (run'[q].pc = "over" \/ (run'[q].id = run[q].id /\ run[q].pc # "over"))
  BY DEF RunsGoOn
<1>3. \A i \in Id : controllers'[i] # 0 => controllers'[i] = controllers[i] /\ controllers[i] \in RunId
  BY DEF Entries
<1>4. \A i \in Id : controllers'[i] # 0 =>
        /\ run'[controllers'[i]].pc # "none"
        /\ run'[controllers'[i]].pc = "over" \/ run'[controllers'[i]].id = i
  <2> SUFFICES ASSUME NEW i \in Id, controllers'[i] # 0
               PROVE  /\ run'[controllers'[i]].pc # "none"
                      /\ run'[controllers'[i]].pc = "over" \/ run'[controllers'[i]].id = i
    OBVIOUS
  <2>1. controllers'[i] = controllers[i] /\ controllers[i] \in RunId /\ controllers[i] # 0  BY <1>3
  <2>2. run[controllers[i]].pc # "none" /\ (run[controllers[i]].pc = "over" \/ run[controllers[i]].id = i)
    BY <2>1 DEF Led
  <2> QED  BY <1>2, <2>1, <2>2
<1>5. ASSUME NEW i \in File, controllers'[i] # 0
      PROVE  /\ run'[controllers'[i]].pc \notin {"none", "over"} /\ ~run'[controllers'[i]].aborted
             /\ run'[controllers'[i]].id = i
  <2>1. i \in Id /\ controllers'[i] = controllers[i] /\ controllers[i] \in RunId /\ controllers[i] # 0
    BY <1>3, <1>5, Ids
  <2>2. run[controllers[i]].id = i  BY <2>1 DEF Led
  <2>3. PICK c \in RunId : controllers[i] = c  BY <2>1
  <2>4. Live(c)'  BY <2>1, <2>3
  <2>5. run'[c].pc \notin {"none", "over"} /\ ~run'[c].aborted  BY <2>4 DEF Live
  <2>6. run'[c].id = i  BY <2>2, <2>3, <2>5 DEF RunsGoOn
  <2> QED  BY <2>1, <2>3, <2>5, <2>6
<1>6. ASSUME NEW q \in RunId, Live(q)', run'[q].id \in File PROVE controllers'[run'[q].id] = q
  BY <1>1, <1>6 DEF Led
<1>7. \A i \in File : inFlight'[i] = controllers'[i]  OBVIOUS
<1> QED  BY <1>4, <1>5, <1>6, <1>7 DEF Led, Live

\* Priorities that stay or become the user's.
LEMMA RankedKept ==
  ASSUME Ranked, RunsGoOn, priorities' \in [Id -> {"user", "background", "none"}],
         \A q \in RunId : Live(q)' /\ run[q].id \in File \ Share =>
           \/ priorities'[run[q].id] = "user"
           \/ priorities'[run[q].id] = priorities[run[q].id] /\ (run'[q].asked <=> run[q].asked)
  PROVE  Ranked'
<1>1. \A q \in RunId : Live(q)' => Live(q) /\ run'[q].id = run[q].id  BY DEF RunsGoOn, Live
<1>2. ASSUME NEW q \in RunId, Live(q)', run'[q].id \in File \ Share
      PROVE  priorities'[run'[q].id] # "none" /\ (run'[q].asked => priorities'[run'[q].id] = "user")
  BY <1>1, <1>2 DEF Ranked
<1> QED  BY <1>2 DEF Ranked

\* Whoever waited and is not taken away waits on, and nobody else does.
WaitersStay(gone) ==
  /\ \A q \in RunId \ gone : run[q].pc = "wait" =>
       /\ run'[q].pc = "wait" /\ run'[q].id = run[q].id
       /\ (run'[q].aborted <=> run[q].aborted) /\ (run'[q].asked <=> run[q].asked)
  /\ \A q \in RunId : Live(q)' /\ run'[q].pc = "wait" =>
       q \notin gone /\ Live(q) /\ run[q].pc = "wait" /\ (run'[q].asked <=> run[q].asked)

\* A step that takes only those away keeps what is known of the pool.
LEMMA PoolKept ==
  ASSUME PoolInv, NEW gone, Spares(pool, pool', gone), WaitersStay(gone),
         \A e \in pool'.holders : run[e.run].pc \in {"wait", "lock", "transfer", "record"} =>
           run'[e.run].pc \in {"wait", "lock", "transfer", "record"}
  PROVE  PoolInv'
<1>1. /\ Good(pool) /\ Good(pool') /\ \A e \in ToSet(pool'.queue) : e \in ToSet(pool.queue) /\ e.run \notin gone
      /\ \A e \in pool'.holders : e \in entries(pool)
      /\ \A e \in entries(pool) : e.run \notin gone => e \in entries(pool')
  BY DEF PoolInv, Spares
<1>2. \A e \in ToSet(pool.queue) : e \in Entry /\ e.run \in RunId
  <2>1. pool.queue \in Seq(Entry)  BY <1>1 DEF Good, Pools
  <2>2. \A e \in ToSet(pool.queue) : e \in Entry  BY <2>1, Members
  <2> QED  BY <2>2 DEF Entry
<1>3. Queued'  BY <1>1, <1>2 DEF PoolInv, Queued, WaitersStay
<1>4. Held'
  <2> SUFFICES ASSUME NEW e \in pool'.holders PROVE run'[e.run].pc \in {"wait", "lock", "transfer", "record"}
    BY DEF Held
  <2>1. e \in ToSet(pool.queue) \/ e \in pool.holders  BY <1>1 DEF entries
  <2>2. run[e.run].pc \in {"wait", "lock", "transfer", "record"}  BY <2>1 DEF PoolInv, Queued, Held
  <2> QED  BY <2>2
<1>5. Awaited'
  <2> SUFFICES ASSUME NEW r \in RunId, Live(r)', run'[r].asked, run'[r].pc = "wait"
               PROVE  r \in waiting(pool') \union holding(pool')
    BY DEF Awaited
  <2>1. r \notin gone /\ Live(r) /\ run[r].pc = "wait" /\ run[r].asked  BY DEF WaitersStay
  <2>2. r \in waiting(pool) \union holding(pool)  BY <2>1 DEF PoolInv, Awaited
  <2>3. PICK e \in entries(pool) : e.run = r  BY <2>2, InPool
  <2>4. e \in entries(pool')  BY <1>1, <2>1, <2>3
  <2> QED  BY <2>3, <2>4, InPool
<1>6. Good(pool)'  BY <1>1 DEF Good
<1> QED  BY <1>3, <1>4, <1>5, <1>6 DEF PoolInv

-----------------------------------------------------------------------------
(* What each action keeps.                                                 *)

\* A run that goes on, and is not one to wait.
LEMMA MoveRests ==
  ASSUME Inv, Rests, NEW r \in RunId, run[r].pc \notin {"none", "over"}, NEW pc,
         pc \notin {"none", "over", "wait"},
         \/ run' = [run EXCEPT ![r].pc = pc]
         \/ \E free : run' = [run EXCEPT ![r].pc = pc, ![r].free = free],
         run[r].pc = "wait" => r \in holding(pool),
         run[r].pc \in {"wait", "lock", "transfer", "record"} => pc \in {"lock", "transfer", "record"},
         UNCHANGED <<controllers, inFlight, priorities, pool>>
  PROVE  Rests'
<1>1. Entries  BY DEF Inv
<1>2. /\ run'[r].pc = pc /\ run'[r].id = run[r].id /\ run'[r].aborted = run[r].aborted
      /\ \A q \in RunId \ {r} : run'[q] = run[q]
  BY <1>1, Moved
<1>3. run'[r].asked = run[r].asked
  <2>1. run = [q \in RunId |-> run[q]] /\ IsRow(run[r])  BY <1>1, ZenonT(60) DEF Entries
  <2> QED  BY <2>1, ZenonT(60) DEF IsRow
<1>4. RunsGoOn  BY <1>1, GoesOn
<1>5. \A q \in RunId : (Live(q)' <=> Live(q)) /\ run'[q].id = run[q].id /\ (run'[q].asked <=> run[q].asked)
  BY <1>2, <1>3 DEF Live
<1>6. controllers' = controllers /\ inFlight' = inFlight /\ priorities' = priorities /\ pool' = pool
  OBVIOUS
<1>7. Led'
  <2>1. \A c \in RunId : \A i \in File : controllers'[i] = c => Live(c)'
    BY <1>5, <1>6, Ids DEF Rests, Led
  <2>2. \A i \in File : inFlight'[i] = controllers'[i]  BY <1>6 DEF Rests, Led
  <2>3. controllers' \in [Id -> {0} \union RunId]  BY <1>1, <1>6, ZenonT(60) DEF Entries
  <2> QED  BY <1>1, <1>4, <1>6, <2>1, <2>2, <2>3, LedKept DEF Rests
<1>8. Ranked'
  <2>1. priorities' \in [Id -> {"user", "background", "none"}]  BY <1>6 DEF Rests, Ranked
  <2> QED  BY <1>4, <1>5, <1>6, <2>1, RankedKept DEF Rests
<1>9. r \notin waiting(pool) /\ (run[r].pc # "wait" \/ r \in holding(pool))
  <2>1. CASE run[r].pc = "wait"  BY <2>1 DEF Rests, PoolInv, Good, Apart, waiting, holding
  <2>2. CASE run[r].pc # "wait"  BY <2>2 DEF Rests, PoolInv, Queued, waiting
  <2> QED  BY <2>1, <2>2
<1>10. Good(pool)'  BY <1>6 DEF Rests, PoolInv, Good
<1>11. Queued'
  <2>1. \A e \in ToSet(pool.queue) : e.run \in RunId \ {r}
    <3>1. pool.queue \in Seq(Entry)  BY DEF Rests, PoolInv, Good, Pools
    <3>2. \A e \in ToSet(pool.queue) : e \in Entry  BY <3>1, Members
    <3> QED  BY <1>9, <3>2 DEF Entry, waiting
  <2> QED  BY <1>2, <1>6, <2>1 DEF Rests, PoolInv, Queued
<1>12. Held'
  <2>1. \A e \in pool.holders : e.run \in RunId  BY DEF Rests, PoolInv, Good, Pools, Entry
  <2> QED  BY <1>2, <1>6, <2>1 DEF Rests, PoolInv, Held
<1>13. Awaited'  BY <1>2, <1>5, <1>6 DEF Rests, PoolInv, Awaited
<1> QED  BY <1>7, <1>8, <1>10, <1>11, <1>12, <1>13 DEF Rests, PoolInv

\* A run's end: its slot is released, its entries are cleared if they are its own.
LEMMA EndRests ==
  ASSUME Inv, Rests, NEW r \in RunId, run[r].pc \notin {"none", "over"}, r \notin waiting(pool),
         NEW how, Ends(r, how)
  PROVE  Rests'
<1> DEFINE i == run[r].id
<1>1. Entries /\ i \in Id  BY DEF Inv, Entries
<1>2. run' = [run EXCEPT ![r] = [NoRun EXCEPT !.pc = "over"]] /\ pool' = releaseSlot(pool, r)
  BY DEF Ends, FileEnds, ShareEnds, Over
<1>3. run'[r].pc = "over" /\ \A q \in RunId \ {r} : run'[q] = run[q]
  <2>1. run = [q \in RunId |-> run[q]]  BY <1>1 DEF Entries
  <2>2. run'[r] = [NoRun EXCEPT !.pc = "over"] /\ \A q \in RunId \ {r} : run'[q] = run[q]
    BY <1>2, <2>1
  <2> QED  BY <2>2 DEF NoRun
<1>4. RunsGoOn  BY <1>1, EndCloses DEF Closes
<1>5. \A q \in RunId : Live(q)' <=> Live(q) /\ q # r  BY <1>3 DEF Live
<1>6. PICK c \in BOOLEAN, u \in BOOLEAN :
        /\ controllers' = [controllers EXCEPT ![i] = IF c THEN 0 ELSE @]
        /\ priorities' = [priorities EXCEPT ![i] = IF c THEN "none" ELSE @]
        /\ inFlight' = [inFlight EXCEPT ![i] = IF u THEN 0 ELSE @]
        /\ i \in File => (c <=> controllers[i] = r) /\ (u <=> c)
  <2>1. CASE i \in File
    <3>1. FileEnds(r, how)  BY <2>1 DEF Ends
    <3>2. Clear(i, current(r), current(r))  BY <3>1 DEF FileEnds
    <3> QED  BY <3>2 DEF Clear, current
  <2>2. CASE i \notin File
    <3>1. ShareEnds(r, how)  BY <2>2 DEF Ends
    <3>2. Clear(i, how = "removed", TRUE)  BY <3>1 DEF ShareEnds
    <3> QED  BY <2>2, <3>2 DEF Clear
  <2> QED  BY <2>1, <2>2
<1> HIDE DEF i
<1>7. /\ controllers' \in [Id -> {0} \union RunId]
      /\ \A j \in Id : controllers'[j] = IF j = i /\ c THEN 0 ELSE controllers[j]
      /\ \A j \in Id : inFlight'[j] = IF j = i /\ u THEN 0 ELSE inFlight[j]
  BY <1>1, <1>6 DEF Entries
<1>8. priorities' \in [Id -> {"user", "background", "none"}]
      /\ \A j \in Id : priorities'[j] = IF j = i /\ c THEN "none" ELSE priorities[j]
  BY <1>1, <1>6 DEF Rests, Ranked
<1>9. \A q \in RunId : q # r /\ Live(q) /\ run[q].id = i => i \notin File \/ ~c
  BY <1>6 DEF Rests, Led
<1>10. Led'
  <2>1. \A x \in RunId : \A j \in File : controllers'[j] = x => Live(x)'
    <3> SUFFICES ASSUME NEW x \in RunId, NEW j \in File, controllers'[j] = x PROVE Live(x)'  OBVIOUS
    <3>1. j \in Id /\ controllers[j] = x /\ ~(j = i /\ c) /\ x # 0  BY <1>7, Ids
    <3>2. Live(x) /\ run[x].id = j  BY <3>1 DEF Rests, Led
    <3>3. x # r  BY <1>6, <3>1, <3>2 DEF i
    <3> QED  BY <1>5, <3>2, <3>3
  <2>2. \A j \in File : inFlight'[j] = controllers'[j]  BY <1>6, <1>7, Ids DEF Rests, Led
  <2>3. \A j \in Id : controllers'[j] \in {0, controllers[j]}  BY <1>7
  <2>4. \A q \in RunId : Live(q)' /\ run[q].id \in File => controllers'[run[q].id] = controllers[run[q].id]
    BY <1>5, <1>7, <1>9, Ids
  <2> QED  BY <1>1, <1>4, <1>7, <2>1, <2>2, <2>3, <2>4, LedKept DEF Rests
<1>11. Ranked'
  <2>1. \A q \in RunId : Live(q)' /\ run[q].id \in File \ Share =>
          priorities'[run[q].id] = priorities[run[q].id] /\ (run'[q].asked <=> run[q].asked)
    BY <1>3, <1>5, <1>8, <1>9, Ids
  <2> QED  BY <1>4, <1>8, <2>1, RankedKept DEF Rests
<1>12. PoolInv'
  <2>1. Spares(pool, pool', {r}) /\ r \notin holding(pool')  BY <1>2, ReleaseDoes DEF Rests, PoolInv
  <2>2. WaitersStay({r})  BY <1>3, <1>5 DEF WaitersStay, Live
  <2>3. \A e \in pool'.holders : e.run \in RunId \ {r}
    <3>1. \A e \in pool'.holders : e.run \in RunId  BY <2>1 DEF Spares, Good, Pools, Entry
    <3> QED  BY <2>1, <3>1 DEF holding
  <2> QED  BY <1>3, <2>1, <2>2, <2>3, PoolKept DEF Rests
<1> QED  BY <1>10, <1>11, <1>12 DEF Rests

\* A call for a slot has the user's priority if the user asked, and else takes none of those away.
LEMMA AcquireRests ==
  ASSUME Inv, Rests, NEW r \in RunId, run[r].pc \in {"ready", "objects"}, ~run[r].aborted, Acquire(r)
  PROVE  Rests'
<1> DEFINE i == run[r].id
           priority == IF i \in Share THEN "user" ELSE priorities[i]
           depth == IF priority = "background" THEN <<Depth>> ELSE <<>>
           entry == [run |-> r, key |-> IF i \in Share THEN "none" ELSE i,
                     priority |-> SlotPriority[priority], weight |-> Size[i]]
<1>1. Entries /\ i \in Id /\ Live(r)  BY DEF Inv, Entries, Live
<1>2. PICK room \in Room : pool' = acquire(setCapacity(pool, room), entry, depth)
  BY DEF Acquire
<1>3. Goto(r, "wait") /\ UNCHANGED <<controllers, inFlight, priorities>>  BY DEF Acquire, maps
<1>4. /\ run'[r].pc = "wait" /\ run'[r].id = run[r].id /\ run'[r].aborted = run[r].aborted
      /\ \A q \in RunId \ {r} : run'[q] = run[q]
  BY <1>1, <1>3, Moved DEF Goto
<1>5. run'[r].asked = run[r].asked
  <2>1. run = [q \in RunId |-> run[q]] /\ IsRow(run[r])  BY <1>1 DEF Entries
  <2> QED  BY <1>3, <2>1 DEF IsRow, Goto
<1>6. RunsGoOn
  <2>1. PICK pc : pc = "wait"  OBVIOUS
  <2>2. run' = [run EXCEPT ![r].pc = pc] /\ run[r].pc \notin {"none", "over"} /\ pc \notin {"none", "over"}
    BY <1>3, <2>1 DEF Goto
  <2> QED  BY <1>1, <2>2, GoesOn
<1>7. \A q \in RunId : (Live(q)' <=> Live(q)) /\ run'[q].id = run[q].id /\ (run'[q].asked <=> run[q].asked)
  BY <1>4, <1>5 DEF Live
<1>8. Led'
  <2>1. \A c \in RunId : \A j \in File : controllers'[j] = c => Live(c)'
    BY <1>3, <1>7, Ids DEF Rests, Led
  <2>2. \A j \in File : inFlight'[j] = controllers'[j]  BY <1>3 DEF Rests, Led
  <2>3. controllers' \in [Id -> {0} \union RunId] /\ controllers' = controllers  BY <1>1, <1>3 DEF Entries
  <2> QED  BY <1>1, <1>6, <2>1, <2>2, <2>3, LedKept DEF Rests
<1>9. Ranked'
  <2>1. priorities' \in [Id -> {"user", "background", "none"}]  BY <1>3 DEF Rests, Ranked
  <2> QED  BY <1>3, <1>6, <1>7, <2>1, RankedKept DEF Rests
<1>10. priority \in {"user", "background"} /\ (i \in Share => priority = "user")
       /\ (run[r].asked => priority = "user")
  BY <1>1, Ids DEF Rests, Ranked
<1>11. entry \in Entry /\ entry.run = r
       /\ (entry.priority = 1 => priority = "background" /\ entry.key = i /\ i \notin Share)
       /\ (priority = "user" => depth = <<>>)
       /\ (depth # <<>> => entry.priority = 1 /\ depth = <<Depth>>)
  <2>1. SlotPriority["user"] = 0 /\ SlotPriority["background"] = 1  BY DEF SlotPriority
  <2>2. Size[i] \in Nat  BY <1>1, DownloadsAssumption
  <2>3. entry \in Entry  BY <1>1, <1>10, <2>1, <2>2 DEF Entry
  <2>4. <<Depth>> # <<>>  OBVIOUS
  <2>5. (entry.priority = 1 => priority = "background" /\ entry.key = i /\ i \notin Share)
    BY <1>10, <2>1
  <2>6. depth # <<>> => priority = "background"  OBVIOUS
  <2>7. priority = "background" => depth = <<Depth>> /\ entry.priority = 1  BY <2>1
  <2>8. priority = "user" => depth = <<>>  OBVIOUS
  <2> HIDE DEF depth, priority
  <2> QED  BY <2>3, <2>5, <2>6, <2>7, <2>8
<1>12. depth = <<>> \/ (depth # <<>> /\ depth[1] \in Nat \ {0})
  BY <1>11, DownloadsAssumption
<1> HIDE DEF depth, entry, priority
<1> DEFINE p == setCapacity(pool, room)
<1>13. Spares(pool, p, {}) /\ Good(p)
  <2>1. room \in Nat  BY DownloadsAssumption
  <2>2. Spares(pool, p, {})  BY <2>1, SetDoes DEF Rests, PoolInv
  <2> QED  BY <2>2 DEF Spares
<1> HIDE DEF p
<1>14. \A e \in entries(pool) : e.run # r
  BY DEF Rests, PoolInv, Queued, Held, entries
<1>15. \A e \in ToSet(p.queue) : e \in ToSet(pool.queue)  BY <1>13 DEF Spares
<1>16. \A e : e \in entries(p) <=> e \in entries(pool)
  BY <1>13 DEF Spares, entries
<1>17. r \notin waiting(p) \union holding(p)  BY <1>14, <1>16, InPool
<1>18. /\ Good(pool')
       /\ \A x \in ToSet(pool'.queue) : x \in ToSet(p.queue) \/ x = entry
       /\ \A x \in pool'.holders : x \in entries(p) \/ x = entry
       /\ p.holders \subseteq pool'.holders
       /\ \A x \in entries(p) \union {entry} :
            depth = <<>> \/ x.priority # entry.priority => x \in entries(pool')
  <2>1. pool' = acquire(p, entry, depth)  BY <1>2 DEF p, entry, depth, priority
  <2>2. entry \in Entry /\ entry.run \notin waiting(p) \union holding(p)  BY <1>11, <1>17
  <2> QED  BY <1>12, <1>13, <2>1, <2>2, AcquireDoes
<1>19. \A e \in entries(pool) : e \in Entry /\ e.run \in RunId \ {r}
  <2>1. pool.queue \in Seq(Entry) /\ pool.holders \in SUBSET Entry  BY DEF Rests, PoolInv, Good, Pools
  <2>2. \A e \in entries(pool) : e \in Entry  BY <2>1, Members DEF entries
  <2> QED  BY <1>14, <2>2 DEF Entry
<1>20. Queued'
  <2> SUFFICES ASSUME NEW e \in ToSet(pool'.queue)
               PROVE  /\ run'[e.run].pc = "wait" /\ ~run'[e.run].aborted
                      /\ e.priority = 1 => run'[e.run].id \notin Share /\ e.key = run'[e.run].id /\ ~run'[e.run].asked
    BY DEF Queued
  <2>1. CASE e = entry  BY <1>4, <1>5, <1>10, <1>11, <2>1 DEF i
  <2>2. CASE e \in ToSet(pool.queue)
    <3>1. run'[e.run] = run[e.run]  BY <1>4, <1>19, <2>2 DEF entries
    <3> QED  BY <2>2, <3>1 DEF Rests, PoolInv, Queued
  <2> QED  BY <1>15, <1>18, <2>1, <2>2
<1>21. Held'
  <2> SUFFICES ASSUME NEW e \in pool'.holders PROVE run'[e.run].pc \in {"wait", "lock", "transfer", "record"}
    BY DEF Held
  <2>1. CASE e = entry  BY <1>4, <1>11, <2>1
  <2>2. CASE e \in entries(pool)
    <3>1. run'[e.run] = run[e.run]  BY <1>4, <1>19, <2>2
    <3> QED  BY <2>2, <3>1 DEF Rests, PoolInv, Queued, Held, entries
  <2> QED  BY <1>16, <1>18, <2>1, <2>2
<1>22. Awaited'
  <2> SUFFICES ASSUME NEW q \in RunId, Live(q)', run'[q].asked, run'[q].pc = "wait"
               PROVE  q \in waiting(pool') \union holding(pool')
    BY DEF Awaited
  <2>1. Live(q) /\ run[q].asked  BY <1>7
  <2>2. CASE q = r
    <3>1. depth = <<>>  BY <1>10, <1>11, <2>1, <2>2
    <3>2. entry \in entries(pool')  BY <1>18, <3>1
    <3> QED  BY <1>11, <2>2, <3>2, InPool
  <2>3. CASE q # r
    <3>1. run[q].pc = "wait"  BY <1>4, <2>3
    <3>2. q \in waiting(pool) \union holding(pool)  BY <2>1, <3>1 DEF Rests, PoolInv, Awaited
    <3>3. PICK e \in entries(pool) : e.run = q  BY <3>2, InPool
    <3>4. e \in entries(p)  BY <1>16, <3>3
    <3>5. e \in entries(pool')
      <4>1. CASE depth = <<>>  BY <1>18, <3>4, <4>1
      <4>2. CASE depth # <<>>
        <5>1. CASE e \in p.holders  BY <1>18, <5>1 DEF entries
        <5>2. CASE e \in ToSet(p.queue)
          <6>1. e.priority # 1  BY <1>15, <2>1, <3>3, <5>2 DEF Rests, PoolInv, Queued
          <6> QED  BY <1>11, <1>18, <3>4, <4>2, <6>1
        <5> QED  BY <3>4, <5>1, <5>2 DEF entries
      <4> QED  BY <4>1, <4>2
    <3> QED  BY <3>3, <3>5, InPool
  <2> QED  BY <2>2, <2>3
<1>23. Good(pool)'  BY <1>18 DEF Good
<1> QED  BY <1>8, <1>9, <1>20, <1>21, <1>22, <1>23 DEF Rests, PoolInv

\* What an abort does to the runs.
LEMMA AbortedRuns ==
  ASSUME Entries, NEW rs, run' = Aborted(rs)
  PROVE  /\ RunsGoOn
         /\ \A q \in RunId : /\ run'[q].pc = run[q].pc /\ run'[q].id = run[q].id
                             /\ (run'[q].asked <=> run[q].asked)
                             /\ q \notin rs => run'[q] = run[q]
         /\ \A q \in RunId : Live(q)' <=> Live(q) /\ q \notin rs
<1>1. \A q \in RunId : IsRow(run[q])  BY DEF Entries
<1>2. \A q \in RunId : run'[q] = IF q \in rs THEN [run[q] EXCEPT !.aborted = TRUE] ELSE run[q]
  BY DEF Aborted
<1>3. ASSUME NEW q \in RunId
      PROVE  /\ run'[q].pc = run[q].pc /\ run'[q].id = run[q].id /\ run'[q].asked = run[q].asked
             /\ q \notin rs => run'[q] = run[q]
             /\ q \in rs => run'[q].aborted
  <2>1. IsRow(run[q])  BY <1>1
  <2> QED  BY <1>2, <2>1 DEF IsRow
<1>4. RunsGoOn  BY AbortedGoOn
<1> QED  BY <1>3, <1>4 DEF Live

\* Cancels abort the runs the entries they clear lead to, and take them out of the queue.
LEMMA CancelsRest ==
  ASSUME Inv, Rests, NEW ids \in SUBSET Id, NEW rs, run' = Aborted(rs),
         \A j \in ids : controllers[j] = 0 \/ controllers[j] \in rs,
         \A q \in rs : q = 0 \/ \E j \in ids : controllers[j] = q,
         controllers' = [j \in Id |-> IF j \in ids THEN 0 ELSE controllers[j]],
         inFlight' = [j \in Id |-> IF j \in ids THEN 0 ELSE inFlight[j]],
         priorities' = [j \in Id |-> IF j \in ids THEN "none" ELSE priorities[j]],
         Spares(pool, pool', rs)
  PROVE  Rests'
<1>1. Entries  BY DEF Inv
<1>2. /\ RunsGoOn
      /\ \A q \in RunId : /\ run'[q].pc = run[q].pc /\ run'[q].id = run[q].id
                          /\ (run'[q].asked <=> run[q].asked)
                          /\ q \notin rs => run'[q] = run[q]
      /\ \A q \in RunId : Live(q)' <=> Live(q) /\ q \notin rs
  BY <1>1, AbortedRuns
<1>3. \A q \in RunId : Live(q)' /\ run[q].id \in File => run[q].id \notin ids
  <2> SUFFICES ASSUME NEW q \in RunId, Live(q)', run[q].id \in File, run[q].id \in ids PROVE FALSE
    OBVIOUS
  <2>1. Live(q) /\ q \notin rs /\ q # 0  BY <1>2, Ids
  <2>2. controllers[run[q].id] = q  BY <2>1 DEF Rests, Led
  <2> QED  BY <2>1, <2>2
<1>4. \A c \in RunId : \A j \in File : controllers'[j] = c => Live(c)'
  <2> SUFFICES ASSUME NEW c \in RunId, NEW j \in File, controllers'[j] = c PROVE Live(c)'  OBVIOUS
  <2>1. j \in Id /\ c # 0 /\ controllers[j] = c /\ j \notin ids  BY Ids
  <2>2. Live(c) /\ run[c].id = j  BY <2>1 DEF Rests, Led
  <2>3. c \notin rs
    <3> SUFFICES ASSUME c \in rs PROVE FALSE  OBVIOUS
    <3>1. PICK k \in ids : controllers[k] = c  BY <2>1
    <3>2. run[c].pc = "over" \/ run[c].id = k  BY <2>1, <3>1 DEF Rests, Led
    <3> QED  BY <2>1, <2>2, <3>2 DEF Live
  <2> QED  BY <1>2, <2>2, <2>3
<1>5. Led'
  <2>1. controllers' \in [Id -> {0} \union RunId] /\ \A j \in Id : controllers'[j] \in {0, controllers[j]}
    BY <1>1 DEF Entries
  <2>2. \A j \in File : inFlight'[j] = controllers'[j]  BY Ids DEF Rests, Led
  <2>3. \A q \in RunId : Live(q)' /\ run[q].id \in File => controllers'[run[q].id] = controllers[run[q].id]
    BY <1>3, Ids
  <2> QED  BY <1>1, <1>2, <1>4, <2>1, <2>2, <2>3, LedKept DEF Rests
<1>6. Ranked'
  <2>1. priorities' \in [Id -> {"user", "background", "none"}]  BY DEF Rests, Ranked
  <2>2. \A q \in RunId : Live(q)' /\ run[q].id \in File \ Share =>
          priorities'[run[q].id] = priorities[run[q].id] /\ (run'[q].asked <=> run[q].asked)
    BY <1>2, <1>3, Ids
  <2> QED  BY <1>2, <2>1, <2>2, RankedKept DEF Rests
<1>7. PoolInv'
  <2>1. WaitersStay(rs)  BY <1>2 DEF WaitersStay
  <2>2. \A e \in pool'.holders : e.run \in RunId  BY DEF Spares, Good, Pools, Entry
  <2> QED  BY <1>2, <2>1, <2>2, PoolKept DEF Rests
<1> QED  BY <1>5, <1>6, <1>7 DEF Rests

\* cancel()
LEMMA CancelRests ==
  ASSUME Inv, Rests, NEW i \in Id, cancel(i)
  PROVE  Rests'
<1> DEFINE rs == {controllers[i]}
<1>1. /\ run' = Aborted(rs) /\ pool' = abortWaiters(pool, rs)
      /\ controllers' = [controllers EXCEPT ![i] = 0] /\ inFlight' = [inFlight EXCEPT ![i] = 0]
      /\ priorities' = [priorities EXCEPT ![i] = "none"]
  BY DEF cancel
<1>2. controllers' = [j \in Id |-> IF j \in {i} THEN 0 ELSE controllers[j]]
      /\ inFlight' = [j \in Id |-> IF j \in {i} THEN 0 ELSE inFlight[j]]
  BY <1>1 DEF Inv, Entries
<1>3. priorities' = [j \in Id |-> IF j \in {i} THEN "none" ELSE priorities[j]]
  BY <1>1 DEF Rests, Ranked
<1>4. Spares(pool, pool', rs)  BY <1>1, AbortDoes DEF Rests, PoolInv
<1>5. {i} \in SUBSET Id /\ \A j \in {i} : controllers[j] \in rs  OBVIOUS
<1>6. \A q \in rs : \E j \in {i} : controllers[j] = q  OBVIOUS
<1> HIDE DEF rs
<1> QED  BY <1>1, <1>2, <1>3, <1>4, <1>5, <1>6, CancelsRest

\* cancelAll()
LEMMA CancelAllRests ==
  ASSUME Inv, Rests, cancelAll
  PROVE  Rests'
<1> DEFINE rs == {controllers[i] : i \in Id} \ {0}
<1>1. /\ run' = Aborted(rs) /\ pool' = AllAborted(pool, rs)
      /\ controllers' = [i \in Id |-> 0] /\ inFlight' = [i \in Id |-> 0] /\ priorities' = [i \in Id |-> "none"]
  BY ZenonT(60) DEF cancelAll, AllAborted
<1>2. rs \in SUBSET RunId  BY DEF Inv, Entries
<1>3. Spares(pool, pool', rs)  BY <1>1, <1>2, AbortAllDoes DEF Rests, PoolInv
<1>4. \A j \in Id : controllers[j] = 0 \/ controllers[j] \in rs  OBVIOUS
<1>5. \A q \in rs : \E j \in Id : controllers[j] = q  OBVIOUS
<1> HIDE DEF rs
<1>6. /\ controllers' = [j \in Id |-> IF j \in Id THEN 0 ELSE controllers[j]]
      /\ inFlight' = [j \in Id |-> IF j \in Id THEN 0 ELSE inFlight[j]]
      /\ priorities' = [j \in Id |-> IF j \in Id THEN "none" ELSE priorities[j]]
  BY <1>1
<1> QED  BY <1>1, <1>3, <1>4, <1>5, <1>6, CancelsRest

\* A new run is nobody's in the pool and no other id leads to it.
LEMMA RegisterRests ==
  ASSUME Inv, Rests, NEW i \in Id, inFlight[i] = 0, NEW r, NEW priority \in {"user", "background"},
         register(r, i, priority), pool' = pool,
         \/ priorities' = [priorities EXCEPT ![i] = priority]
         \/ i \in Share /\ priorities' = priorities
  PROVE  Rests'
<1>1. Entries /\ Numbered  BY DEF Inv
<1>2. r \in RunId /\ run[r].pc = "none"
  <2>1. PICK n \in 0 .. MaxRuns : Started = 1 .. n  BY <1>1 DEF Numbered
  <2>2. Cardinality(1 .. n) = n  BY <2>1, FS_Interval
  <2>3. r = n + 1 /\ r \in RunId  BY <2>1, <2>2 DEF register
  <2>4. r \notin Started  BY <2>1, <2>3
  <2> QED  BY <2>3, <2>4 DEF Started
<1>3. /\ run'[r] = [NoRun EXCEPT !.id = i, !.pc = "start", !.asked = (priority = "user")]
      /\ \A q \in RunId \ {r} : run'[q] = run[q]
  <2>1. run = [q \in RunId |-> run[q]]  BY <1>1 DEF Entries
  <2> QED  BY <1>2, <2>1 DEF register
<1>4. run'[r].id = i /\ run'[r].pc = "start" /\ (run'[r].asked <=> priority = "user") /\ ~run'[r].aborted
  BY <1>3 DEF NoRun
<1>5. controllers' = [controllers EXCEPT ![i] = r] /\ inFlight' = [inFlight EXCEPT ![i] = r]
  BY DEF register
<1>6. /\ \A j \in Id : controllers'[j] = IF j = i THEN r ELSE controllers[j]
      /\ \A j \in Id : inFlight'[j] = IF j = i THEN r ELSE inFlight[j]
  BY <1>1, <1>5 DEF Entries
<1>7. \A q \in RunId : Live(q)' <=> Live(q) \/ q = r  BY <1>3, <1>4 DEF Live
<1>8. \A j \in Id : controllers[j] # 0 => controllers[j] \in RunId \ {r}
  BY <1>1, <1>2 DEF Entries, Rests, Led
<1>9. \A q \in RunId : Live(q) /\ run[q].id \in File => run[q].id # i
  <2> SUFFICES ASSUME NEW q \in RunId, Live(q), run[q].id \in File, run[q].id = i PROVE FALSE  OBVIOUS
  <2>1. inFlight[i] = q  BY DEF Rests, Led
  <2> QED  BY <2>1, Ids
<1>10. Led'
  <2>1. \A j \in Id : controllers'[j] # 0 =>
          /\ run'[controllers'[j]].pc # "none"
          /\ run'[controllers'[j]].pc = "over" \/ run'[controllers'[j]].id = j
    <3> SUFFICES ASSUME NEW j \in Id, controllers'[j] # 0
                 PROVE  /\ run'[controllers'[j]].pc # "none"
                        /\ run'[controllers'[j]].pc = "over" \/ run'[controllers'[j]].id = j
      OBVIOUS
    <3>1. CASE j = i  BY <1>4, <1>6, <3>1
    <3>2. CASE j # i
      <4>1. controllers'[j] = controllers[j] /\ controllers[j] \in RunId \ {r} /\ controllers[j] # 0
        BY <1>6, <1>8, <3>2
      <4>2. run[controllers[j]].pc # "none" /\ (run[controllers[j]].pc = "over" \/ run[controllers[j]].id = j)
        BY <4>1 DEF Rests, Led
      <4> QED  BY <1>3, <4>1, <4>2
    <3> QED  BY <3>1, <3>2
  <2>2. \A j \in File : inFlight'[j] = controllers'[j]  BY <1>6, Ids DEF Rests, Led
  <2>3. ASSUME NEW j \in File, controllers'[j] # 0
        PROVE  /\ run'[controllers'[j]].pc \notin {"none", "over"} /\ ~run'[controllers'[j]].aborted
               /\ run'[controllers'[j]].id = j
    <3>1. CASE j = i  BY <1>4, <1>6, <3>1, Ids
    <3>2. CASE j # i
      <4>1. j \in Id /\ controllers'[j] = controllers[j] /\ controllers[j] \in RunId \ {r} /\ controllers[j] # 0
        BY <1>6, <1>8, <2>3, <3>2, Ids
      <4>2. Live(controllers[j]) /\ run[controllers[j]].id = j  BY <4>1 DEF Rests, Led
      <4> QED  BY <1>3, <4>1, <4>2 DEF Live
    <3> QED  BY <3>1, <3>2
  <2>4. ASSUME NEW q \in RunId, Live(q)', run'[q].id \in File PROVE controllers'[run'[q].id] = q
    <3>1. CASE q = r  BY <1>4, <1>6, <3>1
    <3>2. CASE q # r
      <4>1. Live(q) /\ run'[q] = run[q]  BY <1>3, <1>7, <2>4, <3>2
      <4>2. controllers[run[q].id] = q  BY <2>4, <4>1 DEF Rests, Led
      <4> QED  BY <1>6, <1>9, <2>4, <4>1, <4>2, Ids
    <3> QED  BY <3>1, <3>2
  <2> QED  BY <2>1, <2>2, <2>3, <2>4 DEF Led, Live
<1>11. Ranked'
  <2>1. priorities' \in [Id -> {"user", "background", "none"}]
        /\ \A j \in Id \ {i} : priorities'[j] = priorities[j]
        /\ i \notin Share => priorities'[i] = priority
    BY DEF Rests, Ranked
  <2>2. ASSUME NEW q \in RunId, Live(q)', run'[q].id \in File \ Share
        PROVE  priorities'[run'[q].id] # "none" /\ (run'[q].asked => priorities'[run'[q].id] = "user")
    <3>1. CASE q = r  BY <1>4, <2>1, <2>2, <3>1
    <3>2. CASE q # r
      <4>1. Live(q) /\ run'[q] = run[q] /\ run[q].id # i  BY <1>3, <1>7, <1>9, <2>2, <3>2
      <4> QED  BY <2>1, <2>2, <4>1, Ids DEF Rests, Ranked
    <3> QED  BY <3>1, <3>2
  <2> QED  BY <2>1, <2>2 DEF Ranked
<1>12. PoolInv'
  <2>1. \A e \in entries(pool) : e.run \in RunId \ {r}
    <3>1. pool.queue \in Seq(Entry) /\ pool.holders \in SUBSET Entry  BY DEF Rests, PoolInv, Good, Pools
    <3>2. \A e \in entries(pool) : e \in Entry  BY <3>1, Members DEF entries
    <3>3. \A e \in entries(pool) : run[e.run].pc # "none"  BY DEF Rests, PoolInv, Queued, Held, entries
    <3> QED  BY <1>2, <3>2, <3>3 DEF Entry
  <2>2. Queued' /\ Held'  BY <1>3, <2>1 DEF Rests, PoolInv, Queued, Held, entries
  <2>3. Awaited'
    <3> SUFFICES ASSUME NEW q \in RunId, Live(q)', run'[q].asked, run'[q].pc = "wait"
                 PROVE  q \in waiting(pool) \union holding(pool)
      BY DEF Awaited
    <3>1. q # r  BY <1>4
    <3>2. Live(q) /\ run'[q] = run[q]  BY <1>3, <1>7, <3>1
    <3> QED  BY <3>2 DEF Rests, PoolInv, Awaited
  <2>4. Good(pool)'  BY DEF Rests, PoolInv, Good
  <2> QED  BY <2>2, <2>3, <2>4 DEF PoolInv
<1> QED  BY <1>10, <1>11, <1>12 DEF Rests

\* The user asks for a download that was in the background: if it waits, it is moved up.
LEMMA JoinRests ==
  ASSUME Inv, Rests, NEW i \in File, NEW priority, downloadFile(i, priority), inFlight[i] # 0
  PROVE  Rests'
<1> DEFINE r == inFlight[i]
<1>1. Entries /\ i \in Id  BY Ids DEF Inv
<1>2. /\ Quiet /\ priorities' = [priorities EXCEPT ![i] = "user"] /\ pool' = promote(pool, i, 0)
      /\ run' = [run EXCEPT ![r].asked = TRUE] /\ UNCHANGED <<controllers, inFlight>>
  <2>1. SlotPriority["user"] = 0  BY DEF SlotPriority
  <2> QED  BY <2>1 DEF downloadFile
<1>3. controllers' = controllers /\ inFlight' = inFlight  BY <1>2
<1>4. r \in RunId /\ Live(r) /\ run[r].id = i /\ controllers[i] = r
  BY <1>1 DEF Entries, Rests, Led
<1> HIDE DEF r
<1>5. /\ run'[r].pc = run[r].pc /\ run'[r].id = run[r].id /\ run'[r].aborted = run[r].aborted
      /\ run'[r].asked = TRUE /\ IsRow(run'[r])
      /\ \A q \in RunId \ {r} : run'[q] = run[q]
      /\ run' = [q \in RunId |-> run'[q]]
  <2>1. run = [q \in RunId |-> run[q]] /\ IsRow(run[r])  BY <1>1, <1>4 DEF Entries
  <2> QED  BY <1>2, <1>4, <2>1 DEF IsRow
<1>6. RunsGoOn  BY <1>1, <1>5 DEF RunsGoOn, Live, Entries
<1>7. \A q \in RunId : /\ run'[q].pc = run[q].pc /\ run'[q].id = run[q].id /\ (run'[q].aborted <=> run[q].aborted)
                       /\ (Live(q)' <=> Live(q))
  BY <1>5 DEF Live
<1>8. Led'
  <2>1. \A c \in RunId : \A j \in File : controllers'[j] = c => Live(c)'
    BY <1>3, <1>7, Ids DEF Rests, Led
  <2>2. \A j \in File : inFlight'[j] = controllers'[j]  BY <1>3 DEF Rests, Led
  <2>3. controllers' \in [Id -> {0} \union RunId]  BY <1>1, <1>3 DEF Entries
  <2> QED  BY <1>1, <1>3, <1>6, <2>1, <2>2, <2>3, LedKept DEF Rests
<1>9. Ranked'
  <2>1. priorities' \in [Id -> {"user", "background", "none"}] /\ priorities'[i] = "user"
        /\ \A j \in Id \ {i} : priorities'[j] = priorities[j]
    BY <1>1, <1>2 DEF Rests, Ranked
  <2>2. ASSUME NEW q \in RunId, Live(q)', run[q].id \in File \ Share
        PROVE  \/ priorities'[run[q].id] = "user"
               \/ priorities'[run[q].id] = priorities[run[q].id] /\ (run'[q].asked <=> run[q].asked)
    <3>1. CASE run[q].id = i  BY <2>1, <3>1
    <3>2. CASE run[q].id # i  BY <1>4, <1>5, <2>1, <2>2, <3>2, Ids
    <3> QED  BY <3>1, <3>2
  <2> QED  BY <1>6, <2>1, <2>2, RankedKept DEF Rests
<1>10. Good(pool) /\ Queued /\ Held /\ Awaited  BY DEF Rests, PoolInv
<1>11. pool.queue \in Seq(Entry) /\ \A e \in entries(pool) : e \in Entry /\ e.run \in RunId
  <2>1. pool.queue \in Seq(Entry) /\ pool.holders \in SUBSET Entry  BY <1>10 DEF Good, Pools
  <2>2. \A e \in entries(pool) : e \in Entry  BY <2>1, Members DEF entries
  <2> QED  BY <2>1, <2>2 DEF Entry
<1>12. \A e, f \in ToSet(pool.queue) : e.run = f.run => e = f
  <2> SUFFICES ASSUME NEW e \in ToSet(pool.queue), NEW f \in ToSet(pool.queue), e.run = f.run PROVE e = f
    OBVIOUS
  <2>1. PICK m \in DOMAIN pool.queue, n \in DOMAIN pool.queue : pool.queue[m] = e /\ pool.queue[n] = f
    BY <1>11, Members
  <2>2. m = n  BY <1>10, <2>1 DEF Good, Once
  <2> QED  BY <2>1, <2>2
<1>13. \A e \in ToSet(pool.queue) : e.priority = 1 /\ e.key = i => e.run = r
  <2> SUFFICES ASSUME NEW e \in ToSet(pool.queue), e.priority = 1, e.key = i PROVE e.run = r
    OBVIOUS
  <2>1. e.run \in RunId /\ run[e.run].id = i /\ Live(e.run)  BY <1>10, <1>11 DEF Queued, Live, entries
  <2> QED  BY <1>4, <2>1 DEF Rests, Led
<1>14. \A e \in ToSet(pool.queue) : e.priority > 0 => e.priority = 1
  BY <1>11 DEF Entry, entries
<1>15. \/ pool' = pool /\ \A e \in ToSet(pool.queue) : ~(e.key = i /\ e.priority > 0)
       \/ \E x \in ToSet(pool.queue) :
            /\ x.key = i /\ x.priority > 0 /\ Good(pool')
            /\ \A e \in ToSet(pool'.queue) :
                 (e \in ToSet(pool.queue) /\ e # x) \/ e = [x EXCEPT !.priority = 0]
            /\ \A e \in pool'.holders : \E f \in entries(pool) : f.run = e.run
            /\ \A e \in entries(pool) : \E f \in entries(pool') : f.run = e.run
  BY <1>2, <1>10, PromoteDoes
<1>16. Good(pool)'  BY <1>10, <1>15 DEF Good
<1>17. /\ \A e \in pool'.holders : \E f \in entries(pool) : f.run = e.run
       /\ \A e \in entries(pool) : \E f \in entries(pool') : f.run = e.run
  BY <1>15 DEF entries
<1>18. Held'
  <2> SUFFICES ASSUME NEW e \in pool'.holders PROVE run'[e.run].pc \in {"wait", "lock", "transfer", "record"}
    BY DEF Held
  <2>1. PICK f \in entries(pool) : f.run = e.run  BY <1>17
  <2>2. run[f.run].pc \in {"wait", "lock", "transfer", "record"} /\ f.run \in RunId
    BY <1>10, <1>11, <2>1 DEF Queued, Held, entries
  <2> QED  BY <1>7, <2>1, <2>2
<1>19. \A e \in ToSet(pool'.queue) :
         /\ \E f \in ToSet(pool.queue) : f.run = e.run /\ (e.priority = 1 => e = f)
         /\ ~(e.priority = 1 /\ e.run = r)
  <2>1. CASE pool' = pool /\ \A e \in ToSet(pool.queue) : ~(e.key = i /\ e.priority > 0)
    <3> SUFFICES ASSUME NEW e \in ToSet(pool.queue), e.priority = 1, e.run = r PROVE FALSE  BY <2>1
    <3>1. e.key = i  BY <1>4, <1>10 DEF Queued
    <3> QED  BY <2>1, <3>1
  <2>2. CASE \E x \in ToSet(pool.queue) :
               /\ x.key = i /\ x.priority > 0
               /\ \A e \in ToSet(pool'.queue) :
                    (e \in ToSet(pool.queue) /\ e # x) \/ e = [x EXCEPT !.priority = 0]
    <3>1. PICK x \in ToSet(pool.queue) :
            /\ x.key = i /\ x.priority > 0
            /\ \A e \in ToSet(pool'.queue) :
                 (e \in ToSet(pool.queue) /\ e # x) \/ e = [x EXCEPT !.priority = 0]
      BY <2>2
    <3>2. x \in Entry /\ x.run = r  BY <1>11, <1>13, <1>14, <3>1 DEF entries
    <3>3. [x EXCEPT !.priority = 0].run = x.run /\ [x EXCEPT !.priority = 0].priority = 0
      BY <3>2 DEF Entry
    <3> SUFFICES ASSUME NEW e \in ToSet(pool'.queue)
                 PROVE  /\ \E f \in ToSet(pool.queue) : f.run = e.run /\ (e.priority = 1 => e = f)
                        /\ ~(e.priority = 1 /\ e.run = r)
      OBVIOUS
    <3>4. CASE e \in ToSet(pool.queue) /\ e # x  BY <1>12, <3>2, <3>4
    <3>5. CASE e = [x EXCEPT !.priority = 0]
      <4>1. e.run = x.run /\ e.priority # 1  BY <3>3, <3>5
      <4> QED  BY <4>1
    <3> QED  BY <3>1, <3>4, <3>5
  <2> QED  BY <1>15, <2>1, <2>2
<1>20. Queued'
  <2> SUFFICES ASSUME NEW e \in ToSet(pool'.queue)
               PROVE  /\ run'[e.run].pc = "wait" /\ ~run'[e.run].aborted
                      /\ e.priority = 1 => run'[e.run].id \notin Share /\ e.key = run'[e.run].id /\ ~run'[e.run].asked
    BY DEF Queued
  <2>1. PICK f \in ToSet(pool.queue) : f.run = e.run /\ (e.priority = 1 => e = f)  BY <1>19
  <2>2. f.run \in RunId /\ run[f.run].pc = "wait" /\ ~run[f.run].aborted
        /\ (f.priority = 1 => run[f.run].id \notin Share /\ f.key = run[f.run].id /\ ~run[f.run].asked)
    BY <1>10, <1>11 DEF Queued, entries
  <2>3. e.priority = 1 => e.run \in RunId \ {r}  BY <1>19, <2>1, <2>2
  <2> QED  BY <1>5, <1>7, <2>1, <2>2, <2>3
<1>21. Awaited'
  <2> SUFFICES ASSUME NEW q \in RunId, Live(q)', run'[q].asked, run'[q].pc = "wait"
               PROVE  q \in waiting(pool') \union holding(pool')
    BY DEF Awaited
  <2>1. Live(q) /\ run[q].pc = "wait" /\ q \in Started  BY <1>7 DEF Live, Started
  <2>2. q \in waiting(pool) \union holding(pool)
    <3>1. CASE q = r  BY <1>2, <2>1, <3>1 DEF Quiet
    <3>2. CASE q # r  BY <1>5, <1>10, <2>1, <3>2 DEF Awaited
    <3> QED  BY <3>1, <3>2
  <2>3. PICK e \in entries(pool) : e.run = q  BY <2>2, InPool
  <2>4. PICK f \in entries(pool') : f.run = q  BY <1>17, <2>3
  <2> QED  BY <2>4, InPool
<1> QED  BY <1>8, <1>9, <1>16, <1>18, <1>20, <1>21 DEF Rests, PoolInv

\* Where the runs and the entries stay and the pool is set anew, or stays.
LEMMA SettingRests ==
  ASSUME Inv, Rests, UNCHANGED <<controllers, inFlight, priorities, run>>, Spares(pool, pool', {})
  PROVE  Rests'
<1>1. controllers' = controllers /\ inFlight' = inFlight /\ priorities' = priorities /\ run' = run  OBVIOUS
<1>2. Led'  BY <1>1 DEF Rests, Led, Live
<1>3. Ranked'  BY <1>1 DEF Rests, Ranked, Live
<1>4. WaitersStay({})  BY <1>1 DEF WaitersStay, Live
<1>5. PoolInv'  BY <1>1, <1>4, PoolKept DEF Rests
<1> QED  BY <1>2, <1>3, <1>5 DEF Rests

\* The probe's answer moves no waiter.
LEMMA ProbeRests ==
  ASSUME Inv, Rests, ProbeSettles
  PROVE  Rests'
<1>1. Entries  BY DEF Inv
<1>2. /\ run' = [q \in RunId |-> IF run[q].pc = "probe"
                                 THEN [run[q] EXCEPT !.pc = "check", !.free = probe.free] ELSE run[q]]
      /\ controllers' = controllers /\ inFlight' = inFlight /\ priorities' = priorities /\ pool' = pool
  BY ZenonT(60) DEF ProbeSettles, maps
<1>3. RunsGoOn  BY <1>1, ProbeSettlesDoes DEF Onward
<1>4. \A q \in RunId : /\ run'[q].id = run[q].id /\ run'[q].aborted = run[q].aborted /\ run'[q].asked = run[q].asked
                       /\ run'[q] = run[q] \/ (run[q].pc = "probe" /\ run'[q].pc = "check")
  <2> SUFFICES ASSUME NEW q \in RunId
               PROVE  /\ run'[q].id = run[q].id /\ run'[q].aborted = run[q].aborted /\ run'[q].asked = run[q].asked
                      /\ run'[q] = run[q] \/ (run[q].pc = "probe" /\ run'[q].pc = "check")
    OBVIOUS
  <2>1. IsRow(run[q])  BY <1>1 DEF Entries
  <2> QED  BY <1>2, <2>1, ZenonT(60) DEF IsRow
<1>5. \A q \in RunId : Live(q)' <=> Live(q)  BY <1>4 DEF Live
<1>6. Led'
  <2>1. \A c \in RunId : \A j \in File : controllers'[j] = c => Live(c)'
    BY <1>2, <1>5, Ids, ZenonT(60) DEF Rests, Led
  <2>2. \A j \in File : inFlight'[j] = controllers'[j]  BY <1>2, ZenonT(60) DEF Rests, Led
  <2>3. controllers' \in [Id -> {0} \union RunId]  BY <1>1, <1>2, ZenonT(60) DEF Entries
  <2> QED  BY <1>1, <1>2, <1>3, <2>1, <2>2, <2>3, LedKept, ZenonT(60) DEF Rests
<1>7. Ranked'
  <2>1. priorities' \in [Id -> {"user", "background", "none"}]  BY <1>2, ZenonT(60) DEF Rests,
    Ranked
  <2> QED  BY <1>2, <1>3, <1>4, <2>1, RankedKept, ZenonT(60) DEF Rests
<1>8. PoolInv'
  <2>1. WaitersStay({})  BY <1>4, <1>5 DEF WaitersStay
  <2>2. Spares(pool, pool', {})  BY <1>2, ZenonT(60) DEF Rests, PoolInv, Spares, entries
  <2>3. \A e \in pool'.holders : e.run \in RunId  BY <2>2 DEF Spares, Good, Pools, Entry
  <2> QED  BY <1>4, <2>1, <2>2, <2>3, PoolKept DEF Rests
<1> QED  BY <1>6, <1>7, <1>8 DEF Rests

\* Every step of a run.
LEMMA StepRests ==
  ASSUME Inv, Rests, NEW r \in Started, Step(r)
  PROVE  Rests'
<1>1. Entries /\ r \in RunId /\ run[r].pc \notin {"none", "over"}  BY StepDoes DEF Inv
<1>2. run[r].pc # "wait" => r \notin waiting(pool)  BY DEF Rests, PoolInv, Queued, waiting
<1>3. ASSUME NEW how, Ends(r, how), run[r].pc # "wait" PROVE Rests'  BY <1>1, <1>2, <1>3, EndRests
<1>4. ASSUME NEW pc, pc \notin {"none", "over", "wait"}, Goto(r, pc),
             run[r].pc \in {"wait", "lock", "transfer", "record"} => pc \in {"lock", "transfer", "record"},
             run[r].pc = "wait" => r \in holding(pool),
             UNCHANGED <<controllers, inFlight, priorities, pool>>
      PROVE  Rests'
  <2>1. run' = [run EXCEPT ![r].pc = pc]  BY <1>4 DEF Goto
  <2> QED  BY <1>1, <1>4, <2>1, MoveRests
<1>5. CASE Sized(r)
  <2>1. run[r].pc = "start"  BY <1>5 DEF Sized
  <2> QED  BY <1>3, <1>4, <1>5, <2>1 DEF Sized, Reserve, maps
<1>6. CASE Present(r)  BY <1>3, <1>6 DEF Present
<1>7. CASE CheckSpace(r)
  <2>1. run[r].pc = "check"  BY <1>7 DEF CheckSpace
  <2>2. CASE HasSpace(run[r].id, run[r].free)
    <3>1. PICK pc \in {"objects", "ready"} : run' = [run EXCEPT ![r].pc = pc, ![r].free = -1]
      BY <1>7, <2>2 DEF CheckSpace
    <3>2. \E free : run' = [run EXCEPT ![r].pc = pc, ![r].free = free]  BY <3>1
    <3>3. UNCHANGED <<controllers, inFlight, priorities, pool>>  BY <1>7, <2>2 DEF CheckSpace, maps
    <3>4. pc \notin {"none", "over", "wait"}  OBVIOUS
    <3> QED  BY <1>1, <2>1, <3>2, <3>3, <3>4, MoveRests
  <2> QED  BY <1>3, <1>7, <2>1, <2>2 DEF CheckSpace
<1>8. CASE Acquire(r)
  <2>1. run[r].pc \in {"ready", "objects"}  BY <1>8 DEF Acquire
  <2>2. CASE run[r].aborted  BY <1>3, <1>8, <2>1, <2>2 DEF Acquire
  <2>3. CASE ~run[r].aborted  BY <1>1, <1>8, <2>1, <2>3, AcquireRests
  <2> QED  BY <2>2, <2>3
<1>9. CASE Granted(r)
  <2>1. PICK pc \in {"lock", "transfer"} : Goto(r, pc)  BY <1>9 DEF Granted
  <2>2. r \in holding(pool) /\ UNCHANGED <<controllers, inFlight, priorities, pool>>  BY <1>9 DEF Granted
  <2> QED  BY <1>4, <2>1, <2>2
<1>10. CASE Evicted(r)
  <2>1. r \notin waiting(pool) /\ Ends(r, "dropped")  BY <1>10 DEF Evicted
  <2> QED  BY <1>1, <2>1, EndRests
<1>11. CASE Locked(r)
  <2>1. run[r].pc = "lock"  BY <1>11 DEF Locked
  <2> QED  BY <1>3, <1>4, <1>11, <2>1 DEF Locked, maps
<1>12. CASE Transferred(r)
  <2>1. run[r].pc = "transfer"  BY <1>12 DEF Transferred
  <2> QED  BY <1>4, <1>12, <2>1 DEF Transferred, maps
<1>13. CASE Record(r)
  <2>1. run[r].pc = "record"  BY <1>13 DEF Record
  <2> QED  BY <1>3, <1>13, <2>1 DEF Record
<1>14. CASE Fails(r)
  <2>1. run[r].pc # "wait"  BY <1>14 DEF Fails
  <2> QED  BY <1>3, <1>14, <2>1 DEF Fails
<1>15. CASE Stops(r)
  <2>1. run[r].pc # "wait"  BY <1>15 DEF Stops
  <2> QED  BY <1>3, <1>15, <2>1 DEF Stops
<1> QED
  BY <1>5, <1>6, <1>7, <1>8, <1>9, <1>10, <1>11, <1>12, <1>13, <1>14, <1>15 DEF Step

\* The whole of Next.
LEMMA NextRests == Inv /\ Rests /\ [Next]_vars => Rests'
<1> SUFFICES ASSUME Inv, Rests, [Next]_vars PROVE Rests'  OBVIOUS
<1>1. ASSUME NEW r \in Started, Step(r) PROVE Rests'  BY <1>1, StepRests
<1>2. ASSUME NEW i \in File, NEW priority \in {"user", "background"}, downloadFile(i, priority) PROVE Rests'
  <2>1. i \in Id  BY Ids
  <2>2. CASE inFlight[i] = 0
    <3>1. PICK r : register(r, i, priority)  BY <1>2, <2>2 DEF downloadFile
    <3>2. priorities' = [priorities EXCEPT ![i] = priority] /\ pool' = pool  BY <1>2, <2>2 DEF downloadFile
    <3> QED  BY <2>1, <2>2, <3>1, <3>2, RegisterRests
  <2>3. CASE inFlight[i] # 0  BY <1>2, <2>3, JoinRests
  <2> QED  BY <2>2, <2>3
<1>3. ASSUME NEW i \in Share, downloadFromShareUrl(i) PROVE Rests'
  <2>1. i \in Id /\ inFlight[i] = 0  BY <1>3, Ids DEF downloadFromShareUrl
  <2>2. PICK r : register(r, i, "background")  BY <1>3 DEF downloadFromShareUrl
  <2>3. priorities' = priorities /\ pool' = pool  BY <1>3 DEF downloadFromShareUrl
  <2>4. PICK priority \in {"user", "background"} : priority = "background"  OBVIOUS
  <2> QED  BY <2>1, <2>2, <2>3, <2>4, RegisterRests
<1>4. ASSUME NEW i \in Id, cancel(i) PROVE Rests'  BY <1>4, CancelRests
<1>5. ASSUME cancelAll PROVE Rests'  BY <1>5, CancelAllRests
<1>6. Spares(pool, pool, {})  BY DEF Rests, PoolInv, Spares, entries
<1>7. ASSUME NEW n \in Slots, SetSlots(n) PROVE Rests'
  <2>1. n \in Nat  BY DownloadsAssumption
  <2>2. Spares(pool, pool', {})  BY <1>7, <2>1, SetDoes DEF SetSlots, Rests, PoolInv
  <2> QED  BY <1>7, <2>2, SettingRests DEF SetSlots, maps
<1>8. ASSUME Precheck PROVE Rests'
  <2>1. pool' = pool /\ UNCHANGED <<controllers, inFlight, priorities, run>>  BY <1>8 DEF Precheck, maps
  <2> QED  BY <1>6, <2>1, SettingRests
<1>9. ASSUME ProbeReads PROVE Rests'
  <2>1. pool' = pool /\ UNCHANGED <<controllers, inFlight, priorities, run>>  BY <1>9 DEF ProbeReads, maps
  <2> QED  BY <1>6, <2>1, SettingRests
<1>10. ASSUME ProbeSettles PROVE Rests'  BY <1>10, ProbeRests
<1>11. ASSUME UNCHANGED vars PROVE Rests'
  <2>1. pool' = pool /\ UNCHANGED <<controllers, inFlight, priorities, run>>  BY <1>11 DEF vars, maps
  <2> QED  BY <1>6, <2>1, SettingRests
<1> QED  BY <1>1, <1>2, <1>3, <1>4, <1>5, <1>7, <1>8, <1>9, <1>10, <1>11 DEF Next, Call

\* No waiter that fits waits, whatever leaves the pool or its queue, or changes its limits.
THEOREM RoomIsAlwaysUsed == Spec => []RoomIsUsed
<1> QED  BY InitInv, StepInv, InitRests, NextRests, RestsAnswers, PTL DEF Spec

\* What the user asked for is in the pool ahead of the background, whenever the user asked.
THEOREM UserComesFirst == Spec => []UserFirst
<1> QED  BY InitInv, StepInv, InitRests, NextRests, RestsAnswers, PTL DEF Spec

=============================================================================
