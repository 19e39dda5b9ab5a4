------------------------------ MODULE MobileDb ------------------------------
(***************************************************************************)
(* The mobile app's database adapter (apps/mobile/src/db/index.ts): one    *)
(* writer connection behind a lock, a pool of readers, and the gate the    *)
(* suspension manager closes before iOS freezes the process.               *)
(*                                                                         *)
(* A call runs on its own: it waits at the gate, for the lock or for a     *)
(* reader, then sends its statements to the native side and awaits each.   *)
(* One step runs from one await to the next.  Answers of the native side,  *)
(* timers and events come one per turn of the event loop, which begins     *)
(* only when every promise that settled has been acted on (Quiet).  The    *)
(* connection lost to a native handle error and the retry of initializeDB  *)
(* are left out.                                                           *)
(***************************************************************************)
EXTENDS Naturals, Sequences, FiniteSets

CONSTANTS
  Write,     \* statements on the writer outside any transaction
  Tx,        \* transactions
  Read,      \* reads outside any transaction
  FailFast,  \* calls made through failFast(), which never wait at the gate
  TxSize,    \* statements in a transaction
  Readers,   \* connections in the read pool
  Ios,       \* whether an interrupt reaches native statements
  Reset      \* the flow of resetDb, as a holder of the writer lock

Call == Write \union Tx \union Read
Size == [c \in Call |-> IF c \in Tx THEN TxSize ELSE IF c \in Write THEN 1 ELSE 0]

ASSUME CallAssumption ==
  /\ Write \cap Tx = {} /\ Write \cap Read = {} /\ Tx \cap Read = {}
  /\ FailFast \subseteq Call
  /\ Reset \notin Call
ASSUME SizeAssumption == TxSize \in Nat \ {0} /\ Readers \in Nat /\ Ios \in BOOLEAN

VARIABLES
  gate,     \* "active", "suspending" or "closed"
  cutOff,   \* open transactions may send no further statement
  claims,   \* the writer lock: its holder and those waiting behind it
  call,     \* where each call is
  conn,     \* the writer's open transaction and the statements in it
  durable,  \* statements committed, as <<call, number>>
  pool,     \* whether the readers are open
  reset     \* the one replacement of the connection a behaviour may have

db == <<gate, cutOff, claims, call, conn, durable, pool, reset>>

OnWriter == {"write", "begin", "stmt", "commit", "rollback", "again"}
Running == OnWriter \union {"body", "read"}

Idle == [pc |-> "new", left |-> 0, hit |-> FALSE, answer |-> "none"]
Closed == [open |-> FALSE, work |-> {}]

DbInit ==
  /\ gate = "active" /\ cutOff = FALSE
  /\ claims = <<>>
  /\ call = [c \in Call |-> Idle]
  /\ conn = Closed
  /\ durable = {}
  /\ pool = (Readers > 0)
  /\ reset = "none"

\* What the drain counts: a statement or a transaction from dispatch to end.
Inflight == {c \in Call : call[c].pc \in Running}
Reading == {c \in Call : call[c].pc = "read"}
\* Every settled promise has been acted on.
Quiet ==
  /\ \A c \in Call :
       call[c].pc # "woken" /\ ~(call[c].pc = "locking" /\ Head(claims) = c)
  /\ ~(reset = "lock" /\ Head(claims) = Reset)
  /\ reset # "close" /\ ~(reset = "settle" /\ Inflight = {})

Replacing == reset \in {"lock", "settle", "close", "open"}

(***************************************************************************)
(* Steps of a call, as the record it has after them.                       *)
(***************************************************************************)
At(c, pc) == [call[c] EXCEPT !.pc = pc, !.hit = FALSE]
Done(c, answer) == [call[c] EXCEPT !.pc = "done", !.hit = FALSE, !.answer = answer]
Gated(c) == IF c \in FailFast THEN Done(c, "refused") ELSE At(c, "parked")
Begun(c) ==
  IF c \in Tx THEN [At(c, "begin") EXCEPT !.left = TxSize] ELSE At(c, "write")

Set(c, r) == call' = [call EXCEPT ![c] = r]

\* Mutant: a call takes the writer at once whoever holds it.
WriterEager(c, fresh) ==
  IF gate # "active" THEN Set(c, Gated(c)) /\ UNCHANGED claims
  ELSE /\ claims' = Append(claims, c)
       /\ Set(c, IF fresh THEN Begun(c) ELSE At(c, "locking"))

\* withWriter.  Only a call that has not waited may take a free lock at once.
Writer(c, fresh) ==
  IF gate # "active" THEN Set(c, Gated(c)) /\ UNCHANGED claims
  ELSE /\ claims' = Append(claims, c)
       /\ Set(c, IF fresh /\ claims = <<>> THEN Begun(c) ELSE At(c, "locking"))

\* The record of a read that looks for a reader while `busy` of them are taken.
Seeking(c, busy) ==
  IF gate # "active" THEN Gated(c)
  ELSE IF busy < Readers THEN At(c, "read") ELSE At(c, "queued")

\* outerRead: on a free reader, or on the writer when the pool is closed.
Seek(c) ==
  IF ~pool THEN Writer(c, TRUE)
  ELSE Set(c, Seeking(c, Cardinality(Reading))) /\ UNCHANGED claims

Start(c) ==
  /\ call[c].pc = "new"
  /\ IF c \in Read THEN Seek(c) ELSE Writer(c, TRUE)
  /\ UNCHANGED <<gate, cutOff, conn, durable, pool, reset>>

\* The gate reopened, or a reader may be free.  Either may have changed again.
Retry(c) ==
  /\ call[c].pc = "woken"
  /\ IF c \in Read THEN Seek(c) ELSE Writer(c, FALSE)
  /\ UNCHANGED <<gate, cutOff, conn, durable, pool, reset>>

\* A call parked for 30s of the app running gives up.
GiveUp(c) ==
  /\ call[c].pc = "parked"
  /\ Set(c, Done(c, "refused"))
  /\ UNCHANGED <<gate, cutOff, claims, conn, durable, pool, reset>>

\* Mutant: a call that waited for the lock does not look at the gate again.
GrantedBlind(c) ==
  /\ claims # <<>> /\ Head(claims) = c /\ call[c].pc = "locking"
  /\ Set(c, Begun(c))
  /\ UNCHANGED <<gate, cutOff, claims, conn, durable, pool, reset>>

\* The lock's turn comes to a call.  It checks the gate again before it runs.
Granted(c) ==
  /\ claims # <<>> /\ Head(claims) = c /\ call[c].pc = "locking"
  /\ IF gate = "active" THEN Set(c, Begun(c)) /\ UNCHANGED claims
     ELSE Set(c, Gated(c)) /\ claims' = Tail(claims)
  /\ UNCHANGED <<gate, cutOff, conn, durable, pool, reset>>

(***************************************************************************)
(* The native side.  An interrupted statement may fail or still succeed.   *)
(***************************************************************************)
WriteEnd(c) ==
  /\ call[c].pc = "write"
  /\ claims' = Tail(claims)
  /\ \/ LET kept == {c} \X (1 .. Size[c]) IN
        /\ Set(c, Done(c, "ok"))
        /\ IF conn.open
           THEN conn' = [conn EXCEPT !.work = @ \union kept] /\ UNCHANGED durable
           ELSE durable' = durable \union kept /\ UNCHANGED conn
     \/ call[c].hit /\ Set(c, Done(c, "refused")) /\ UNCHANGED <<conn, durable>>
  /\ UNCHANGED <<gate, cutOff, pool, reset>>

\* BEGIN fails inside a transaction left open, which the ROLLBACK then ends.
BeginEnd(c) ==
  /\ call[c].pc = "begin"
  /\ \/ ~conn.open /\ conn' = [conn EXCEPT !.open = TRUE] /\ Set(c, At(c, "body"))
     \/ (conn.open \/ call[c].hit) /\ Set(c, At(c, "rollback")) /\ UNCHANGED conn
  /\ UNCHANGED <<gate, cutOff, claims, durable, pool, reset>>

\* The body asks for its next statement, or returns.
Body(c) ==
  /\ call[c].pc = "body"
  /\ Set(c, At(c, IF call[c].left = 0 THEN "commit"
                  ELSE IF cutOff THEN "rollback" ELSE "stmt"))
  /\ UNCHANGED <<gate, cutOff, claims, conn, durable, pool, reset>>

\* Mutant: the transaction goes on after a statement that failed.
StmtEndIgnored(c) ==
  /\ call[c].pc = "stmt"
  /\ conn' \in {[conn EXCEPT !.work = @ \union {<<c, call[c].left>>}]}
             \union (IF call[c].hit THEN {conn, Closed} ELSE {})
  /\ Set(c, [At(c, "body") EXCEPT !.left = @ - 1])
  /\ UNCHANGED <<gate, cutOff, claims, durable, pool, reset>>

\* An interrupted write takes the whole transaction with it, a read does not.
StmtEnd(c) ==
  /\ call[c].pc = "stmt"
  /\ \/ /\ conn' = [conn EXCEPT !.work = @ \union {<<c, call[c].left>>}]
        /\ Set(c, [At(c, "body") EXCEPT !.left = @ - 1])
     \/ /\ call[c].hit
        /\ conn' \in {conn, Closed}
        /\ Set(c, At(c, "rollback"))
  /\ UNCHANGED <<gate, cutOff, claims, durable, pool, reset>>

CommitEnd(c) ==
  /\ call[c].pc = "commit"
  /\ \/ /\ durable' = durable \union conn.work
        /\ conn' = Closed
        /\ claims' = Tail(claims)
        /\ Set(c, Done(c, "ok"))
     \/ call[c].hit /\ Set(c, At(c, "rollback")) /\ UNCHANGED <<conn, durable, claims>>
  /\ UNCHANGED <<gate, cutOff, pool, reset>>

\* The driver's own ROLLBACK, and the one runTransaction sends after it.
RollbackEnd(c) ==
  /\ call[c].pc \in {"rollback", "again"}
  /\ \/ conn' = Closed
     \/ call[c].hit /\ UNCHANGED conn
  /\ IF call[c].pc = "rollback" THEN Set(c, At(c, "again")) /\ UNCHANGED claims
     ELSE Set(c, Done(c, "refused")) /\ claims' = Tail(claims)
  /\ UNCHANGED <<gate, cutOff, durable, pool, reset>>

\* A read ends, and the read that waited longest for a reader looks again.  One
\* that was interrupted looks for a reader at once; in between the count of work in
\* flight may have been zero, which is what a replacement waits for.
Ended(c, r) ==
  \/ /\ {d \in Call : call[d].pc = "queued"} = {}
     /\ Set(c, r)
  \/ \E d \in Call :
       /\ call[d].pc = "queued"
       /\ call' = [call EXCEPT ![c] = r, ![d] = At(d, "woken")]

ReadEnd(c) ==
  /\ call[c].pc = "read"
  /\ \/ Ended(c, Done(c, "ok")) /\ UNCHANGED claims
     \/ /\ call[c].hit
        /\ IF pool
           THEN Ended(c, Seeking(c, Cardinality(Reading) - 1)) /\ UNCHANGED claims
           ELSE Writer(c, TRUE)
  /\ reset' = IF reset = "settle" /\ Inflight = {c} THEN "close" ELSE reset
  /\ UNCHANGED <<gate, cutOff, conn, durable, pool>>

(***************************************************************************)
(* The gate.                                                               *)
(***************************************************************************)
\* Statements sent to native whose connection the suspension interrupts.
Hit(pcs) ==
  [c \in Call |-> IF Ios /\ call[c].pc \in pcs THEN [call[c] EXCEPT !.hit = TRUE] ELSE call[c]]

Woken(pcs) ==
  [c \in Call |-> IF call[c].pc \in pcs THEN [call[c] EXCEPT !.pc = "woken"] ELSE call[c]]

suspendDb ==
  /\ gate' = "suspending"
  /\ call' = Hit({"read"})
  /\ UNCHANGED <<cutOff, claims, conn, durable, pool, reset>>

interruptDatabase ==
  /\ cutOff' = TRUE
  /\ call' = IF reset = "open" THEN call ELSE Hit(OnWriter \union {"read"})
  /\ UNCHANGED <<gate, claims, conn, durable, pool, reset>>

\* Mutant: a resume leaves the reads that wait for a reader asleep.
resumeDbDeaf ==
  /\ gate' = "active" /\ cutOff' = FALSE
  /\ call' = Woken({"queued"})
  /\ UNCHANGED <<claims, conn, durable, pool, reset>>

resumeDb ==
  /\ gate' = "active" /\ cutOff' = FALSE
  /\ call' = Woken({"parked", "queued"})
  /\ UNCHANGED <<claims, conn, durable, pool, reset>>

endOpenTransaction ==
  /\ conn' = Closed
  /\ UNCHANGED <<gate, cutOff, claims, call, durable, pool, reset>>

(***************************************************************************)
(* resetDb replaces the connection.  What the deleted file held is no      *)
(* longer anyone's concern, so `durable` keeps it.                         *)
(***************************************************************************)
resetDb ==
  /\ reset = "none"
  /\ reset' = "lock"
  /\ gate' = "closed"
  /\ claims' = Append(claims, Reset)
  /\ UNCHANGED <<cutOff, call, conn, durable, pool>>

ResetLocked ==
  /\ reset = "lock" /\ Head(claims) = Reset
  /\ reset' = "settle"
  /\ gate' = IF gate = "active" THEN "closed" ELSE gate
  /\ UNCHANGED <<cutOff, claims, call, conn, durable, pool>>

ResetSettled ==
  /\ reset = "settle" /\ Inflight = {}
  /\ reset' = "close"
  /\ UNCHANGED <<gate, cutOff, claims, call, conn, durable, pool>>

ResetClose ==
  /\ reset = "close"
  /\ reset' = "open"
  /\ pool' = FALSE
  /\ conn' = Closed
  /\ call' = Woken({"queued"})
  /\ UNCHANGED <<gate, cutOff, claims, durable>>

\* A suspend that landed meanwhile owns the gate, and its resume reopens it.
ResetReopen ==
  /\ reset = "open"
  /\ reset' = "done"
  /\ pool' = (Readers > 0)
  /\ claims' = Tail(claims)
  /\ IF gate = "closed"
     THEN gate' = "active" /\ cutOff' = FALSE /\ call' = Woken({"parked", "queued"})
     ELSE call' = Woken({"queued"}) /\ UNCHANGED <<gate, cutOff>>
  /\ UNCHANGED <<conn, durable>>

NativeEnd(c) ==
  WriteEnd(c) \/ BeginEnd(c) \/ StmtEnd(c) \/ CommitEnd(c) \/ RollbackEnd(c) \/ ReadEnd(c)
=============================================================================
