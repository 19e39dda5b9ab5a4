--------------------------- MODULE TransactionGate ---------------------------
(***************************************************************************)
(* The database adapter of the daemon and the command line                 *)
(* (node-adapters/src/transactionGate.ts, database.ts): one SQLite         *)
(* connection, driven by synchronous calls.  Transactions run in turn      *)
(* behind a mutex, a statement outside them waits while one is open, and   *)
(* the daemon's shutdown takes the mutex for good before it closes.        *)
(*                                                                         *)
(* One step runs from one await to the next.  Which of the promises that   *)
(* settled is acted on first is left open, as the comment on outerGate     *)
(* has it.  A body that catches the failure of one of its statements is    *)
(* left out, and so are a transaction nested through the handle, which     *)
(* joins, and work a body starts and does not await.                       *)
(***************************************************************************)
EXTENDS Naturals, Sequences

CONSTANTS
  Outer,   \* statements on the outer adapter
  Tx,      \* transactions
  TxSize,  \* statements in a transaction
  Retire,  \* finalize(), as a holder of the mutex
  None

Call == Outer \union Tx
Size == [c \in Call |-> IF c \in Tx THEN TxSize ELSE 1]

ASSUME CallAssumption ==
  /\ Outer \cap Tx = {}
  /\ Retire \notin Call /\ None \notin Call
ASSUME SizeAssumption == TxSize \in Nat \ {0}

VARIABLES
  open,    \* the transaction whose end outer statements wait for
  claims,  \* the mutex: its holder and those waiting behind it
  call,    \* where each call is
  conn,    \* whether SQLite has a transaction open, and the statements in it
  kept,    \* statements committed, as <<call, number>>
  phase    \* of the process: "up", "retiring", "retired" or "exited"

vars == <<open, claims, call, conn, kept, phase>>

Record ==
  [pc : {"new", "waiting", "locking", "body", "failed", "done"},
   left : 0 .. TxSize, on : Tx \union {None}, answer : {"none", "ok", "refused"}]

TypeOK ==
  /\ open \in Tx \union {None}
  /\ claims \in Seq(Tx \union {Retire})
  /\ call \in [Call -> Record]
  /\ conn \in [open : BOOLEAN, work : SUBSET (Call \X (1 .. TxSize))]
  /\ kept \subseteq Call \X (1 .. TxSize)
  /\ phase \in {"up", "retiring", "retired", "exited"}

Idle == [pc |-> "new", left |-> 0, on |-> None, answer |-> "none"]
Closed == [open |-> FALSE, work |-> {}]

Init ==
  /\ open = None
  /\ claims = <<>>
  /\ call = [c \in Call |-> Idle]
  /\ conn = Closed
  /\ kept = {}
  /\ phase = "up"

Set(c, r) == call' = [call EXCEPT ![c] = r]
Done(c, answer) == [call[c] EXCEPT !.pc = "done", !.on = None, !.answer = answer]

(***************************************************************************)
(* Statements outside any transaction.                                     *)
(***************************************************************************)
\* The driver runs a statement in the calling tick: inside SQLite's open
\* transaction if there is one, else committed by itself.  It may fail.
Run(c) ==
  LET written == {c} \X (1 .. Size[c]) IN
  \/ /\ Set(c, Done(c, "ok"))
     /\ IF conn.open
        THEN conn' = [conn EXCEPT !.work = @ \union written] /\ UNCHANGED kept
        ELSE kept' = kept \union written /\ UNCHANGED conn
  \/ Set(c, Done(c, "refused")) /\ UNCHANGED <<conn, kept>>

Wait(c) ==
  /\ Set(c, [call[c] EXCEPT !.pc = "waiting", !.on = open])
  /\ UNCHANGED <<conn, kept>>

outerGate(c) == IF open = None THEN Run(c) ELSE Wait(c)

Issue(c) ==
  /\ phase # "exited" /\ call[c].pc = "new"
  /\ outerGate(c)
  /\ UNCHANGED <<open, claims, phase>>

\* Mutant: a statement that waited runs without looking again.
WakeOnce(c) ==
  /\ phase # "exited" /\ call[c].pc = "waiting" /\ call[c].on # open
  /\ Run(c)
  /\ UNCHANGED <<open, claims, phase>>

\* The transaction it waited for has ended.  Another may have begun.
Wake(c) ==
  /\ phase # "exited" /\ call[c].pc = "waiting" /\ call[c].on # open
  /\ outerGate(c)
  /\ UNCHANGED <<open, claims, phase>>

(***************************************************************************)
(* Transactions.                                                           *)
(***************************************************************************)
withTransactionAsync(c) ==
  /\ phase # "exited" /\ call[c].pc = "new"
  /\ Set(c, [call[c] EXCEPT !.pc = "locking"])
  /\ claims' = Append(claims, c)
  /\ UNCHANGED <<open, conn, kept, phase>>

Holds(c) == phase # "exited" /\ claims # <<>> /\ Head(claims) = c

\* The finally of the transaction, and the release of the mutex after it.
End(c, answer) ==
  /\ open' = None
  /\ claims' = Tail(claims)
  /\ Set(c, Done(c, answer))
  /\ UNCHANGED phase

\* The transaction's turn.  `open` is set before BEGIN, which may fail.
Begin(c) ==
  /\ Holds(c) /\ call[c].pc = "locking"
  /\ \/ /\ ~conn.open
        /\ open' = c
        /\ conn' = [conn EXCEPT !.open = TRUE]
        /\ Set(c, [call[c] EXCEPT !.pc = "body", !.left = TxSize])
        /\ UNCHANGED <<claims, kept, phase>>
     \/ End(c, "refused") /\ UNCHANGED <<conn, kept>>

\* A statement through the handle, or a body that throws.
Body(c) ==
  /\ Holds(c) /\ call[c].pc = "body"
  /\ \/ /\ call[c].left > 0
        /\ conn' = [conn EXCEPT !.work = @ \union {<<c, call[c].left>>}]
        /\ Set(c, [call[c] EXCEPT !.left = @ - 1])
     \/ /\ Set(c, [call[c] EXCEPT !.pc = "failed"])
        /\ UNCHANGED conn
  /\ UNCHANGED <<open, claims, kept, phase>>

\* Mutant: the body waits for its own outer call, which waits for the body.
MisuseWaits(c, d) ==
  /\ Holds(c) /\ call[c].pc = "body" /\ call[d].pc = "new"
  /\ call' = [call EXCEPT ![c].pc = "waiting", ![c].on = c, ![d].pc = "waiting", ![d].on = c]
  /\ UNCHANGED <<open, claims, conn, kept, phase>>

\* The body calls the outer adapter, which throws at once; it may catch that.
Misuse(c, d) ==
  /\ Holds(c) /\ call[c].pc = "body" /\ call[d].pc = "new"
  /\ \E pc \in {"body", "failed"} :
       call' = [call EXCEPT ![c].pc = pc, ![d] = Done(d, "refused")]
  /\ UNCHANGED <<open, claims, conn, kept, phase>>

\* The body returned.  A COMMIT that fails is rolled back in the same tick.
Commit(c) ==
  /\ Holds(c) /\ call[c].pc = "body" /\ call[c].left = 0
  /\ conn' = Closed
  /\ \/ kept' = kept \union conn.work /\ End(c, "ok")
     \/ UNCHANGED kept /\ End(c, "refused")

Rollback(c) ==
  /\ Holds(c) /\ call[c].pc = "failed"
  /\ conn' = Closed
  /\ End(c, "refused")
  /\ UNCHANGED kept

(***************************************************************************)
(* Shutdown: finalize(), then close() and the end of the process.          *)
(***************************************************************************)
finalize ==
  /\ phase = "up"
  /\ phase' = "retiring"
  /\ claims' = Append(claims, Retire)
  /\ UNCHANGED <<open, call, conn, kept>>

\* Mutant: the mutex is given back after the checkpoint.
RetiredBriefly ==
  /\ phase = "retiring" /\ Holds(Retire)
  /\ phase' = "retired"
  /\ claims' = Tail(claims)
  /\ UNCHANGED <<open, call, conn, kept>>

\* retire() has the mutex, and never releases it.
Retired ==
  /\ phase = "retiring" /\ Holds(Retire)
  /\ phase' = "retired"
  /\ UNCHANGED <<open, claims, call, conn, kept>>

\* close() ends SQLite's open transaction, and the process exits with it.
Close ==
  /\ phase = "retired"
  /\ phase' = "exited"
  /\ UNCHANGED <<open, claims, call, conn, kept>>

TxStep(c) == Begin(c) \/ Body(c) \/ Commit(c) \/ Rollback(c)

Next ==
  \/ \E c \in Outer : Issue(c) \/ Wake(c)
  \/ \E c \in Tx : withTransactionAsync(c) \/ TxStep(c)
  \/ \E c \in Tx, d \in Call : Misuse(c, d)
  \/ finalize \/ Retired \/ Close

Spec == Init /\ [][Next]_vars

\* A body awaits its statements and native work that ends; promises settle.
FairSpec ==
  /\ Spec
  /\ \A c \in Outer : WF_vars(Wake(c))
  /\ \A c \in Tx : WF_vars(TxStep(c))
  /\ WF_vars(Retired) /\ WF_vars(Close)

(***************************************************************************)
(* Properties.                                                             *)
(***************************************************************************)
\* SQLite has a transaction open exactly while one call is between its BEGIN and
\* its COMMIT: that call holds the mutex, outer statements wait for it, and the
\* statements in it are its own.  Nothing is open once shutdown has the mutex, so
\* closing the database takes back no call's work.
Exclusive ==
  /\ \A c \in Tx : call[c].pc \in {"body", "failed"} <=> open = c
  /\ open # None => claims # <<>> /\ Head(claims) = open
  /\ conn.open <=> open # None
  /\ conn.work \subseteq {open} \X (1 .. TxSize)
  /\ phase \in {"retired", "exited"} => open = None

\* The adapter is an atomic store: whatever transactions, statements, failures
\* and shutdown cut into each other, a call told ok is kept whole, one refused
\* left nothing.
Store == INSTANCE AtomicStore WITH answer <- [c \in Call |-> call[c].answer]
StoreSpec == Store!Spec

\* A call made before the shutdown is answered, or the daemon shuts down: neither the
\* statements behind a transaction nor a body that misuses the adapter wait for ever.
CallsEnd ==
  \A c \in Call : call[c].pc # "new" ~> call[c].pc = "done" \/ phase = "exited"
=============================================================================
