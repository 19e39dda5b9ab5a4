------------------------ MODULE TransactionGateProofs ------------------------
(***************************************************************************)
(* For any calls and any number of statements: transactions exclude each   *)
(* other and the statements outside them, shutdown closes nothing that is  *)
(* open, and the adapter implements AtomicStore.                           *)
(*                                                                         *)
(* Exclusive is not inductive alone.  Locked says who has the mutex once   *)
(* shutdown took it, Answered that a call is told something exactly when   *)
(* it ends, and Written that SQLite's transaction holds the statements     *)
(* its body has run, so that a COMMIT keeps all of them and nothing else.  *)
(***************************************************************************)
EXTENDS TransactionGate, TLAPS

\* What the provers may take over a leaf that names none.
USE SMTT(30), ZenonT(30), SMTT(60)

Locked == phase \in {"retired", "exited"} => claims # <<>> /\ Head(claims) = Retire

Answered == \A c \in Call : call[c].pc = "done" <=> call[c].answer # "none"

Written ==
  \A c \in Tx :
    call[c].pc = "body" => conn.work = {c} \X ((call[c].left + 1) .. TxSize)

Inv == TypeOK /\ Exclusive /\ Locked /\ Answered /\ Written

\* A queue that gives up its head or takes a new last element is still a queue.
LEMMA Queues ==
  ASSUME NEW S, NEW q \in Seq(S), NEW x \in S
  PROVE  /\ Append(q, x) \in Seq(S) /\ Append(q, x) # <<>>
         /\ q # <<>> => Tail(q) \in Seq(S) /\ Head(q) \in S /\ Head(Append(q, x)) = Head(q)
  OBVIOUS

\* No call is None, and a transaction is no outer statement.
LEMMA Distinct == Tx \subseteq Call /\ Outer \subseteq Call /\ None \notin Tx /\ Retire \notin Tx
                  /\ Outer \cap Tx = {} /\ TxSize \in Nat \ {0}
  BY CallAssumption, SizeAssumption DEF Call

\* The record of a call after its steps.
LEMMA Records ==
  ASSUME TypeOK, NEW c \in Call
  PROVE  /\ call[c] \in Record
         /\ \A a \in {"ok", "refused"} : Done(c, a) \in Record
         /\ \A pc \in {"waiting", "locking", "body", "failed"}, n \in 0 .. TxSize :
              /\ [call[c] EXCEPT !.pc = pc] \in Record
              /\ [call[c] EXCEPT !.pc = pc, !.left = n] \in Record
              /\ [call[c] EXCEPT !.left = n] \in Record
         /\ [call[c] EXCEPT !.pc = "waiting", !.on = open] \in Record
<1>1. call[c] \in Record /\ open \in Tx \union {None}  BY DEF TypeOK
<1> QED  BY <1>1, ZenonT(60) DEF Record, Done

LEMMA InitInv == Init => Inv
  BY Distinct DEF Init, Inv, TypeOK, Exclusive, Locked, Answered, Written, Idle, Closed, Call, Record

\* With no transaction open SQLite holds no statement.
LEMMA NothingHeld == Inv /\ open = None => ~conn.open /\ conn.work = {}
  BY CallAssumption DEF Inv, TypeOK, Exclusive

\* Outer statements wait while a transaction is open, and else commit alone.
LEMMA OuterInv ==
  ASSUME Inv, NEW c \in Outer, Issue(c) \/ Wake(c)
  PROVE  Inv'
<1>1. c \in Call /\ c \notin Tx  BY Distinct
<1>2. UNCHANGED <<open, claims, phase>>  BY DEF Issue, Wake
<1>3. Size[c] = 1  BY <1>1 DEF Size
<1>4. CASE open = None /\ Run(c)
  <2>1. ~conn.open /\ conn.work = {}  BY <1>4, NothingHeld
  <2>2. UNCHANGED conn  BY <1>4, <2>1 DEF Run
  <2>3. kept' \subseteq Call \X (1 .. TxSize)
    BY <1>1, <1>3, <1>4, <2>1, Distinct DEF Run, Inv, TypeOK
  <2>4. \E a \in {"ok", "refused"} : call' = [call EXCEPT ![c] = Done(c, a)]
    BY <1>4 DEF Run, Set
  <2>5. TypeOK'
    <3>1. call' \in [Call -> Record]  BY <1>1, <2>4, Records, ZenonT(60) DEF Inv, TypeOK
    <3> QED  BY <1>2, <2>2, <2>3, <3>1 DEF Inv, TypeOK
  <2>6. Exclusive' /\ Locked' /\ Written'
    BY <1>1, <1>2, <2>2, <2>4, Distinct DEF Inv, TypeOK, Exclusive, Locked, Written, Done
  <2>7. Answered'  BY <1>1, <2>4 DEF Inv, TypeOK, Answered, Done
  <2> QED  BY <2>5, <2>6, <2>7 DEF Inv
<1>5. CASE Wait(c) /\ call[c].pc # "done" /\ open # None
  <2>1. call' = [call EXCEPT ![c] = [call[c] EXCEPT !.pc = "waiting", !.on = open]]
    BY <1>5 DEF Wait, Set
  <2>2. UNCHANGED <<conn, kept>>  BY <1>5 DEF Wait
  <2>3. TypeOK'  BY <1>1, <1>2, <2>1, <2>2, Records, ZenonT(60) DEF Inv, TypeOK
  <2>4. Exclusive' /\ Locked' /\ Written'
    BY <1>1, <1>2, <2>1, <2>2, Distinct DEF Inv, TypeOK, Exclusive, Locked, Written
  <2>5. Answered'  BY <1>1, <1>5, <2>1 DEF Inv, TypeOK, Answered
  <2> QED  BY <2>3, <2>4, <2>5 DEF Inv
<1> QED  BY <1>4, <1>5 DEF Issue, Wake, outerGate

LEMMA QueueInv ==
  ASSUME Inv, NEW c \in Tx, withTransactionAsync(c)
  PROVE  Inv'
<1>1. c \in Call /\ c # Retire  BY Distinct
<1>2. call' = [call EXCEPT ![c] = [call[c] EXCEPT !.pc = "locking"]] /\ call[c].pc = "new"
  BY DEF withTransactionAsync, Set
<1>3. claims' = Append(claims, c) /\ UNCHANGED <<open, conn, kept, phase>>
  BY DEF withTransactionAsync
<1>4. claims \in Seq(Tx \union {Retire})  BY DEF Inv, TypeOK
<1>5. /\ claims' \in Seq(Tx \union {Retire}) /\ claims' # <<>>
      /\ claims # <<>> => Head(claims') = Head(claims)
  BY <1>3, <1>4, Queues
<1>6. TypeOK'
  <2>1. call' \in [Call -> Record]
    <3>1. [call[c] EXCEPT !.pc = "locking"] \in Record
      BY <1>1, Distinct DEF Inv, TypeOK, Record
    <3> QED  BY <1>1, <1>2, <3>1 DEF Inv, TypeOK
  <2> QED  BY <1>3, <1>5, <2>1 DEF Inv, TypeOK
<1>7. Exclusive' /\ Locked' /\ Written'
  BY <1>1, <1>2, <1>3, <1>5, Distinct DEF Inv, TypeOK, Exclusive, Locked, Written
<1>8. Answered'  BY <1>1, <1>2 DEF Inv, TypeOK, Answered
<1> QED  BY <1>6, <1>7, <1>8 DEF Inv

\* The end of a transaction whose COMMIT or ROLLBACK left SQLite with none open.
LEMMA EndInv ==
  ASSUME Inv, NEW c \in Tx, NEW a \in {"ok", "refused"}, Holds(c), End(c, a),
         open \in {None, c}, conn' = Closed,
         kept' \subseteq Call \X (1 .. TxSize)
  PROVE  Inv'
<1>1. c \in Call /\ c # Retire  BY Distinct
<1>2. /\ open' = None /\ claims' = Tail(claims) /\ UNCHANGED phase
      /\ call' = [call EXCEPT ![c] = Done(c, a)]
  BY DEF End, Set
<1>3. claims \in Seq(Tx \union {Retire}) /\ claims # <<>> /\ Head(claims) = c
  BY DEF Holds, Inv, TypeOK
<1>4. claims' \in Seq(Tx \union {Retire})  BY <1>2, <1>3
<1>5. phase \notin {"retired", "exited"}  BY <1>1, <1>3 DEF Inv, Locked
<1>6. conn'.open = FALSE /\ conn'.work = {}  BY DEF Closed
<1>7. TypeOK'
  <2>1. call' \in [Call -> Record]  BY <1>1, <1>2, Records, ZenonT(60) DEF Inv, TypeOK
  <2>2. conn' \in [open : BOOLEAN, work : SUBSET (Call \X (1 .. TxSize))]  BY DEF Closed
  <2> QED  BY <1>2, <1>4, <2>1, <2>2 DEF Inv, TypeOK
<1>8. \A d \in Tx : call'[d].pc \notin {"body", "failed"}
  BY <1>1, <1>2, Distinct DEF Inv, TypeOK, Exclusive, Done
<1>9. Exclusive' /\ Locked' /\ Written'
  BY <1>2, <1>5, <1>6, <1>8, Distinct DEF Exclusive, Locked, Written
<1>10. Answered'  BY <1>1, <1>2 DEF Inv, TypeOK, Answered, Done
<1> QED  BY <1>7, <1>9, <1>10 DEF Inv

\* The holder of the mutex that waits for its turn finds no transaction open.
LEMMA TurnIsFree ==
  ASSUME Inv, NEW c \in Tx, Holds(c), call[c].pc = "locking"
  PROVE  open = None
  BY Distinct DEF Inv, TypeOK, Exclusive, Holds

LEMMA BeginInv ==
  ASSUME Inv, NEW c \in Tx, Begin(c)
  PROVE  Inv'
<1>1. c \in Call /\ c # Retire /\ c # None  BY Distinct
<1>2. open = None  BY TurnIsFree DEF Begin
<1>3. ~conn.open /\ conn.work = {}  BY <1>2, NothingHeld
<1>4. Holds(c)  BY DEF Begin
<1>5. CASE /\ open' = c /\ conn' = [conn EXCEPT !.open = TRUE]
           /\ Set(c, [call[c] EXCEPT !.pc = "body", !.left = TxSize])
           /\ UNCHANGED <<claims, kept, phase>> /\ call[c].pc = "locking"
  <2>1. call' = [call EXCEPT ![c] = [call[c] EXCEPT !.pc = "body", !.left = TxSize]]
    BY <1>5 DEF Set
  <2>2. conn'.open = TRUE /\ conn'.work = {}  BY <1>3, <1>5 DEF Inv, TypeOK
  <2>3. TypeOK'
    <3>1. TxSize \in 0 .. TxSize  BY Distinct
    <3>2. call' \in [Call -> Record]  BY <1>1, <2>1, <3>1, Records, ZenonT(60) DEF Inv, TypeOK
    <3>3. conn' \in [open : BOOLEAN, work : SUBSET (Call \X (1 .. TxSize))]
      BY <1>5 DEF Inv, TypeOK
    <3> QED  BY <1>5, <3>2, <3>3 DEF Inv, TypeOK
  <2>4. Exclusive'
    BY <1>1, <1>2, <1>4, <1>5, <2>1, <2>2, Distinct DEF Inv, TypeOK, Exclusive, Locked, Holds
  <2>5. Locked'  BY <1>5 DEF Inv, Locked
  <2>6. Answered'  BY <1>1, <1>5, <2>1 DEF Inv, TypeOK, Answered
  <2>7. \A d \in Tx : call'[d].pc = "body" => d = c
    BY <1>1, <1>2, <2>1, Distinct DEF Inv, TypeOK, Exclusive
  <2>8. call'[c].left = TxSize  BY <1>1, <2>1 DEF Inv, TypeOK
  <2>9. Written'  BY <2>2, <2>7, <2>8, Distinct DEF Written
  <2> QED  BY <2>3, <2>4, <2>5, <2>6, <2>9 DEF Inv
<1>6. CASE End(c, "refused") /\ UNCHANGED <<conn, kept>>
  <2>1. conn' = Closed  BY <1>3, <1>6 DEF Inv, TypeOK, Closed
  <2> QED  BY <1>2, <1>4, <1>6, <2>1, EndInv DEF Inv, TypeOK
<1> QED  BY <1>5, <1>6 DEF Begin

LEMMA BodyInv ==
  ASSUME Inv, NEW c \in Tx, Body(c)
  PROVE  Inv'
<1>1. c \in Call  BY Distinct
<1>2. call[c].pc = "body" /\ UNCHANGED <<open, claims, kept, phase>>  BY DEF Body
<1>3. open = c /\ conn.open  BY <1>2, Distinct DEF Inv, Exclusive
<1>4. call[c].left \in 0 .. TxSize  BY <1>1 DEF Inv, TypeOK, Record
<1>5. \A d \in Tx : call[d].pc = "body" => d = c  BY <1>3 DEF Inv, Exclusive
<1>6. CASE /\ call[c].left > 0
           /\ conn' = [conn EXCEPT !.work = @ \union {<<c, call[c].left>>}]
           /\ Set(c, [call[c] EXCEPT !.left = @ - 1])
  <2>1. call' = [call EXCEPT ![c] = [call[c] EXCEPT !.left = @ - 1]]  BY <1>6 DEF Set
  <2>2. call[c].left \in 1 .. TxSize /\ call[c].left - 1 \in 0 .. TxSize
    BY <1>4, <1>6, Distinct
  <2>3. conn'.open /\ conn'.work = conn.work \union {<<c, call[c].left>>}
    BY <1>3, <1>6 DEF Inv, TypeOK
  <2>4. TypeOK'
    <3>1. call' \in [Call -> Record]  BY <1>1, <2>1, <2>2, Records, ZenonT(60) DEF Inv, TypeOK
    <3>2. <<c, call[c].left>> \in Call \X (1 .. TxSize)  BY <1>1, <2>2
    <3>3. conn' \in [open : BOOLEAN, work : SUBSET (Call \X (1 .. TxSize))]
      BY <1>6, <3>2 DEF Inv, TypeOK
    <3> QED  BY <1>2, <3>1, <3>3 DEF Inv, TypeOK
  <2>5. Exclusive' /\ Locked' /\ Answered'
    BY <1>1, <1>2, <1>3, <2>1, <2>2, <2>3, Distinct
    DEF Inv, TypeOK, Exclusive, Locked, Answered
  <2>6. call'[c].left = call[c].left - 1 /\ \A d \in Tx : call'[d].pc = call[d].pc
    BY <1>1, <2>1, Distinct DEF Inv, TypeOK
  <2>7. conn.work = {c} \X ((call[c].left + 1) .. TxSize)  BY <1>2 DEF Inv, Written
  <2>8. conn'.work = {c} \X (call[c].left .. TxSize)
    BY <2>2, <2>3, <2>7, Distinct
  <2>9. (call'[c].left + 1) .. TxSize = call[c].left .. TxSize  BY <2>2, <2>6
  <2>10. Written'  BY <1>5, <2>6, <2>8, <2>9 DEF Written
  <2> QED  BY <2>4, <2>5, <2>10 DEF Inv
<1>7. CASE Set(c, [call[c] EXCEPT !.pc = "failed"]) /\ UNCHANGED conn
  <2>1. call' = [call EXCEPT ![c] = [call[c] EXCEPT !.pc = "failed"]]  BY <1>7 DEF Set
  <2>2. TypeOK'  BY <1>1, <1>2, <1>4, <1>7, <2>1, Records, ZenonT(60) DEF Inv, TypeOK
  <2>3. Exclusive' /\ Locked' /\ Answered'
    BY <1>1, <1>2, <1>3, <1>7, <2>1, Distinct DEF Inv, TypeOK, Exclusive, Locked, Answered
  <2>4. \A d \in Tx : call'[d].pc # "body"
    BY <1>1, <1>5, <2>1, Distinct DEF Inv, TypeOK
  <2> QED  BY <2>2, <2>3, <2>4 DEF Inv, Written
<1> QED  BY <1>6, <1>7 DEF Body

LEMMA MisuseInv ==
  ASSUME Inv, NEW c \in Tx, NEW d \in Call, Misuse(c, d)
  PROVE  Inv'
<1>1. PICK pc \in {"body", "failed"} :
        call' = [call EXCEPT ![c].pc = pc, ![d] = Done(d, "refused")]
  BY DEF Misuse
<1>2. call[c].pc = "body" /\ call[d].pc = "new" /\ c # d /\ c \in Call
  BY Distinct DEF Misuse
<1>3. UNCHANGED <<open, claims, conn, kept, phase>>  BY DEF Misuse
<1>4. call'[c] = [call[c] EXCEPT !.pc = pc] /\ call'[d] = Done(d, "refused")
  BY <1>1, <1>2 DEF Inv, TypeOK
<1>5. \A e \in Call \ {c, d} : call'[e] = call[e]  BY <1>1 DEF Inv, TypeOK
<1>6. open = c  BY <1>2 DEF Inv, Exclusive
<1>7. TypeOK'
  <2>1. call[c].left \in 0 .. TxSize  BY <1>2 DEF Inv, TypeOK, Record
  <2>2. call'[c] \in Record /\ call'[d] \in Record
    BY <1>2, <1>4, <2>1, Records, ZenonT(60) DEF Inv
  <2>3. call' \in [Call -> Record]
    BY <1>1, <1>5, <2>2 DEF Inv, TypeOK
  <2> QED  BY <1>3, <2>3 DEF Inv, TypeOK
<1>8. /\ call'[c].pc = pc /\ call'[c].answer = call[c].answer /\ call'[c].left = call[c].left
      /\ call'[d].pc = "done" /\ call'[d].answer = "refused"
  <2>1. call[c] \in Record /\ call[d] \in Record  BY <1>2 DEF Inv, TypeOK
  <2> QED  BY <1>4, <2>1 DEF Record, Done
<1>9. Exclusive' /\ Locked'
  <2>1. \A e \in Tx : call'[e].pc \in {"body", "failed"} <=> open = e
    BY <1>2, <1>5, <1>6, <1>8, Distinct DEF Inv, Exclusive
  <2> QED  BY <1>3, <2>1 DEF Inv, Exclusive, Locked
<1>10. Answered'
  <2>1. \A e \in Call : call'[e].pc = "done" <=> call'[e].answer # "none"
    BY <1>2, <1>5, <1>8 DEF Inv, Answered
  <2> QED  BY <2>1 DEF Answered
<1>11. Written'
  <2>1. ASSUME NEW e \in Tx, call'[e].pc = "body"
        PROVE  conn.work = {e} \X ((call'[e].left + 1) .. TxSize)
    <3>1. CASE e = c  BY <1>2, <1>8, <3>1 DEF Inv, Written
    <3>2. CASE e # c  BY <1>5, <1>8, <2>1, <3>2, Distinct DEF Inv, Written
    <3> QED  BY <3>1, <3>2
  <2> QED  BY <1>3, <2>1 DEF Written
<1> QED  BY <1>7, <1>9, <1>10, <1>11 DEF Inv

LEMMA FinishInv ==
  ASSUME Inv, NEW c \in Tx, Commit(c) \/ Rollback(c)
  PROVE  Inv'
<1>1. Holds(c) /\ open = c  BY Distinct DEF Commit, Rollback, Inv, Exclusive
<1>2. conn' = Closed  BY DEF Commit, Rollback
<1>3. kept' \subseteq Call \X (1 .. TxSize)  BY DEF Commit, Rollback, Inv, TypeOK
<1>4. End(c, "ok") \/ End(c, "refused")  BY DEF Commit, Rollback
<1> QED  BY <1>1, <1>2, <1>3, <1>4, EndInv

LEMMA ShutdownInv ==
  ASSUME Inv, finalize \/ Retired \/ Close
  PROVE  Inv'
<1>1. UNCHANGED <<open, call, conn, kept>>  BY DEF finalize, Retired, Close
<1>2. CASE finalize
  <2>1. claims' = Append(claims, Retire) /\ phase' = "retiring"  BY <1>2 DEF finalize
  <2>2. claims \in Seq(Tx \union {Retire})  BY DEF Inv, TypeOK
  <2>3. /\ claims' \in Seq(Tx \union {Retire}) /\ claims' # <<>>
        /\ claims # <<>> => Head(claims') = Head(claims)
    BY <2>1, <2>2, Queues
  <2>4. TypeOK'  BY <1>1, <2>1, <2>3 DEF Inv, TypeOK
  <2>5. Exclusive' /\ Locked' /\ Answered' /\ Written'
    BY <1>1, <2>1, <2>3 DEF Inv, Exclusive, Locked, Answered, Written
  <2> QED  BY <2>4, <2>5 DEF Inv
<1>3. CASE Retired
  <2>1. claims # <<>> /\ Head(claims) = Retire /\ phase' = "retired" /\ UNCHANGED claims
    BY <1>3 DEF Retired, Holds
  <2>2. open = None  BY <2>1, Distinct DEF Inv, TypeOK, Exclusive
  <2>3. TypeOK'  BY <1>1, <2>1 DEF Inv, TypeOK
  <2>4. Exclusive' /\ Locked' /\ Answered' /\ Written'
    BY <1>1, <2>1, <2>2 DEF Inv, Exclusive, Locked, Answered, Written
  <2> QED  BY <2>3, <2>4 DEF Inv
<1>4. CASE Close
  <2>1. phase = "retired" /\ phase' = "exited" /\ UNCHANGED claims  BY <1>4 DEF Close
  <2>2. TypeOK'  BY <1>1, <2>1 DEF Inv, TypeOK
  <2>3. Exclusive' /\ Locked' /\ Answered' /\ Written'
    BY <1>1, <2>1 DEF Inv, Exclusive, Locked, Answered, Written
  <2> QED  BY <2>2, <2>3 DEF Inv
<1> QED  BY <1>2, <1>3, <1>4

LEMMA StutterInv == Inv /\ UNCHANGED vars => Inv'
  BY DEF vars, Inv, TypeOK, Exclusive, Locked, Answered, Written

LEMMA StepInv == Inv /\ [Next]_vars => Inv'
<1> SUFFICES ASSUME Inv, [Next]_vars PROVE Inv'  OBVIOUS
<1>1. CASE \E c \in Outer : Issue(c) \/ Wake(c)  BY <1>1, OuterInv
<1>2. CASE \E c \in Tx : withTransactionAsync(c) \/ TxStep(c)
  BY <1>2, QueueInv, BeginInv, BodyInv, FinishInv DEF TxStep
<1>3. CASE \E c \in Tx, d \in Call : Misuse(c, d)  BY <1>3, MisuseInv
<1>4. CASE finalize \/ Retired \/ Close  BY <1>4, ShutdownInv
<1>5. CASE UNCHANGED vars  BY <1>5, StutterInv
<1> QED  BY <1>1, <1>2, <1>3, <1>4, <1>5 DEF Next

\* The strengthened invariant holds throughout.
THEOREM Invariance == Spec => []Inv
<1>1. Init => Inv  BY InitInv
<1>2. Inv /\ [Next]_vars => Inv'  BY StepInv
<1> QED  BY <1>1, <1>2, PTL DEF Spec

\* Every variable keeps its type for any transactions, statements and sizes.
THEOREM GateTypeCorrect == Spec => []TypeOK
<1>1. Inv => TypeOK  BY DEF Inv
<1> QED  BY <1>1, Invariance, PTL

\* outerGate, the mutex and retire() exclude: one transaction is open at a time, no
\* statement runs inside another call's transaction, and close() finds none open.
THEOREM TransactionsExclude == Spec => []Exclusive
<1>1. Inv => Exclusive  BY DEF Inv
<1> QED  BY <1>1, Invariance, PTL
(***************************************************************************)
(* The adapter implements AtomicStore.                                     *)
(***************************************************************************)
\* An outer statement commits by itself, is refused, or only waits.
LEMMA OuterRefines ==
  ASSUME Inv, NEW c \in Outer, Issue(c) \/ Wake(c)
  PROVE  [Store!Next]_<<kept, [d \in Call |-> call[d].answer]>>
<1>1. c \in Call /\ c \notin Tx /\ Size[c] = 1  BY Distinct DEF Size, Call
<1>2. call[c] \in Record /\ call[c].pc # "done" /\ call[c].answer = "none"
  BY <1>1 DEF Issue, Wake, Inv, TypeOK, Answered
<1>3. CASE open = None /\ Run(c)
  <2>1. ~conn.open  BY <1>3, NothingHeld
  <2>2. CASE Set(c, Done(c, "ok")) /\ kept' = kept \union ({c} \X (1 .. Size[c]))
    <3>1. Store!Commit(c)
      BY <1>1, <1>2, <2>2 DEF Store!Commit, Store!Writes, Set, Done, Inv, TypeOK, Record
    <3> QED  BY <1>1, <3>1 DEF Store!Next
  <2>3. CASE Set(c, Done(c, "refused")) /\ UNCHANGED kept
    <3>1. Store!Refuse(c)
      BY <1>1, <1>2, <2>3 DEF Store!Refuse, Set, Done, Inv, TypeOK, Record
    <3> QED  BY <1>1, <3>1 DEF Store!Next
  <2> QED  BY <1>3, <2>1, <2>2, <2>3 DEF Run
<1>4. CASE Wait(c)
  BY <1>1, <1>2, <1>4 DEF Wait, Set, Inv, TypeOK, Record
<1> QED  BY <1>3, <1>4 DEF Issue, Wake, outerGate

\* A transaction that ends is told in the step in which its statements are kept.
LEMMA EndRefines ==
  ASSUME Inv, NEW c \in Tx, NEW a \in {"ok", "refused"}, End(c, a),
         call[c].pc # "done",
         kept' = IF a = "ok" THEN kept \union ({c} \X (1 .. TxSize)) ELSE kept
  PROVE  Store!Next
<1>1. c \in Call /\ Size[c] = TxSize  BY Distinct DEF Size
<1>2. call[c] \in Record /\ call[c].answer = "none"  BY <1>1 DEF Inv, TypeOK, Answered
<1>3. call' = [call EXCEPT ![c] = Done(c, a)]  BY DEF End, Set
<1>4. CASE a = "ok"
  <2>1. Store!Commit(c)
    BY <1>1, <1>2, <1>3, <1>4 DEF Store!Commit, Store!Writes, Done, Inv, TypeOK, Record
  <2> QED  BY <1>1, <2>1 DEF Store!Next
<1>5. CASE a = "refused"
  <2>1. Store!Refuse(c)
    BY <1>1, <1>2, <1>3, <1>5 DEF Store!Refuse, Done, Inv, TypeOK, Record
  <2> QED  BY <1>1, <2>1 DEF Store!Next
<1> QED  BY <1>4, <1>5

LEMMA TxRefines ==
  ASSUME Inv, NEW c \in Tx, withTransactionAsync(c) \/ TxStep(c)
  PROVE  [Store!Next]_<<kept, [d \in Call |-> call[d].answer]>>
<1>1. c \in Call /\ call[c] \in Record  BY Distinct DEF Inv, TypeOK
<1>2. CASE withTransactionAsync(c) \/ Body(c)
  <2>1. UNCHANGED kept  BY <1>2 DEF withTransactionAsync, Body
  <2>2. \/ call' = [call EXCEPT ![c] = [call[c] EXCEPT !.pc = "locking"]]
        \/ call' = [call EXCEPT ![c] = [call[c] EXCEPT !.left = call[c].left - 1]]
        \/ call' = [call EXCEPT ![c] = [call[c] EXCEPT !.pc = "failed"]]
    BY <1>2 DEF withTransactionAsync, Body, Set
  <2>3. call'[c].answer = call[c].answer
    BY <1>1, <2>2 DEF Inv, TypeOK, Record
  <2>4. \A d \in Call : call'[d].answer = call[d].answer
    BY <2>2, <2>3 DEF Inv, TypeOK
  <2> QED  BY <2>1, <2>4
<1>3. CASE Begin(c)
  <2>1. CASE Set(c, [call[c] EXCEPT !.pc = "body", !.left = TxSize]) /\ UNCHANGED kept
    BY <1>1, <2>1 DEF Set, Inv, TypeOK, Record
  <2>2. CASE End(c, "refused") /\ UNCHANGED kept /\ call[c].pc = "locking"
    BY <2>2, EndRefines
  <2> QED  BY <1>3, <2>1, <2>2 DEF Begin
<1>4. CASE Commit(c)
  <2>1. call[c].pc = "body" /\ call[c].left = 0  BY <1>4 DEF Commit
  <2>2. conn.work = {c} \X (1 .. TxSize)  BY <2>1 DEF Inv, Written
  <2>3. CASE kept' = kept \union conn.work /\ End(c, "ok")  BY <2>1, <2>2, <2>3, EndRefines
  <2>4. CASE UNCHANGED kept /\ End(c, "refused")  BY <2>1, <2>4, EndRefines
  <2> QED  BY <1>4, <2>3, <2>4 DEF Commit
<1>5. CASE Rollback(c)  BY <1>5, EndRefines DEF Rollback
<1> QED  BY <1>2, <1>3, <1>4, <1>5 DEF TxStep

\* The call a body misused is refused; the body's own call goes on.
LEMMA MisuseRefines ==
  ASSUME Inv, NEW c \in Tx, NEW d \in Call, Misuse(c, d)
  PROVE  Store!Next
<1>1. PICK pc \in {"body", "failed"} :
        call' = [call EXCEPT ![c].pc = pc, ![d] = Done(d, "refused")]
  BY DEF Misuse
<1>2. c \in Call /\ c # d /\ call[d].pc = "new" /\ UNCHANGED kept
  BY Distinct DEF Misuse
<1>3. call[c] \in Record /\ call[d] \in Record /\ call[d].answer = "none"
  BY <1>2 DEF Inv, TypeOK, Answered
<1>4. \A e \in Call : call'[e].answer = IF e = d THEN "refused" ELSE call[e].answer
  BY <1>1, <1>2, <1>3 DEF Inv, TypeOK, Record, Done
<1>5. Store!Refuse(d)  BY <1>2, <1>3, <1>4 DEF Store!Refuse
<1> QED  BY <1>5 DEF Store!Next

\* The code as modelled implements AtomicStore: kept maps to kept, and what a
\* call's record says it was told to answer.
THEOREM Implements == Spec => StoreSpec
<1>1. Init => Store!Init  BY DEF Init, Store!Init, Idle
<1>2. Inv /\ [Next]_vars => [Store!Next]_Store!vars
  <2> SUFFICES ASSUME Inv, [Next]_vars
               PROVE  [Store!Next]_Store!vars
    OBVIOUS
  <2>1. CASE \E c \in Outer : Issue(c) \/ Wake(c)  BY <2>1, OuterRefines DEF Store!vars
  <2>2. CASE \E c \in Tx : withTransactionAsync(c) \/ TxStep(c)  BY <2>2, TxRefines DEF Store!vars
  <2>3. CASE \E c \in Tx, d \in Call : Misuse(c, d)  BY <2>3, MisuseRefines
  <2>4. CASE finalize \/ Retired \/ Close  BY <2>4 DEF finalize, Retired, Close, Store!vars
  <2>5. CASE UNCHANGED vars  BY <2>5 DEF vars, Store!vars
  <2> QED  BY <2>1, <2>2, <2>3, <2>4, <2>5 DEF Next
<1> QED  BY <1>1, <1>2, Invariance, PTL DEF Spec, StoreSpec, Store!Spec
=============================================================================
