-------------------------- MODULE SuspensionProofs --------------------------
(***************************************************************************)
(* Proofs about Suspension, for any calls, readers, transaction size,      *)
(* tasks and number of platform events.  The invariant ties three things   *)
(* together: the queue of the writer lock to where each call is, what the  *)
(* connection holds open to the call that has the lock, and the manager's  *)
(* state to the gate and to what its drain has seen.                       *)
(***************************************************************************)
EXTENDS Suspension, TLAPS

\* What the provers may take over a leaf that names none.
USE SMTT(30), ZenonT(30), SMTT(60)

\* Where a call is inside its transaction, where it has a claim on the lock, and
\* where the flow of resetDb has one.
OnTx == {"body", "stmt", "commit", "rollback", "again"}
Claiming == {"locking", "body"} \union OnWriter
Held == {"lock", "settle", "close", "open"}

Pc == {"new", "done", "parked", "woken", "locking", "queued"} \union Running
Record ==
  [pc : Pc, left : 0 .. TxSize, hit : BOOLEAN, answer : {"none", "ok", "refused"}]

DbTypeOK ==
  /\ gate \in {"active", "suspending", "closed"}
  /\ cutOff \in BOOLEAN
  /\ claims \in Seq(Call \union {Reset})
  /\ call \in [Call -> Record]
  /\ conn \in [open : BOOLEAN, work : SUBSET (Call \X (1 .. TxSize))]
  /\ durable \subseteq Call \X (1 .. TxSize)
  /\ pool \in BOOLEAN
  /\ reset \in {"none", "done"} \union Held

QueueTypeOK ==
  /\ mgr \in {"active", "suspending", "suspended"}
  /\ op \in {"none", "drain", "end", "over"}
  /\ entered \in BOOLEAN
  /\ saw \subseteq {"idle", "replaced"}
  /\ drained \in {"none", "clean", "late", "returned"}
  /\ services \in {"running", "paused"}
  /\ hazard \subseteq {"strayTransaction", "resumedReset"}

Operation == {"resume", "maybeSuspend", "suspendUnlessBusy"}

MgrTypeOK ==
  /\ QueueTypeOK
  /\ screen \in {"foreground", "background"} /\ app \in {"foreground", "background"}
  /\ tasks \subseteq Task
  /\ pending \in Operation \union {"none"}
  /\ events \in 0 .. MaxEvents

TypeOK == DbTypeOK /\ MgrTypeOK

\* The lock's queue holds each claim once, and the claims are those of the calls and
\* of the reset that took one.  Whoever is past the wait is at the head.
Holds(q, x) == \E i \in DOMAIN q : q[i] = x
Once(q) == \A i, j \in DOMAIN q : q[i] = q[j] => i = j

LockOrder ==
  /\ Once(claims)
  /\ \A c \in Call : Holds(claims, c) <=> call[c].pc \in Claiming
  /\ Holds(claims, Reset) <=> reset \in Held
  /\ \A c \in Call : call[c].pc \in Claiming \ {"locking"} => claims # <<>> /\ Head(claims) = c
  /\ reset \in Held \ {"lock"} => claims # <<>> /\ Head(claims) = Reset

\* Which calls can be where, and how much a transaction has left.
Counted(c) ==
  /\ call[c].pc = "begin" => call[c].left = TxSize
  /\ call[c].pc = "stmt" => call[c].left > 0
  /\ call[c].pc = "commit" => call[c].left = 0

Roles ==
  \A c \in Call :
    /\ call[c].pc \in OnTx \union {"begin"} => c \in Tx
    /\ call[c].pc = "write" => c \notin Tx
    /\ call[c].pc \in {"read", "queued"} => c \in Read
    /\ call[c].pc = "done" <=> call[c].answer # "none"
    /\ Counted(c)

\* The manager owns the gate from the start of a suspend to the resume.
Gates ==
  /\ gate = "suspending" <=> mgr # "active"
  /\ op \in {"drain", "end"} <=> mgr = "suspending"
  /\ cutOff => gate = "suspending"
  /\ services = "paused" <=> mgr # "active"

\* What the drain saw settle stays settled behind the closed gate.
Drained ==
  /\ op = "drain" /\ "idle" \in saw => Inflight = {}
  /\ op = "drain" /\ "replaced" \in saw => ~Replacing
  /\ op = "end" => drained = "clean"
  /\ op = "end" \/ (mgr = "suspended" /\ drained = "clean") => Inflight = {} /\ ~Replacing
  /\ mgr = "suspended" /\ drained = "clean" => ~conn.open

\* What a replacement waited for stays settled until the connection is closed.
Replaced ==
  /\ hazard = {} /\ reset \in {"settle", "close"} => gate # "active"
  /\ hazard = {} /\ reset = "close" => Inflight = {}

\* What is open on the connection belongs to the call that has the writer and is
\* what its count of statements says; with the gate open, that call will end it.
WorkOf(c) ==
  /\ call[c].pc \in {"write", "begin"} => ~conn.open
  /\ call[c].pc \in OnTx => conn.work \subseteq {c} \X (1 .. TxSize)
  /\ call[c].pc \in {"body", "stmt", "commit"} =>
       conn.open /\ conn.work = {c} \X (call[c].left + 1 .. TxSize)

Ending(c) == call[c].pc \in OnTx /\ ~(call[c].pc = "again" /\ call[c].hit)

Work ==
  /\ hazard = {} /\ ~conn.open => conn.work = {}
  /\ hazard = {} => \A c \in Call : WorkOf(c)
  /\ hazard = {} /\ gate # "suspending" /\ conn.open => \E c \in Tx : Ending(c)

\* Where the manager should be, and that the queue remembers an operation that
\* will take it there whenever it is not (on iOS, whose events mean what they say).
Should == app = "background" /\ tasks = {}

Rests ==
  Ios =>
    /\ pending # "suspendUnlessBusy"
    /\ op = "none" => pending = "none"
    /\ pending = "none" => (mgr # "active" <=> Should)
    /\ pending = "maybeSuspend" => Should
    /\ pending = "resume" => ~Should
    /\ mgr = "suspended" /\ drained = "returned" => op = "over" /\ app = "foreground"

Inv == TypeOK /\ LockOrder /\ Roles /\ Gates /\ Drained /\ Replaced /\ Work /\ Rests

(***************************************************************************)
(* The lock's queue, and the record of a call.                             *)
(***************************************************************************)
\* A claim joins the lock's queue behind all others.
LEMMA Joins ==
  ASSUME NEW S, NEW q \in Seq(S), NEW x \in S, Once(q), ~Holds(q, x)
  PROVE  /\ Append(q, x) \in Seq(S) /\ Once(Append(q, x)) /\ Append(q, x) # <<>>
         /\ \A y : Holds(Append(q, x), y) <=> Holds(q, y) \/ y = x
         /\ Head(Append(q, x)) = IF q = <<>> THEN x ELSE Head(q)
<1>1. /\ Append(q, x) \in Seq(S) /\ Len(Append(q, x)) = Len(q) + 1 /\ Len(q) \in Nat
      /\ DOMAIN q = 1 .. Len(q) /\ DOMAIN Append(q, x) = 1 .. Len(q) + 1
      /\ \A i \in 1 .. Len(q) : Append(q, x)[i] = q[i]
      /\ Append(q, x)[Len(q) + 1] = x
  OBVIOUS
<1> DEFINE a == Append(q, x)
<1> HIDE DEF a
<1>2. Once(a)  BY <1>1 DEF Once, Holds, a
<1>3. ASSUME NEW y PROVE Holds(a, y) <=> Holds(q, y) \/ y = x
  <2>1. ASSUME Holds(a, y) PROVE Holds(q, y) \/ y = x
    <3>1. PICK i \in 1 .. Len(q) + 1 : a[i] = y  BY <1>1, <2>1 DEF Holds, a
    <3>2. i \in 1 .. Len(q) \/ i = Len(q) + 1  BY <1>1
    <3> QED  BY <1>1, <3>1, <3>2 DEF Holds, a
  <2>2. ASSUME Holds(q, y) PROVE Holds(a, y)
    <3>1. PICK i \in 1 .. Len(q) : q[i] = y  BY <1>1, <2>2 DEF Holds
    <3>2. i \in 1 .. Len(q) + 1  BY <1>1
    <3> QED  BY <1>1, <3>1, <3>2 DEF Holds, a
  <2>3. ASSUME y = x PROVE Holds(a, y)
    <3>1. Len(q) + 1 \in 1 .. Len(q) + 1  BY <1>1
    <3> QED  BY <1>1, <2>3, <3>1 DEF Holds, a
  <2> QED  BY <2>1, <2>2, <2>3
<1>4. Append(q, x) # <<>> /\ Head(Append(q, x)) = IF q = <<>> THEN x ELSE Head(q)
  <2>1. CASE q = <<>>  BY <2>1
  <2>2. CASE q # <<>>
    <3>1. Len(q) >= 1  BY <1>1, <2>2
    <3>2. Append(q, x)[1] = q[1] /\ Append(q, x) # <<>>  BY <1>1, <3>1
    <3> QED  BY <2>2, <3>2
  <2> QED  BY <2>1, <2>2
<1> QED  BY <1>1, <1>2, <1>3, <1>4 DEF a

\* The holder of the lock gives it to the one behind it.
LEMMA Leaves ==
  ASSUME NEW S, NEW q \in Seq(S), q # <<>>, Once(q)
  PROVE  /\ Tail(q) \in Seq(S) /\ Once(Tail(q)) /\ Holds(q, Head(q))
         /\ \A y : Holds(Tail(q), y) <=> Holds(q, y) /\ y # Head(q)
<1>1. /\ Len(q) \in Nat \ {0} /\ Head(q) = q[1] /\ Tail(q) \in Seq(S)
      /\ DOMAIN q = 1 .. Len(q) /\ DOMAIN Tail(q) = 1 .. Len(q) - 1
      /\ \A i \in 1 .. Len(q) - 1 : Tail(q)[i] = q[i + 1]
  OBVIOUS
<1> DEFINE t == Tail(q)
           h == Head(q)
<1> HIDE DEF t, h
<1>2. \A i \in 1 .. Len(q) - 1 : i + 1 \in 1 .. Len(q) /\ t[i] = q[i + 1]  BY <1>1 DEF t
<1>3. 1 \in 1 .. Len(q) /\ h = q[1]  BY <1>1 DEF h
<1>4. Once(t)
  <2> SUFFICES ASSUME NEW i \in 1 .. Len(q) - 1, NEW j \in 1 .. Len(q) - 1, t[i] = t[j]
               PROVE  i = j
    BY <1>1 DEF Once, t
  <2>1. i + 1 = j + 1  BY <1>1, <1>2 DEF Once
  <2> QED  BY <1>1, <2>1
<1>5. ASSUME NEW y PROVE Holds(t, y) <=> Holds(q, y) /\ y # h
  <2>1. ASSUME Holds(t, y) PROVE Holds(q, y) /\ y # h
    <3>1. PICK i \in 1 .. Len(q) - 1 : t[i] = y  BY <1>1, <2>1 DEF Holds, t
    <3>2. i + 1 # 1 /\ q[i + 1] = y /\ i + 1 \in DOMAIN q  BY <1>1, <1>2, <3>1
    <3> QED  BY <1>1, <1>3, <3>2 DEF Once, Holds
  <2>2. ASSUME Holds(q, y), y # h PROVE Holds(t, y)
    <3>1. PICK i \in 1 .. Len(q) : q[i] = y  BY <1>1, <2>2 DEF Holds
    <3>2. i # 1  BY <1>3, <2>2, <3>1
    <3>3. i - 1 \in 1 .. Len(q) - 1 /\ (i - 1) + 1 = i  BY <1>1, <3>2
    <3>4. t[i - 1] = y  BY <1>2, <3>1, <3>3
    <3> QED  BY <1>1, <3>3, <3>4 DEF Holds, t
  <2> QED  BY <2>1, <2>2
<1>6. Holds(q, h)  BY <1>1, <1>3 DEF Holds
<1> QED  BY <1>1, <1>4, <1>5, <1>6 DEF t, h

\* What a call's record says after a step.
LEMMA Records ==
  ASSUME call \in [Call -> Record], NEW c \in Call
  PROVE  /\ call[c] \in Record
         /\ \A pc \in Pc : /\ At(c, pc) \in Record /\ At(c, pc).pc = pc /\ ~At(c, pc).hit
                           /\ At(c, pc).left = call[c].left /\ At(c, pc).answer = call[c].answer
         /\ \A a \in {"ok", "refused"} :
              /\ Done(c, a) \in Record /\ Done(c, a).pc = "done"
              /\ Done(c, a).answer = a
         /\ Gated(c) \in {At(c, "parked"), Done(c, "refused")}
         /\ Begun(c) \in Record /\ Begun(c).answer = call[c].answer
         /\ Begun(c).pc = IF c \in Tx THEN "begin" ELSE "write"
         /\ c \in Tx => Begun(c).left = TxSize
<1>1. call[c] \in Record  OBVIOUS
<1>2. "done" \in Pc /\ "begin" \in Pc /\ "write" \in Pc /\ TxSize \in 0 .. TxSize
  BY SizeAssumption DEF Pc, Running, OnWriter
<1> QED  BY <1>1, <1>2, ZenonT(60) DEF Record, At, Done, Gated, Begun

(***************************************************************************)
(* A call on its way to its first statement.                               *)
(***************************************************************************)
\* The record a call has after a step to or through the gate, the lock and the
\* readers: it is refused or waits, or it was let in by the open gate.  A read
\* may also have been told ok, or look for a reader again.
Entered(c, r) ==
  /\ r \in Record
  /\ r.pc = "done" => r.answer = "refused" \/ (r.answer = "ok" /\ c \in Read)
  /\ r.pc # "done" => r.answer = call[c].answer
  /\ call[c].pc \notin OnWriter \union {"body", "done"}
  /\ \/ /\ r.pc \in {"parked", "done"} /\ UNCHANGED claims
        /\ call[c].pc # "locking"
     \/ /\ r.pc \in {"read", "queued"} /\ c \in Read /\ gate = "active" /\ UNCHANGED claims
        /\ call[c].pc # "locking"
     \/ /\ gate = "active" /\ call[c].pc # "locking"
        /\ claims' = Append(claims, c)
        /\ r.pc = "locking" \/ (claims = <<>> /\ r = Begun(c))
     \/ /\ call[c].pc = "locking" /\ claims # <<>> /\ Head(claims) = c
        /\ \/ gate = "active" /\ r = Begun(c) /\ UNCHANGED claims
           \/ r.pc \in {"parked", "done"} /\ claims' = Tail(claims)

LEMMA GatedEnters ==
  ASSUME call \in [Call -> Record], NEW c \in Call, call[c].pc \in {"new", "woken", "parked", "read"}
  PROVE  /\ UNCHANGED claims => Entered(c, Gated(c))
         /\ c \in Read /\ UNCHANGED claims => Entered(c, Done(c, "ok"))
         /\ c \in Read /\ gate = "active" /\ UNCHANGED claims =>
              Entered(c, At(c, "read")) /\ Entered(c, At(c, "queued"))
<1>1. call[c].pc \notin OnWriter \union {"body", "done"} /\ call[c].pc # "locking"
  BY DEF OnWriter
<1>2. Gated(c) \in Record /\ Gated(c).pc \in {"parked", "done"}
      /\ Gated(c).answer = IF Gated(c).pc = "done" THEN "refused" ELSE call[c].answer
  BY Records DEF Pc
<1>3. \A pc \in {"read", "queued"} :
        At(c, pc) \in Record /\ At(c, pc).pc = pc /\ At(c, pc).answer = call[c].answer
  BY Records DEF Pc, Running
<1>4. Done(c, "ok") \in Record /\ Done(c, "ok").pc = "done" /\ Done(c, "ok").answer = "ok"
  BY Records
<1> QED  BY <1>1, <1>2, <1>3, <1>4 DEF Entered

LEMMA WriterEnters ==
  ASSUME call \in [Call -> Record], NEW c \in Call, call[c].pc \in {"new", "woken", "read"},
         NEW fresh \in BOOLEAN, Writer(c, fresh)
  PROVE  \E r \in Record : Entered(c, r) /\ call' = [call EXCEPT ![c] = r]
<1>1. CASE gate # "active"
  <2>1. call' = [call EXCEPT ![c] = Gated(c)] /\ UNCHANGED claims  BY <1>1 DEF Writer, Set
  <2>2. Gated(c) \in Record /\ Entered(c, Gated(c))  BY <2>1, GatedEnters DEF Entered
  <2> QED  BY <2>1, <2>2
<1>2. CASE gate = "active"
  <2>1. call[c].pc \notin OnWriter \union {"body", "done"} /\ call[c].pc # "locking"
    BY DEF OnWriter
  <2>2. claims' = Append(claims, c)  BY <1>2 DEF Writer
  <2>3. CASE fresh /\ claims = <<>>
    <3>1. Begun(c) \in Record /\ Begun(c).answer = call[c].answer /\ Begun(c).pc # "done"
      BY Records
    <3>2. call' = [call EXCEPT ![c] = Begun(c)]  BY <1>2, <2>3 DEF Writer, Set
    <3> QED  BY <1>2, <2>1, <2>2, <2>3, <3>1, <3>2 DEF Entered
  <2>4. CASE ~(fresh /\ claims = <<>>)
    <3>1. At(c, "locking") \in Record /\ At(c, "locking").answer = call[c].answer
          /\ At(c, "locking").pc = "locking"
      BY Records DEF Pc
    <3>2. call' = [call EXCEPT ![c] = At(c, "locking")]  BY <1>2, <2>4 DEF Writer, Set
    <3> QED  BY <1>2, <2>1, <2>2, <3>1, <3>2 DEF Entered
  <2> QED  BY <2>3, <2>4
<1> QED  BY <1>1, <1>2

LEMMA Entering ==
  ASSUME TypeOK, NEW c \in Call, Start(c) \/ Retry(c) \/ GiveUp(c) \/ Granted(c)
  PROVE  /\ \E r \in Record : Entered(c, r) /\ call' = [call EXCEPT ![c] = r]
         /\ UNCHANGED <<gate, cutOff, conn, durable, pool, reset>>
<1>0. call \in [Call -> Record]  BY DEF TypeOK, DbTypeOK
<1>1. UNCHANGED <<gate, cutOff, conn, durable, pool, reset>>
  BY DEF Start, Retry, GiveUp, Granted
<1>2. ASSUME call[c].pc \in {"new", "woken"}, NEW fresh \in BOOLEAN, Writer(c, fresh)
      PROVE  \E r \in Record : Entered(c, r) /\ call' = [call EXCEPT ![c] = r]
  BY <1>0, <1>2, WriterEnters
<1>3. ASSUME call[c].pc \in {"new", "woken"}, c \in Read, Seek(c)
      PROVE  \E r \in Record : Entered(c, r) /\ call' = [call EXCEPT ![c] = r]
  <2>1. CASE ~pool  BY <1>2, <1>3, <2>1 DEF Seek
  <2>2. CASE pool
    <3>1. PICK r \in {Gated(c), At(c, "read"), At(c, "queued")} :
            /\ call' = [call EXCEPT ![c] = r] /\ UNCHANGED claims
            /\ gate # "active" => r = Gated(c)
      BY <1>3, <2>2 DEF Seek, Seeking, Set
    <3>2. Entered(c, r)  BY <1>0, <1>3, <3>1, GatedEnters
    <3> QED  BY <3>1, <3>2 DEF Entered
  <2> QED  BY <2>1, <2>2
<1>5. CASE Start(c)  BY <1>2, <1>3, <1>5 DEF Start
<1>6. CASE Retry(c)  BY <1>2, <1>3, <1>6 DEF Retry
<1>7. CASE GiveUp(c)
  <2>1. Done(c, "refused") \in Record /\ Done(c, "refused").pc = "done"
        /\ Done(c, "refused").answer = "refused"
    BY <1>0, Records
  <2>2. call[c].pc \notin OnWriter \union {"body", "done"} /\ call[c].pc # "locking" /\ UNCHANGED claims
    BY <1>7 DEF GiveUp, OnWriter
  <2> QED  BY <1>7, <2>1, <2>2 DEF GiveUp, Set, Entered
<1>8. CASE Granted(c)
  <2>1. call[c].pc = "locking" /\ claims # <<>> /\ Head(claims) = c
        /\ call[c].pc \notin OnWriter \union {"body", "done"}
    BY <1>8 DEF Granted, OnWriter
  <2>2. CASE gate = "active"
    <3>1. Begun(c) \in Record /\ Begun(c).answer = call[c].answer /\ Begun(c).pc # "done"
      BY <1>0, Records
    <3> QED  BY <1>8, <2>1, <2>2, <3>1 DEF Granted, Set, Entered
  <2>3. CASE gate # "active"
    <3>1. Gated(c) \in Record /\ Gated(c).pc \in {"parked", "done"}
          /\ Gated(c).answer = IF Gated(c).pc = "done" THEN "refused" ELSE call[c].answer
      BY <1>0, Records DEF Pc
    <3> QED  BY <1>8, <2>1, <2>3, <3>1 DEF Granted, Set, Entered
  <2> QED  BY <2>2, <2>3
<1> QED  BY <1>1, <1>5, <1>6, <1>7, <1>8

\* However one call moves, the lock keeps one holder and an order behind it.
LEMMA LockMoves ==
  ASSUME TypeOK, LockOrder, NEW c \in Call,
         \A d \in Call \ {c} :
           call'[d].pc = call[d].pc \/ (call[d].pc \notin Claiming /\ call'[d].pc \notin Claiming),
         reset' = reset \/ (reset = "settle" /\ reset' = "close"),
         \/ /\ UNCHANGED claims
            /\ call[c].pc \in Claiming <=> call'[c].pc \in Claiming
            /\ call'[c].pc \in Claiming \ {"locking"} => claims # <<>> /\ Head(claims) = c
         \/ /\ claims' = Append(claims, c)
            /\ call[c].pc \notin Claiming /\ call'[c].pc \in Claiming
            /\ call'[c].pc # "locking" => claims = <<>>
         \/ /\ claims # <<>> /\ Head(claims) = c /\ claims' = Tail(claims)
            /\ call'[c].pc \notin Claiming
  PROVE  claims' \in Seq(Call \union {Reset}) /\ LockOrder'
<1>1. claims \in Seq(Call \union {Reset}) /\ c \in Call \union {Reset} /\ c # Reset
  BY CallAssumption DEF TypeOK, DbTypeOK
<1>2. (reset' \in Held <=> reset \in Held)
      /\ (reset' \in Held \ {"lock"} <=> reset \in Held \ {"lock"})
  BY DEF Held
<1>3. CASE /\ UNCHANGED claims
           /\ call[c].pc \in Claiming <=> call'[c].pc \in Claiming
           /\ call'[c].pc \in Claiming \ {"locking"} => claims # <<>> /\ Head(claims) = c
  BY <1>1, <1>2, <1>3 DEF LockOrder
<1>4. CASE /\ claims' = Append(claims, c)
           /\ call[c].pc \notin Claiming /\ call'[c].pc \in Claiming
           /\ call'[c].pc # "locking" => claims = <<>>
  <2>1. Once(claims) /\ ~Holds(claims, c)  BY <1>4 DEF LockOrder
  <2>2. /\ claims' \in Seq(Call \union {Reset}) /\ Once(claims') /\ claims' # <<>>
        /\ \A y : Holds(claims', y) <=> Holds(claims, y) \/ y = c
        /\ Head(claims') = IF claims = <<>> THEN c ELSE Head(claims)
    BY <1>1, <1>4, <2>1, Joins
  <2> QED  BY <1>1, <1>2, <1>4, <2>2 DEF LockOrder
<1>5. CASE /\ claims # <<>> /\ Head(claims) = c /\ claims' = Tail(claims)
           /\ call'[c].pc \notin Claiming
  <2>1. Once(claims)  BY DEF LockOrder
  <2>2. /\ claims' \in Seq(Call \union {Reset}) /\ Once(claims')
        /\ \A y : Holds(claims', y) <=> Holds(claims, y) /\ y # c
    BY <1>1, <1>5, <2>1, Leaves
  <2> QED  BY <1>1, <1>2, <1>5, <2>2 DEF LockOrder
<1> QED  BY <1>3, <1>4, <1>5

\* The adapter's part of the invariant, and what it needs of the manager.
DbInv == DbTypeOK /\ LockOrder /\ Roles /\ Drained /\ Replaced /\ Work

LEMMA EnteredInv ==
  ASSUME TypeOK, Gates, DbInv, NEW c \in Call, NEW r \in Record, Entered(c, r),
         call' \in [Call -> Record], call'[c] = r,
         \A d \in Call \ {c} :
           \/ call'[d] = call[d]
           \/ /\ call[d].pc = "queued" /\ call'[d].pc = "woken"
              /\ call'[d].answer = call[d].answer,
         reset' = IF reset = "settle" /\ Inflight = {c} THEN "close" ELSE reset,
         UNCHANGED <<gate, cutOff, conn, durable, pool, manager, hazard>>
  PROVE  DbInv'
<1>1. UNCHANGED <<gate, cutOff, conn, durable, pool, mgr, op, saw, drained, hazard>>
  BY DEF manager
<1>2. Entered(c, r)  OBVIOUS
<1>3. call \in [Call -> Record] /\ call[c].pc \notin OnWriter \union {"body", "done"}
  BY <1>2 DEF TypeOK, DbTypeOK, Entered
<1>4. /\ call' \in [Call -> Record] /\ call'[c] = r
      /\ \A d \in Call \ {c} : call'[d] = call[d]
           \/ (call[d].pc = "queued" /\ call'[d].pc = "woken" /\ call'[d].answer = call[d].answer)
  OBVIOUS
<1>5. Begun(c).pc = IF c \in Tx THEN "begin" ELSE "write"  BY <1>3, Records
<1>6. claims' \in Seq(Call \union {Reset}) /\ LockOrder'
  <2>1. call[c].pc \in Claiming <=> call[c].pc = "locking"
    BY <1>3 DEF Claiming, Running
  <2> USE <1>1, <1>2, <1>4, <1>5, <2>1 DEF DbInv
  <2>2. CASE /\ r.pc \in {"parked", "done", "read", "queued"} /\ UNCHANGED claims
             /\ call[c].pc # "locking"
    BY <2>2, LockMoves DEF Claiming, OnWriter
  <2>3. CASE /\ call[c].pc # "locking" /\ claims' = Append(claims, c)
             /\ r.pc = "locking" \/ (claims = <<>> /\ r = Begun(c))
    BY <2>3, LockMoves DEF Claiming, OnWriter
  <2>4. CASE /\ call[c].pc = "locking" /\ claims # <<>> /\ Head(claims) = c
             /\ \/ r = Begun(c) /\ UNCHANGED claims
                \/ r.pc \in {"parked", "done"} /\ claims' = Tail(claims)
    BY <2>4, LockMoves DEF Claiming, OnWriter
  <2> QED  BY <2>2, <2>3, <2>4 DEF Entered
<1>7. r.pc \in Running => gate = "active"
  BY <1>2 DEF Entered, Running, OnWriter
<1>8. r.pc \in Running => r.pc \in {"read", "begin", "write"}
  BY <1>2, <1>5 DEF Entered, Running, OnWriter
<1>9. DbTypeOK'
  <2>1. reset' \in {"none", "done"} \union Held  BY DEF TypeOK, DbTypeOK, Held
  <2> QED  BY <1>1, <1>4, <1>6, <2>1 DEF TypeOK, DbTypeOK
<1>10. Roles'
  <2>1. r.pc \in OnTx \union {"begin"} => c \in Tx  BY <1>5, <1>2 DEF Entered, OnTx
  <2>2. r.pc = "write" => c \notin Tx  BY <1>5, <1>2 DEF Entered
  <2>3. r.pc \in {"read", "queued"} => c \in Read  BY <1>5, <1>2 DEF Entered
  <2>4. r.pc = "done" <=> r.answer # "none"  BY <1>2, <1>3 DEF Entered, DbInv, Roles
  <2>5. Counted(c)'
    <3>1. r.pc = "begin" => r.left = TxSize
      BY <1>2, <1>3, <1>5, Records DEF Entered
    <3>2. r.pc \notin {"stmt", "commit"}  BY <1>5, <1>2 DEF Entered
    <3> QED  BY <1>4, <3>1, <3>2 DEF Counted
  <2> DEFINE Role(d) ==
         /\ call[d].pc \in OnTx \union {"begin"} => d \in Tx
         /\ call[d].pc = "write" => d \notin Tx
         /\ call[d].pc \in {"read", "queued"} => d \in Read
         /\ call[d].pc = "done" <=> call[d].answer # "none"
         /\ Counted(d)
  <2>6. ASSUME NEW d \in Call \ {c} PROVE Role(d)'
    <3>1. Role(d)  BY DEF DbInv, Roles
    <3>2. CASE call'[d] = call[d]  BY <3>1, <3>2 DEF Counted
    <3>3. CASE /\ call[d].pc = "queued" /\ call'[d].pc = "woken"
               /\ call'[d].answer = call[d].answer
      BY <3>1, <3>3 DEF Counted, OnTx
    <3> QED  BY <1>4, <3>2, <3>3
  <2>7. Role(c)'  BY <1>4, <2>1, <2>2, <2>3, <2>4, <2>5
  <2> QED  BY <2>6, <2>7 DEF Roles
<1>11. gate # "active" => Inflight' \subseteq Inflight \ {c}
  BY <1>4, <1>7 DEF Inflight, Running, OnWriter
<1>12. Drained'
  <2>1. op \in {"drain", "end"} \/ mgr = "suspended" => gate # "active"  BY DEF Gates
  <2>2. Replacing' <=> Replacing  BY DEF Replacing
  <2> QED  BY <1>1, <1>11, <2>1, <2>2 DEF DbInv, Drained
<1>13. Replaced'
  <2>1. hazard = {} /\ reset' \in {"settle", "close"} => gate # "active"
    BY DEF DbInv, Replaced
  <2>2. hazard = {} /\ reset' = "close" => Inflight \ {c} = {}  BY DEF DbInv, Replaced
  <2> QED  BY <1>1, <1>11, <2>1, <2>2 DEF Replaced
<1>14. Work'
  <2> USE <1>1 DEF DbInv
  <2>1. hazard = {} /\ ~conn'.open => conn'.work = {}  BY DEF Work
  <2>2. hazard = {} /\ r.pc \in {"begin", "write"} => ~conn.open
    <3> SUFFICES ASSUME hazard = {}, r.pc \in {"begin", "write"}, conn.open PROVE FALSE  OBVIOUS
    <3>1. gate = "active" /\ (claims = <<>> \/ (Head(claims) = c /\ call[c].pc = "locking"))
      BY <1>2 DEF Entered
    <3>2. PICK d \in Tx : call[d].pc \in OnTx  BY <3>1 DEF Work, Ending
    <3>3. d \in Call /\ call[d].pc \in Claiming \ {"locking"}
      BY <3>2 DEF Call, OnTx, Claiming, OnWriter
    <3>4. claims # <<>> /\ Head(claims) = d  BY <3>3 DEF LockOrder
    <3> QED  BY <3>1, <3>2, <3>4 DEF OnTx
  <2>3. r.pc \notin OnTx
    BY <1>2, <1>5 DEF Entered, OnTx
  <2>4. call[c].pc \notin OnTx  BY <1>3 DEF OnTx, Running, OnWriter
  <2>5. hazard = {} /\ gate # "suspending" /\ conn.open =>
       \E d \in Tx : Ending(d)'
    <3> SUFFICES ASSUME hazard = {}, gate # "suspending", conn.open
                 PROVE  \E d \in Tx : Ending(d)'
      OBVIOUS
    <3>1. PICK d \in Tx : Ending(d)  BY DEF Work
    <3>2. d \in Call \ {c} /\ call[d].pc # "queued"  BY <2>4, <3>1 DEF Ending, Call, OnTx
    <3> QED  BY <1>4, <3>1, <3>2 DEF Ending
  <2>6. hazard = {} => \A d \in Call : WorkOf(d)'
    BY <1>4, <2>2, <2>3 DEF Work, WorkOf, OnTx
  <2> QED  BY <2>1, <2>5, <2>6 DEF Work
<1> QED  BY <1>6, <1>9, <1>10, <1>12, <1>13, <1>14 DEF DbInv

LEMMA EnteringInv ==
  ASSUME TypeOK, Gates, DbInv, NEW c \in Call, Start(c) \/ Retry(c) \/ GiveUp(c) \/ Granted(c),
         UNCHANGED <<manager, hazard>>
  PROVE  DbInv'
<1>1. PICK r \in Record : Entered(c, r) /\ call' = [call EXCEPT ![c] = r]  BY Entering
<1>2. UNCHANGED <<gate, cutOff, conn, durable, pool, reset>>  BY Entering
<1>3. /\ call' \in [Call -> Record] /\ call'[c] = r
      /\ \A d \in Call \ {c} : call'[d] = call[d]
  BY <1>1 DEF TypeOK, DbTypeOK
<1>4. Inflight = {c} => reset # "settle"
  <2> SUFFICES ASSUME call[c].pc \in Running PROVE FALSE  BY DEF Inflight
  <2>1. call[c].pc \in {"new", "woken", "parked", "locking"}
    BY DEF Start, Retry, GiveUp, Granted
  <2> QED  BY <2>1 DEF Running, OnWriter
<1> QED  BY <1>1, <1>2, <1>3, <1>4, EnteredInv

\* A read that ends lets the next one look, and takes no part in what waits for
\* the work in flight to end.
LEMMA ReadEnding ==
  ASSUME TypeOK, Roles, NEW c \in Call, ReadEnd(c)
  PROVE  \E r \in Record :
           /\ Entered(c, r)
           /\ call' \in [Call -> Record] /\ call'[c] = r
           /\ \A d \in Call \ {c} :
                \/ call'[d] = call[d]
                \/ /\ call[d].pc = "queued" /\ call'[d].pc = "woken"
                   /\ call'[d].answer = call[d].answer
<1>0. call \in [Call -> Record]  BY DEF TypeOK, DbTypeOK
<1>1. call[c].pc = "read" /\ c \in Read  BY DEF ReadEnd, Roles
<1>2. ASSUME NEW r \in Record, Entered(c, r), Ended(c, r)
      PROVE  /\ call' \in [Call -> Record] /\ call'[c] = r
             /\ \A d \in Call \ {c} :
                  \/ call'[d] = call[d]
                  \/ /\ call[d].pc = "queued" /\ call'[d].pc = "woken"
                     /\ call'[d].answer = call[d].answer
  <2>1. CASE Set(c, r)  BY <1>0, <2>1 DEF Set
  <2>2. CASE \E d \in Call : call[d].pc = "queued"
                             /\ call' = [call EXCEPT ![c] = r, ![d] = At(d, "woken")]
    <3>1. PICK d \in Call : call[d].pc = "queued"
                            /\ call' = [call EXCEPT ![c] = r, ![d] = At(d, "woken")]
      BY <2>2
    <3>2. At(d, "woken") \in Record /\ At(d, "woken").pc = "woken"
          /\ At(d, "woken").answer = call[d].answer
      BY <1>0, Records DEF Pc
    <3>3. d # c  BY <1>1, <3>1
    <3> QED  BY <1>0, <1>2, <3>1, <3>2, <3>3
  <2> QED  BY <1>2, <2>1, <2>2 DEF Ended
<1>3. CASE \E r \in {Done(c, "ok"), Gated(c), At(c, "read"), At(c, "queued")} :
             /\ Ended(c, r) /\ UNCHANGED claims
             /\ gate # "active" => r \in {Done(c, "ok"), Gated(c)}
  <2>1. PICK r \in {Done(c, "ok"), Gated(c), At(c, "read"), At(c, "queued")} :
          /\ Ended(c, r) /\ UNCHANGED claims
          /\ gate # "active" => r \in {Done(c, "ok"), Gated(c)}
    BY <1>3
  <2>2. Entered(c, r)  BY <1>0, <1>1, <2>1, GatedEnters
  <2>3. r \in Record  BY <2>2 DEF Entered
  <2> QED  BY <1>2, <2>1, <2>2, <2>3
<1>4. CASE Writer(c, TRUE)
  <2>1. PICK r \in Record : Entered(c, r) /\ call' = [call EXCEPT ![c] = r]
    BY <1>0, <1>1, <1>4, WriterEnters
  <2> QED  BY <1>0, <2>1
<1> QED  BY <1>3, <1>4 DEF ReadEnd, Seeking

LEMMA ReadEndInv ==
  ASSUME TypeOK, Gates, DbInv, NEW c \in Call, ReadEnd(c), UNCHANGED <<manager, hazard>>
  PROVE  DbInv'
<1>1. UNCHANGED <<gate, cutOff, conn, durable, pool>>
      /\ reset' = IF reset = "settle" /\ Inflight = {c} THEN "close" ELSE reset
  BY DEF ReadEnd
<1>2. Roles  BY DEF DbInv
<1> QED  BY <1>1, <1>2, ReadEnding, EnteredInv

(***************************************************************************)
(* The call that has the writer.                                           *)
(***************************************************************************)
\* There is only one.
LEMMA Alone ==
  ASSUME LockOrder, NEW c \in Call, call[c].pc \in Claiming \ {"locking"}
  PROVE  /\ claims # <<>> /\ Head(claims) = c
         /\ \A d \in Call \ {c} : call[d].pc \notin Claiming \ {"locking"}
         /\ reset \notin Held \ {"lock"}
  BY CallAssumption DEF LockOrder

\* A step inside a transaction.
LEMMA InTransaction ==
  ASSUME TypeOK, Gates, DbInv, NEW c \in Call, call[c].pc \in OnTx \union {"begin"},
         NEW r \in Record, call' = [call EXCEPT ![c] = r],
         r.pc \in OnTx, r.answer = call[c].answer,
         UNCHANGED <<gate, cutOff, claims, durable, pool, reset, manager, hazard>>,
         conn' \in [open : BOOLEAN, work : SUBSET (Call \X (1 .. TxSize))],
         hazard = {} /\ ~conn'.open => conn'.work = {}, Counted(c)',
         hazard = {} => WorkOf(c)' /\ (gate # "suspending" /\ conn'.open => Ending(c)')
  PROVE  DbInv'
<1>1. call[c].pc \in Claiming \ {"locking"} /\ r.pc \in Claiming \ {"locking"}
      /\ call[c].pc \in Running /\ r.pc \in Running
  BY DEF OnTx, Claiming, OnWriter, Running
<1>2. call' \in [Call -> Record] /\ call'[c] = r /\ \A d \in Call \ {c} : call'[d] = call[d]
  BY DEF TypeOK, DbTypeOK
<1>3. claims # <<>> /\ Head(claims) = c
      /\ \A d \in Call \ {c} : call[d].pc \notin Claiming \ {"locking"}
  BY <1>1, Alone DEF DbInv
<1>4. claims' \in Seq(Call \union {Reset}) /\ LockOrder'
  BY <1>1, <1>2, <1>3, LockMoves DEF DbInv
<1>5. DbTypeOK'  BY <1>2, <1>4 DEF TypeOK, DbTypeOK
<1>6. c \in Tx /\ call[c].pc # "done" /\ r.pc # "done"
  BY DEF DbInv, Roles, OnTx
<1>7. Roles'
  <2>1. r.pc \notin {"write", "read", "queued"}  BY DEF OnTx
  <2> QED  BY <1>2, <1>6, <2>1 DEF DbInv, Roles, Counted
<1>8. Inflight' = Inflight /\ Inflight # {}  BY <1>1, <1>2 DEF Inflight
<1>9. Drained' /\ Replaced'
  BY <1>8 DEF DbInv, Drained, Replaced, manager, Replacing
<1>10. Work'
  <2>1. hazard = {} => \A d \in Call \ {c} : WorkOf(d)'
    BY <1>2, <1>3 DEF WorkOf, OnTx, Claiming, OnWriter
  <2> QED  BY <1>6, <2>1 DEF Work
<1> QED  BY <1>4, <1>5, <1>7, <1>9, <1>10 DEF DbInv

\* The call that has the writer ends, and the lock passes on.
LEMMA Releases ==
  ASSUME TypeOK, Gates, DbInv, NEW c \in Call, call[c].pc \in Claiming \ {"locking"},
         NEW a \in {"ok", "refused"}, call' = [call EXCEPT ![c] = Done(c, a)],
         claims' = Tail(claims), UNCHANGED <<gate, cutOff, pool, reset, manager, hazard>>,
         durable' \subseteq Call \X (1 .. TxSize),
         conn' \in [open : BOOLEAN, work : SUBSET (Call \X (1 .. TxSize))],
         hazard = {} /\ ~conn'.open => conn'.work = {},
         hazard = {} => ~conn'.open \/ gate = "suspending"
  PROVE  DbInv'
<1>1. call[c].pc \in Running  BY DEF Claiming, Running
<1>2. Done(c, a) \in Record /\ Done(c, a).pc = "done" /\ Done(c, a).answer = a
  BY Records DEF TypeOK, DbTypeOK
<1>3. call' \in [Call -> Record] /\ call'[c] = Done(c, a)
      /\ \A d \in Call \ {c} : call'[d] = call[d]
  BY <1>2 DEF TypeOK, DbTypeOK
<1>4. claims # <<>> /\ Head(claims) = c
      /\ \A d \in Call \ {c} : call[d].pc \notin Claiming \ {"locking"}
  BY Alone DEF DbInv
<1>5. claims' \in Seq(Call \union {Reset}) /\ LockOrder'
  BY <1>2, <1>3, <1>4, LockMoves DEF DbInv, Claiming, OnWriter
<1>6. DbTypeOK'  BY <1>3, <1>5 DEF TypeOK, DbTypeOK
<1>7. Roles'  BY <1>2, <1>3 DEF DbInv, Roles, Counted, OnTx
<1>8. Inflight' \subseteq Inflight /\ Inflight # {}
  BY <1>1, <1>2, <1>3 DEF Inflight, Running, OnWriter
<1>9. Drained' /\ Replaced'
  BY <1>8 DEF DbInv, Drained, Replaced, manager, Replacing
<1>10. Work'
  <2>1. \A d \in Call : call'[d].pc \notin Claiming \ {"locking"}
    BY <1>2, <1>3, <1>4 DEF Claiming, OnWriter
  <2>2. \A d \in Call : WorkOf(d)'
    BY <2>1 DEF WorkOf, OnTx, Claiming, OnWriter
  <2> QED  BY <2>2 DEF Work
<1> QED  BY <1>5, <1>6, <1>7, <1>9, <1>10 DEF DbInv

LEMMA ClosedHoldsNothing ==
  /\ Closed \in [open : BOOLEAN, work : SUBSET (Call \X (1 .. TxSize))]
  /\ ~Closed.open /\ Closed.work = {}
  BY DEF Closed

LEMMA BeginEndInv ==
  ASSUME TypeOK, Gates, DbInv, NEW c \in Call, BeginEnd(c), UNCHANGED <<manager, hazard>>
  PROVE  DbInv'
<1>0. call \in [Call -> Record] /\ conn \in [open : BOOLEAN, work : SUBSET (Call \X (1 .. TxSize))]
  BY DEF TypeOK, DbTypeOK
<1>1. call[c].pc = "begin" /\ UNCHANGED <<gate, cutOff, claims, durable, pool, reset>>
  BY DEF BeginEnd
<1>2. PICK pc \in {"body", "rollback"} :
        /\ call' = [call EXCEPT ![c] = At(c, pc)]
        /\ \/ pc = "body" /\ ~conn.open /\ conn' = [conn EXCEPT !.open = TRUE]
           \/ pc = "rollback" /\ UNCHANGED conn
  BY DEF BeginEnd, Set
<1>3. /\ At(c, pc) \in Record /\ At(c, pc).pc = pc /\ ~At(c, pc).hit
      /\ At(c, pc).left = call[c].left /\ At(c, pc).answer = call[c].answer
  BY <1>0, Records DEF Pc, Running, OnWriter
<1>4. conn' \in [open : BOOLEAN, work : SUBSET (Call \X (1 .. TxSize))] /\ conn'.work = conn.work
      /\ (pc = "body" => conn'.open)
  BY <1>0, <1>2
<1>5. hazard = {} /\ ~conn'.open => conn'.work = {}  BY <1>2, <1>4 DEF DbInv, Work
<1>6. hazard = {} => WorkOf(c)' /\ Ending(c)'
  <2> SUFFICES ASSUME hazard = {} PROVE WorkOf(c)' /\ Ending(c)'  OBVIOUS
  <2>1. ~conn.open /\ conn.work = {}  BY <1>1 DEF DbInv, Work, WorkOf
  <2>2. call'[c] = At(c, pc)  BY <1>0, <1>2
  <2>3. call[c].left = TxSize /\ (call[c].left + 1 .. TxSize) = {}
    BY <1>1, SizeAssumption DEF DbInv, Roles, Counted
  <2> QED  BY <1>2, <1>3, <1>4, <2>1, <2>2, <2>3 DEF WorkOf, OnTx, Ending
<1>7. Counted(c)'  BY <1>0, <1>2, <1>3 DEF Counted
<1> QED  BY <1>0, <1>1, <1>2, <1>3, <1>4, <1>5, <1>6, <1>7, InTransaction DEF OnTx

LEMMA BodyInv ==
  ASSUME TypeOK, Gates, DbInv, NEW c \in Call, Body(c), UNCHANGED <<manager, hazard>>
  PROVE  DbInv'
<1>0. call \in [Call -> Record] /\ conn \in [open : BOOLEAN, work : SUBSET (Call \X (1 .. TxSize))]
      /\ call[c].left \in Nat
  BY DEF TypeOK, DbTypeOK, Record
<1>1. call[c].pc = "body" /\ UNCHANGED <<gate, cutOff, claims, conn, durable, pool, reset>>
  BY DEF Body
<1>2. PICK pc \in {"commit", "rollback", "stmt"} :
        /\ call' = [call EXCEPT ![c] = At(c, pc)]
        /\ pc = "commit" => call[c].left = 0
        /\ pc = "stmt" => call[c].left # 0
  BY DEF Body, Set
<1>3. /\ At(c, pc) \in Record /\ At(c, pc).pc = pc /\ ~At(c, pc).hit
      /\ At(c, pc).left = call[c].left /\ At(c, pc).answer = call[c].answer
  BY <1>0, Records DEF Pc, Running, OnWriter
<1>4. call'[c] = At(c, pc)  BY <1>0, <1>2
<1>5. Counted(c)'  BY <1>0, <1>2, <1>3, <1>4 DEF Counted
<1>6. hazard = {} => WorkOf(c)' /\ Ending(c)'
  BY <1>1, <1>2, <1>3, <1>4 DEF DbInv, Work, WorkOf, OnTx, Ending
<1>7. hazard = {} /\ ~conn'.open => conn'.work = {}  BY <1>1 DEF DbInv, Work
<1> QED  BY <1>0, <1>1, <1>2, <1>3, <1>5, <1>6, <1>7, InTransaction DEF OnTx

LEMMA StmtEndInv ==
  ASSUME TypeOK, Gates, DbInv, NEW c \in Call, StmtEnd(c), UNCHANGED <<manager, hazard>>
  PROVE  DbInv'
<1>0. call \in [Call -> Record] /\ conn \in [open : BOOLEAN, work : SUBSET (Call \X (1 .. TxSize))]
      /\ call[c] \in Record
  BY DEF TypeOK, DbTypeOK
<1>1. call[c].pc = "stmt" /\ UNCHANGED <<gate, cutOff, claims, durable, pool, reset>>
      /\ call[c].left \in 1 .. TxSize
  BY <1>0, SizeAssumption DEF StmtEnd, DbInv, Roles, Counted, Record
<1>2. CASE /\ conn' = [conn EXCEPT !.work = @ \union {<<c, call[c].left>>}]
           /\ Set(c, [At(c, "body") EXCEPT !.left = @ - 1])
  <2> DEFINE r == [At(c, "body") EXCEPT !.left = @ - 1]
  <2>1. /\ r \in Record /\ r.pc = "body" /\ ~r.hit
        /\ r.left = call[c].left - 1 /\ r.answer = call[c].answer
    <3>1. /\ At(c, "body") \in Record /\ At(c, "body").pc = "body" /\ ~At(c, "body").hit
          /\ At(c, "body").left = call[c].left /\ At(c, "body").answer = call[c].answer
      BY <1>0, Records DEF Pc, Running, OnWriter
    <3>2. call[c].left - 1 \in 0 .. TxSize  BY <1>1, SizeAssumption
    <3> QED  BY <3>1, <3>2 DEF Record
  <2>2. call' = [call EXCEPT ![c] = r]  BY <1>2 DEF Set
  <2> HIDE DEF r
  <2>3. /\ conn' \in [open : BOOLEAN, work : SUBSET (Call \X (1 .. TxSize))]
        /\ conn'.open = conn.open /\ conn'.work = conn.work \union {<<c, call[c].left>>}
    BY <1>0, <1>1, <1>2
  <2>4. Counted(c)' /\ call'[c] = r  BY <1>0, <2>1, <2>2 DEF Counted
  <2>5. hazard = {} => WorkOf(c)' /\ Ending(c)'
    <3> SUFFICES ASSUME hazard = {} PROVE WorkOf(c)' /\ Ending(c)'  OBVIOUS
    <3>1. conn.open /\ conn.work = {c} \X (call[c].left + 1 .. TxSize)
      BY <1>1 DEF DbInv, Work, WorkOf
    <3>2. (r.left + 1 .. TxSize) = (call[c].left + 1 .. TxSize) \union {call[c].left}
      BY <1>1, <2>1, SizeAssumption
    <3>3. conn'.work = {c} \X (r.left + 1 .. TxSize)  BY <2>3, <3>1, <3>2
    <3>4. (r.left + 1 .. TxSize) \subseteq 1 .. TxSize  BY <1>1, <2>1, SizeAssumption
    <3> QED  BY <2>1, <2>3, <2>4, <3>1, <3>3, <3>4 DEF WorkOf, Ending, OnTx
  <2>6. hazard = {} /\ ~conn'.open => conn'.work = {}
    BY <2>3, <2>5, <2>4, <2>1, <1>1 DEF WorkOf, DbInv, Work
  <2> QED  BY <1>0, <1>1, <2>1, <2>2, <2>3, <2>4, <2>5, <2>6, InTransaction DEF OnTx
<1>3. CASE conn' \in {conn, Closed} /\ Set(c, At(c, "rollback"))
  <2>1. /\ At(c, "rollback") \in Record /\ At(c, "rollback").pc = "rollback"
        /\ At(c, "rollback").answer = call[c].answer
    BY <1>0, Records DEF Pc, Running, OnWriter
  <2>2. call' = [call EXCEPT ![c] = At(c, "rollback")] /\ call'[c] = At(c, "rollback")
    BY <1>0, <1>3 DEF Set
  <2>3. /\ conn' \in [open : BOOLEAN, work : SUBSET (Call \X (1 .. TxSize))]
        /\ conn'.work \subseteq conn.work
        /\ hazard = {} /\ ~conn'.open => conn'.work = {}
    <3>1. CASE conn' = conn  BY <1>0, <3>1 DEF DbInv, Work
    <3>2. CASE conn' = Closed  BY <3>2, ClosedHoldsNothing
    <3> QED  BY <1>3, <3>1, <3>2
  <2>4. Counted(c)'  BY <2>1, <2>2 DEF Counted
  <2>5. hazard = {} => WorkOf(c)' /\ Ending(c)'
    BY <1>1, <2>1, <2>2, <2>3 DEF DbInv, Work, WorkOf, OnTx, Ending
  <2> QED  BY <1>1, <2>1, <2>2, <2>3, <2>4, <2>5, InTransaction DEF OnTx
<1> QED  BY <1>2, <1>3 DEF StmtEnd

LEMMA CommitEndInv ==
  ASSUME TypeOK, Gates, DbInv, NEW c \in Call, CommitEnd(c), UNCHANGED <<manager, hazard>>
  PROVE  DbInv'
<1>0. call \in [Call -> Record] /\ conn \in [open : BOOLEAN, work : SUBSET (Call \X (1 .. TxSize))]
      /\ durable \subseteq Call \X (1 .. TxSize)
  BY DEF TypeOK, DbTypeOK
<1>1. call[c].pc = "commit" /\ UNCHANGED <<gate, cutOff, pool, reset>>  BY DEF CommitEnd
<1>2. CASE durable' = durable \union conn.work /\ conn' = Closed
           /\ claims' = Tail(claims) /\ Set(c, Done(c, "ok"))
  <2>1. durable' \subseteq Call \X (1 .. TxSize)  BY <1>0, <1>2
  <2>2. call[c].pc \in Claiming \ {"locking"}  BY <1>1 DEF Claiming, OnWriter
  <2>3. call' = [call EXCEPT ![c] = Done(c, "ok")]  BY <1>2 DEF Set
  <2> QED  BY <1>1, <1>2, <2>1, <2>2, <2>3, ClosedHoldsNothing, Releases
<1>3. CASE Set(c, At(c, "rollback")) /\ UNCHANGED <<conn, durable, claims>>
  <2>1. /\ At(c, "rollback") \in Record /\ At(c, "rollback").pc = "rollback"
        /\ At(c, "rollback").answer = call[c].answer
    BY <1>0, Records DEF Pc, Running, OnWriter
  <2>2. call' = [call EXCEPT ![c] = At(c, "rollback")] /\ call'[c] = At(c, "rollback")
    BY <1>0, <1>3 DEF Set
  <2>3. Counted(c)'  BY <2>1, <2>2 DEF Counted
  <2>4. hazard = {} => WorkOf(c)' /\ Ending(c)'
    BY <1>1, <1>3, <2>1, <2>2 DEF DbInv, Work, WorkOf, OnTx, Ending
  <2>5. hazard = {} /\ ~conn'.open => conn'.work = {}  BY <1>3 DEF DbInv, Work
  <2> QED  BY <1>0, <1>1, <1>3, <2>1, <2>2, <2>3, <2>4, <2>5, InTransaction DEF OnTx
<1> QED  BY <1>2, <1>3 DEF CommitEnd

\* A transaction that ends without its ROLLBACK was interrupted, and the gate is
\* still closed behind it.
LEMMA RollbackEndInv ==
  ASSUME TypeOK, Gates, DbInv, NEW c \in Call, RollbackEnd(c), UNCHANGED <<manager, hazard>>
  PROVE  DbInv'
<1>0. call \in [Call -> Record] /\ conn \in [open : BOOLEAN, work : SUBSET (Call \X (1 .. TxSize))]
      /\ durable \subseteq Call \X (1 .. TxSize)
  BY DEF TypeOK, DbTypeOK
<1>1. call[c].pc \in {"rollback", "again"} /\ UNCHANGED <<gate, cutOff, durable, pool, reset>>
  BY DEF RollbackEnd
<1>2. conn' = Closed \/ (call[c].hit /\ conn' = conn)  BY DEF RollbackEnd
<1>3. /\ conn' \in [open : BOOLEAN, work : SUBSET (Call \X (1 .. TxSize))]
      /\ conn'.work \subseteq conn.work /\ (conn'.open => conn.open /\ call[c].hit)
      /\ hazard = {} /\ ~conn'.open => conn'.work = {}
  <2>1. CASE conn' = conn /\ call[c].hit  BY <1>0, <2>1 DEF DbInv, Work
  <2>2. CASE conn' = Closed  BY <2>2, ClosedHoldsNothing
  <2> QED  BY <1>2, <2>1, <2>2
<1>4. CASE call[c].pc = "rollback"
  <2>1. /\ At(c, "again") \in Record /\ At(c, "again").pc = "again"
        /\ At(c, "again").answer = call[c].answer /\ ~At(c, "again").hit
    BY <1>0, Records DEF Pc, Running, OnWriter
  <2>2. call' = [call EXCEPT ![c] = At(c, "again")] /\ call'[c] = At(c, "again")
        /\ UNCHANGED claims
    BY <1>0, <1>4 DEF RollbackEnd, Set
  <2>3. Counted(c)'  BY <2>1, <2>2 DEF Counted
  <2>4. hazard = {} => WorkOf(c)' /\ Ending(c)'
    BY <1>4, <1>3, <2>1, <2>2 DEF DbInv, Work, WorkOf, OnTx, Ending
  <2> QED  BY <1>0, <1>1, <1>3, <1>4, <2>1, <2>2, <2>3, <2>4, InTransaction DEF OnTx
<1>5. CASE call[c].pc = "again"
  <2>1. call[c].pc \in Claiming \ {"locking"}  BY <1>5 DEF Claiming, OnWriter
  <2>2. call' = [call EXCEPT ![c] = Done(c, "refused")] /\ claims' = Tail(claims)
    BY <1>5 DEF RollbackEnd, Set
  <2>3. hazard = {} => ~conn'.open \/ gate = "suspending"
    <3> SUFFICES ASSUME hazard = {}, conn'.open, gate # "suspending" PROVE FALSE  OBVIOUS
    <3>1. conn.open /\ call[c].hit  BY <1>3
    <3>2. PICK d \in Tx : Ending(d)  BY <3>1 DEF DbInv, Work
    <3>3. d \in Call /\ call[d].pc \in Claiming \ {"locking"}
      BY <3>2 DEF Ending, Call, OnTx, Claiming, OnWriter
    <3>4. d = c  BY <2>1, <3>3, Alone DEF DbInv
    <3> QED  BY <1>5, <3>1, <3>2, <3>4 DEF Ending
  <2> QED  BY <1>0, <1>1, <1>3, <2>1, <2>2, <2>3, Releases
<1> QED  BY <1>1, <1>4, <1>5

LEMMA WriteEndInv ==
  ASSUME TypeOK, Gates, DbInv, NEW c \in Call, WriteEnd(c), UNCHANGED <<manager, hazard>>
  PROVE  DbInv'
<1>0. call \in [Call -> Record] /\ conn \in [open : BOOLEAN, work : SUBSET (Call \X (1 .. TxSize))]
      /\ durable \subseteq Call \X (1 .. TxSize)
  BY DEF TypeOK, DbTypeOK
<1>1. call[c].pc = "write" /\ UNCHANGED <<gate, cutOff, pool, reset>> /\ claims' = Tail(claims)
  BY DEF WriteEnd
<1>2. call[c].pc \in Claiming \ {"locking"}  BY <1>1 DEF Claiming, OnWriter
<1>3. {c} \X (1 .. Size[c]) \subseteq Call \X (1 .. TxSize)
  <2>1. Size[c] \in {0, 1, TxSize}  BY DEF Size
  <2>2. 1 .. Size[c] \subseteq 1 .. TxSize  BY <2>1, SizeAssumption
  <2> QED  BY <2>2
<1>4. durable' \subseteq Call \X (1 .. TxSize)
      /\ conn' \in [open : BOOLEAN, work : SUBSET (Call \X (1 .. TxSize))]
  BY <1>0, <1>3 DEF WriteEnd
<1>5. PICK a \in {"ok", "refused"} : call' = [call EXCEPT ![c] = Done(c, a)]
  BY DEF WriteEnd, Set
<1>6. hazard = {} => ~conn'.open /\ conn'.work = {}
  <2> SUFFICES ASSUME hazard = {} PROVE ~conn'.open /\ conn'.work = {}  OBVIOUS
  <2>1. ~conn.open /\ conn.work = {}  BY <1>1 DEF DbInv, Work, WorkOf
  <2> QED  BY <2>1 DEF WriteEnd
<1> QED  BY <1>1, <1>2, <1>4, <1>5, <1>6, Releases

(***************************************************************************)
(* The gate and the replacement of the connection.                         *)
(***************************************************************************)
\* Interrupts and wake-ups move no call on: they mark its statement, or let it
\* look at the gate again.
Marked ==
  /\ call' \in [Call -> Record]
  /\ \A c \in Call :
       /\ call'[c].answer = call[c].answer /\ call'[c].left = call[c].left
       /\ \/ call'[c].pc = call[c].pc
          \/ call[c].pc \in {"parked", "queued"} /\ call'[c].pc = "woken" 

LEMMA Marking ==
  ASSUME TypeOK, NEW pcs
  PROVE  /\ call' = Hit(pcs) => Marked
         /\ pcs \subseteq {"parked", "queued"} /\ call' = Woken(pcs) =>
              Marked /\ \A c \in Call : call'[c].hit = call[c].hit
         /\ UNCHANGED call => Marked /\ \A c \in Call : call'[c].hit = call[c].hit
<1>1. \A c \in Call :
        /\ call[c] \in Record
        /\ [call[c] EXCEPT !.hit = TRUE] \in Record
        /\ [call[c] EXCEPT !.pc = "woken"] \in Record
  BY DEF TypeOK, DbTypeOK, Record, Pc
<1>2. ASSUME call' = Hit(pcs) PROVE Marked
  BY <1>1, <1>2 DEF Hit, Marked, Record
<1>3. ASSUME pcs \subseteq {"parked", "queued"}, call' = Woken(pcs)
      PROVE  Marked /\ \A c \in Call : call'[c].hit = call[c].hit
  BY <1>1, <1>3 DEF Woken, Marked, Record
<1>4. ASSUME UNCHANGED call PROVE Marked /\ \A c \in Call : call'[c].hit = call[c].hit
  BY <1>4 DEF Marked, TypeOK, DbTypeOK
<1> QED  BY <1>2, <1>3, <1>4

LEMMA Marks ==
  ASSUME Marked
  PROVE  /\ Roles => Roles'
         /\ Inflight' = Inflight
         /\ \A c \in Call :
              /\ call'[c].pc = call[c].pc
                 \/ (call[c].pc \notin Claiming /\ call'[c].pc \notin Claiming)
              /\ UNCHANGED conn /\ WorkOf(c) => WorkOf(c)'
              /\ call'[c].hit = call[c].hit /\ Ending(c) => Ending(c)'
<1>1. {"parked", "queued", "woken"} \cap (Claiming \union Running \union OnTx) = {}
      /\ OnTx \subseteq Claiming
  BY DEF Claiming, Running, OnWriter, OnTx
<1>2. ASSUME Roles PROVE Roles'
  <2> DEFINE Role(d) ==
         /\ call[d].pc \in OnTx \union {"begin"} => d \in Tx
         /\ call[d].pc = "write" => d \notin Tx
         /\ call[d].pc \in {"read", "queued"} => d \in Read
         /\ call[d].pc = "done" <=> call[d].answer # "none"
         /\ Counted(d)
  <2> SUFFICES ASSUME NEW d \in Call PROVE Role(d)'  BY DEF Roles
  <2>1. Role(d)  BY <1>2 DEF Roles
  <2>2. CASE call'[d].pc = call[d].pc  BY <2>1, <2>2 DEF Marked, Counted
  <2>3. CASE call[d].pc \in {"parked", "queued"} /\ call'[d].pc = "woken"
    BY <1>1, <2>1, <2>3 DEF Marked, Counted
  <2> QED  BY <2>2, <2>3 DEF Marked
<1>3. Inflight' = Inflight  BY <1>1 DEF Inflight, Marked
<1>4. ASSUME NEW c \in Call
      PROVE  /\ call'[c].pc = call[c].pc
                \/ (call[c].pc \notin Claiming /\ call'[c].pc \notin Claiming)
             /\ UNCHANGED conn /\ WorkOf(c) => WorkOf(c)'
             /\ call'[c].hit = call[c].hit /\ Ending(c) => Ending(c)'
  <2>1. CASE call'[c].pc = call[c].pc  BY <2>1 DEF Marked, WorkOf, Ending
  <2>2. CASE call[c].pc \in {"parked", "queued"} /\ call'[c].pc = "woken"
    BY <1>1, <2>2 DEF WorkOf, Ending
  <2> QED  BY <2>1, <2>2 DEF Marked
<1> QED  BY <1>2, <1>3, <1>4

\* What every gate operation keeps, given how it leaves the lock.
LEMMA GateMoves ==
  ASSUME TypeOK, DbInv, Marked,
         UNCHANGED claims, reset' \in Held <=> reset \in Held,
         reset' \in Held \ {"lock"} => claims # <<>> /\ Head(claims) = Reset
  PROVE  LockOrder' /\ Roles' /\ Inflight' = Inflight
<1>1. Roles' /\ Inflight' = Inflight  BY Marks DEF DbInv
<1>2. \A c \in Call :
        call'[c].pc = call[c].pc \/ (call[c].pc \notin Claiming /\ call'[c].pc \notin Claiming)
  BY Marks
<1>3. LockOrder'  BY <1>2 DEF DbInv, LockOrder
<1> QED  BY <1>1, <1>3

\* Closing the gate starts nothing and ends nothing.
LEMMA SuspendInv ==
  ASSUME TypeOK, Gates, DbInv, mgr = "active", NEW recorded, doSuspend(recorded)
  PROVE  DbInv' /\ Gates'
<1>1. /\ mgr' = "suspending" /\ gate' = "suspending" /\ services' = "paused"
      /\ saw' = {} /\ op' = "drain" /\ UNCHANGED <<drained, hazard>>
      /\ call' = Hit({"read"})
      /\ UNCHANGED <<cutOff, claims, conn, durable, pool, reset>>
  BY DEF doSuspend, suspendDb
<1>2. Marked  BY <1>1, Marking
<1>3. LockOrder' /\ Roles' /\ Inflight' = Inflight
  BY <1>1, <1>2, GateMoves DEF DbInv, LockOrder
<1>4. DbTypeOK'  BY <1>1, <1>2 DEF TypeOK, DbTypeOK, Marked
<1>5. Drained'  BY <1>1 DEF Drained
<1>6. Replaced'  BY <1>1, <1>3 DEF DbInv, Replaced
<1>7. Work'  BY <1>1, <1>2, Marks DEF DbInv, Work
<1>8. Gates'  BY <1>1 DEF Gates
<1> QED  BY <1>3, <1>4, <1>5, <1>6, <1>7, <1>8 DEF DbInv

\* Reopening it finds a transaction that still ends itself, and no replacement
\* that has to settle, unless it is one of the two races that are named.
LEMMA ResumeInv ==
  ASSUME TypeOK, Gates, DbInv, mgr = "suspended", doResume
  PROVE  DbInv' /\ Gates'
<1>1. /\ mgr' = "active" /\ gate' = "active" /\ cutOff' = FALSE /\ services' = "running"
      /\ op' = "over" /\ hazard' = hazard \union Resumed
      /\ call' = Woken({"parked", "queued"})
      /\ UNCHANGED <<claims, conn, durable, pool, reset>>
  BY DEF doResume, resumeDb
<1>2. Marked /\ \A c \in Call : call'[c].hit = call[c].hit
  BY <1>1, Marking
<1>3. LockOrder' /\ Roles' /\ Inflight' = Inflight
  BY <1>1, <1>2, GateMoves DEF DbInv, LockOrder
<1>4. DbTypeOK'  BY <1>1, <1>2 DEF TypeOK, DbTypeOK, Marked
<1>5. Drained'  BY <1>1 DEF Drained
<1>6. hazard' = {} => hazard = {} /\ Resumed = {}  BY <1>1
<1>7. Replaced'
  <2>1. Resumed = {} => reset \notin {"settle", "close"}  BY DEF Resumed
  <2> QED  BY <1>1, <1>6, <2>1 DEF Replaced
<1>8. Work'
  <2>1. hazard' = {} /\ conn.open => \E c \in Tx : Ending(c)
    <3> SUFFICES ASSUME hazard = {}, Resumed = {}, conn.open PROVE \E c \in Tx : Ending(c)
      BY <1>6
    <3>1. PICK c \in Tx : call[c].pc \in Running /\ ~(call[c].pc = "again" /\ call[c].hit)
      BY DEF Resumed
    <3>2. c \in Call /\ c \notin Read  BY CallAssumption DEF Call
    <3>3. call[c].pc \notin {"write", "read"}  BY <3>2 DEF DbInv, Roles
    <3>4. call[c].pc # "begin"  BY <3>2 DEF DbInv, Work, WorkOf
    <3>5. call[c].pc \in OnTx  BY <3>1, <3>3, <3>4 DEF Running, OnWriter, OnTx
    <3> QED  BY <3>1, <3>5 DEF Ending
  <2>2. \A c \in Tx : Ending(c) => Ending(c)'  BY <1>2, Marks DEF Call
  <2>3. \A c \in Call : WorkOf(c) => WorkOf(c)'  BY <1>1, <1>2, Marks
  <2> QED  BY <1>1, <1>6, <2>1, <2>2, <2>3 DEF DbInv, Work
<1>9. Gates'  BY <1>1 DEF Gates
<1> QED  BY <1>3, <1>4, <1>5, <1>7, <1>8, <1>9 DEF DbInv

\* Where the adapter and what it needs of the manager stay as they are.
LEMMA StaysInv ==
  ASSUME DbInv, Gates,
         UNCHANGED <<db, mgr, drained, services, hazard>>,
         \/ UNCHANGED <<op, saw>>
         \/ op \notin {"drain", "end"} /\ op' \notin {"drain", "end"}
  PROVE  DbInv' /\ Gates'
<1>1. UNCHANGED <<gate, cutOff, claims, call, conn, durable, pool, reset>>  BY DEF db
<1>2. DbTypeOK' /\ LockOrder' /\ Replaced' /\ Inflight' = Inflight /\ (Replacing' <=> Replacing)
  BY <1>1 DEF DbInv, DbTypeOK, LockOrder, Replaced, Inflight, Replacing
<1>3. Roles' /\ Work'
  BY <1>1 DEF DbInv, Roles, Counted, Work, WorkOf, Ending
<1>4. Drained'  BY <1>1, <1>2 DEF DbInv, Drained
<1>5. Gates'  BY <1>1 DEF Gates
<1> QED  BY <1>2, <1>3, <1>4, <1>5 DEF DbInv

(***************************************************************************)
(* The queue.                                                              *)
(***************************************************************************)
\* What an operation decides before its first await.
LEMMA RunInv ==
  ASSUME TypeOK, Gates, DbInv, op \in {"none", "over"},
         NEW o \in Operation, NEW recorded, NEW running, Run(o, recorded, running)
  PROVE  /\ DbInv' /\ Gates' /\ QueueTypeOK'
         /\ op' \in {"drain", "over"} /\ UNCHANGED drained
         /\ mgr' = "suspended" => mgr = "suspended"
         /\ o = "resume" => mgr' = "active"
         /\ o = "maybeSuspend" /\ running = {} /\ recorded = "background" => mgr' # "active"
<1>1. mgr \in {"active", "suspended"} /\ op \notin {"drain", "end"} /\ QueueTypeOK
  BY DEF TypeOK, MgrTypeOK, QueueTypeOK, Gates
<1>2. CASE Skip
  <2>1. UNCHANGED <<db, mgr, entered, saw, drained, services, hazard>> /\ op' = "over"
    BY <1>2 DEF Skip
  <2>2. DbInv' /\ Gates'  BY <1>1, <2>1, StaysInv
  <2>3. QueueTypeOK'  BY <1>1, <2>1 DEF QueueTypeOK
  <2>4. /\ o = "resume" => mgr = "active"
        /\ o = "maybeSuspend" /\ running = {} /\ recorded = "background" => mgr # "active"
    <3>1. CASE o = "resume"
      <4>1. doResume  BY <3>1 DEF Run
      <4>2. CASE mgr = "suspended"  BY <2>1, <4>1, <4>2 DEF doResume
      <4> QED  BY <1>1, <3>1, <4>2
    <3>2. CASE o = "maybeSuspend" /\ running = {} /\ recorded = "background"
      <4>1. doSuspend(recorded)  BY <3>2 DEF Run
      <4> QED  BY <2>1, <3>2, <4>1 DEF doSuspend
    <3> QED  BY <3>1, <3>2
  <2> QED  BY <1>1, <2>1, <2>2, <2>3, <2>4
<1>3. CASE ~Skip
  <2>1. \/ o = "resume" /\ mgr = "suspended" /\ doResume
        \/ o # "resume" /\ mgr = "active" /\ doSuspend(recorded)
    BY <1>3 DEF Run, doResume, doSuspend, Operation
  <2>2. CASE o = "resume" /\ mgr = "suspended" /\ doResume
    <3>1. DbInv' /\ Gates'  BY <2>2, ResumeInv
    <3>2. /\ mgr' = "active" /\ services' = "running" /\ op' = "over"
          /\ hazard' = hazard \union Resumed /\ UNCHANGED <<entered, saw, drained>>
      BY <2>2 DEF doResume
    <3>3. Resumed \subseteq {"strayTransaction", "resumedReset"}  BY DEF Resumed
    <3>4. QueueTypeOK'  BY <1>1, <3>2, <3>3 DEF QueueTypeOK
    <3> QED  BY <2>2, <3>1, <3>2, <3>4
  <2>3. CASE o # "resume" /\ mgr = "active" /\ doSuspend(recorded)
    <3>1. DbInv' /\ Gates'  BY <2>3, SuspendInv
    <3>2. /\ mgr' = "suspending" /\ services' = "paused" /\ op' = "drain" /\ saw' = {}
          /\ entered' = (recorded = "background") /\ UNCHANGED <<drained, hazard>>
      BY <2>3 DEF doSuspend
    <3>3. QueueTypeOK'  BY <1>1, <3>2 DEF QueueTypeOK
    <3> QED  BY <2>3, <3>1, <3>2, <3>3
  <2> QED  BY <2>1, <2>2, <2>3
<1> QED  BY <1>2, <1>3

\* The queue runs an operation at once, or keeps it as the only one behind the
\* operation that is running.
LEMMA EnqueueInv ==
  ASSUME TypeOK, Gates, DbInv,
         NEW o \in Operation, NEW recorded, NEW running, enqueue(o, recorded, running)
  PROVE  /\ DbInv' /\ Gates' /\ QueueTypeOK' /\ pending' \in Operation \union {"none"}
         /\ IF op = "none"
            THEN /\ pending' = pending /\ op' # "none" /\ UNCHANGED drained
                 /\ mgr' = "suspended" => mgr = "suspended"
                 /\ o = "resume" => mgr' = "active"
                 /\ o = "maybeSuspend" /\ running = {} /\ recorded = "background" =>
                      mgr' # "active"
            ELSE pending' = o /\ UNCHANGED <<mgr, op, drained>>
<1>1. CASE op = "none"
  <2>1. Run(o, recorded, running) /\ UNCHANGED pending  BY <1>1 DEF enqueue
  <2>2. pending \in Operation \union {"none"}  BY DEF TypeOK, MgrTypeOK
  <2> QED  BY <1>1, <2>1, <2>2, RunInv
<1>2. CASE op # "none"
  <2>1. pending' = o /\ UNCHANGED <<db, mgr, op, entered, saw, drained, services, hazard>>
    BY <1>2 DEF enqueue
  <2>2. DbInv' /\ Gates'  BY <2>1, StaysInv
  <2>3. QueueTypeOK'  BY <2>1 DEF TypeOK, MgrTypeOK, QueueTypeOK
  <2> QED  BY <1>2, <2>1, <2>2, <2>3
<1> QED  BY <1>1, <1>2

LEMMA RunPendingInv ==
  ASSUME Inv, RunPending
  PROVE  Inv'
<1>1. TypeOK /\ Gates /\ DbInv /\ MgrTypeOK /\ QueueTypeOK
  BY DEF Inv, DbInv, TypeOK, MgrTypeOK
<1>2. op = "over" /\ UNCHANGED <<screen, app, tasks, events>>  BY DEF RunPending
<1>3. CASE pending = "none"
  <2>1. op' = "none" /\ UNCHANGED <<db, mgr, pending, entered, saw, drained, services, hazard>>
    BY <1>3 DEF RunPending
  <2>2. DbInv' /\ Gates'  BY <1>1, <1>2, <2>1, StaysInv
  <2>3. MgrTypeOK'  BY <1>1, <1>2, <2>1 DEF MgrTypeOK, QueueTypeOK
  <2>4. Rests'  BY <1>2, <1>3, <2>1 DEF Inv, Rests, Should
  <2> QED  BY <2>2, <2>3, <2>4 DEF Inv, DbInv, TypeOK
<1>4. CASE pending # "none"
  <2>1. pending \in Operation  BY <1>1, <1>4 DEF MgrTypeOK
  <2>2. Run(pending, app, tasks) /\ pending' = "none"  BY <1>4 DEF RunPending
  <2>3. /\ DbInv' /\ Gates' /\ QueueTypeOK' /\ op' # "none" /\ UNCHANGED drained
        /\ mgr' = "suspended" => mgr = "suspended"
        /\ pending = "resume" => mgr' = "active"
        /\ pending = "maybeSuspend" /\ tasks = {} /\ app = "background" => mgr' # "active"
    BY <1>1, <1>2, <2>1, <2>2, RunInv
  <2>4. MgrTypeOK'  BY <1>1, <1>2, <2>2, <2>3 DEF MgrTypeOK
  <2>5. Rests'
    BY <1>2, <2>1, <2>2, <2>3 DEF Inv, Rests, Should, Operation
  <2> QED  BY <2>3, <2>4, <2>5 DEF Inv, DbInv, TypeOK
<1> QED  BY <1>3, <1>4

(***************************************************************************)
(* The drain.                                                              *)
(***************************************************************************)
LEMMA DrainSeesInv ==
  ASSUME Inv, DrainSees
  PROVE  Inv'
<1>1. /\ op = "drain"
      /\ \/ Inflight = {} /\ saw' = saw \union {"idle"}
         \/ ~Replacing /\ saw' = saw \union {"replaced"}
      /\ UNCHANGED <<db, mgr, screen, app, tasks, op, pending, entered, drained, services, events, hazard>>
  BY DEF DrainSees
<1>2. UNCHANGED <<gate, cutOff, claims, call, conn, durable, pool, reset>>  BY <1>1 DEF db
<1>3. DbTypeOK' /\ LockOrder' /\ Replaced' /\ Inflight' = Inflight /\ (Replacing' <=> Replacing)
  BY <1>1, <1>2 DEF Inv, TypeOK, DbTypeOK, LockOrder, Replaced, Inflight, Replacing
<1>4. Roles' /\ Work'
  BY <1>1, <1>2 DEF Inv, Roles, Counted, Work, WorkOf, Ending
<1>5. Drained'  BY <1>1, <1>2, <1>3 DEF Inv, Drained
<1>6. MgrTypeOK'  BY <1>1 DEF Inv, TypeOK, MgrTypeOK, QueueTypeOK
<1>7. Gates' /\ Rests'  BY <1>1, <1>2 DEF Inv, Gates, Rests, Should
<1> QED  BY <1>3, <1>4, <1>5, <1>6, <1>7 DEF Inv, TypeOK

\* A drain ends clean only when one of its ticks saw both the work in flight and
\* the replacement settle, and nothing began since: the gate is closed.
LEMMA DrainEndsInv ==
  ASSUME Inv, op = "drain", NEW how \in {"clean", "late", "returned"}, DrainEnds(how),
         how = "clean" => saw = {"idle", "replaced"}, how = "returned" => app # "background"
  PROVE  Inv'
<1>1. /\ drained' = how
      /\ UNCHANGED <<db, screen, app, tasks, pending, entered, saw, services, events, hazard>>
      /\ \/ how = "clean" /\ op' = "end" /\ mgr' = "suspending"
         \/ (how = "clean" => ~conn.open) /\ op' = "over" /\ mgr' = "suspended"
  BY DEF DrainEnds, Inv, Gates
<1>2. UNCHANGED <<gate, cutOff, claims, call, conn, durable, pool, reset>>  BY <1>1 DEF db
<1>3. DbTypeOK' /\ LockOrder' /\ Replaced' /\ Inflight' = Inflight /\ (Replacing' <=> Replacing)
  BY <1>1, <1>2 DEF Inv, TypeOK, DbTypeOK, LockOrder, Replaced, Inflight, Replacing
<1>4. Roles' /\ Work'
  BY <1>1, <1>2 DEF Inv, Roles, Counted, Work, WorkOf, Ending
<1>5. Drained'
  <2>1. how = "clean" => Inflight = {} /\ ~Replacing  BY DEF Inv, Drained
  <2> QED  BY <1>1, <1>2, <1>3, <2>1 DEF Drained
<1>6. MgrTypeOK'  BY <1>1 DEF Inv, TypeOK, MgrTypeOK, QueueTypeOK
<1>7. mgr = "suspending" /\ app \in {"foreground", "background"}
  BY DEF Inv, Gates, TypeOK, MgrTypeOK
<1>8. Gates'  BY <1>1, <1>2, <1>7 DEF Inv, Gates
<1>9. Rests'  BY <1>1, <1>7 DEF Inv, Rests, Should
<1> QED  BY <1>3, <1>4, <1>5, <1>6, <1>8, <1>9 DEF Inv, TypeOK

LEMMA DrainTickInv ==
  ASSUME Inv, DrainTick
  PROVE  Inv'
<1>1. /\ op = "drain" /\ saw' = {}
      /\ UNCHANGED <<mgr, screen, app, tasks, op, pending, entered, drained, services, events, hazard>>
      /\ UNCHANGED <<gate, claims, conn, durable, pool, reset>>
      /\ cutOff' \in {TRUE, cutOff}
      /\ call' \in {call, Hit(OnWriter \union {"read"})}
  BY DEF DrainTick, interruptDatabase, db
<1>2. mgr = "suspending" /\ gate = "suspending"  BY <1>1 DEF Inv, Gates
<1>3. TypeOK /\ DbInv  BY DEF Inv, DbInv, TypeOK
<1>4. Marked
  <2>1. CASE call' = call  BY <1>3, <2>1, Marking
  <2>2. CASE call' = Hit(OnWriter \union {"read"})  BY <1>3, <2>2, Marking
  <2> QED  BY <1>1, <2>1, <2>2
<1>5. LockOrder' /\ Roles' /\ Inflight' = Inflight
  BY <1>1, <1>3, <1>4, GateMoves DEF DbInv, LockOrder
<1>6. DbTypeOK'  BY <1>1, <1>3, <1>4 DEF TypeOK, DbTypeOK, Marked
<1>7. MgrTypeOK'  BY <1>1, <1>3 DEF TypeOK, MgrTypeOK, QueueTypeOK
<1>8. Drained' /\ Replaced'  BY <1>1, <1>2, <1>3, <1>5 DEF DbInv, Drained, Replaced
<1>9. Work'  BY <1>1, <1>2, <1>3, <1>4, Marks DEF DbInv, Work
<1>10. Gates' /\ Rests'  BY <1>1, <1>2 DEF Inv, Gates, Rests, Should
<1> QED  BY <1>5, <1>6, <1>7, <1>8, <1>9, <1>10 DEF Inv, TypeOK

LEMMA SuspendEndsInv ==
  ASSUME Inv, SuspendEnds
  PROVE  Inv'
<1>1. /\ op = "end" /\ mgr' = "suspended" /\ op' = "over" /\ conn' = Closed
      /\ UNCHANGED <<gate, cutOff, claims, call, durable, pool, reset>>
      /\ UNCHANGED <<screen, app, tasks, pending, entered, saw, drained, services, events, hazard>>
  BY DEF SuspendEnds, endOpenTransaction
<1>2. mgr = "suspending" /\ drained = "clean" /\ Inflight = {} /\ ~Replacing
  BY <1>1 DEF Inv, Gates, Drained
<1>3. DbTypeOK' /\ LockOrder' /\ Replaced' /\ Inflight' = Inflight /\ (Replacing' <=> Replacing)
  BY <1>1, ClosedHoldsNothing DEF Inv, TypeOK, DbTypeOK, LockOrder, Replaced, Inflight, Replacing
<1>4. Roles'  BY <1>1 DEF Inv, Roles, Counted
<1>5. Drained'  BY <1>1, <1>2, <1>3, ClosedHoldsNothing DEF Drained
<1>6. Work'
  <2>1. \A c \in Call : call'[c].pc \notin OnTx
    BY <1>1, <1>2 DEF Inflight, Running, OnWriter, OnTx
  <2>2. \A c \in Call : WorkOf(c)'
    BY <1>1, <2>1, ClosedHoldsNothing DEF WorkOf, OnTx
  <2> QED  BY <1>1, <2>2, ClosedHoldsNothing DEF Work
<1>7. MgrTypeOK'  BY <1>1 DEF Inv, TypeOK, MgrTypeOK, QueueTypeOK
<1>8. Gates' /\ Rests'  BY <1>1, <1>2 DEF Inv, Gates, Rests, Should
<1> QED  BY <1>3, <1>4, <1>5, <1>6, <1>7, <1>8 DEF Inv, TypeOK

LEMMA DrainInv ==
  ASSUME Inv, Drain \/ SuspendEnds
  PROVE  Inv'
<1>1. CASE DrainSees  BY <1>1, DrainSeesInv
<1>2. CASE DrainIdle  BY <1>2, DrainEndsInv DEF DrainIdle
<1>3. CASE DrainLate  BY <1>3, DrainEndsInv DEF DrainLate
<1>4. CASE DrainReturns  BY <1>4, DrainEndsInv DEF DrainReturns
<1>5. CASE DrainTick  BY <1>5, DrainTickInv
<1>6. CASE SuspendEnds  BY <1>6, SuspendEndsInv
<1> QED  BY <1>1, <1>2, <1>3, <1>4, <1>5, <1>6 DEF Drain

(***************************************************************************)
(* Platform events.                                                        *)
(***************************************************************************)
LEMMA NoOperationInv ==
  ASSUME TypeOK, Gates, DbInv, NoOperation
  PROVE  DbInv' /\ Gates' /\ QueueTypeOK' /\ pending' \in Operation \union {"none"}
<1>1. UNCHANGED <<db, mgr, op, pending, entered, saw, drained, services, hazard>>
  BY DEF NoOperation
<1>2. DbInv' /\ Gates'  BY <1>1, StaysInv
<1> QED  BY <1>1, <1>2 DEF TypeOK, MgrTypeOK, QueueTypeOK

LEMMA PlatformInv ==
  ASSUME Inv, Platform
  PROVE  Inv'
<1>1. TypeOK /\ Gates /\ DbInv /\ MgrTypeOK  BY DEF Inv, DbInv, TypeOK
<1>2. SUFFICES /\ DbInv' /\ Gates' /\ QueueTypeOK' /\ pending' \in Operation \union {"none"}
               /\ screen' \in {"foreground", "background"} /\ app' \in {"foreground", "background"}
               /\ tasks' \subseteq Task /\ Rests'
  <2>1. Event  BY DEF Platform, Background, Foreground, ServiceStop, registerBackgroundTask,
                      releaseBackgroundTask
  <2>2. events' \in 0 .. MaxEvents
    BY <1>1, <2>1, EventsAssumption DEF Event, MgrTypeOK
  <2> QED  BY <1>2, <2>2 DEF Inv, DbInv, TypeOK, MgrTypeOK
<1>3. CASE Background
  <2>1. /\ op # "over" /\ screen' = "background" /\ UNCHANGED tasks
        /\ app' \in {"foreground", "background"}
    BY <1>1, <1>3 DEF Background, Turn, MgrTypeOK
  <2>2. CASE Ios /\ tasks = {}
    <3>1. app' = "background" /\ enqueue("maybeSuspend", app', tasks)
      BY <1>3, <2>2 DEF Background
    <3>2. "maybeSuspend" \in Operation  BY DEF Operation
    <3>3. /\ DbInv' /\ Gates' /\ QueueTypeOK' /\ pending' \in Operation \union {"none"}
          /\ IF op = "none"
             THEN /\ pending' = pending /\ op' # "none" /\ UNCHANGED drained
                  /\ mgr' = "suspended" => mgr = "suspended"
                  /\ mgr' # "active"
             ELSE pending' = "maybeSuspend" /\ UNCHANGED <<mgr, op, drained>>
      BY <1>1, <2>2, <3>1, <3>2, EnqueueInv
    <3>4. Rests'  BY <2>1, <2>2, <3>1, <3>3 DEF Inv, Rests, Should
    <3> QED  BY <1>1, <2>1, <3>3, <3>4 DEF MgrTypeOK
  <2>3. CASE ~(Ios /\ tasks = {})
    <3>1. NoOperation  BY <1>3, <2>3 DEF Background
    <3>2. DbInv' /\ Gates' /\ QueueTypeOK' /\ pending' \in Operation \union {"none"}
      BY <1>1, <3>1, NoOperationInv
    <3>3. Rests'  BY <2>1, <2>3, <3>1 DEF Inv, Rests, Should, NoOperation
    <3> QED  BY <1>1, <2>1, <3>2, <3>3 DEF MgrTypeOK
  <2> QED  BY <2>2, <2>3
<1>4. ASSUME enqueue("resume", app', tasks'), app' \in {"foreground", "background"},
             tasks' \subseteq Task, ~Should', app' \in {app, "foreground"},
             screen' \in {"foreground", "background"}
      PROVE  /\ DbInv' /\ Gates' /\ QueueTypeOK' /\ pending' \in Operation \union {"none"}
             /\ screen' \in {"foreground", "background"} /\ app' \in {"foreground", "background"}
             /\ tasks' \subseteq Task /\ Rests'
  <2>1. "resume" \in Operation  BY DEF Operation
  <2>2. /\ DbInv' /\ Gates' /\ QueueTypeOK' /\ pending' \in Operation \union {"none"}
        /\ IF op = "none"
           THEN /\ pending' = pending /\ op' # "none" /\ mgr' = "active"
           ELSE pending' = "resume" /\ UNCHANGED <<mgr, op, drained>>
    BY <1>1, <1>4, <2>1, EnqueueInv
  <2>3. Rests'  BY <1>4, <2>2 DEF Inv, Rests, Should
  <2> QED  BY <1>4, <2>2, <2>3
<1>5. CASE Foreground
  BY <1>1, <1>4, <1>5 DEF Foreground, Should, MgrTypeOK
<1>6. ASSUME NEW t \in Task, registerBackgroundTask(t)
      PROVE  /\ DbInv' /\ Gates' /\ QueueTypeOK' /\ pending' \in Operation \union {"none"}
             /\ screen' \in {"foreground", "background"} /\ app' \in {"foreground", "background"}
             /\ tasks' \subseteq Task /\ Rests'
  <2>1. /\ tasks' = tasks \union {t} /\ UNCHANGED <<screen, app>>
        /\ enqueue("resume", app', tasks')
    BY <1>6 DEF registerBackgroundTask
  <2> QED  BY <1>1, <1>4, <2>1 DEF Should, MgrTypeOK
<1>7. ASSUME NEW t \in Task, releaseBackgroundTask(t)
      PROVE  /\ DbInv' /\ Gates' /\ QueueTypeOK' /\ pending' \in Operation \union {"none"}
             /\ screen' \in {"foreground", "background"} /\ app' \in {"foreground", "background"}
             /\ tasks' \subseteq Task /\ Rests'
  <2>1. t \in tasks /\ tasks' = tasks \ {t} /\ UNCHANGED <<screen, app>>
    BY <1>7 DEF releaseBackgroundTask
  <2>2. CASE tasks' = {} /\ app = "background"
    <3>1. enqueue("maybeSuspend", app, tasks')  BY <1>7, <2>2 DEF releaseBackgroundTask
    <3>2. "maybeSuspend" \in Operation  BY DEF Operation
    <3>3. /\ DbInv' /\ Gates' /\ QueueTypeOK' /\ pending' \in Operation \union {"none"}
          /\ IF op = "none"
             THEN /\ pending' = pending /\ op' # "none" /\ UNCHANGED drained
                  /\ mgr' = "suspended" => mgr = "suspended"
                  /\ mgr' # "active"
             ELSE pending' = "maybeSuspend" /\ UNCHANGED <<mgr, op, drained>>
      BY <1>1, <2>2, <3>1, <3>2, EnqueueInv
    <3>4. Rests'  BY <2>1, <2>2, <3>3 DEF Inv, Rests, Should
    <3> QED  BY <1>1, <2>1, <3>3, <3>4 DEF MgrTypeOK
  <2>3. CASE ~(tasks' = {} /\ app = "background")
    <3>1. NoOperation  BY <1>7, <2>3 DEF releaseBackgroundTask
    <3>2. DbInv' /\ Gates' /\ QueueTypeOK' /\ pending' \in Operation \union {"none"}
      BY <1>1, <3>1, NoOperationInv
    <3>3. Rests'  BY <2>1, <2>3, <3>1 DEF Inv, Rests, Should, NoOperation
    <3> QED  BY <1>1, <2>1, <3>2, <3>3 DEF MgrTypeOK
  <2> QED  BY <2>2, <2>3
<1>8. CASE ServiceStop
  <2>1. ~Ios /\ enqueue("suspendUnlessBusy", app, tasks) /\ UNCHANGED <<screen, app, tasks>>
    BY <1>8 DEF ServiceStop
  <2>2. "suspendUnlessBusy" \in Operation  BY DEF Operation
  <2>3. DbInv' /\ Gates' /\ QueueTypeOK' /\ pending' \in Operation \union {"none"}
    BY <1>1, <2>1, <2>2, EnqueueInv
  <2> QED  BY <1>1, <2>1, <2>3 DEF Rests, MgrTypeOK
<1> QED  BY <1>3, <1>5, <1>6, <1>7, <1>8 DEF Platform

(***************************************************************************)
(* The replacement of the connection.                                      *)
(***************************************************************************)
LEMMA UserResetInv ==
  ASSUME TypeOK, Gates, DbInv, UserReset
  PROVE  DbInv' /\ Gates'
<1>1. /\ gate = "active" /\ reset = "none" /\ reset' = "lock" /\ gate' = "closed"
      /\ claims' = Append(claims, Reset)
      /\ UNCHANGED <<cutOff, call, conn, durable, pool>>
      /\ UNCHANGED <<mgr, op, saw, drained, services, hazard>>
  BY DEF UserReset, resetDb, manager
<1>2. mgr = "active" /\ ~cutOff  BY <1>1 DEF Gates, TypeOK, DbTypeOK
<1>3. /\ claims \in Seq(Call \union {Reset}) /\ Reset \in Call \union {Reset}
      /\ Once(claims) /\ ~Holds(claims, Reset)
  BY <1>1 DEF TypeOK, DbTypeOK, DbInv, LockOrder, Held
<1>4. /\ claims' \in Seq(Call \union {Reset}) /\ Once(claims') /\ claims' # <<>>
      /\ \A y : Holds(claims', y) <=> Holds(claims, y) \/ y = Reset
      /\ Head(claims') = IF claims = <<>> THEN Reset ELSE Head(claims)
  BY <1>1, <1>3, Joins
<1>5. LockOrder'
  BY <1>1, <1>4, CallAssumption DEF DbInv, LockOrder, Held
<1>6. DbTypeOK'  BY <1>1, <1>4 DEF TypeOK, DbTypeOK, Held
<1>7. Roles' /\ Replaced' /\ Drained' /\ Gates'
  BY <1>1, <1>2 DEF DbInv, Roles, Counted, Replaced, Drained, Gates
<1>8. Work'  BY <1>1 DEF DbInv, Work, WorkOf, Ending
<1> QED  BY <1>5, <1>6, <1>7, <1>8 DEF DbInv

LEMMA ResetLockedInv ==
  ASSUME TypeOK, Gates, DbInv, ResetLocked, UNCHANGED <<manager, hazard>>
  PROVE  DbInv' /\ Gates'
<1>1. /\ reset = "lock" /\ Head(claims) = Reset /\ reset' = "settle"
      /\ gate' = IF gate = "active" THEN "closed" ELSE gate
      /\ UNCHANGED <<cutOff, claims, call, conn, durable, pool>>
      /\ UNCHANGED <<mgr, op, saw, drained, services, hazard>>
  BY DEF ResetLocked, manager
<1>2. claims # <<>>  BY <1>1 DEF DbInv, LockOrder, Holds, Held
<1>3. Marked  BY <1>1, Marking
<1>4. LockOrder' /\ Roles' /\ Inflight' = Inflight
  BY <1>1, <1>2, <1>3, GateMoves DEF Held
<1>5. DbTypeOK'  BY <1>1 DEF TypeOK, DbTypeOK, Held
<1>6. Drained' /\ Replaced' /\ Gates'
  BY <1>1, <1>4 DEF DbInv, Drained, Replacing, Replaced, Gates, TypeOK, DbTypeOK
<1>7. Work'  BY <1>1 DEF DbInv, Work, WorkOf, Ending
<1> QED  BY <1>4, <1>5, <1>6, <1>7 DEF DbInv

LEMMA ResetSettledInv ==
  ASSUME TypeOK, Gates, DbInv, ResetSettled, UNCHANGED <<manager, hazard>>
  PROVE  DbInv' /\ Gates'
<1>1. /\ reset = "settle" /\ Inflight = {} /\ reset' = "close"
      /\ UNCHANGED <<gate, cutOff, claims, call, conn, durable, pool>>
      /\ UNCHANGED <<mgr, op, saw, drained, services, hazard>>
  BY DEF ResetSettled, manager
<1>2. Marked /\ claims # <<>> /\ Head(claims) = Reset
  BY <1>1, Marking DEF DbInv, LockOrder, Held
<1>3. LockOrder' /\ Roles' /\ Inflight' = Inflight
  BY <1>1, <1>2, GateMoves DEF Held
<1>4. DbTypeOK'  BY <1>1 DEF TypeOK, DbTypeOK, Held
<1>5. Drained' /\ Replaced' /\ Gates'
  BY <1>1, <1>3 DEF DbInv, Drained, Replacing, Replaced, Gates
<1>6. Work'  BY <1>1 DEF DbInv, Work, WorkOf, Ending
<1> QED  BY <1>3, <1>4, <1>5, <1>6 DEF DbInv

LEMMA ResetCloseInv ==
  ASSUME TypeOK, Gates, DbInv, ResetClose, UNCHANGED <<manager, hazard>>
  PROVE  DbInv' /\ Gates'
<1>1. /\ reset = "close" /\ reset' = "open" /\ pool' = FALSE /\ conn' = Closed
      /\ call' = Woken({"queued"})
      /\ UNCHANGED <<gate, cutOff, claims, durable>>
      /\ UNCHANGED <<mgr, op, saw, drained, services, hazard>>
  BY DEF ResetClose, manager
<1>2. Marked /\ claims # <<>> /\ Head(claims) = Reset
  BY <1>1, Marking DEF DbInv, LockOrder, Held
<1>3. LockOrder' /\ Roles' /\ Inflight' = Inflight
  BY <1>1, <1>2, GateMoves DEF Held
<1>4. DbTypeOK'  BY <1>1, <1>2, ClosedHoldsNothing DEF TypeOK, DbTypeOK, Held, Marked
<1>5. Drained' /\ Replaced' /\ Gates'
  BY <1>1, <1>3, ClosedHoldsNothing DEF DbInv, Drained, Replacing, Replaced, Gates
<1>6. Work'
  <2>1. hazard = {} => Inflight' = {}  BY <1>1, <1>3 DEF DbInv, Replaced
  <2>2. \A c \in Call : call'[c].pc \in OnTx => c \in Inflight'
    BY DEF Inflight, Running, OnWriter, OnTx
  <2>3. hazard = {} => \A c \in Call : WorkOf(c)'
    BY <1>1, <2>1, <2>2, ClosedHoldsNothing DEF WorkOf, OnTx
  <2> QED  BY <1>1, <2>3, ClosedHoldsNothing DEF Work
<1> QED  BY <1>3, <1>4, <1>5, <1>6 DEF DbInv

LEMMA ResetReopenInv ==
  ASSUME TypeOK, Gates, DbInv, ResetReopen, UNCHANGED <<manager, hazard>>
  PROVE  DbInv' /\ Gates'
<1>1. /\ reset = "open" /\ reset' = "done" /\ pool' = (Readers > 0) /\ claims' = Tail(claims)
      /\ \/ gate = "closed" /\ gate' = "active" /\ cutOff' = FALSE
         \/ gate # "closed" /\ UNCHANGED <<gate, cutOff>>
      /\ call' \in {Woken({"parked", "queued"}), Woken({"queued"})}
      /\ UNCHANGED <<conn, durable>>
      /\ UNCHANGED <<mgr, op, saw, drained, services, hazard>>
  BY DEF ResetReopen, manager
<1>2. claims # <<>> /\ Head(claims) = Reset /\ Once(claims)
      /\ claims \in Seq(Call \union {Reset})
  BY <1>1 DEF DbInv, LockOrder, Held, TypeOK, DbTypeOK
<1>3. Marked /\ \A c \in Call : call'[c].hit = call[c].hit
  <2>1. CASE call' = Woken({"parked", "queued"})  BY <2>1, Marking
  <2>2. CASE call' = Woken({"queued"})  BY <2>2, Marking
  <2> QED  BY <1>1, <2>1, <2>2
<1>4. Roles' /\ Inflight' = Inflight  BY <1>3, Marks DEF DbInv
<1>5. /\ claims' \in Seq(Call \union {Reset}) /\ Once(claims')
      /\ \A y : Holds(claims', y) <=> Holds(claims, y) /\ y # Reset
  BY <1>1, <1>2, Leaves
<1>6. LockOrder'
  <2>1. \A c \in Call :
          call'[c].pc = call[c].pc \/ (call[c].pc \notin Claiming /\ call'[c].pc \notin Claiming)
    BY <1>3, Marks
  <2>2. \A c \in Call : call'[c].pc \notin Claiming \ {"locking"}
    BY <1>2, <2>1, CallAssumption DEF DbInv, LockOrder
  <2>3. \A c \in Call : Holds(claims', c) <=> call'[c].pc \in Claiming
    BY <1>5, <2>1, CallAssumption DEF DbInv, LockOrder
  <2>4. reset' \notin Held /\ ~Holds(claims', Reset)  BY <1>1, <1>5 DEF Held
  <2> QED  BY <1>5, <2>2, <2>3, <2>4 DEF LockOrder
<1>7. DbTypeOK'
  <2>1. pool' \in BOOLEAN /\ call' \in [Call -> Record]  BY <1>1, <1>3 DEF Marked
  <2> QED  BY <1>1, <1>5, <2>1 DEF TypeOK, DbTypeOK
<1>8. Gates'  BY <1>1 DEF Gates
<1>9. Drained' /\ Replaced'
  BY <1>1, <1>4 DEF DbInv, Drained, Replacing, Replaced
<1>10. Work'
  <2>1. \A c \in Call : (WorkOf(c) => WorkOf(c)') /\ (Ending(c) => Ending(c)')
    BY <1>1, <1>3, Marks
  <2> QED  BY <1>1, <2>1 DEF DbInv, Work, Call
<1> QED  BY <1>4, <1>6, <1>7, <1>8, <1>9, <1>10 DEF DbInv

(***************************************************************************)
(* Every step.                                                             *)
(***************************************************************************)
\* Steps of the adapter alone leave the manager as it is.
LEMMA AdapterInv ==
  ASSUME Inv, DbInv', UNCHANGED <<manager, hazard>>, Gates'
  PROVE  Inv'
<1>1. UNCHANGED <<mgr, screen, app, tasks, op, pending, entered, saw, drained, services, events, hazard>>
  BY DEF manager
<1>2. MgrTypeOK'  BY <1>1 DEF Inv, TypeOK, MgrTypeOK, QueueTypeOK
<1>3. Rests'  BY <1>1 DEF Inv, Rests, Should
<1> QED  BY <1>2, <1>3 DEF Inv, DbInv, TypeOK

LEMMA CallInv ==
  ASSUME Inv, NEW c \in Call,
         DbStep(Start(c)) \/ DbStep(Turn /\ GiveUp(c)) \/ CallStep(c)
  PROVE  Inv'
<1>1. TypeOK /\ Gates /\ DbInv  BY DEF Inv, DbInv, TypeOK
<1>2. UNCHANGED <<manager, hazard>> /\ UNCHANGED <<gate, cutOff>>
  BY DEF DbStep, CallStep, Start, GiveUp, Retry, Granted, Body, NativeEnd,
         WriteEnd, BeginEnd, StmtEnd, CommitEnd, RollbackEnd, ReadEnd
<1>3. Gates'  BY <1>1, <1>2 DEF Gates, manager
<1>4. ASSUME Start(c) \/ Retry(c) \/ GiveUp(c) \/ Granted(c) PROVE DbInv'
  BY <1>1, <1>2, <1>4, EnteringInv
<1>5. ASSUME Body(c) PROVE DbInv'
  BY <1>1, <1>2, <1>5, BodyInv
<1>6. ASSUME WriteEnd(c) PROVE DbInv'
  BY <1>1, <1>2, <1>6, WriteEndInv
<1>7. ASSUME BeginEnd(c) PROVE DbInv'
  BY <1>1, <1>2, <1>7, BeginEndInv
<1>8. ASSUME StmtEnd(c) PROVE DbInv'
  BY <1>1, <1>2, <1>8, StmtEndInv
<1>9. ASSUME CommitEnd(c) PROVE DbInv'
  BY <1>1, <1>2, <1>9, CommitEndInv
<1>10. ASSUME RollbackEnd(c) PROVE DbInv'
  BY <1>1, <1>2, <1>10, RollbackEndInv
<1>11. ASSUME ReadEnd(c) PROVE DbInv'
  BY <1>1, <1>2, <1>11, ReadEndInv
<1>12. DbInv'
  BY <1>4, <1>5, <1>6, <1>7, <1>8, <1>9, <1>10, <1>11 DEF DbStep, CallStep, NativeEnd
<1> QED  BY <1>2, <1>3, <1>12, AdapterInv

LEMMA ResetInv ==
  ASSUME Inv, UserReset \/ ResetStep
  PROVE  Inv'
<1>1. TypeOK /\ Gates /\ DbInv  BY DEF Inv, DbInv, TypeOK
<1>2. UNCHANGED <<manager, hazard>>  BY DEF UserReset, ResetStep, DbStep
<1>3. CASE UserReset  BY <1>1, <1>2, <1>3, UserResetInv, AdapterInv
<1>4. CASE ResetLocked  BY <1>1, <1>2, <1>4, ResetLockedInv, AdapterInv
<1>5. CASE ResetSettled  BY <1>1, <1>2, <1>5, ResetSettledInv, AdapterInv
<1>6. CASE ResetClose  BY <1>1, <1>2, <1>6, ResetCloseInv, AdapterInv
<1>7. CASE ResetReopen  BY <1>1, <1>2, <1>7, ResetReopenInv, AdapterInv
<1> QED  BY <1>3, <1>4, <1>5, <1>6, <1>7 DEF ResetStep, DbStep

LEMMA StutterInv ==
  ASSUME Inv, UNCHANGED vars
  PROVE  Inv'
<1>1. UNCHANGED <<db, manager, hazard>>  BY DEF vars
<1>2. UNCHANGED <<mgr, op, saw, drained, services, hazard>>  BY <1>1 DEF manager
<1>3. DbInv' /\ Gates'  BY <1>1, <1>2, StaysInv DEF Inv, DbInv, TypeOK
<1> QED  BY <1>1, <1>3, AdapterInv

LEMMA InitInv == Init => Inv
<1> SUFFICES ASSUME Init PROVE Inv  OBVIOUS
<1> USE DEF Init, DbInit
<1>1. Idle \in Record /\ Idle.pc = "new" /\ Idle.answer = "none"
  BY SizeAssumption DEF Idle, Record, Pc
<1>2. call \in [Call -> Record] /\ \A c \in Call : call[c] = Idle  BY <1>1
<1>3. DbTypeOK
  <2>1. claims \in Seq(Call \union {Reset}) /\ pool \in BOOLEAN  OBVIOUS
  <2>2. conn \in [open : BOOLEAN, work : SUBSET (Call \X (1 .. TxSize))]
    BY ClosedHoldsNothing
  <2> QED  BY <1>2, <2>1, <2>2 DEF DbTypeOK
<1>4. MgrTypeOK
  <2>1. QueueTypeOK  BY ZenonT(60) DEF QueueTypeOK
  <2>2. events \in 0 .. MaxEvents  BY EventsAssumption
  <2> QED  BY <2>1, <2>2 DEF MgrTypeOK
<1>5. LockOrder  BY <1>1, <1>2 DEF LockOrder, Once, Holds, Claiming, OnWriter, Held
<1>6. Roles  BY <1>1, <1>2 DEF Roles, Counted, OnTx
<1>7. Gates /\ Drained /\ Replaced  BY DEF Gates, Drained, Replaced
<1>8. Work  BY <1>1, <1>2, ClosedHoldsNothing DEF Work, WorkOf, OnTx
<1>9. Rests  BY DEF Rests, Should
<1> QED  BY <1>3, <1>4, <1>5, <1>6, <1>7, <1>8, <1>9 DEF Inv, TypeOK

LEMMA NextInv == Inv /\ [Next]_vars => Inv'
<1> SUFFICES ASSUME Inv, [Next]_vars PROVE Inv'  OBVIOUS
<1>1. CASE Platform  BY <1>1, PlatformInv
<1>2. CASE UserReset \/ ResetStep  BY <1>2, ResetInv
<1>3. CASE RunPending  BY <1>3, RunPendingInv
<1>4. CASE Drain \/ SuspendEnds  BY <1>4, DrainInv
<1>5. CASE \E c \in Call : DbStep(Start(c)) \/ DbStep(Turn /\ GiveUp(c)) \/ CallStep(c)
  BY <1>5, CallInv
<1>6. CASE UNCHANGED vars  BY <1>6, StutterInv
<1> QED  BY <1>1, <1>2, <1>3, <1>4, <1>5, <1>6 DEF Next

LEMMA SpecInv == Spec => []Inv
BY InitInv, NextInv, PTL DEF Spec

(***************************************************************************)
(* What the invariant says.                                                *)
(***************************************************************************)
\* Every variable stays in its type, whatever the number of calls, of readers,
\* of statements in a transaction and of platform events.
THEOREM SuspensionTypeCorrect == Spec => []TypeOK
<1>1. Inv => TypeOK  BY DEF Inv
<1> QED  BY <1>1, SpecInv, PTL

\* Only the holder of the writer lock has a statement or a transaction body on
\* the writer, and the transaction open there is its own (withWriter,
\* runTransaction), as long as neither of the named races has happened.
THEOREM OneWriter == Spec => []WriterIsExclusive
<1>1. Inv => WriterIsExclusive
  <2> SUFFICES ASSUME Inv, hazard = {}, NEW c \in Call, call[c].pc \in OnWriter \union {"body"}
               PROVE  /\ claims # <<>> /\ Head(claims) = c
                      /\ conn.work \subseteq {c} \X (1 .. TxSize)
    BY DEF WriterIsExclusive
  <2>1. claims # <<>> /\ Head(claims) = c
    BY DEF Inv, LockOrder, Claiming, OnWriter
  <2>2. WorkOf(c) /\ (~conn.open => conn.work = {})  BY DEF Inv, Work
  <2>3. conn.work \subseteq {c} \X (1 .. TxSize)
    <3>1. CASE call[c].pc \in {"write", "begin"}  BY <2>2, <3>1 DEF WorkOf
    <3>2. CASE call[c].pc \in OnTx  BY <2>2, <3>2 DEF WorkOf
    <3> QED  BY <3>1, <3>2 DEF OnWriter, OnTx
  <2> QED  BY <2>1, <2>3
<1> QED  BY <1>1, SpecInv, PTL

\* After a clean drain nothing runs on the database until a resume, so that iOS
\* may freeze the process (doSuspend, waitForIdle, endOpenTransaction), and the
\* reset of the app's data closes no connection under a running statement.
THEOREM CleanDrainIsQuiet == Spec => []FrozenIsQuiet
<1>1. Inv => FrozenIsQuiet
  BY DEF Inv, Drained, Replaced, Replacing, FrozenIsQuiet
<1> QED  BY <1>1, SpecInv, PTL

\* On iOS the coalescing queue loses no operation that was needed: once it is
\* empty, the manager, the gate and the services are where the app's state and
\* the registered background tasks say.
THEOREM QueueRestsRight == Ios => (Spec => []RestsRight)
<1>1. Inv /\ Ios => RestsRight
  BY DEF Inv, Gates, Rests, Should, RestsRight, TypeOK, MgrTypeOK, QueueTypeOK
<1> SUFFICES ASSUME Ios PROVE Spec => []RestsRight  OBVIOUS
<1>2. Inv => RestsRight  BY <1>1
<1> QED  BY <1>2, SpecInv, PTL

(***************************************************************************)
(* The adapter implements AtomicStore.                                     *)
(***************************************************************************)
\* A step no caller hears of, and one that tells a caller.
LEMMA Silent ==
  ASSUME UNCHANGED durable, \A c \in Call : call'[c].answer = call[c].answer
  PROVE  UNCHANGED Store!vars
BY DEF Store!vars

LEMMA Told ==
  ASSUME NEW c \in Call, call[c].answer = "none", NEW a \in {"ok", "refused"},
         call'[c].answer = a, \A d \in Call \ {c} : call'[d].answer = call[d].answer,
         durable' = IF a = "ok" THEN durable \union ({c} \X (1 .. Size[c])) ELSE durable
  PROVE  Store!Next
<1> DEFINE told == [d \in Call |-> call[d].answer]
<1>1. told' = [told EXCEPT ![c] = a] /\ told[c] = "none"  OBVIOUS
<1>2. CASE a = "ok"
  <2>1. Store!Commit(c)  BY <1>1, <1>2 DEF Store!Commit, Store!Writes
  <2> QED  BY <2>1 DEF Store!Next
<1>3. CASE a = "refused"
  <2>1. Store!Refuse(c)  BY <1>1, <1>3 DEF Store!Refuse
  <2> QED  BY <2>1 DEF Store!Next
<1> QED  BY <1>2, <1>3

\* On its way to its first statement a call is refused or hears nothing; a read
\* that is told ok writes nothing.
LEMMA EnteredRefines ==
  ASSUME Inv, NEW c \in Call, NEW r \in Record, Entered(c, r), call'[c] = r,
         \A d \in Call \ {c} : call'[d].answer = call[d].answer, UNCHANGED durable
  PROVE  [Store!Next]_Store!vars
<1>1. call[c].pc # "done" /\ call[c].answer = "none"
  <2>1. call[c].pc # "done"  BY DEF Entered
  <2>2. call[c] \in Record  BY DEF Inv, TypeOK, DbTypeOK
  <2> QED  BY <2>1, <2>2 DEF Inv, Roles
<1>2. CASE r.pc # "done"
  <2>1. r.answer = call[c].answer  BY <1>2 DEF Entered
  <2> QED  BY <2>1, Silent
<1>3. CASE r.pc = "done" /\ r.answer = "refused"  BY <1>1, <1>3, Told
<1>4. CASE r.pc = "done" /\ r.answer = "ok" /\ c \in Read
  <2>1. Size[c] = 0  BY <1>4, CallAssumption DEF Size, Call
  <2>2. {c} \X (1 .. Size[c]) = {}  BY <2>1
  <2> QED  BY <1>1, <1>4, <2>2, Told
<1> QED  BY <1>2, <1>3, <1>4 DEF Entered

LEMMA EnteringRefines ==
  ASSUME Inv, NEW c \in Call,
         Start(c) \/ Retry(c) \/ GiveUp(c) \/ Granted(c) \/ ReadEnd(c)
  PROVE  [Store!Next]_Store!vars
<1>1. TypeOK /\ Roles /\ call \in [Call -> Record]  BY DEF Inv, TypeOK, DbTypeOK
<1>2. CASE Start(c) \/ Retry(c) \/ GiveUp(c) \/ Granted(c)
  <2>1. PICK r \in Record : Entered(c, r) /\ call' = [call EXCEPT ![c] = r]
    BY <1>1, <1>2, Entering
  <2>2. UNCHANGED durable  BY <1>1, <1>2, Entering
  <2>3. call'[c] = r /\ \A d \in Call \ {c} : call'[d].answer = call[d].answer  BY <1>1, <2>1
  <2> QED  BY <2>1, <2>2, <2>3, EnteredRefines
<1>3. CASE ReadEnd(c)
  <2>1. PICK r \in Record :
          /\ Entered(c, r) /\ call'[c] = r
          /\ \A d \in Call \ {c} : call'[d].answer = call[d].answer
    BY <1>1, <1>3, ReadEnding
  <2>2. UNCHANGED durable  BY <1>3 DEF ReadEnd
  <2> QED  BY <2>1, <2>2, EnteredRefines
<1> QED  BY <1>2, <1>3

\* The end of a statement or of a transaction on the writer.  What a COMMIT keeps
\* is exactly what the transaction wrote.
LEMMA WriterRefines ==
  ASSUME Inv, hazard = {}, NEW c \in Call,
         Body(c) \/ WriteEnd(c) \/ BeginEnd(c) \/ StmtEnd(c) \/ CommitEnd(c) \/ RollbackEnd(c)
  PROVE  [Store!Next]_Store!vars
<1>1. call \in [Call -> Record] /\ TypeOK  BY DEF Inv, TypeOK, DbTypeOK
<1>2. call[c].pc \in {"body", "write", "begin", "stmt", "commit", "rollback", "again"}
  BY DEF Body, WriteEnd, BeginEnd, StmtEnd, CommitEnd, RollbackEnd
<1>3. call[c].answer = "none"
  <2>1. call[c].pc # "done"  BY <1>2
  <2> QED  BY <1>1, <2>1 DEF Inv, Roles, Record
<1>4. ASSUME NEW r, r.answer = call[c].answer, Set(c, r), UNCHANGED durable
      PROVE  UNCHANGED Store!vars
  BY <1>1, <1>4, Silent DEF Set
<1>5. ASSUME NEW a \in {"ok", "refused"}, Set(c, Done(c, a)),
             durable' = IF a = "ok" THEN durable \union ({c} \X (1 .. Size[c])) ELSE durable
      PROVE  Store!Next
  <2>1. Done(c, a).answer = a  BY <1>1, Records
  <2>2. call'[c].answer = a /\ \A d \in Call \ {c} : call'[d].answer = call[d].answer
    BY <1>1, <1>5, <2>1 DEF Set
  <2> QED  BY <1>3, <1>5, <2>2, Told
<1>6. \A pc \in Pc : At(c, pc).answer = call[c].answer /\ At(c, pc) \in Record  BY <1>1, Records
<1>7. {"body", "stmt", "commit", "rollback", "again"} \subseteq Pc  BY DEF Pc, Running, OnWriter
<1>8. CASE Body(c)
  <2>1. PICK pc \in {"commit", "rollback", "stmt"} : Set(c, At(c, pc))  BY <1>8 DEF Body
  <2> QED  BY <1>4, <1>6, <1>7, <1>8, <2>1 DEF Body
<1>9. CASE WriteEnd(c)
  <2>1. ~conn.open  BY <1>9 DEF Inv, Work, WorkOf, WriteEnd
  <2>2. \/ Set(c, Done(c, "ok")) /\ durable' = durable \union ({c} \X (1 .. Size[c]))
        \/ Set(c, Done(c, "refused")) /\ UNCHANGED durable
    BY <1>9, <2>1 DEF WriteEnd
  <2> QED  BY <1>5, <2>2
<1>10. CASE BeginEnd(c)
  <2>1. PICK pc \in {"body", "rollback"} : Set(c, At(c, pc))  BY <1>10 DEF BeginEnd
  <2> QED  BY <1>4, <1>6, <1>7, <1>10, <2>1 DEF BeginEnd
<1>11. CASE StmtEnd(c)
  <2>1. UNCHANGED durable  BY <1>11 DEF StmtEnd
  <2>2. CASE Set(c, [At(c, "body") EXCEPT !.left = @ - 1])
    <3>1. [At(c, "body") EXCEPT !.left = @ - 1].answer = call[c].answer
      BY <1>6, <1>7 DEF Record
    <3> QED  BY <1>4, <2>1, <2>2, <3>1
  <2>3. CASE Set(c, At(c, "rollback"))  BY <1>4, <1>6, <1>7, <2>1, <2>3
  <2> QED  BY <1>11, <2>2, <2>3 DEF StmtEnd
<1>12. CASE CommitEnd(c)
  <2>1. conn.work = {c} \X (1 .. Size[c])
    <3>1. c \in Tx /\ call[c].left = 0 /\ call[c].pc = "commit"
      BY <1>12 DEF CommitEnd, Inv, Roles, Counted, OnTx
    <3>2. conn.work = {c} \X (call[c].left + 1 .. TxSize)  BY <3>1 DEF Inv, Work, WorkOf
    <3>3. Size[c] = TxSize /\ call[c].left + 1 = 1  BY <3>1 DEF Size
    <3> QED  BY <3>2, <3>3
  <2>2. \/ Set(c, Done(c, "ok")) /\ durable' = durable \union conn.work
        \/ Set(c, At(c, "rollback")) /\ UNCHANGED durable
    BY <1>12 DEF CommitEnd
  <2> QED  BY <1>4, <1>5, <1>6, <1>7, <2>1, <2>2
<1>13. CASE RollbackEnd(c)
  <2>1. /\ UNCHANGED durable
        /\ Set(c, At(c, "again")) \/ Set(c, Done(c, "refused"))
    BY <1>13 DEF RollbackEnd
  <2> QED  BY <1>4, <1>5, <1>6, <1>7, <2>1
<1> QED  BY <1>8, <1>9, <1>10, <1>11, <1>12, <1>13

\* Everything else marks calls or wakes them, and keeps what is kept.
LEMMA OthersRefine ==
  ASSUME TypeOK, Platform \/ RunPending \/ Drain \/ SuspendEnds \/ UserReset \/ ResetStep
  PROVE  UNCHANGED Store!vars
<1>1. ASSUME UNCHANGED db PROVE UNCHANGED Store!vars
  BY <1>1 DEF db, Store!vars
<1>2. ASSUME UNCHANGED durable, Marked PROVE UNCHANGED Store!vars
  BY <1>2, Silent DEF Marked
<1>3. ASSUME NEW o, NEW recorded, NEW running, Run(o, recorded, running), o \in Operation
      PROVE  UNCHANGED Store!vars
  <2>1. \/ UNCHANGED db
        \/ UNCHANGED durable /\ call' \in {Hit({"read"}), Woken({"parked", "queued"})}
    BY <1>3 DEF Run, Skip, doSuspend, doResume, suspendDb, resumeDb, Operation
  <2>2. CASE UNCHANGED durable /\ call' = Hit({"read"})  BY <1>2, <2>2, Marking
  <2>3. CASE UNCHANGED durable /\ call' = Woken({"parked", "queued"})  BY <1>2, <2>3, Marking
  <2> QED  BY <1>1, <2>1, <2>2, <2>3
<1>4. ASSUME NEW o, NEW recorded, NEW running, enqueue(o, recorded, running), o \in Operation
      PROVE  UNCHANGED Store!vars
  BY <1>1, <1>3, <1>4 DEF enqueue
<1>5. CASE Platform
  <2>1. {"resume", "maybeSuspend", "suspendUnlessBusy"} \subseteq Operation  BY DEF Operation
  <2>2. NoOperation => UNCHANGED db  BY DEF NoOperation
  <2> QED
    BY <1>1, <1>4, <1>5, <2>1, <2>2
    DEF Platform, Background, Foreground, ServiceStop, registerBackgroundTask, releaseBackgroundTask
<1>6. CASE RunPending
  <2>1. pending \in Operation \union {"none"}  BY DEF TypeOK, MgrTypeOK
  <2> QED  BY <1>1, <1>3, <1>6, <2>1 DEF RunPending
<1>7. CASE Drain
  <2>1. CASE DrainTick
    <3>1. \/ UNCHANGED db
          \/ UNCHANGED durable /\ call' \in {call, Hit(OnWriter \union {"read"})}
      BY <2>1 DEF DrainTick, interruptDatabase
    <3>2. CASE UNCHANGED durable /\ call' = call  BY <1>2, <3>2, Marking
    <3>3. CASE UNCHANGED durable /\ call' = Hit(OnWriter \union {"read"})
      BY <1>2, <3>3, Marking
    <3> QED  BY <1>1, <3>1, <3>2, <3>3
  <2>2. CASE ~DrainTick
    BY <1>1, <1>7, <2>2 DEF Drain, DrainSees, DrainIdle, DrainLate, DrainReturns, DrainEnds
  <2> QED  BY <2>1, <2>2
<1>8. CASE SuspendEnds
  <2>1. UNCHANGED <<durable, call>>  BY <1>8 DEF SuspendEnds, endOpenTransaction
  <2> QED  BY <2>1 DEF Store!vars
<1>9. CASE UserReset \/ ResetStep
  <2>1. /\ UNCHANGED durable
        /\ call' \in {call, Woken({"queued"}), Woken({"parked", "queued"})}
    BY <1>9 DEF UserReset, resetDb, ResetStep, DbStep, ResetLocked, ResetSettled, ResetClose, ResetReopen
  <2>2. CASE call' = call  BY <2>1, <2>2 DEF Store!vars
  <2>3. CASE call' = Woken({"queued"})  BY <1>2, <2>1, <2>3, Marking
  <2>4. CASE call' = Woken({"parked", "queued"})  BY <1>2, <2>1, <2>4, Marking
  <2> QED  BY <2>1, <2>2, <2>3, <2>4
<1> QED  BY <1>5, <1>6, <1>7, <1>8, <1>9

\* Whatever suspends, interrupts, resumes and a reset cut into it, the adapter is
\* an AtomicStore as long as neither of the named races has happened: durable
\* maps to kept, and what a call's record says it was told to answer.
THEOREM ImplementsStore == Spec /\ [](hazard = {}) => StoreSpec
<1>1. Init => Store!Init  BY DEF Init, DbInit, Store!Init, Idle
<1>2. Inv /\ hazard = {} /\ [Next]_vars => [Store!Next]_Store!vars
  <2> SUFFICES ASSUME Inv, hazard = {}, [Next]_vars
               PROVE  [Store!Next]_Store!vars
    OBVIOUS
  <2>1. CASE \E c \in Call : DbStep(Start(c)) \/ DbStep(Turn /\ GiveUp(c)) \/ CallStep(c)
    BY <2>1, EnteringRefines, WriterRefines DEF DbStep, CallStep, NativeEnd
  <2>2. CASE Platform \/ RunPending \/ Drain \/ SuspendEnds \/ UserReset \/ ResetStep
    BY <2>2, OthersRefine DEF Inv
  <2>3. CASE UNCHANGED vars  BY <2>3 DEF vars, db, Store!vars
  <2> QED  BY <2>1, <2>2, <2>3 DEF Next
<1> QED  BY <1>1, <1>2, SpecInv, PTL DEF Spec, StoreSpec, Store!Spec
=============================================================================
