------------------------ MODULE ServiceIntervalProofs ------------------------
(***************************************************************************)
(* For any number of starts, pauses and triggers: a started service has    *)
(* one chain of ticks.                                                     *)
(*                                                                         *)
(* OneChain counts a chain without saying what it is made of, so it is not *)
(* inductive.  Calm says that without a race no timer outlives the entry   *)
(* that set it and that every worker is of the latest init, Deferring that *)
(* ticks are put off only in a pause, and Awaiting that the reset under    *)
(* way waits for every worker there is.                                    *)
(***************************************************************************)
EXTENDS ServiceInterval, FiniteSetTheorems, SequenceTheorems, TLAPS

\* What the provers may take over a leaf that names none.
USE SMTT(30), ZenonT(30), SMTT(60)

Deferring == ~paused => \A k \in Token : sched.deferred[k] = 0

Awaiting ==
  /\ stop # "no" => token = 0
  /\ stop = "waiting" => \A i \in DOMAIN sched.ticks : sched.ticks[i].awaited

Told ==
  /\ paused \/ stop # "no" => \A i \in DOMAIN sched.ticks : sched.ticks[i].aborted
  /\ stop = "stopped" => sched.ticks = <<>>

Sole(s) ==
  /\ \A k \in Token : s.strays[k] = 0
  /\ Len(s.ticks) <= 1
  /\ s.running <=> s.ticks # <<>>

Chained(s, k) ==
  /\ \A i \in DOMAIN s.ticks : s.ticks[i].token = k
  /\ (IF s.mine THEN 1 ELSE 0) + s.deferred[k] + Len(s.ticks) = 1

Calm == hazard = {} => Sole(sched) /\ (token # 0 => Chained(sched, token))

Inv == TypeOK /\ Deferring /\ Awaiting /\ Told /\ Calm

\* A sequence of workers that are all of init k has as many of them as its length.
LEMMA Counting ==
  ASSUME NEW q \in Seq(Tick), NEW k, \A i \in DOMAIN q : q[i].token = k
  PROVE  Cardinality({i \in DOMAIN q : q[i].token = k}) = Len(q)
<1>1. DOMAIN q = 1 .. Len(q) /\ Len(q) \in Nat  OBVIOUS
<1>2. {i \in DOMAIN q : q[i].token = k} = 1 .. Len(q)  BY <1>1
<1>3. \A n \in Nat : Cardinality(1 .. n) = n
  <2> TAKE n \in Nat
  <2>1. 1 \in Int /\ n \in Int  OBVIOUS
  <2>2. Cardinality(1 .. n) = IF 1 > n THEN 0 ELSE n - 1 + 1  BY <2>1, FS_Interval, ZenonT(60)
  <2> QED  BY <2>2
<1> QED  BY <1>1, <1>2, <1>3, ZenonT(60)

\* What leaves and joins the workers under way.
LEMMA Workers ==
  ASSUME NEW q \in Seq(Tick)
  PROVE  /\ \A i \in DOMAIN q :
              /\ RemoveAt(q, i) \in Seq(Tick) /\ Len(RemoveAt(q, i)) = Len(q) - 1
              /\ q # <<>> /\ (Len(q) <= 1 => Len(q) = 1 /\ RemoveAt(q, i) = <<>>)
              /\ \A j \in DOMAIN RemoveAt(q, i) : \E m \in DOMAIN q : RemoveAt(q, i)[j] = q[m]
         /\ \A t \in Tick :
              /\ Append(q, t) \in Seq(Tick) /\ Len(Append(q, t)) = Len(q) + 1
              /\ \A j \in DOMAIN Append(q, t) :
                   Append(q, t)[j] = t \/ (j \in DOMAIN q /\ Append(q, t)[j] = q[j])
<1>1. ASSUME NEW i \in DOMAIN q
      PROVE  /\ RemoveAt(q, i) \in Seq(Tick) /\ Len(RemoveAt(q, i)) = Len(q) - 1
             /\ q # <<>> /\ (Len(q) <= 1 => Len(q) = 1 /\ RemoveAt(q, i) = <<>>)
             /\ \A j \in DOMAIN RemoveAt(q, i) : \E m \in DOMAIN q : RemoveAt(q, i)[j] = q[m]
  <2>1. i \in 1 .. Len(q) /\ Len(q) \in Nat  OBVIOUS
  <2> DEFINE before == SubSeq(q, 1, i - 1)
             after == SubSeq(q, i + 1, Len(q))
             rest == before \o after
  <2>2. /\ before \in Seq(Tick) /\ Len(before) = i - 1
        /\ \A j \in 1 .. i - 1 : before[j] = q[j]
    BY <2>1, SubSeqProperties
  <2>3. /\ after \in Seq(Tick) /\ Len(after) = Len(q) - i
        /\ \A j \in 1 .. Len(q) - i : after[j] = q[i + j]
    BY <2>1, SubSeqProperties
  <2>4. RemoveAt(q, i) = rest  BY DEF RemoveAt
  <2> HIDE DEF before, after
  <2>5. /\ rest \in Seq(Tick) /\ Len(rest) = Len(q) - 1
        /\ \A j \in 1 .. Len(q) - 1 : rest[j] = IF j < i THEN before[j] ELSE after[j - i + 1]
    BY <2>1, <2>2, <2>3
  <2> HIDE DEF rest
  <2>6. ASSUME NEW j \in 1 .. Len(q) - 1
        PROVE  \E m \in DOMAIN q : rest[j] = q[m]
    <3>1. CASE j < i  BY <2>1, <2>2, <2>5, <3>1
    <3>2. CASE ~(j < i)
      <4>1. j - i + 1 \in 1 .. Len(q) - i /\ j + 1 \in 1 .. Len(q)  BY <2>1, <3>2
      <4>2. after[j - i + 1] = q[j + 1]  BY <2>1, <2>3, <4>1
      <4>3. rest[j] = q[j + 1]  BY <2>5, <3>2, <4>2
      <4> QED  BY <2>1, <4>1, <4>3
    <3> QED  BY <3>1, <3>2
  <2>7. DOMAIN rest = 1 .. Len(q) - 1  BY <2>1, <2>5
  <2>8. q # <<>> /\ (Len(q) <= 1 => Len(q) = 1 /\ rest = <<>>)  BY <2>1, <2>5
  <2> QED  BY <2>4, <2>5, <2>6, <2>7, <2>8
<1>2. ASSUME NEW t \in Tick
      PROVE  /\ Append(q, t) \in Seq(Tick) /\ Len(Append(q, t)) = Len(q) + 1
             /\ \A j \in DOMAIN Append(q, t) :
                  Append(q, t)[j] = t \/ (j \in DOMAIN q /\ Append(q, t)[j] = q[j])
  OBVIOUS
<1> QED  BY <1>1, <1>2

\* What the operators of the chain make of a state of the scheduler.
LEMMA Operations ==
  ASSUME TypeOK, NEW s \in Sched, NEW k \in Token \union {0}
  PROVE  /\ Aborted(s) \in Sched /\ Scheduled(s, k) \in Sched /\ Ticked(s, k) \in Sched
         /\ \A n \in Nat : k # 0 => Timers(s, k, n) \in Sched
         /\ DOMAIN Aborted(s).ticks = DOMAIN s.ticks
         /\ \A i \in DOMAIN s.ticks :
              /\ Aborted(s).ticks[i].token = s.ticks[i].token
              /\ Aborted(s).ticks[i].aborted
              /\ Aborted(s).ticks[i].awaited = s.ticks[i].awaited
<1> USE BoundAssumption
<1>1. ASSUME NEW n \in Nat, k # 0 PROVE Timers(s, k, n) \in Sched
  <2>1. CASE n = 0  BY <2>1 DEF Timers
  <2>2. CASE n # 0
    <3>1. k \in Token  BY <1>1
    <3>2. s.strays[k] + n - (IF s.mine THEN 0 ELSE 1) \in Nat
      BY <2>2, <3>1 DEF Sched
    <3> QED  BY <2>2, <3>1, <3>2 DEF Timers, Sched
  <2> QED  BY <2>1, <2>2
<1>2. Scheduled(s, k) \in Sched
  <2>1. CASE ~Current(k)  BY <2>1 DEF Scheduled
  <2>2. CASE Current(k)
    <3>1. k \in Token /\ k # 0  BY <2>2 DEF Current, Token
    <3>2. CASE paused
      <4> DEFINE d == [s.deferred EXCEPT ![k] = s.deferred[k] + 1]
      <4>1. Scheduled(s, k) = [s EXCEPT !.deferred = d]
        BY <2>2, <3>1, <3>2 DEF Scheduled, Sched
      <4>2. d \in [Token -> Nat]  BY <3>1 DEF Sched
      <4> HIDE DEF d
      <4> QED  BY <4>1, <4>2 DEF Sched
    <3>3. CASE ~paused  BY <2>2, <3>1, <3>3, <1>1 DEF Scheduled
    <3> QED  BY <3>2, <3>3
  <2> QED  BY <2>1, <2>2
<1>3. Ticked(s, k) \in Sched
  <2>1. CASE ~Current(k) \/ paused  BY <2>1, <1>2 DEF Ticked
  <2>2. CASE Current(k) /\ ~paused
    <3> DEFINE t == [token |-> k, aborted |-> FALSE, awaited |-> FALSE]
    <3>1. t \in Tick  BY <2>2 DEF Current, Token, Tick
    <3>2. Append(s.ticks, t) \in Seq(Tick)  BY <3>1, Workers DEF Sched
    <3> HIDE DEF t
    <3>3. [s EXCEPT !.running = TRUE, !.ticks = Append(@, t)] \in Sched
      BY <3>2 DEF Sched
    <3> QED  BY <2>2, <3>3 DEF Ticked, t
  <2> QED  BY <2>1, <2>2
<1>4. Aborted(s) \in Sched /\ DOMAIN Aborted(s).ticks = DOMAIN s.ticks
      /\ \A i \in DOMAIN s.ticks :
           Aborted(s).ticks[i] = [s.ticks[i] EXCEPT !.aborted = TRUE]
  <2> DEFINE q == [i \in DOMAIN s.ticks |-> [s.ticks[i] EXCEPT !.aborted = TRUE]]
  <2>1. q \in Seq(Tick) /\ DOMAIN q = DOMAIN s.ticks
    <3>1. s.ticks \in [1 .. Len(s.ticks) -> Tick] /\ Len(s.ticks) \in Nat  BY DEF Sched
    <3>2. q \in [1 .. Len(s.ticks) -> Tick]  BY <3>1 DEF Tick
    <3> HIDE DEF q
    <3> QED  BY <3>1, <3>2
  <2>2. Aborted(s) = [s EXCEPT !.ticks = q]  BY DEF Aborted
  <2>3. \A i \in DOMAIN s.ticks : q[i] = [s.ticks[i] EXCEPT !.aborted = TRUE]  OBVIOUS
  <2> HIDE DEF q
  <2> QED  BY <2>1, <2>2, <2>3 DEF Sched
<1>5. \A i \in DOMAIN s.ticks : s.ticks[i] \in Tick  BY DEF Sched
<1> QED  BY <1>1, <1>2, <1>3, <1>4, <1>5 DEF Tick

\* Ticks start only of an entry that is there, outside a pause, and are
\* deferred only in one.
LEMMA Effects ==
  ASSUME TypeOK, NEW s \in Sched, NEW k \in Token \union {0}
  PROVE  /\ Scheduled(s, k).ticks = s.ticks
         /\ paused \/ token = 0 => Ticked(s, k).ticks = s.ticks
         /\ ~paused => /\ Scheduled(s, k).deferred = s.deferred
                       /\ Ticked(s, k).deferred = s.deferred
<1>1. \A n \in Nat : Timers(s, k, n).ticks = s.ticks /\ Timers(s, k, n).deferred = s.deferred
  BY DEF Timers, Sched
<1>2. Scheduled(s, k).ticks = s.ticks /\ (~paused => Scheduled(s, k).deferred = s.deferred)
  BY <1>1 DEF Scheduled, Sched
<1> QED  BY <1>2 DEF Ticked, Current, Sched

\* A scheduler with no tick anywhere, and what the next one makes of it.
Bare(s) ==
  /\ \A k \in Token : s.strays[k] = 0
  /\ s.ticks = <<>> /\ ~s.mine /\ ~s.running
  /\ token # 0 => s.deferred[token] = 0

LEMMA Linked ==
  ASSUME TypeOK, NEW s \in Sched, Bare(s)
  PROVE  /\ Sole(Scheduled(s, token)) /\ Sole(Ticked(s, token))
         /\ token # 0 => Chained(Scheduled(s, token), token) /\ Chained(Ticked(s, token), token)
<1>1. CASE token = 0
  <2>1. Scheduled(s, token) = s /\ Ticked(s, token) = s
    BY <1>1 DEF Scheduled, Ticked, Current
  <2> QED  BY <1>1, <2>1 DEF Bare, Sole
<1>2. CASE token # 0
  <2>1. token \in Token /\ Current(token)  BY <1>2 DEF TypeOK, Current
  <2>2. Sole(Scheduled(s, token)) /\ Chained(Scheduled(s, token), token)
    <3> DEFINE r == Scheduled(s, token)
    <3> SUFFICES Sole(r) /\ Chained(r, token)  OBVIOUS
    <3>1. CASE paused
      <4>1. r = [s EXCEPT !.deferred[token] = s.deferred[token] + 1]
        BY <2>1, <3>1 DEF Scheduled
      <4>2. /\ r.ticks = s.ticks /\ r.strays = s.strays
            /\ r.mine = s.mine /\ r.running = s.running
            /\ r.deferred[token] = s.deferred[token] + 1
        BY <2>1, <4>1 DEF Sched
      <4> HIDE DEF r
      <4> QED  BY <1>2, <2>1, <4>2 DEF Bare, Sole, Chained, Sched
    <3>2. CASE ~paused
      <4>1. r = [s EXCEPT !.mine = TRUE, !.strays[token] = s.strays[token] + 1 - 1]
        BY <2>1, <3>2 DEF Scheduled, Timers, Bare
      <4>2. /\ r.ticks = s.ticks /\ r.deferred = s.deferred
            /\ r.mine /\ r.running = s.running
            /\ \A k \in Token : r.strays[k] = s.strays[k]
        BY <2>1, <4>1 DEF Sched
      <4> HIDE DEF r
      <4> QED  BY <1>2, <2>1, <4>2 DEF Bare, Sole, Chained, Sched
    <3> QED  BY <3>1, <3>2
  <2>3. CASE paused  BY <2>1, <2>2, <2>3 DEF Ticked
  <2>4. CASE ~paused
    <3> DEFINE t == [token |-> token, aborted |-> FALSE, awaited |-> FALSE]
    <3>1. Ticked(s, token) = [s EXCEPT !.running = TRUE, !.ticks = <<t>>]
      BY <2>1, <2>4 DEF Ticked, Bare, Sched
    <3>2. t.token = token  OBVIOUS
    <3> HIDE DEF t
    <3> QED  BY <1>2, <2>1, <2>2, <3>1, <3>2 DEF Bare, Sole, Chained, Sched
  <2> QED  BY <2>2, <2>3, <2>4
<1> QED  BY <1>1, <1>2

LEMMA InitInv == Init => Inv
<1> SUFFICES ASSUME Init PROVE Inv  OBVIOUS
<1>1. TypeOK
  <2>1. sched \in Sched
    <3>1. [k \in Token |-> 0] \in [Token -> Nat] /\ <<>> \in Seq(Tick)  OBVIOUS
    <3> QED  BY <3>1 DEF Init, Sched
  <2>2. starts \in 0 .. MaxStarts /\ token <= starts  BY BoundAssumption DEF Init
  <2> QED  BY <2>1, <2>2 DEF Init, TypeOK
<1>2. Deferring /\ Awaiting /\ Told /\ Calm
  BY DEF Init, Deferring, Awaiting, Told, Calm, Sole, Token
<1> QED  BY <1>1, <1>2 DEF Inv

\* A timer that fires is the entry's own, unless there was a race.
LEMMA FireInv ==
  ASSUME Inv, Fire
  PROVE  Inv'
<1>0. TypeOK /\ UNCHANGED <<token, paused, stop, starts, hazard>>  BY DEF Inv, Fire
<1>1. PICK s \in Sched, k \in Token \union {0} :
        /\ sched' = Ticked(s, k)
        /\ s.ticks = sched.ticks /\ s.deferred = sched.deferred
        /\ hazard = {} => sched.mine /\ k = token /\ s.strays = sched.strays
                          /\ ~s.mine /\ s.running = sched.running
  <2>1. CASE sched.mine /\ sched' = Ticked([sched EXCEPT !.mine = FALSE], token)
    <3>1. [sched EXCEPT !.mine = FALSE] \in Sched  BY <1>0 DEF TypeOK, Sched
    <3> QED  BY <1>0, <2>1, <3>1 DEF TypeOK, Sched
  <2>2. CASE \E k \in Token :
               sched.strays[k] > 0 /\ sched' = Ticked([sched EXCEPT !.strays[k] = @ - 1], k)
    <3>1. PICK k \in Token :
            sched.strays[k] > 0 /\ sched' = Ticked([sched EXCEPT !.strays[k] = @ - 1], k)
      BY <2>2
    <3>2. hazard # {}  BY <3>1 DEF Inv, Calm, Sole
    <3>3. [sched EXCEPT !.strays[k] = @ - 1] \in Sched
      <4> DEFINE d == [sched.strays EXCEPT ![k] = sched.strays[k] - 1]
      <4>1. [sched EXCEPT !.strays[k] = @ - 1] = [sched EXCEPT !.strays = d]
        BY <1>0 DEF TypeOK, Sched
      <4>2. d \in [Token -> Nat]  BY <1>0, <3>1 DEF TypeOK, Sched
      <4> HIDE DEF d
      <4> QED  BY <1>0, <4>1, <4>2 DEF TypeOK, Sched
    <3> QED  BY <1>0, <3>1, <3>2, <3>3 DEF TypeOK, Sched
  <2> QED  BY <2>1, <2>2 DEF Fire
<1>2. TypeOK'  BY <1>0, <1>1, Operations DEF TypeOK
<1>3. Deferring'  BY <1>0, <1>1, Effects DEF Inv, Deferring
<1>4. Awaiting' /\ Told'
  BY <1>0, <1>1, Effects DEF Inv, Awaiting, Told
<1>5. Calm'
  <2> SUFFICES ASSUME hazard = {} PROVE Calm'  BY <1>0 DEF Calm
  <2>1. Sole(sched) /\ (token # 0 => Chained(sched, token))  BY DEF Inv, Calm
  <2>2. CASE token = 0
    <3>1. sched' = s  BY <1>1, <2>2 DEF Ticked, Current
    <3> QED  BY <1>0, <1>1, <2>1, <2>2, <3>1 DEF Calm, Sole
  <2>3. CASE token # 0
    <3>1. sched.ticks \in Seq(Tick) /\ sched.mine /\ sched.deferred[token] \in Nat
      BY <1>0, <1>1, <2>3 DEF TypeOK, Sched
    <3>2. sched.deferred[token] = 0 /\ sched.ticks = <<>>
      BY <2>1, <2>3, <3>1 DEF Chained
    <3>3. Bare(s)  BY <1>1, <2>1, <3>2 DEF Sole, Bare
    <3> QED  BY <1>0, <1>1, <3>3, Linked DEF Calm
  <2> QED  BY <2>2, <2>3
<1> QED  BY <1>2, <1>3, <1>4, <1>5 DEF Inv

\* The next tick of a worker that ended is the chain's only one.
LEMMA WorkerEndInv ==
  ASSUME Inv, NEW i \in DOMAIN sched.ticks, WorkerEnd(i)
  PROVE  Inv'
<1> DEFINE ended == [sched EXCEPT !.running = FALSE, !.ticks = RemoveAt(@, i)]
           rerun == [ended EXCEPT !.rerun = FALSE]
           k == sched.ticks[i].token
<1>0. TypeOK /\ UNCHANGED <<token, paused, stop, starts, hazard>>  BY DEF Inv, WorkerEnd
<1>1. sched.ticks \in Seq(Tick) /\ k \in Token
  <2>1. sched.ticks \in Seq(Tick)  BY <1>0 DEF TypeOK, Sched
  <2>2. sched.ticks[i] \in Tick  BY <2>1
  <2> QED  BY <2>1, <2>2 DEF Tick
<1>2. ended \in Sched /\ rerun \in Sched  BY <1>0, <1>1, Workers DEF TypeOK, Sched
<1>3. /\ ended.ticks = RemoveAt(sched.ticks, i) /\ rerun.ticks = RemoveAt(sched.ticks, i)
      /\ ended.deferred = sched.deferred /\ rerun.deferred = sched.deferred
      /\ ended.strays = sched.strays /\ rerun.strays = sched.strays
      /\ ended.mine = sched.mine /\ rerun.mine = sched.mine
      /\ ~ended.running /\ ~rerun.running
  BY <1>0 DEF TypeOK, Sched
<1>4. \/ ~paused /\ sched' = Ticked(rerun, token)
      \/ sched' = Scheduled(ended, k)
  BY DEF WorkerEnd
<1>5. \A j \in DOMAIN RemoveAt(sched.ticks, i) :
        \E m \in DOMAIN sched.ticks : RemoveAt(sched.ticks, i)[j] = sched.ticks[m]
  BY <1>1, Workers
<1>6. /\ RemoveAt(sched.ticks, i) \in Seq(Tick) /\ sched.ticks # <<>>
      /\ Len(sched.ticks) <= 1 => Len(sched.ticks) = 1 /\ RemoveAt(sched.ticks, i) = <<>>
  BY <1>1, Workers
<1> HIDE DEF ended, rerun, k
<1>7. TypeOK'  BY <1>0, <1>1, <1>2, <1>4, Operations DEF TypeOK
<1>8. Deferring'  BY <1>0, <1>1, <1>2, <1>3, <1>4, Effects DEF Inv, Deferring, TypeOK
<1>9. paused \/ stop # "no" => sched'.ticks = RemoveAt(sched.ticks, i)
  BY <1>0, <1>1, <1>2, <1>3, <1>4, Effects DEF Inv, Awaiting, TypeOK
<1>10. Awaiting' /\ Told'
  <2>1. stop # "stopped"  BY <1>6 DEF Inv, Told
  <2> QED  BY <1>0, <1>5, <1>9, <2>1 DEF Inv, Awaiting, Told
<1>11. Calm'
  <2> SUFFICES ASSUME hazard = {} PROVE Calm'  BY <1>0 DEF Calm
  <2>1. Len(sched.ticks) = 1 /\ RemoveAt(sched.ticks, i) = <<>>
    BY <1>6 DEF Inv, Calm, Sole
  <2>2. token # 0 => k = token  BY DEF Inv, Calm, Chained, k
  <2>3. token # 0 => ~sched.mine /\ sched.deferred[token] = 0
    BY <1>0, <2>1 DEF Inv, Calm, Chained, TypeOK, Sched
  <2>4. CASE token # 0
    <3>1. Bare(ended) /\ Bare(rerun)
      BY <1>3, <2>1, <2>3, <2>4 DEF Inv, Calm, Sole, Bare
    <3> QED  BY <1>0, <1>2, <1>4, <2>2, <2>4, <3>1, Linked DEF Calm
  <2>5. CASE token = 0
    <3>1. sched' = ended \/ sched' = rerun
      BY <1>4, <2>5 DEF Ticked, Scheduled, Current
    <3> QED  BY <1>0, <1>3, <2>1, <2>5, <3>1 DEF Inv, Calm, Sole
  <2> QED  BY <2>4, <2>5
<1> QED  BY <1>7, <1>8, <1>10, <1>11 DEF Inv

\* A trigger takes the timer's place, and a worker under way only notes it.
LEMMA TriggerInv ==
  ASSUME Inv, triggerNow
  PROVE  Inv'
<1> DEFINE s == [sched EXCEPT !.mine = FALSE]
           noted == [sched EXCEPT !.rerun = TRUE]
<1>0. TypeOK /\ UNCHANGED <<token, paused, stop, starts>> /\ token \in Token
  BY DEF Inv, triggerNow, TypeOK
<1>1. /\ s \in Sched /\ noted \in Sched
      /\ s.ticks = sched.ticks /\ s.deferred = sched.deferred /\ s.strays = sched.strays
      /\ ~s.mine /\ s.running = sched.running
      /\ noted.ticks = sched.ticks /\ noted.deferred = sched.deferred
      /\ noted.strays = sched.strays /\ noted.mine = sched.mine /\ noted.running = sched.running
  BY <1>0 DEF TypeOK, Sched
<1>2. \/ sched.running /\ sched' = noted
      \/ ~sched.running /\ sched' = Ticked(s, token)
  BY DEF triggerNow
<1> HIDE DEF s, noted
<1>3. TypeOK'
  <2>1. hazard' \subseteq {"twoChains", "reinitialized"}  BY <1>0 DEF triggerNow, TypeOK
  <2>2. sched' \in Sched  BY <1>0, <1>1, <1>2, Operations
  <2> QED  BY <1>0, <2>1, <2>2 DEF TypeOK
<1>4. Deferring'  BY <1>0, <1>1, <1>2, Effects DEF Inv, Deferring
<1>5. Awaiting' /\ Told'  BY <1>0, <1>1, <1>2, Effects DEF Inv, Awaiting, Told
<1>6. Calm'
  <2> SUFFICES ASSUME hazard' = {} PROVE Calm'  BY DEF Calm
  <2>1. hazard = {} /\ (paused /\ ~sched.running => sched.mine)  BY DEF triggerNow
  <2>2. Sole(sched) /\ Chained(sched, token)  BY <1>0, <2>1 DEF Inv, Calm, triggerNow
  <2>3. CASE sched' = noted
    BY <1>0, <1>1, <2>2, <2>3 DEF Calm, Sole, Chained
  <2>4. CASE ~sched.running /\ sched' = Ticked(s, token)
    <3>1. sched.ticks = <<>>  BY <2>2, <2>4 DEF Sole
    <3>2. sched.deferred[token] = 0
      <4>1. sched.deferred[token] \in Nat /\ sched.mine \in BOOLEAN
        BY <1>0 DEF TypeOK, Sched
      <4>2. CASE paused  BY <2>1, <2>2, <2>4, <3>1, <4>1, <4>2 DEF Chained
      <4>3. CASE ~paused  BY <1>0, <4>3 DEF Inv, Deferring
      <4> QED  BY <4>2, <4>3
    <3>3. Bare(s)  BY <1>1, <2>2, <2>4, <3>1, <3>2 DEF Sole, Bare
    <3> QED  BY <1>0, <1>1, <2>4, <3>3, Linked DEF Calm
  <2> QED  BY <1>2, <2>3, <2>4
<1> QED  BY <1>3, <1>4, <1>5, <1>6 DEF Inv

\* A pause stops nothing but tells every worker, and takes no tick away.
LEMMA PauseInv ==
  ASSUME Inv, Pause
  PROVE  Inv'
<1>0. TypeOK /\ UNCHANGED <<token, stop, starts, hazard>> /\ paused' = TRUE
  BY DEF Inv, Pause
<1>1. sched \in Sched /\ sched' = Aborted(sched)  BY <1>0 DEF TypeOK, Pause
<1>2. /\ sched' \in Sched /\ DOMAIN sched'.ticks = DOMAIN sched.ticks
      /\ \A i \in DOMAIN sched.ticks :
           sched'.ticks[i].token = sched.ticks[i].token /\ sched'.ticks[i].aborted
  BY <1>0, <1>1, Operations
<1>3. TypeOK' /\ Deferring' /\ Awaiting' /\ Told'
  BY <1>0, <1>2 DEF Pause, TypeOK, Deferring, Inv, Awaiting, Told
<1>4. /\ sched'.strays = sched.strays /\ sched'.deferred = sched.deferred
      /\ sched'.mine = sched.mine /\ sched'.running = sched.running
  BY <1>1 DEF Aborted, Sched
<1>5. Len(sched'.ticks) = Len(sched.ticks) /\ (sched'.ticks = <<>> <=> sched.ticks = <<>>)
  BY <1>1, <1>2 DEF Sched
<1>6. Calm'  BY <1>0, <1>2, <1>4, <1>5 DEF Inv, Calm, Sole, Chained
<1> QED  BY <1>3, <1>6 DEF Inv

\* The resume sets the timer of the tick that was deferred.
LEMMA ResumeInv ==
  ASSUME Inv, resume
  PROVE  Inv'
<1> DEFINE n == IF token = 0 THEN 0 ELSE sched.deferred[token]
           s == Timers(sched, token, n)
           none == [k \in Token |-> 0]
<1>0. TypeOK /\ UNCHANGED <<token, stop, starts, hazard>> /\ paused' = FALSE
  BY DEF Inv, resume
<1>1. n \in Nat /\ sched \in Sched /\ (token # 0 => token \in Token)  BY <1>0 DEF TypeOK, Sched
<1>2. s \in Sched
  <2>1. CASE token = 0  BY <1>1, <2>1 DEF Timers
  <2>2. CASE token # 0  BY <1>0, <1>1, <2>2, Operations
  <2> QED  BY <2>1, <2>2
<1>3. sched' = [s EXCEPT !.deferred = none]  BY DEF resume
<1>4. /\ s.ticks = sched.ticks /\ s.running = sched.running
      /\ n = 0 => s = sched
      /\ n = 1 /\ token # 0 /\ ~sched.mine => s.mine /\ \A k \in Token : s.strays[k] = sched.strays[k]
  <2>1. CASE n = 0  BY <2>1 DEF Timers
  <2>2. CASE n # 0
    <3>1. s = [sched EXCEPT !.mine = TRUE,
                 !.strays[token] = sched.strays[token] + n - (IF sched.mine THEN 0 ELSE 1)]
      BY <2>2 DEF Timers
    <3>2. /\ s.ticks = sched.ticks /\ s.running = sched.running /\ s.mine
          /\ \A k \in Token : s.strays[k] = IF k = token
               THEN sched.strays[token] + n - (IF sched.mine THEN 0 ELSE 1) ELSE sched.strays[k]
      BY <1>1, <3>1 DEF Sched
    <3>3. \A k \in Token : sched.strays[k] \in Nat  BY <1>1 DEF Sched
    <3> HIDE DEF n, s
    <3> QED  BY <2>2, <3>2, <3>3
  <2> QED  BY <2>1, <2>2
<1>5. none \in [Token -> Nat] /\ \A k \in Token : none[k] = 0  OBVIOUS
<1> HIDE DEF s, none
<1>6. /\ sched' \in Sched /\ sched'.ticks = sched.ticks /\ sched'.running = sched.running
      /\ sched'.strays = s.strays /\ sched'.mine = s.mine
      /\ \A k \in Token : sched'.deferred[k] = 0
  BY <1>2, <1>3, <1>4, <1>5 DEF Sched
<1>7. TypeOK' /\ Deferring' /\ Awaiting' /\ Told'
  BY <1>0, <1>6 DEF TypeOK, Deferring, Inv, Awaiting, Told
<1>8. Calm'
  <2> SUFFICES ASSUME hazard = {} PROVE Calm'  BY <1>0 DEF Calm
  <2>1. Sole(sched) /\ (token # 0 => Chained(sched, token))  BY DEF Inv, Calm
  <2>2. CASE token = 0  BY <1>0, <1>4, <1>6, <2>1, <2>2 DEF Calm, Sole
  <2>3. CASE token # 0
    <3>1. sched.deferred[token] \in Nat /\ sched.mine \in BOOLEAN /\ Len(sched.ticks) \in Nat
      BY <1>1, <2>3 DEF Sched
    <3>2. n = 0 \/ (n = 1 /\ ~sched.mine /\ Len(sched.ticks) = 0)
      BY <2>1, <2>3, <3>1 DEF Chained
    <3>3. n = sched.deferred[token]  BY <2>3
    <3> HIDE DEF n
    <3>4. CASE n = 0
      <4>1. /\ sched'.strays = sched.strays /\ sched'.mine = sched.mine
            /\ sched'.deferred[token] = sched.deferred[token]
        BY <1>1, <1>4, <1>6, <2>3, <3>3, <3>4
      <4> QED  BY <1>0, <1>6, <2>1, <2>3, <4>1 DEF Calm, Sole, Chained
    <3>5. CASE n = 1 /\ ~sched.mine /\ Len(sched.ticks) = 0
      BY <1>0, <1>1, <1>4, <1>6, <2>1, <2>3, <3>5 DEF Calm, Sole, Chained
    <3> QED  BY <3>2, <3>4, <3>5
  <2> QED  BY <2>2, <2>3
<1> QED  BY <1>7, <1>8 DEF Inv

\* A shutdown tells every worker there is, and waits for it.
LEMMA ShutdownInv ==
  ASSUME Inv, shutdown
  PROVE  Inv'
<1> DEFINE s == Aborted(sched)
           q == [i \in DOMAIN s.ticks |-> [s.ticks[i] EXCEPT !.awaited = TRUE]]
<1>0. TypeOK /\ UNCHANGED <<paused, starts, hazard>> /\ token' = 0 /\ stop' = "waiting"
  BY DEF Inv, shutdown
<1>1. s \in Sched /\ sched \in Sched  BY <1>0, Operations DEF TypeOK
<1>2. DOMAIN s.ticks = DOMAIN sched.ticks /\ \A i \in DOMAIN sched.ticks : s.ticks[i].aborted
  BY <1>0, <1>1, Operations
<1>3. q \in Seq(Tick) /\ DOMAIN q = DOMAIN s.ticks
      /\ \A i \in DOMAIN q : q[i].awaited /\ q[i].aborted = s.ticks[i].aborted
  <2>1. s.ticks \in [1 .. Len(s.ticks) -> Tick] /\ Len(s.ticks) \in Nat  BY <1>1 DEF Sched
  <2>2. q \in [1 .. Len(s.ticks) -> Tick]  BY <2>1 DEF Tick
  <2>3. \A i \in DOMAIN q : q[i].awaited /\ q[i].aborted = s.ticks[i].aborted
    BY <2>1 DEF Tick
  <2> HIDE DEF q
  <2> QED  BY <2>1, <2>2, <2>3
<1>4. sched' = [s EXCEPT !.mine = FALSE, !.ticks = q]  BY DEF shutdown
<1>5. s.strays = sched.strays /\ s.deferred = sched.deferred /\ s.running = sched.running
  BY <1>1 DEF Aborted, Sched
<1> HIDE DEF s, q
<1>6. /\ sched' \in Sched /\ sched'.ticks = q
      /\ sched'.strays = sched.strays /\ sched'.deferred = sched.deferred
      /\ sched'.running = sched.running
  BY <1>1, <1>3, <1>4, <1>5 DEF Sched
<1>7. TypeOK' /\ Deferring' /\ Awaiting' /\ Told'
  <2>1. TypeOK'  BY <1>0, <1>6, BoundAssumption DEF TypeOK
  <2>2. Deferring' /\ Awaiting' /\ Told'
    BY <1>0, <1>2, <1>3, <1>6 DEF Deferring, Inv, Awaiting, Told
  <2> QED  BY <2>1, <2>2
<1>8. Len(q) = Len(sched.ticks) /\ (q = <<>> <=> sched.ticks = <<>>)
  BY <1>1, <1>2, <1>3 DEF Sched
<1>9. Calm'  BY <1>0, <1>6, <1>8 DEF Inv, Calm, Sole
<1> QED  BY <1>7, <1>9 DEF Inv

\* A reset goes on when every worker it waited for has ended: there is no other.
LEMMA ShutdownReturnsInv ==
  ASSUME Inv, ShutdownReturns
  PROVE  Inv'
<1>1. sched.ticks \in Seq(Tick)  BY DEF Inv, TypeOK, Sched
<1>2. \A q \in Seq(Tick) : DOMAIN q = {} => q = <<>>
  <2> TAKE q \in Seq(Tick)
  <2>1. DOMAIN q = 1 .. Len(q) /\ Len(q) \in Nat  OBVIOUS
  <2>2. 1 .. Len(q) = {} => Len(q) = 0  BY <2>1
  <2> QED  BY <2>1, <2>2
<1>3. DOMAIN sched.ticks = {}  BY DEF Inv, Awaiting, ShutdownReturns
<1>4. sched.ticks = <<>>  BY <1>1, <1>2, <1>3, ZenonT(60)
<1> QED  BY <1>4 DEF Inv, ShutdownReturns, TypeOK, Deferring, Awaiting, Told, Calm

\* An init leaves one timer, its own, and without a race finds no worker.
LEMMA StartInv ==
  ASSUME Inv, init
  PROVE  Inv'
<1> DEFINE s == Aborted(sched)
<1>0. TypeOK /\ UNCHANGED paused /\ ~paused /\ token' = token + 1 /\ stop' = "no"
      /\ starts' = starts + 1 /\ starts < MaxStarts
  BY DEF Inv, init
<1>1. s \in Sched /\ sched \in Sched  BY <1>0, Operations DEF TypeOK
<1>2. sched' = [s EXCEPT !.mine = TRUE, !.running = FALSE, !.rerun = FALSE]  BY DEF init
<1>3. s.strays = sched.strays /\ s.deferred = sched.deferred
  BY <1>1 DEF Aborted, Sched
<1>4. DOMAIN s.ticks = DOMAIN sched.ticks  BY <1>0, <1>1, Operations
<1> HIDE DEF s
<1>5. /\ sched' \in Sched /\ sched'.ticks = s.ticks /\ sched'.mine /\ ~sched'.running
      /\ sched'.strays = sched.strays /\ sched'.deferred = sched.deferred
  BY <1>1, <1>2, <1>3 DEF Sched
<1>6. token' \in Token /\ token' <= starts' /\ starts' \in 0 .. MaxStarts
  BY <1>0, BoundAssumption DEF TypeOK, Token
<1>7. TypeOK'
  <2>1. hazard' \subseteq {"twoChains", "reinitialized"}  BY <1>0 DEF init, TypeOK
  <2> QED  BY <1>0, <1>5, <1>6, <2>1 DEF TypeOK
<1>8. Deferring' /\ Awaiting' /\ Told'
  BY <1>0, <1>5 DEF Inv, Deferring, Awaiting, Told
<1>9. Calm'
  <2> SUFFICES ASSUME hazard' = {} PROVE Calm'  BY DEF Calm
  <2>1. hazard = {} /\ sched.ticks = <<>>  BY DEF init
  <2>2. s.ticks = <<>>  BY <1>1, <1>4, <2>1 DEF Sched
  <2>3. sched'.deferred[token'] = 0  BY <1>0, <1>5, <1>6 DEF Inv, Deferring
  <2> QED  BY <1>5, <2>1, <2>2, <2>3 DEF Inv, Calm, Sole, Chained
<1> QED  BY <1>7, <1>8, <1>9 DEF Inv

LEMMA NextInv == Inv /\ [Next]_vars => Inv'
<1> SUFFICES ASSUME Inv, [Next]_vars PROVE Inv'  OBVIOUS
<1>1. CASE UNCHANGED vars
  BY <1>1 DEF Inv, vars, TypeOK, Deferring, Awaiting, Told, Calm, Sole, Chained
<1> QED
  BY <1>1, FireInv, WorkerEndInv, TriggerInv, PauseInv, ResumeInv, ShutdownInv,
     ShutdownReturnsInv, StartInv DEF Next

\* What the invariant says of the chain is what its count says.
LEMMA OneChainHolds == Inv => OneChain
<1> SUFFICES ASSUME Inv PROVE OneChain  OBVIOUS
<1>1. ASSUME hazard = {}, token # 0 PROVE Chains = 1
  <2>1. Sole(sched) /\ Chained(sched, token) /\ token \in Token /\ sched \in Sched
    BY <1>1 DEF Inv, Calm, TypeOK
  <2>2. sched.ticks \in Seq(Tick) /\ sched.strays[token] = 0 /\ sched.deferred[token] \in Nat
    BY <2>1 DEF Sched, Sole
  <2>3. Cardinality({i \in DOMAIN sched.ticks : sched.ticks[i].token = token}) = Len(sched.ticks)
    BY <2>1, <2>2, Counting DEF Chained
  <2>4. Chains = (IF sched.mine THEN 1 ELSE 0) + 0 + sched.deferred[token] + Len(sched.ticks)
    BY <2>2, <2>3 DEF Chains
  <2> QED  BY <2>1, <2>2, <2>4 DEF Chained
<1> QED  BY <1>1 DEF OneChain, Inv, Told, Calm, Sole

\* Every state has the parts it should have: a token never passes the number of
\* calls of init, and no timer is counted below zero.
THEOREM SchedulerTypeCorrect == Spec => []TypeOK
<1>1. Inv => TypeOK  BY DEF Inv
<1> QED  BY <1>1, InitInv, NextInv, PTL DEF Spec

\* For any number of starts, pauses and triggers a service has one chain of
\* ticks, and no worker goes on unaware of a pause or a shutdown.
THEOREM ServiceHasOneChain == Spec => []OneChain
BY InitInv, NextInv, OneChainHolds, PTL DEF Spec
=============================================================================
