--------------------------- MODULE UploaderProofs ---------------------------
(***************************************************************************)
(* The upload manager, for any number of files, loops and batches: the     *)
(* type invariant; that a file is in one place at a time, is pinned once   *)
(* and is pinned as itself.                                                *)
(*                                                                         *)
(* The inductive invariant has three parts.  Sound says which loop and     *)
(* which batch may be where: one loop at most is not stale, it alone holds *)
(* the open batch and the entries of the drain, and it waits while a batch *)
(* is finalized and pinned.  Held says that the places of Pipeline share   *)
(* no file and that what they hold is active.  Pinned relates the pins to  *)
(* the objects recorded.                                                   *)
(***************************************************************************)
EXTENDS Uploader, SequenceTheorems, FiniteSetTheorems, TLAPS

\* What the provers may take over a leaf that names none.
USE SMTT(30), ZenonT(30), SMTT(60)

Status == {"none", "active", "error"}
Underway == {"finalize", "pin", "remove"}
BatchRow == [phase : {"none", "open"} \union Underway, files : Seq(File), added : Seq(File),
             cancelled : BOOLEAN, at : Nat \ {0}, won : SUBSET File, gone : SUBSET File]
LoopRow == [pc : {"none", "top", "over", "parked", "query", "poll", "idle", "sleep", "entries",
                  "open", "add", "flush"},
            entries : Seq(File), next : Nat \ {0}, window : Nat, fly : Seq(File),
            batch : 0 .. MaxBatch, found : SUBSET File, last : BOOLEAN]
Races == {"suspended", "dropped", "cleared", "requeued", "unrecorded"}

\* The type invariant of the module Uploader.
TypeOK ==
  /\ file \in [File -> {"live", "trashed", "deleted", "gone"}] /\ objects \in SUBSET File
  /\ pins \in [File -> Nat] /\ swapped \in SUBSET File
  /\ uploads \in [File -> Status]
  /\ explicit \in Seq(File) /\ polled \in Seq(File) /\ draining \in 0 .. MaxGen
  /\ active \in BOOLEAN /\ suspended \in BOOLEAN /\ generation \in Gen
  /\ current \in 0 .. MaxBatch /\ uploading \in 0 .. MaxBatch /\ flushing \in 0 .. MaxBatch
  /\ batch \in [Batch -> BatchRow] /\ loop \in [Gen -> LoopRow]
  /\ shut \in [on : BOOLEAN, ids : SUBSET File, batch : 0 .. MaxBatch]
  /\ acts \in Nat /\ fails \in Nat /\ hazard \in SUBSET Races

\* The handles: the batch that is open and the one under flush() are the only two
\* there are, and never both.
Handles ==
  /\ \A b \in Batch : /\ batch[b].phase = "open" <=> b = current
                      /\ batch[b].phase \in Underway <=> b = uploading
                      /\ batch[b].phase = "none" => batch[b] = NoBatch
  /\ flushing = uploading
  /\ uploading # 0 => current = 0

\* The flags: what is left to an uploader that is not active.
Flags ==
  /\ current # 0 => active
  /\ ~active => polled = <<>> /\ draining = 0
  /\ active /\ uploading # 0 => loop[generation].pc = "flush"
  /\ shut.on => ~active /\ uploading \in {0, shut.batch}
  /\ ~active /\ ~shut.on => uploading = 0
  /\ ~shut.on => shut.ids = {}
  /\ \A g \in Gen : g > generation => loop[g] = NoLoop

\* A loop: the indices of its drain, and the flush it waits for.
LoopSound(l) ==
  /\ l.next + l.window <= Len(l.entries) + 1
  /\ l.pc \in {"entries", "open"} => l.window = 0
  /\ l.pc = "open" => l.next <= Len(l.entries)
  /\ l.pc \in {"entries", "open", "add"} => ~l.last
  /\ l.pc = "add" => l.fly # <<>> /\ l.window > 0
  /\ l.pc = "flush" => l.batch = uploading /\ uploading # 0
  /\ l.pc = "flush" /\ l.entries # <<>> /\ l.last => l.window = 0 /\ l.next <= Len(l.entries)

InDrain(l) ==
  l.pc \in {"entries", "open", "add"} \/ (l.pc = "flush" /\ l.entries # <<>>)

\* The loop that is not stale.
Drains ==
  /\ draining # 0 => active /\ draining = generation /\ InDrain(loop[draining])
  /\ active /\ InDrain(loop[generation]) => draining = generation
  /\ active /\ loop[generation].pc = "add" => current # 0 /\ loop[generation].batch = current
  /\ active /\ loop[generation].pc \in {"open", "flush"} => current = 0

Fly == IF loop[generation].pc = "add" THEN loop[generation].fly ELSE <<>>

\* The batch that is open, and the one under flush().
Batches ==
  /\ current # 0 =>
       LET b == batch[current] IN
       /\ b.files = b.added \o Fly
       /\ b.at = 1 /\ b.won = {} /\ b.gone = {} /\ ~b.cancelled
  /\ uploading # 0 =>
       LET b == batch[uploading] IN
       /\ b.files = b.added /\ b.at <= Len(b.files) + 1
       /\ b.won \union b.gone \subseteq ToSet(b.files)
       /\ b.phase = "finalize" \/ b.at = 1 => b.at = 1 /\ b.won = {} /\ b.gone = {}
       /\ b.phase = "remove" => b.at = Len(b.files) + 1
       /\ b.cancelled => shut.on
  /\ shut.on /\ uploading # 0 => ToSet(batch[uploading].files) \subseteq shut.ids

Sound ==
  /\ TypeOK /\ Handles /\ Flags /\ (\A g \in Gen : LoopSound(loop[g])) /\ Drains /\ Batches
  /\ swapped = {}

W == Working(uploading)
C == Working(current)

Calm == hazard \cap {"dropped", "cleared", "requeued"} = {}

\* The places of Pipeline, one by one.
Apart ==
  /\ IsInjective(W) /\ IsInjective(C) /\ IsInjective(Unadded)
  /\ IsInjective(explicit) /\ IsInjective(polled)
  /\ ToSet(W) \cap ToSet(C) = {} /\ ToSet(W) \cap ToSet(Unadded) = {}
  /\ ToSet(W) \cap ToSet(explicit) = {} /\ ToSet(W) \cap ToSet(polled) = {}
  /\ ToSet(C) \cap ToSet(Unadded) = {} /\ ToSet(C) \cap ToSet(explicit) = {}
  /\ ToSet(C) \cap ToSet(polled) = {} /\ ToSet(Unadded) \cap ToSet(explicit) = {}
  /\ ToSet(Unadded) \cap ToSet(polled) = {} /\ ToSet(explicit) \cap ToSet(polled) = {}

Places == ToSet(W) \union ToSet(C) \union ToSet(Unadded) \union ToSet(explicit) \union ToSet(polled)

\* What is held is active, and the batch under flush() has no file of the drain.
Kept ==
  /\ Places \union Done \subseteq getActiveIds
  /\ Places \cap Done = {}
  /\ uploading # 0 => ToSet(batch[uploading].files) \cap ToSet(Unadded) = {}

Held ==
  /\ Calm => Apart /\ Kept
  /\ getActiveIds \subseteq Places \union Done \union shut.ids

\* The files with an object row, and those without a row of their own.
Recorded == objects \union {f \in File : file[f] = "gone"}

\* The files pinned and not yet recorded.
Won == IF uploading # 0 /\ batch[uploading].phase # "remove" THEN batch[uploading].won ELSE {}

Pinned ==
  hazard \subseteq {"suspended"} =>
    /\ Places \cap objects = {}
    /\ \A f \in File : /\ pins[f] <= 1
                       /\ pins[f] = 1 => f \in Recorded \/ f \in Won
    /\ active /\ loop[generation].pc = "poll" => loop[generation].found \cap objects = {}

IInv == Sound /\ Held /\ Pinned

\* A step that takes no file into the places.
Keeps == Held' /\ Places' \subseteq Places

(***************************************************************************)
(* Sequences.                                                              *)
(***************************************************************************)
LEMMA ConcatSet ==
  ASSUME NEW S, NEW s \in Seq(S), NEW t \in Seq(S)
  PROVE  s \o t \in Seq(S) /\ ToSet(s \o t) = ToSet(s) \union ToSet(t)
<1>1. /\ s \o t \in Seq(S)
      /\ Len(s) \in Nat /\ Len(t) \in Nat /\ Len(s \o t) = Len(s) + Len(t)
      /\ DOMAIN s = 1 .. Len(s) /\ DOMAIN t = 1 .. Len(t) /\ DOMAIN (s \o t) = 1 .. Len(s \o t)
      /\ \A i \in 1 .. Len(s) + Len(t) :
           (s \o t)[i] = IF i <= Len(s) THEN s[i] ELSE t[i - Len(s)]
  BY ConcatProperties, LenProperties
<1>2. ASSUME NEW x \in ToSet(s) PROVE x \in ToSet(s \o t)
  <2>1. PICK i \in 1 .. Len(s) : x = s[i]
    BY <1>1, <1>2 DEF ToSet
  <2> QED
    BY <1>1, <2>1 DEF ToSet
<1>3. ASSUME NEW x \in ToSet(t) PROVE x \in ToSet(s \o t)
  <2>1. PICK i \in 1 .. Len(t) : x = t[i]
    BY <1>1, <1>3 DEF ToSet
  <2>2. Len(s) + i \in DOMAIN (s \o t) /\ (s \o t)[Len(s) + i] = x
    BY <1>1, <2>1
  <2> QED
    BY <2>2 DEF ToSet
<1>4. ASSUME NEW x \in ToSet(s \o t) PROVE x \in ToSet(s) \union ToSet(t)
  <2>1. PICK i \in 1 .. Len(s) + Len(t) : x = (s \o t)[i]
    BY <1>1, <1>4 DEF ToSet
  <2>2. CASE i <= Len(s)
    BY <1>1, <2>1, <2>2 DEF ToSet
  <2>3. CASE i > Len(s)
    <3>1. i - Len(s) \in DOMAIN t /\ x = t[i - Len(s)]
      BY <1>1, <2>1, <2>3
    <3> QED
      BY <3>1 DEF ToSet
  <2> QED
    BY <1>1, <2>2, <2>3
<1> QED
  BY <1>1, <1>2, <1>3, <1>4

LEMMA ConcatInjective ==
  ASSUME NEW S, NEW s \in Seq(S), NEW t \in Seq(S)
  PROVE  IsInjective(s \o t) <=>
           IsInjective(s) /\ IsInjective(t) /\ ToSet(s) \cap ToSet(t) = {}
<1>1. /\ Len(s) \in Nat /\ Len(t) \in Nat /\ Len(s \o t) = Len(s) + Len(t)
      /\ DOMAIN s = 1 .. Len(s) /\ DOMAIN t = 1 .. Len(t) /\ DOMAIN (s \o t) = 1 .. Len(s \o t)
      /\ \A i \in 1 .. Len(s) + Len(t) :
           (s \o t)[i] = IF i <= Len(s) THEN s[i] ELSE t[i - Len(s)]
  BY ConcatProperties, LenProperties
<1>2. /\ \A i \in DOMAIN s : i \in DOMAIN (s \o t) /\ (s \o t)[i] = s[i]
      /\ \A i \in DOMAIN t : Len(s) + i \in DOMAIN (s \o t) /\ (s \o t)[Len(s) + i] = t[i]
  BY <1>1
<1>3. ASSUME IsInjective(s \o t)
      PROVE  IsInjective(s) /\ IsInjective(t) /\ ToSet(s) \cap ToSet(t) = {}
  <2>1. IsInjective(s)
    BY <1>2, <1>3 DEF IsInjective
  <2>2. IsInjective(t)
    <3>1. ASSUME NEW i \in DOMAIN t, NEW j \in DOMAIN t, t[i] = t[j] PROVE i = j
      <4>1. Len(s) + i = Len(s) + j
        BY <1>2, <1>3, <3>1 DEF IsInjective
      <4> QED
        BY <1>1, <4>1
    <3> QED
      BY <3>1 DEF IsInjective
  <2>3. ASSUME NEW x \in ToSet(s), x \in ToSet(t) PROVE FALSE
    <3>1. PICK i \in DOMAIN s : x = s[i]
      BY <2>3 DEF ToSet
    <3>2. PICK j \in DOMAIN t : x = t[j]
      BY <2>3 DEF ToSet
    <3>3. i = Len(s) + j
      BY <1>2, <1>3, <3>1, <3>2 DEF IsInjective
    <3> QED
      BY <1>1, <3>3
  <2> QED
    BY <2>1, <2>2, <2>3
<1>4. ASSUME IsInjective(s), IsInjective(t), ToSet(s) \cap ToSet(t) = {}
      PROVE  IsInjective(s \o t)
  <2> SUFFICES ASSUME NEW i \in DOMAIN (s \o t), NEW j \in DOMAIN (s \o t), (s \o t)[i] = (s \o t)[j]
               PROVE  i = j
    BY DEF IsInjective
  <2>0. i \in 1 .. Len(s) + Len(t) /\ j \in 1 .. Len(s) + Len(t)
    BY <1>1
  <2>1. CASE i <= Len(s) /\ j <= Len(s)
    <3>1. i \in DOMAIN s /\ j \in DOMAIN s /\ s[i] = s[j]
      BY <1>1, <2>0, <2>1
    <3> QED
      BY <1>4, <3>1 DEF IsInjective
  <2>2. CASE i > Len(s) /\ j > Len(s)
    <3>1. i - Len(s) \in DOMAIN t /\ j - Len(s) \in DOMAIN t /\ t[i - Len(s)] = t[j - Len(s)]
      BY <1>1, <2>0, <2>2
    <3>2. i - Len(s) = j - Len(s)
      BY <1>4, <3>1 DEF IsInjective
    <3> QED
      BY <1>1, <2>0, <3>2
  <2>3. CASE i <= Len(s) /\ j > Len(s)
    <3>1. i \in DOMAIN s /\ j - Len(s) \in DOMAIN t /\ s[i] = t[j - Len(s)]
      BY <1>1, <2>0, <2>3
    <3> QED
      BY <1>4, <3>1 DEF ToSet
  <2>4. CASE i > Len(s) /\ j <= Len(s)
    <3>1. j \in DOMAIN s /\ i - Len(s) \in DOMAIN t /\ s[j] = t[i - Len(s)]
      BY <1>1, <2>0, <2>4
    <3> QED
      BY <1>4, <3>1 DEF ToSet
  <2> QED
    BY <1>1, <2>0, <2>1, <2>2, <2>3, <2>4
<1> QED
  BY <1>3, <1>4

LEMMA One ==
  ASSUME NEW S, NEW x \in S
  PROVE  <<x>> \in Seq(S) /\ ToSet(<<x>>) = {x} /\ IsInjective(<<x>>) /\ Len(<<x>>) = 1
BY DEF ToSet, IsInjective

LEMMA Nothing ==
  ASSUME NEW S
  PROVE  <<>> \in Seq(S) /\ ToSet(<<>>) = {} /\ IsInjective(<<>>)
BY DEF ToSet, IsInjective

LEMMA ElementsIn ==
  ASSUME NEW S, NEW s \in Seq(S)
  PROVE  ToSet(s) \subseteq S /\ Len(s) \in Nat /\ \A i \in 1 .. Len(s) : s[i] \in ToSet(s)
BY LenProperties DEF ToSet

\* A sequence cut in two, and an element taken off.
LEMMA Cut ==
  ASSUME NEW S, NEW s \in Seq(S), NEW m \in Nat \ {0}, NEW k \in Nat, NEW n \in Nat,
         m <= k + 1, k <= n, n <= Len(s)
  PROVE  /\ SubSeq(s, m, n) = SubSeq(s, m, k) \o SubSeq(s, k + 1, n)
         /\ SubSeq(s, m, k) \in Seq(S) /\ SubSeq(s, k + 1, n) \in Seq(S)
         /\ SubSeq(s, m, n) \in Seq(S)
<1>1. \A i \in 1 .. Len(s) : s[i] \in S
  BY ElementOfSeq
<1>2. Len(s) \in Nat
  BY LenProperties
<1>3. SubSeq(s, m, k) \in Seq(S)
  BY <1>1, <1>2, SubSeqProperties
<1>4. SubSeq(s, k + 1, n) \in Seq(S)
  BY <1>1, <1>2, SubSeqProperties
<1>5. SubSeq(s, m, n) \in Seq(S)
  BY <1>1, <1>2, SubSeqProperties
<1>6. m \in 1 .. Len(s) + 1 /\ k \in m - 1 .. Len(s) /\ n \in k .. Len(s)
  BY <1>2
<1> QED
  BY <1>3, <1>4, <1>5, <1>6, ConcatAdjacentSubSeq

LEMMA TakeFirst ==
  ASSUME NEW S, NEW s \in Seq(S), NEW m \in Nat \ {0}, m <= Len(s)
  PROVE  /\ s[m] \in S
         /\ SubSeq(s, m, Len(s)) = <<s[m]>> \o SubSeq(s, m + 1, Len(s))
         /\ SubSeq(s, m + 1, Len(s)) \in Seq(S)
<1>1. Len(s) \in Nat /\ m \in 1 .. Len(s) /\ Len(s) \in m .. Len(s)
  BY LenProperties
<1>2. \A i \in m + 1 .. Len(s) : s[i] \in S
  BY <1>1, ElementOfSeq
<1> QED
  BY <1>1, <1>2, SubSeqRecursiveFirst, SubSeqProperties, ElementOfSeq

LEMMA Empty ==
  ASSUME NEW S, NEW s \in Seq(S)
  PROVE  /\ SubSeq(s, Len(s) + 1, Len(s)) = <<>>
         /\ s # <<>> <=> Len(s) > 0
         /\ SubSeq(s, 1, Len(s)) = s
BY LenProperties, SubSeqEmpty, SubSeqFull, EmptySeq

LEMMA HeadFirst ==
  ASSUME NEW S, NEW s \in Seq(S), s # <<>>
  PROVE  Head(s) \in S /\ Tail(s) \in Seq(S) /\ s = <<Head(s)>> \o Tail(s)
<1>1. Head(s) \in S /\ Tail(s) \in Seq(S) /\ Len(s) \in Nat /\ Len(s) > 0
  BY HeadTailProperties, Empty, LenProperties
<1>2. Tail(s) = SubSeq(s, 2, Len(s)) /\ Head(s) = s[1]
  BY <1>1, TailIsSubSeq, LenProperties
<1>3. SubSeq(s, 1, Len(s)) = <<s[1]>> \o SubSeq(s, 2, Len(s))
  BY <1>1, TakeFirst
<1> QED
  BY <1>1, <1>2, <1>3, SubSeqFull

LEMMA RemoveAtIs ==
  ASSUME NEW s, NEW k \in Nat
  PROVE  RemoveAt(s, k) = SubSeq(s, 1, k - 1) \o SubSeq(s, k + 1, Len(s))
BY DEF RemoveAt

\* The entry in flight that fails leaves the middle of the batch's files.
LEMMA Dropped ==
  ASSUME NEW S, NEW a \in Seq(S), NEW x \in S, NEW t \in Seq(S), NEW s,
         s = a \o (<<x>> \o t)
  PROVE  RemoveAt(s, Len(s) - Len(<<x>> \o t) + 1) = a \o t
<1>1. /\ <<x>> \o t \in Seq(S) /\ s \in Seq(S)
      /\ Len(a) \in Nat /\ Len(t) \in Nat /\ Len(<<x>> \o t) = 1 + Len(t)
      /\ Len(s) = Len(a) + 1 + Len(t)
  BY One, ConcatProperties, LenProperties
<1>2. Len(s) - Len(<<x>> \o t) + 1 = Len(a) + 1
  BY <1>1
<1>3. \A i \in 1 .. Len(s) : s[i] = IF i <= Len(a) THEN a[i] ELSE (<<x>> \o t)[i - Len(a)]
  BY <1>1, ConcatProperties
<1>4. \A i \in 1 .. 1 + Len(t) : (<<x>> \o t)[i] = IF i <= 1 THEN <<x>>[i] ELSE t[i - 1]
  BY <1>1, One, ConcatProperties
<1>5. \A i \in 1 .. Len(t) : s[Len(a) + 1 + i] = t[i]
  BY <1>1, <1>3, <1>4
<1>6. SubSeq(s, 1, Len(a)) = a
  <2>1. \A i \in 1 .. Len(a) : s[i] \in S
    BY <1>1, ElementOfSeq
  <2>2. /\ SubSeq(s, 1, Len(a)) \in Seq(S) /\ Len(SubSeq(s, 1, Len(a))) = Len(a)
        /\ \A i \in 1 .. Len(a) : SubSeq(s, 1, Len(a))[i] = s[1 + i - 1]
    BY <1>1, <2>1, SubSeqProperties
  <2>3. \A i \in 1 .. Len(a) : SubSeq(s, 1, Len(a))[i] = a[i]
    BY <1>1, <1>3, <2>2
  <2> QED
    BY <2>2, <2>3, SeqEqual
<1>7. SubSeq(s, Len(a) + 2, Len(s)) = t
  <2>1. \A i \in Len(a) + 2 .. Len(s) : s[i] \in S
    BY <1>1, ElementOfSeq
  <2>2. /\ SubSeq(s, Len(a) + 2, Len(s)) \in Seq(S)
        /\ Len(SubSeq(s, Len(a) + 2, Len(s))) = Len(t)
        /\ \A i \in 1 .. Len(t) : SubSeq(s, Len(a) + 2, Len(s))[i] = s[Len(a) + 2 + i - 1]
    <3>1. /\ SubSeq(s, Len(a) + 2, Len(s)) \in Seq(S)
          /\ Len(SubSeq(s, Len(a) + 2, Len(s))) =
               IF Len(a) + 2 <= Len(s) THEN Len(s) - (Len(a) + 2) + 1 ELSE 0
          /\ \A i \in 1 .. Len(s) - (Len(a) + 2) + 1 :
               SubSeq(s, Len(a) + 2, Len(s))[i] = s[Len(a) + 2 + i - 1]
      BY <1>1, <2>1, SubSeqProperties
    <3>2. Len(s) - (Len(a) + 2) + 1 = Len(t)
      BY <1>1
    <3>3. Len(SubSeq(s, Len(a) + 2, Len(s))) = Len(t)
      BY <1>1, <3>1
    <3> QED
      BY <3>1, <3>2, <3>3
  <2>3. \A i \in 1 .. Len(t) : SubSeq(s, Len(a) + 2, Len(s))[i] = t[i]
    <3> TAKE i \in 1 .. Len(t)
    <3>1. Len(a) + 2 + i - 1 = Len(a) + 1 + i
      BY <1>1
    <3> QED
      BY <1>5, <2>2, <3>1
  <2> QED
    BY <2>2, <2>3, SeqEqual
<1>8. PICK k \in Nat : k = Len(a) + 1
  BY <1>1
<1>9. RemoveAt(s, k) = a \o t
  <2>1. RemoveAt(s, k) = SubSeq(s, 1, k - 1) \o SubSeq(s, k + 1, Len(s))
    BY RemoveAtIs
  <2>2. k - 1 = Len(a) /\ k + 1 = Len(a) + 2
    BY <1>1, <1>8
  <2> QED
    BY <1>6, <1>7, <2>1, <2>2
<1> QED
  BY <1>2, <1>8, <1>9

LEMMA FreshSeq ==
  ASSUME NEW S, IsFiniteSet(S)
  PROVE  SetToSeq(S) \in Seq(S) /\ IsInjective(SetToSeq(S)) /\ ToSet(SetToSeq(S)) \subseteq S
<1>1. Cardinality(S) \in Nat /\ ExistsBijection(1 .. Cardinality(S), S)
  BY FS_CardinalityType
<1>2. \E f \in [1 .. Cardinality(S) -> S] : IsInjective(f)
  BY <1>1 DEF ExistsBijection, Bijection, Injection, Surjection
<1>3. SetToSeq(S) \in [1 .. Cardinality(S) -> S] /\ IsInjective(SetToSeq(S))
  BY <1>2 DEF SetToSeq
<1>4. SetToSeq(S) \in Seq(S)
  BY <1>1, <1>3, SeqDef
<1> QED
  BY <1>3, <1>4, ElementsIn

LEMMA SuffixSet ==
  ASSUME NEW S, NEW s \in Seq(S), NEW m \in Nat \ {0}
  PROVE  /\ SubSeq(s, m, Len(s)) \in Seq(S)
         /\ ToSet(SubSeq(s, m, Len(s))) \subseteq ToSet(s)
<1>1. Len(s) \in Nat /\ DOMAIN s = 1 .. Len(s) /\ \A i \in 1 .. Len(s) : s[i] \in S
  BY LenProperties, ElementOfSeq
<1>2. \A i \in m .. Len(s) : s[i] \in S
  BY <1>1
<1>3. PICK r \in Seq(S) : r = SubSeq(s, m, Len(s))
  <2>1. SubSeq(s, m, Len(s)) \in Seq(S)
    BY <1>1, <1>2, SubSeqProperties
  <2> QED
    BY <2>1
<1>4. Len(r) = (IF m <= Len(s) THEN Len(s) - m + 1 ELSE 0)
      /\ \A i \in 1 .. Len(s) - m + 1 : r[i] = s[m + i - 1]
  BY <1>1, <1>2, <1>3, SubSeqProperties
<1>5. ASSUME NEW i \in 1 .. Len(r) PROVE r[i] \in ToSet(s)
  <2>1. i \in 1 .. Len(s) - m + 1 /\ m + i - 1 \in DOMAIN s
    BY <1>1, <1>4
  <2> QED
    BY <1>4, <2>1 DEF ToSet
<1>6. DOMAIN r = 1 .. Len(r)
  BY LenProperties
<1> QED
  BY <1>3, <1>5, <1>6 DEF ToSet

LEMMA Joined ==
  ASSUME NEW S, NEW s \in Seq(S), NEW t \in Seq(S)
  PROVE  /\ s \o t \in Seq(S) /\ ToSet(s \o t) = ToSet(s) \union ToSet(t)
         /\ IsInjective(s \o t) <=>
              IsInjective(s) /\ IsInjective(t) /\ ToSet(s) \cap ToSet(t) = {}
BY ConcatSet, ConcatInjective

LEMMA Headed ==
  ASSUME NEW S, NEW x \in S, NEW t \in Seq(S)
  PROVE  /\ <<x>> \o t \in Seq(S) /\ ToSet(<<x>> \o t) = {x} \union ToSet(t)
         /\ IsInjective(<<x>> \o t) <=> IsInjective(t) /\ x \notin ToSet(t)
<1>1. \A o \in Seq(S) :
        ToSet(o) = {x} /\ IsInjective(o) =>
          /\ o \o t \in Seq(S) /\ ToSet(o \o t) = {x} \union ToSet(t)
          /\ IsInjective(o \o t) <=> IsInjective(t) /\ x \notin ToSet(t)
  <2> TAKE o \in Seq(S)
  <2>1. /\ o \o t \in Seq(S) /\ ToSet(o \o t) = ToSet(o) \union ToSet(t)
        /\ IsInjective(o \o t) <=> IsInjective(o) /\ IsInjective(t) /\ ToSet(o) \cap ToSet(t) = {}
    BY Joined
  <2> QED
    BY <2>1
<1>2. <<x>> \in Seq(S) /\ ToSet(<<x>>) = {x} /\ IsInjective(<<x>>)
  BY One
<1> QED
  BY <1>1, <1>2, ZenonT(60)

\* A sequence with x between a and t, and the same without it.
LEMMA Between ==
  ASSUME NEW S, NEW a \in Seq(S), NEW x \in S, NEW t \in Seq(S)
  PROVE  /\ a \o (<<x>> \o t) \in Seq(S) /\ (a \o <<x>>) \o t \in Seq(S)
         /\ ToSet(a \o (<<x>> \o t)) = ToSet(a) \union {x} \union ToSet(t)
         /\ ToSet((a \o <<x>>) \o t) = ToSet(a) \union {x} \union ToSet(t)
         /\ IsInjective(a \o (<<x>> \o t)) <=>
              IsInjective(a \o t) /\ x \notin ToSet(a) \union ToSet(t)
         /\ IsInjective((a \o <<x>>) \o t) <=> IsInjective(a \o (<<x>> \o t))
<1>1. PICK p \in Seq(S) :
        /\ p = <<x>> \o t /\ ToSet(p) = {x} \union ToSet(t)
        /\ IsInjective(p) <=> IsInjective(t) /\ x \notin ToSet(t)
  BY Headed
<1>2. /\ a \o p \in Seq(S) /\ ToSet(a \o p) = ToSet(a) \union ToSet(p)
      /\ IsInjective(a \o p) <=> IsInjective(a) /\ IsInjective(p) /\ ToSet(a) \cap ToSet(p) = {}
  <2>1. \A r \in Seq(S) :
          /\ a \o r \in Seq(S) /\ ToSet(a \o r) = ToSet(a) \union ToSet(r)
          /\ IsInjective(a \o r) <=>
               IsInjective(a) /\ IsInjective(r) /\ ToSet(a) \cap ToSet(r) = {}
    BY Joined
  <2> QED
    BY <1>1, <2>1, ZenonT(60)
<1>3. PICK q \in Seq(S) :
        /\ q = a \o <<x>> /\ ToSet(q) = ToSet(a) \union {x}
        /\ IsInjective(q) <=> IsInjective(a) /\ x \notin ToSet(a)
  <2>1. \A o \in Seq(S) :
          ToSet(o) = {x} /\ IsInjective(o) =>
            /\ a \o o \in Seq(S) /\ ToSet(a \o o) = ToSet(a) \union {x}
            /\ IsInjective(a \o o) <=> IsInjective(a) /\ x \notin ToSet(a)
    <3> TAKE o \in Seq(S)
    <3>1. /\ a \o o \in Seq(S) /\ ToSet(a \o o) = ToSet(a) \union ToSet(o)
          /\ IsInjective(a \o o) <=>
               IsInjective(a) /\ IsInjective(o) /\ ToSet(a) \cap ToSet(o) = {}
      BY Joined
    <3> QED
      BY <3>1
  <2>2. <<x>> \in Seq(S) /\ ToSet(<<x>>) = {x} /\ IsInjective(<<x>>)
    BY One
  <2> QED
    BY <2>1, <2>2, ZenonT(60)
<1>4. /\ q \o t \in Seq(S) /\ ToSet(q \o t) = ToSet(q) \union ToSet(t)
      /\ IsInjective(q \o t) <=> IsInjective(q) /\ IsInjective(t) /\ ToSet(q) \cap ToSet(t) = {}
  <2>1. \A r \in Seq(S) :
          /\ r \o t \in Seq(S) /\ ToSet(r \o t) = ToSet(r) \union ToSet(t)
          /\ IsInjective(r \o t) <=>
               IsInjective(r) /\ IsInjective(t) /\ ToSet(r) \cap ToSet(t) = {}
    BY Joined
  <2> QED
    BY <1>3, <2>1, ZenonT(60)
<1>5. IsInjective(a \o t) <=> IsInjective(a) /\ IsInjective(t) /\ ToSet(a) \cap ToSet(t) = {}
  BY Joined
<1>6. /\ IsInjective(a \o p) <=> IsInjective(a \o t) /\ x \notin ToSet(a) \union ToSet(t)
      /\ IsInjective(q \o t) <=> IsInjective(a \o p)
  <2>1. IsInjective(a \o p) <=>
          /\ IsInjective(a) /\ IsInjective(t) /\ x \notin ToSet(t) /\ x \notin ToSet(a)
          /\ ToSet(a) \cap ToSet(t) = {}
    BY <1>1, <1>2
  <2>2. IsInjective(q \o t) <=>
          /\ IsInjective(a) /\ IsInjective(t) /\ x \notin ToSet(t) /\ x \notin ToSet(a)
          /\ ToSet(a) \cap ToSet(t) = {}
    BY <1>3, <1>4
  <2> QED
    BY <1>5, <2>1, <2>2
<1>7. /\ ToSet(a \o p) = ToSet(a) \union {x} \union ToSet(t)
      /\ ToSet(q \o t) = ToSet(a) \union {x} \union ToSet(t)
  BY <1>1, <1>2, <1>3, <1>4
<1> QED
  BY <1>1, <1>2, <1>3, <1>4, <1>6, <1>7

(***************************************************************************)
(* The places of Pipeline.                                                 *)
(***************************************************************************)
LEMMA PartsTyped ==
  ASSUME UploaderAssumption, TypeOK
  PROVE  W \in Seq(File) /\ C \in Seq(File) /\ Unadded \in Seq(File)
<1>1. ASSUME NEW s \in Seq(File), NEW m \in Nat \ {0} PROVE SubSeq(s, m, Len(s)) \in Seq(File)
  <2>1. Len(s) \in Nat /\ \A i \in m .. Len(s) : s[i] \in File
    BY LenProperties, ElementOfSeq
  <2> QED
    BY <2>1, SubSeqProperties
<1>2. ASSUME NEW b \in 0 .. MaxBatch PROVE Working(b) \in Seq(File)
  <2>1. CASE b = 0 \/ (batch[b].phase = "finalize" /\ batch[b].cancelled)
    BY <2>1, EmptySeq DEF Working
  <2>2. CASE ~(b = 0 \/ (batch[b].phase = "finalize" /\ batch[b].cancelled))
    <3>1. batch[b].files \in Seq(File) /\ batch[b].at \in Nat \ {0}
      BY <2>2, UploaderAssumption DEF UploaderAssumption, TypeOK, BatchRow, Batch
    <3> QED
      BY <1>1, <2>2, <3>1 DEF Working
  <2> QED
    BY <2>1, <2>2
<1>3. Unadded \in Seq(File)
  <2>1. CASE draining = 0
    BY <2>1, EmptySeq DEF Unadded
  <2>2. CASE draining # 0
    <3>1. loop[draining] \in LoopRow
      BY <2>2, UploaderAssumption DEF UploaderAssumption, TypeOK, Gen
    <3>2. /\ loop[draining].entries \in Seq(File)
          /\ loop[draining].next \in Nat \ {0} /\ loop[draining].window \in Nat
      BY <3>1 DEF LoopRow
    <3>3. loop[draining].next + loop[draining].window \in Nat \ {0}
      BY <3>2
    <3> QED
      BY <1>1, <2>2, <3>2, <3>3 DEF Unadded
  <2> QED
    BY <2>1, <2>2
<1> QED
  BY <1>2, <1>3 DEF W, C, TypeOK

LEMMA PipelineIs ==
  ASSUME UploaderAssumption, TypeOK
  PROVE  (IsInjective(Pipeline) <=> Apart) /\ ToSet(Pipeline) = Places
<1>1. /\ W \in Seq(File) /\ C \in Seq(File) /\ Unadded \in Seq(File)
      /\ explicit \in Seq(File) /\ polled \in Seq(File)
  BY PartsTyped DEF TypeOK
<1>2. PICK p \in Seq(File) : p = W \o C
  BY <1>1, ConcatSet
<1>3. PICK q \in Seq(File) : q = p \o Unadded
  BY <1>1, ConcatSet
<1>4. PICK r \in Seq(File) : r = q \o explicit
  BY <1>1, ConcatSet
<1>5. PICK s \in Seq(File) : s = r \o polled
  BY <1>1, ConcatSet
<1>6. Pipeline = s
  BY <1>2, <1>3, <1>4, <1>5 DEF Pipeline, W, C
<1>7. /\ ToSet(p) = ToSet(W) \union ToSet(C) /\ ToSet(q) = ToSet(p) \union ToSet(Unadded)
      /\ ToSet(r) = ToSet(q) \union ToSet(explicit) /\ ToSet(s) = ToSet(r) \union ToSet(polled)
  <2>1. \A x \in Seq(File), y \in Seq(File) : ToSet(x \o y) = ToSet(x) \union ToSet(y)
    BY ConcatSet
  <2> QED
    BY <1>1, <1>2, <1>3, <1>4, <1>5, <2>1
<1>8. /\ IsInjective(p) <=> IsInjective(W) /\ IsInjective(C) /\ ToSet(W) \cap ToSet(C) = {}
      /\ IsInjective(q) <=>
           IsInjective(p) /\ IsInjective(Unadded) /\ ToSet(p) \cap ToSet(Unadded) = {}
      /\ IsInjective(r) <=>
           IsInjective(q) /\ IsInjective(explicit) /\ ToSet(q) \cap ToSet(explicit) = {}
      /\ IsInjective(s) <=>
           IsInjective(r) /\ IsInjective(polled) /\ ToSet(r) \cap ToSet(polled) = {}
  BY <1>1, <1>2, <1>3, <1>4, <1>5, ConcatInjective
<1>9. IsInjective(s) <=> Apart
  BY <1>7, <1>8 DEF Apart
<1> QED
  BY <1>6, <1>7, <1>9 DEF Places

LEMMA PlacesTyped ==
  ASSUME UploaderAssumption, TypeOK
  PROVE  /\ Places \subseteq File /\ Done \subseteq File
         /\ ToSet(W) \subseteq File /\ ToSet(C) \subseteq File /\ ToSet(Unadded) \subseteq File
         /\ ToSet(explicit) \subseteq File /\ ToSet(polled) \subseteq File
<1>1. /\ W \in Seq(File) /\ C \in Seq(File) /\ Unadded \in Seq(File)
      /\ explicit \in Seq(File) /\ polled \in Seq(File)
  BY PartsTyped DEF TypeOK
<1>2. Done \subseteq File
  BY UploaderAssumption DEF Done, TypeOK, BatchRow, Batch, UploaderAssumption
<1> QED
  BY <1>1, <1>2, ElementsIn DEF Places

(***************************************************************************)
(* Steps of a loop that is in no drain, and steps of none.                 *)
(***************************************************************************)
Idles(l) == l.pc \notin {"none", "entries", "open", "add", "flush"}

LEMMA NoLoopRow ==
  ASSUME UploaderAssumption
  PROVE  NoLoop \in LoopRow /\ LoopSound(NoLoop) /\ NoBatch \in BatchRow
BY UploaderAssumption DEF NoLoop, LoopRow, LoopSound, NoBatch, BatchRow, Underway, UploaderAssumption

LEMMA LoopFrame ==
  ASSUME UploaderAssumption, Sound, TypeOK',
         UNCHANGED <<handles, batch, shut, active, generation, swapped>>,
         \A h \in Gen : LoopSound(loop'[h]) /\ (h > generation => loop'[h] = NoLoop),
         active /\ uploading # 0 => loop'[generation].pc = "flush",
         ~active => polled' = <<>> /\ draining' = 0,
         Drains', current # 0 => Fly' = Fly
  PROVE  Sound'
<1>1. Handles'
  BY DEF Sound, Handles, handles
<1>2. Flags'
  BY DEF Sound, Flags, handles
<1>3. \A h \in Gen : LoopSound(loop[h])'
  BY DEF LoopSound, handles
<1>4. Batches'
  BY DEF Sound, Batches, handles
<1> QED
  BY <1>1, <1>2, <1>3, <1>4 DEF Sound

LEMMA IdleStep ==
  ASSUME UploaderAssumption, Sound, TypeOK', NEW g \in Gen, NEW r \in LoopRow,
         UNCHANGED <<handles, batch, shut, active, generation, draining, swapped>>,
         loop' = [loop EXCEPT ![g] = r],
         ~active => polled' = <<>>,
         Idles(loop[g]), Idles(r), r.next + r.window <= Len(r.entries) + 1
  PROVE  Sound'
<1>1. loop'[g] = r /\ \A h \in Gen : h # g => loop'[h] = loop[h]
  BY DEF Sound, TypeOK
<1>2. LoopSound(r)
  BY DEF LoopSound, Idles
<1>3. loop[g] # NoLoop
  BY DEF Idles, NoLoop
<1>4. \A h \in Gen : LoopSound(loop'[h]) /\ (h > generation => loop'[h] = NoLoop)
  BY <1>1, <1>2, <1>3 DEF Sound, Flags
<1>5. active /\ uploading # 0 => loop'[generation].pc = "flush"
  BY <1>1 DEF Sound, Flags, Idles, TypeOK
<1>6. Drains'
  <2>1. InDrain(loop[generation])' <=> InDrain(loop[generation])
    BY <1>1 DEF InDrain, Idles, Sound, TypeOK
  <2>2. draining # 0 => draining # g
    BY DEF Sound, Drains, Idles, InDrain
  <2>3. loop'[generation].pc \in {"add", "open", "flush"} => loop'[generation] = loop[generation]
    BY <1>1 DEF Idles, Sound, TypeOK
  <2>4. draining # 0 => loop'[draining] = loop[draining]
    BY <1>1, <2>2 DEF Sound, TypeOK, Gen
  <2> QED
    BY <2>1, <2>3, <2>4 DEF Drains, Sound, InDrain, handles
<1>7. current # 0 => Fly' = Fly
  BY <1>1 DEF Fly, Idles, Sound, TypeOK
<1> QED
  BY <1>1, <1>4, <1>5, <1>6, <1>7, LoopFrame DEF Sound, Flags

LEMMA WokenStep ==
  ASSUME UploaderAssumption, Sound, TypeOK', NEW pcs, pcs \subseteq {"parked", "idle", "sleep"},
         UNCHANGED <<handles, batch, shut, active, generation, draining, polled, swapped>>,
         loop' = Woken(loop, pcs)
  PROVE  Sound'
<1>1. \A h \in Gen :
        \/ loop'[h] = loop[h]
        \/ Idles(loop[h]) /\ loop'[h] = [loop[h] EXCEPT !.pc = "top"]
  BY DEF Woken, Idles
<1>2. \A h \in Gen : loop[h] \in LoopRow
  BY DEF Sound, TypeOK
<1>3. ASSUME NEW h \in Gen, Idles(loop[h]), loop'[h] = [loop[h] EXCEPT !.pc = "top"]
      PROVE  LoopSound(loop'[h]) /\ loop[h] # NoLoop /\ Idles(loop'[h])
    BY <1>2, <1>3 DEF LoopSound, Idles, LoopRow, Sound, NoLoop
<1>4. \A h \in Gen : LoopSound(loop'[h]) /\ (h > generation => loop'[h] = NoLoop)
  BY <1>1, <1>3 DEF Sound, Flags
<1>5. active /\ uploading # 0 => loop'[generation].pc = "flush"
  BY <1>1 DEF Sound, Flags, Idles, TypeOK
<1>6. Drains'
  <2>1. \A h \in Gen : InDrain(loop[h])' <=> InDrain(loop[h])
    BY <1>1, <1>3 DEF InDrain, Idles
  <2>2. loop'[generation].pc \in {"add", "open", "flush"} => loop'[generation] = loop[generation]
    BY <1>1, <1>3 DEF Idles, Sound, TypeOK
  <2>3. draining \in Gen \/ draining = 0
    BY UploaderAssumption DEF Sound, TypeOK, Gen, UploaderAssumption
  <2>4. generation \in Gen
    BY DEF Sound, TypeOK
  <2> QED
    BY <2>1, <2>2, <2>3, <2>4 DEF Drains, Sound, handles
<1>7. current # 0 => Fly' = Fly
  <2>1. generation \in Gen
    BY DEF Sound, TypeOK
  <2> QED
    BY <1>1, <1>3, <2>1 DEF Fly, Idles
<1> QED
  BY <1>4, <1>5, <1>6, <1>7, LoopFrame DEF Sound, Flags

LEMMA StillStep ==
  ASSUME UploaderAssumption, Sound, TypeOK',
         UNCHANGED <<handles, batch, loop, shut, active, generation, draining, polled, swapped>>
  PROVE  Sound'
<1>1. Fly' = Fly
  BY DEF Fly
<1>2. Drains'
  BY DEF Sound, Drains, InDrain, handles
<1> QED
  BY <1>1, <1>2, LoopFrame DEF Sound, Flags

(***************************************************************************)
(* Sound: the steps of a loop before its drain.                            *)
(***************************************************************************)
LEMMA TopSound ==
  ASSUME UploaderAssumption, Sound, NEW g \in Gen, Top(g)
  PROVE  Sound'
<1>0. loop[g] \in LoopRow /\ LoopSound(loop[g]) /\ explicit \in Seq(File) /\ polled \in Seq(File)
      /\ loop \in [Gen -> LoopRow]
  BY DEF Sound, TypeOK
<1>1. CASE ~Stale(g) /\ ~suspended /\ explicit \o polled # <<>>
  <2> DEFINE r == [NoLoop EXCEPT !.pc = "entries", !.entries = explicit \o polled]
  <2>1. explicit \o polled \in Seq(File) /\ Len(explicit \o polled) \in Nat
    BY <1>0, ConcatSet, LenProperties
  <2>2. r \in LoopRow /\ r.pc = "entries" /\ LoopSound(r) /\ r # NoLoop
    <3>1. /\ r.pc = "entries" /\ r.entries = explicit \o polled /\ r.next = 1 /\ r.window = 0
          /\ ~r.last /\ r \in LoopRow
      BY <2>1, NoLoopRow DEF LoopRow, NoLoop
    <3>2. NoLoop.pc = "none"
      BY DEF NoLoop
    <3> HIDE DEF r
    <3> QED
      BY <2>1, <3>1, <3>2 DEF LoopSound
  <2>3. /\ loop' = [loop EXCEPT ![g] = r] /\ explicit' = <<>> /\ polled' = <<>> /\ draining' = g
        /\ UNCHANGED <<store, uploads, flags, handles, batch, counts>>
    BY <1>1 DEF Top
  <2> HIDE DEF r
  <2>4. loop'[g] = r /\ \A h \in Gen : h # g => loop'[h] = loop[h]
    BY <1>0, <2>3
  <2>5. TypeOK'
    BY <2>2, <2>3, EmptySeq DEF Sound, TypeOK, Gen, store, flags, handles, counts
  <2>6. active /\ g = generation /\ loop[g].pc = "top"
    BY <1>1 DEF Stale, Top, Sound, TypeOK
  <2>7. uploading = 0
    BY <2>6 DEF Sound, Flags
  <2>8. Drains'
    BY <2>2, <2>3, <2>4, <2>6 DEF Drains, InDrain, flags, handles
  <2>9. Fly' = Fly
    BY <2>2, <2>3, <2>4, <2>6 DEF Fly, flags
  <2>10. \A h \in Gen : LoopSound(loop'[h]) /\ (h > generation => loop'[h] = NoLoop)
    BY <2>2, <2>4, <2>6 DEF Sound, Flags, TypeOK, Gen
  <2> QED
    BY <2>3, <2>5, <2>6, <2>7, <2>8, <2>9, <2>10, LoopFrame DEF flags, store
<1>2. CASE ~(~Stale(g) /\ ~suspended /\ explicit \o polled # <<>>)
  <2>1. PICK pc \in {"over", "parked", "query"} :
          /\ loop' = [loop EXCEPT ![g].pc = pc]
          /\ UNCHANGED <<store, uploads, queues, flags, handles, batch, counts>>
    BY <1>2 DEF Top, Goto
  <2> DEFINE r == [loop[g] EXCEPT !.pc = pc]
  <2>2. loop[g].pc = "top"
    BY DEF Top
  <2>3. /\ r \in LoopRow /\ Idles(r) /\ Idles(loop[g]) /\ r.next + r.window <= Len(r.entries) + 1
        /\ loop' = [loop EXCEPT ![g] = r]
    BY <1>0, <2>1, <2>2 DEF LoopRow, Idles, LoopSound
  <2> HIDE DEF r
  <2>4. TypeOK'
    BY <2>1, <2>3 DEF Sound, TypeOK, store, queues, flags, handles, counts
  <2> QED
    BY <2>1, <2>3, <2>4, IdleStep DEF flags, store, queues, Sound, Flags
<1> QED
  BY <1>1, <1>2

LEMMA GatedSound ==
  ASSUME UploaderAssumption, Sound, NEW g \in Gen, Gated(g)
  PROVE  Sound'
<1>0. loop[g] \in LoopRow /\ LoopSound(loop[g]) /\ loop \in [Gen -> LoopRow]
  BY DEF Sound, TypeOK
<1>1. PICK pc \in {"top", "sleep"} : loop' = [loop EXCEPT ![g] = [NoLoop EXCEPT !.pc = pc]]
  BY DEF Gated
<1>2. loop[g].pc \in {"top", "query"} /\ UNCHANGED <<store, uploads, queues, flags, handles, batch, counts>>
  BY DEF Gated
<1> DEFINE r == [NoLoop EXCEPT !.pc = pc]
<1>3. r \in LoopRow /\ Idles(r) /\ Idles(loop[g]) /\ r.next + r.window <= Len(r.entries) + 1
  <2>1. r \in LoopRow /\ r.pc = pc /\ r.next = 1 /\ r.window = 0 /\ r.entries = <<>>
    BY NoLoopRow DEF LoopRow, NoLoop
  <2> HIDE DEF r
  <2> QED
    BY <1>2, <2>1 DEF Idles
<1> HIDE DEF r
<1>4. loop' = [loop EXCEPT ![g] = r]
  BY <1>1 DEF r
<1>5. TypeOK'
  BY <1>2, <1>3, <1>4 DEF Sound, TypeOK, store, queues, flags, handles, counts
<1> QED
  BY <1>2, <1>3, <1>4, <1>5, IdleStep DEF flags, store, queues, Sound, Flags

\* flush(), for the loop that is not stale: the batch has no entry in flight, and
\* its files, like those its packer added, are what is left of them.
LEMMA FlushSound ==
  ASSUME UploaderAssumption, Sound, NEW g \in Gen, NEW up, NEW bs, NEW l,
         Flush(g, up, bs, l), UNCHANGED <<store, queues, flags, acts>>,
         ~Stale(g), fails' \in Nat, current # 0, uploads' \in [File -> Status],
         bs \in [Batch -> BatchRow], l \in LoopRow,
         \A b \in Batch : b # current => bs[b] = batch[b],
         bs[current].phase = "open", bs[current].files = bs[current].added,
         bs[current].at = 1, bs[current].won = {}, bs[current].gone = {}, ~bs[current].cancelled,
         l.pc = "flush", l.next + l.window <= Len(l.entries) + 1,
         l.entries # <<>> /\ l.last => l.window = 0 /\ l.next <= Len(l.entries),
         draining = g <=> l.entries # <<>>
  PROVE  Sound'
<1> DEFINE r == [l EXCEPT !.batch = current]
           q == [bs EXCEPT ![current].phase = "finalize"]
<1>1. /\ active /\ g = generation /\ current \in Batch /\ uploading = 0 /\ ~shut.on
      /\ generation \in Gen /\ loop \in [Gen -> LoopRow]
  BY UploaderAssumption
     DEF Stale, Sound, TypeOK, Handles, Flags, Batch, UploaderAssumption
<1>2. /\ current' = 0 /\ uploading' = current /\ flushing' = current
      /\ batch' = q /\ loop' = [loop EXCEPT ![g] = r]
      /\ hazard' \in {hazard, hazard \union {"suspended"}}
  BY DEF Flush
<1>3. r \in LoopRow /\ r.pc = "flush" /\ r.entries = l.entries /\ r.batch = current
      /\ r.next = l.next /\ r.window = l.window /\ r.last = l.last
  <2>1. current \in 0 .. MaxBatch
    BY DEF Sound, TypeOK
  <2>2. r \in LoopRow
    BY <2>1 DEF LoopRow
  <2>3. DOMAIN l = {"pc", "entries", "next", "window", "fly", "batch", "found", "last"}
    BY DEF LoopRow
  <2> QED
    BY <2>2, <2>3
<1>4. /\ q \in [Batch -> BatchRow] /\ q[current] = [bs[current] EXCEPT !.phase = "finalize"]
      /\ \A b \in Batch : b # current => q[b] = batch[b]
  BY <1>1, ZenonT(60) DEF BatchRow, Underway
<1> HIDE DEF r, q
<1>5. loop'[g] = r /\ \A h \in Gen : h # g => loop'[h] = loop[h]
  BY <1>1, <1>2
<1>6. TypeOK'
  <2>1. current \in 0 .. MaxBatch /\ 0 \in 0 .. MaxBatch
    BY <1>1, UploaderAssumption DEF Batch, UploaderAssumption
  <2>2. loop' \in [Gen -> LoopRow] /\ batch' \in [Batch -> BatchRow] /\ hazard' \in SUBSET Races
    BY <1>1, <1>2, <1>3, <1>4 DEF Sound, TypeOK, Races
  <2> QED
    BY <1>2, <2>1, <2>2 DEF Sound, TypeOK, store, queues, flags
<1>7. bs[current] \in BatchRow /\ q[current].phase = "finalize" /\ q[current].files = bs[current].files
      /\ q[current].added = bs[current].added /\ q[current].at = 1 /\ q[current].won = {}
      /\ q[current].gone = {} /\ ~q[current].cancelled
  BY <1>1, <1>4 DEF BatchRow
<1>8. Handles'
  <2>1. ASSUME NEW b \in Batch
        PROVE  /\ batch'[b].phase = "open" <=> b = 0
               /\ batch'[b].phase \in Underway <=> b = current
               /\ batch'[b].phase = "none" => batch'[b] = NoBatch
    <3>1. CASE b = current
      BY <1>1, <1>2, <1>7, <3>1 DEF Underway, Batch
    <3>2. CASE b # current
      BY <1>1, <1>2, <1>4, <3>2 DEF Sound, Handles, Batch
    <3> QED
      BY <3>1, <3>2
  <2> QED
    BY <1>2, <2>1 DEF Handles
<1>9. Flags'
  BY <1>1, <1>2, <1>3, <1>5 DEF Sound, Flags, flags, queues, Gen
<1>10. ASSUME NEW h \in Gen PROVE LoopSound(loop[h])'
  <2>1. CASE h = g
    BY <1>1, <1>2, <1>3, <1>5, <2>1 DEF LoopSound, Batch
  <2>2. CASE h # g
    <3>1. loop[h].pc # "flush"
      BY <1>1 DEF Sound, LoopSound
    <3> QED
      BY <1>5, <2>2, <3>1 DEF Sound, LoopSound
  <2> QED
    BY <2>1, <2>2
<1>11. Drains'
  BY <1>1, <1>2, <1>3, <1>5 DEF Sound, Drains, InDrain, queues, flags, Gen
<1>12. Batches'
  <2>1. Len(q[current].files) \in Nat
    BY <1>7, LenProperties DEF BatchRow
  <2> QED
    BY <1>1, <1>2, <1>7, <2>1 DEF Batches, flags, Batch
<1> QED
  BY <1>6, <1>8, <1>9, <1>10, <1>11, <1>12 DEF Sound, store

\* The batch of the loop that is not stale and has no entry in flight.
LEMMA OpenBatch ==
  ASSUME UploaderAssumption, Sound, NEW g \in Gen, ~Stale(g), current # 0, loop[g].pc # "add"
  PROVE  /\ current \in Batch /\ batch[current] \in BatchRow /\ batch[current].phase = "open"
         /\ batch[current].files = batch[current].added /\ batch[current].at = 1
         /\ batch[current].won = {} /\ batch[current].gone = {} /\ ~batch[current].cancelled
<1>1. current \in Batch /\ g = generation
  BY UploaderAssumption DEF Sound, TypeOK, Batch, UploaderAssumption, Stale
<1>2. batch[current] \in BatchRow /\ Fly = <<>>
  BY <1>1 DEF Sound, TypeOK, Fly
<1>3. batch[current].added \in Seq(File) /\ batch[current].added \o <<>> = batch[current].added
  BY <1>2, ConcatEmptySeq DEF BatchRow
<1> QED
  BY <1>1, <1>2, <1>3 DEF Sound, Handles, Batches

\* The flush of a loop that is in no drain.
LEMMA IdleFlush ==
  ASSUME UploaderAssumption, Sound, NEW g \in Gen, NEW up,
         Flush(g, up, batch, [NoLoop EXCEPT !.pc = "flush"]),
         UNCHANGED <<store, queues, flags, acts, fails>>,
         Waits(g) = "idle", Idles(loop[g]), uploads' \in [File -> Status]
  PROVE  Sound'
<1>1. ~Stale(g) /\ current # 0
  BY DEF Waits
<1> DEFINE l == [NoLoop EXCEPT !.pc = "flush"]
<1>2. /\ l \in LoopRow /\ l.pc = "flush" /\ l.entries = <<>>
      /\ l.next + l.window <= Len(l.entries) + 1
  <2>1. l \in LoopRow /\ l.pc = "flush" /\ l.entries = <<>> /\ l.next = 1 /\ l.window = 0
    BY NoLoopRow DEF LoopRow, NoLoop
  <2> HIDE DEF l
  <2> QED
    BY <2>1
<1>3. Flush(g, up, batch, l)
  OBVIOUS
<1> HIDE DEF l
<1>4. draining # g
  BY <1>1 DEF Sound, Drains, InDrain, Idles, Gen
<1>5. loop[g].pc # "add" /\ fails' \in Nat /\ batch \in [Batch -> BatchRow]
  BY DEF Idles, Sound, TypeOK
<1> QED
  BY <1>1, <1>2, <1>3, <1>4, <1>5, OpenBatch, FlushSound

LEMMA GotoIdle ==
  ASSUME UploaderAssumption, Sound, TypeOK', NEW g \in Gen, NEW pc,
         pc \in {"top", "over", "parked", "query", "poll", "idle", "sleep"}, Idles(loop[g]),
         UNCHANGED <<handles, batch, shut, active, generation, draining, swapped>>,
         Goto(g, pc), ~active => polled' = <<>>
  PROVE  Sound'
<1>1. loop[g] \in LoopRow /\ LoopSound(loop[g]) /\ loop \in [Gen -> LoopRow]
  BY DEF Sound, TypeOK
<1> DEFINE r == [loop[g] EXCEPT !.pc = pc]
<1>2. /\ r \in LoopRow /\ Idles(r) /\ r.next + r.window <= Len(r.entries) + 1
      /\ loop' = [loop EXCEPT ![g] = r]
  BY <1>1 DEF LoopRow, Idles, LoopSound, Goto
<1> HIDE DEF r
<1> QED
  BY <1>2, IdleStep

LEMMA GotoTyped ==
  ASSUME NEW g \in Gen, NEW pc, loop \in [Gen -> LoopRow], Goto(g, pc),
         pc \in {"top", "over", "parked", "query", "poll", "idle", "sleep", "entries", "open"}
  PROVE  loop' \in [Gen -> LoopRow]
<1>1. [loop[g] EXCEPT !.pc = pc] \in LoopRow
  BY DEF LoopRow
<1> QED
  BY <1>1 DEF Goto

LEMMA WaitsIs ==
  ASSUME NEW g \in Gen
  PROVE  Waits(g) \in {"over", "top", "idle", "sleep"}
BY DEF Waits

LEMMA Statuses ==
  ASSUME NEW up \in [File -> Status], NEW ids, NEW refused
  PROVE  /\ setStatus(up, ids) \in [File -> Status]
         /\ failEntry(up, ids, refused) \in [File -> Status]
         /\ removeMany(up, ids) \in [File -> Status]
BY DEF setStatus, failEntry, removeMany, Status

LEMMA PollSkipSound ==
  ASSUME UploaderAssumption, Sound, NEW g \in Gen, PollSkip(g)
  PROVE  Sound'
<1>0. loop[g].pc = "query" /\ Idles(loop[g]) /\ UNCHANGED <<store, queues, flags, acts, fails>>
  BY DEF PollSkip, Idles
<1>1. CASE loop[g].last /\ Waits(g) = "idle"
  <2>1. Flush(g, uploads, batch, [NoLoop EXCEPT !.pc = "flush"])
    BY <1>1 DEF PollSkip
  <2>2. uploads' \in [File -> Status]
    BY <2>1, Statuses DEF Flush, Sound, TypeOK
  <2> QED
    BY <1>0, <1>1, <2>1, <2>2, IdleFlush
<1>2. CASE ~(loop[g].last /\ Waits(g) = "idle")
  <2>1. Goto(g, Waits(g)) /\ UNCHANGED <<handles, batch, uploads, hazard>>
    BY <1>2 DEF PollSkip
  <2>2. TypeOK'
    BY <1>0, <2>1, WaitsIs, GotoTyped DEF Sound, TypeOK, store, queues, flags, handles
  <2> QED
    BY <1>0, <2>1, <2>2, WaitsIs, GotoIdle DEF flags, store, queues, Sound, Flags
<1> QED
  BY <1>1, <1>2

LEMMA QuerySound ==
  ASSUME UploaderAssumption, Sound, NEW g \in Gen, Query(g)
  PROVE  Sound'
<1>0. /\ loop[g].pc = "query" /\ Idles(loop[g]) /\ loop[g] \in LoopRow /\ LoopSound(loop[g])
      /\ UNCHANGED <<store, uploads, queues, flags, handles, batch, counts>>
      /\ loop \in [Gen -> LoopRow]
  BY DEF Query, Idles, Sound, TypeOK
<1>1. CASE Stale(g)
  <2>1. Goto(g, "over")
    BY <1>1 DEF Query, Goto
  <2>2. TypeOK'
    BY <1>0, <2>1, GotoTyped DEF Sound, TypeOK, store, queues, flags, handles, counts
  <2> QED
    BY <1>0, <2>1, <2>2, GotoIdle DEF flags, store, queues, Sound, Flags
<1>2. CASE ~Stale(g)
  <2>1. PICK found \in SUBSET File :
          loop' = [loop EXCEPT ![g].pc = "poll", ![g].found = found]
    BY <1>2 DEF Query
  <2> DEFINE r == [loop[g] EXCEPT !.pc = "poll", !.found = found]
  <2>2. /\ r \in LoopRow /\ Idles(r) /\ r.next + r.window <= Len(r.entries) + 1
        /\ loop' = [loop EXCEPT ![g] = r]
    <3>1. r \in LoopRow /\ r.pc = "poll" /\ r.next = loop[g].next /\ r.window = loop[g].window
          /\ r.entries = loop[g].entries
      BY <1>0 DEF LoopRow
    <3>2. loop' = [loop EXCEPT ![g] = r]
      BY <1>0, <2>1
    <3> HIDE DEF r
    <3> QED
      BY <1>0, <3>1, <3>2 DEF Idles, LoopSound
  <2> HIDE DEF r
  <2>3. TypeOK'
    BY <1>0, <2>2 DEF Sound, TypeOK, store, queues, flags, handles, counts
  <2> QED
    BY <1>0, <2>2, <2>3, IdleStep DEF flags, store, queues, Sound, Flags
<1> QED
  BY <1>1, <1>2

LEMMA TimeoutSound ==
  ASSUME UploaderAssumption, Sound, NEW g \in Gen, Timeout(g)
  PROVE  Sound'
<1>0. /\ loop[g].pc \in {"idle", "sleep"} /\ Idles(loop[g]) /\ loop[g] \in LoopRow
      /\ LoopSound(loop[g]) /\ loop \in [Gen -> LoopRow]
      /\ UNCHANGED <<store, uploads, queues, flags, handles, batch, counts>>
  BY DEF Timeout, Idles, Sound, TypeOK
<1>1. PICK pc \in {"query", "top"}, last \in BOOLEAN :
        loop' = [loop EXCEPT ![g].pc = pc, ![g].last = last]
  <2>1. CASE loop[g].pc = "idle"
    BY <1>0, <2>1, ZenonT(60) DEF Timeout
  <2>2. CASE loop[g].pc = "sleep"
    BY <1>0, <2>2, ZenonT(60) DEF Timeout
  <2> QED
    BY <1>0, <2>1, <2>2
<1> DEFINE r == [loop[g] EXCEPT !.pc = pc, !.last = last]
<1>2. /\ r \in LoopRow /\ Idles(r) /\ r.next + r.window <= Len(r.entries) + 1
      /\ loop' = [loop EXCEPT ![g] = r]
  <2>1. r \in LoopRow /\ r.pc = pc /\ r.next = loop[g].next /\ r.window = loop[g].window
        /\ r.entries = loop[g].entries
    BY <1>0 DEF LoopRow
  <2>2. loop' = [loop EXCEPT ![g] = r]
    BY <1>0, <1>1
  <2> HIDE DEF r
  <2> QED
    BY <1>0, <2>1, <2>2 DEF Idles, LoopSound
<1> HIDE DEF r
<1>3. TypeOK'
  BY <1>0, <1>2 DEF Sound, TypeOK, store, queues, flags, handles, counts
<1> QED
  BY <1>0, <1>2, <1>3, IdleStep DEF flags, store, queues, Sound, Flags

\* The files of a poll that are queued.
LEMMA Fresh ==
  ASSUME UploaderAssumption, Sound, NEW g \in Gen
  PROVE  /\ notActive(loop[g].found) \in Seq(File) /\ IsInjective(notActive(loop[g].found))
         /\ ToSet(notActive(loop[g].found)) \subseteq loop[g].found \ getActiveIds
<1>1. loop[g].found \in SUBSET File
  BY DEF Sound, TypeOK, LoopRow
<1>2. PICK S \in SUBSET File : S = loop[g].found \ getActiveIds
  BY <1>1
<1>3. IsFiniteSet(S)
  BY <1>2, FS_Subset, UploaderAssumption DEF UploaderAssumption
<1>4. SetToSeq(S) \in Seq(S) /\ IsInjective(SetToSeq(S)) /\ ToSet(SetToSeq(S)) \subseteq S
  BY <1>3, FreshSeq
<1>5. SetToSeq(S) \in Seq(File)
  BY <1>4, SeqMonotonic
<1> QED
  BY <1>2, <1>4, <1>5 DEF notActive

LEMMA pollDBSound ==
  ASSUME UploaderAssumption, Sound, NEW g \in Gen, pollDB(g)
  PROVE  Sound'
<1>0. /\ loop[g].pc = "poll" /\ Idles(loop[g]) /\ loop \in [Gen -> LoopRow]
      /\ UNCHANGED <<store, explicit, draining, flags, acts, fails>>
  BY DEF pollDB, Idles, Sound, TypeOK
<1> DEFINE fresh == IF Stale(g) THEN <<>> ELSE notActive(loop[g].found)
           waiting == explicit \o polled \o fresh # <<>>
<1>1. fresh \in Seq(File)
  BY Fresh, EmptySeq
<1>2. CASE /\ uploads' = [f \in File |-> IF f \in ToSet(fresh) THEN "active" ELSE uploads[f]]
           /\ polled' = polled \o fresh
           /\ Goto(g, IF waiting /\ ~Stale(g) THEN "top" ELSE Waits(g))
           /\ UNCHANGED <<handles, batch, hazard>>
  <2>1. PICK pc \in {"over", "top", "idle", "sleep"} : Goto(g, pc)
    BY <1>2, WaitsIs
  <2>2. polled' \in Seq(File)
    BY <1>1, <1>2, ConcatSet DEF Sound, TypeOK
  <2>3. uploads' \in [File -> Status]
    BY <1>2 DEF Sound, TypeOK, Status
  <2>4. ~active => polled' = <<>>
    <3>1. ~active => fresh = <<>> /\ polled = <<>>
      BY DEF Stale, Sound, Flags
    <3> HIDE DEF fresh
    <3> QED
      BY <1>1, <1>2, <3>1, ConcatEmptySeq
  <2> HIDE DEF fresh, waiting
  <2>5. loop' \in [Gen -> LoopRow]
    BY <1>0, <2>1, GotoTyped
  <2>6. TypeOK'
    BY <1>0, <1>2, <2>2, <2>3, <2>5 DEF Sound, TypeOK, store, flags, handles
  <2> QED
    BY <1>0, <1>2, <2>1, <2>4, <2>6, GotoIdle DEF flags, store, queues
<1>3. CASE /\ ~waiting /\ loop[g].last /\ Waits(g) = "idle"
           /\ Flush(g, uploads, batch, [NoLoop EXCEPT !.pc = "flush"])
           /\ UNCHANGED polled
  <2>1. uploads' \in [File -> Status]
    BY <1>3, Statuses DEF Flush, Sound, TypeOK
  <2> QED
    BY <1>0, <1>3, <2>1, IdleFlush DEF queues
<1> QED
  BY <1>2, <1>3 DEF pollDB

(***************************************************************************)
(* Sound: the steps of a drain.                                            *)
(***************************************************************************)
LEMMA RestIs ==
  ASSUME UploaderAssumption, Sound, NEW g \in Gen
  PROVE  /\ Rest(g) \in Seq(File)
         /\ Rest(g) # <<>> <=> loop[g].next <= Len(loop[g].entries)
         /\ Len(Rest(g)) = IF loop[g].next <= Len(loop[g].entries)
                           THEN Len(loop[g].entries) - loop[g].next + 1 ELSE 0
<1>1. /\ loop[g].entries \in Seq(File) /\ loop[g].next \in Nat \ {0}
      /\ Len(loop[g].entries) \in Nat
      /\ \A i \in loop[g].next .. Len(loop[g].entries) : loop[g].entries[i] \in File
  <2>1. loop[g].entries \in Seq(File) /\ loop[g].next \in Nat \ {0}
    BY DEF Sound, TypeOK, LoopRow
  <2> QED
    BY <2>1, LenProperties, ElementOfSeq
<1>2. /\ Rest(g) \in Seq(File)
      /\ Len(Rest(g)) = IF loop[g].next <= Len(loop[g].entries)
                        THEN Len(loop[g].entries) - loop[g].next + 1 ELSE 0
  BY <1>1, SubSeqProperties DEF Rest
<1> QED
  BY <1>1, <1>2, Empty

LEMMA EntriesEndSound ==
  ASSUME UploaderAssumption, Sound, NEW g \in Gen, EntriesEnd(g)
  PROVE  Sound'
<1>0. /\ loop[g].pc = "entries" /\ loop \in [Gen -> LoopRow] /\ InDrain(loop[g])
      /\ UNCHANGED <<store, uploads, polled, flags, handles, batch, counts>>
  BY DEF EntriesEnd, Sound, TypeOK, InDrain
<1> DEFINE r == [NoLoop EXCEPT !.pc = "top"]
<1>1. r \in LoopRow /\ Idles(r) /\ LoopSound(r) /\ ~InDrain(r) /\ r.pc = "top"
  <2>1. r \in LoopRow /\ r.pc = "top" /\ r.entries = <<>> /\ r.next = 1 /\ r.window = 0
    BY NoLoopRow DEF LoopRow, NoLoop
  <2> HIDE DEF r
  <2> QED
    BY <2>1 DEF Idles, LoopSound, InDrain
<1>2. loop' = [loop EXCEPT ![g] = r]
  BY DEF EntriesEnd
<1> HIDE DEF r
<1>3. loop'[g] = r /\ \A h \in Gen : h # g => loop'[h] = loop[h]
  BY <1>0, <1>2
<1>4. explicit' \in Seq(File)
  BY RestIs, ConcatSet DEF EntriesEnd, Sound, TypeOK
<1>5. draining' = (IF draining = g THEN 0 ELSE draining)
  BY DEF EntriesEnd
<1>6. TypeOK'
  BY <1>0, <1>1, <1>2, <1>4, <1>5 DEF Sound, TypeOK, store, flags, handles, counts
<1>7. \A h \in Gen : LoopSound(loop'[h]) /\ (h > generation => loop'[h] = NoLoop)
  <2>1. loop[g] # NoLoop
    BY <1>0 DEF NoLoop
  <2> QED
    BY <1>1, <1>3, <2>1 DEF Sound, Flags
<1>8. active /\ uploading # 0 => loop'[generation].pc = "flush"
  BY <1>0, <1>3 DEF Sound, Flags, TypeOK
<1>9. Drains'
  <2>1. active /\ g = generation => draining = g
    BY <1>0 DEF Sound, Drains
  <2>2. generation \in Gen /\ g # 0
    BY DEF Sound, TypeOK, Gen
  <2>3. draining # 0 /\ draining # g => loop'[draining] = loop[draining]
    BY <1>3, UploaderAssumption DEF Sound, TypeOK, Gen, UploaderAssumption
  <2>4. generation # g => loop'[generation] = loop[generation]
    BY <1>3, <2>2
  <2> QED
    BY <1>0, <1>1, <1>3, <1>5, <2>1, <2>2, <2>3, <2>4 DEF Sound, Drains, flags, handles
<1>10. Fly' = Fly
  BY <1>0, <1>1, <1>3 DEF Fly, flags, Sound, TypeOK
<1>11. ~active => polled' = <<>> /\ draining' = 0
  BY <1>0, <1>5 DEF Sound, Flags, queues
<1> QED
  BY <1>0, <1>6, <1>7, <1>8, <1>9, <1>10, <1>11, LoopFrame DEF flags, store

\* A step of a loop within its drain, while no batch is under flush().
LEMMA DrainStep ==
  ASSUME UploaderAssumption, Sound, TypeOK', NEW g \in Gen, NEW r \in LoopRow,
         UNCHANGED <<handles, batch, shut, active, generation, draining, polled, swapped>>,
         loop' = [loop EXCEPT ![g] = r],
         loop[g].pc \in {"entries", "open"} \/ (loop[g].pc = "add" /\ Stale(g)),
         r.pc \in {"entries", "open"},
         r.pc = "open" => current = 0 \/ Stale(g),
         LoopSound(r)
  PROVE  Sound'
<1>0. loop \in [Gen -> LoopRow] /\ generation \in Gen /\ InDrain(loop[g]) /\ InDrain(r)
  BY DEF InDrain, Sound, TypeOK
<1>1. loop'[g] = r /\ \A h \in Gen : h # g => loop'[h] = loop[h]
  BY <1>0
<1>2. loop[g] # NoLoop
  BY DEF NoLoop
<1>3. \A h \in Gen : LoopSound(loop'[h]) /\ (h > generation => loop'[h] = NoLoop)
  BY <1>1, <1>2 DEF Sound, Flags
<1>4. active /\ uploading # 0 => loop'[generation].pc = "flush"
  BY <1>0, <1>1 DEF Sound, Flags
<1>5. Drains'
  <2>1. \A h \in Gen : InDrain(loop[h])' <=> InDrain(loop[h])
    BY <1>0, <1>1
  <2>2. draining # 0 => draining \in Gen
    BY UploaderAssumption DEF Sound, TypeOK, Gen, UploaderAssumption
  <2>3. active /\ loop'[generation].pc = "add" =>
          loop[generation].pc = "add" /\ loop'[generation].batch = loop[generation].batch
    BY <1>0, <1>1
  <2>4. active /\ loop'[generation].pc \in {"open", "flush"} => current = 0
    BY <1>0, <1>1 DEF Stale, Sound, Drains
  <2> QED
    BY <1>0, <2>1, <2>2, <2>3, <2>4 DEF Sound, Drains, handles
<1>6. current # 0 => Fly' = Fly
  BY <1>0, <1>1 DEF Fly, Stale, Sound, Flags
<1> QED
  BY <1>3, <1>4, <1>5, <1>6, LoopFrame DEF Sound, Flags

LEMMA OpenSound ==
  ASSUME UploaderAssumption, Sound, NEW g \in Gen, Open(g)
  PROVE  Sound'
<1>0. /\ loop[g].pc = "entries" /\ loop \in [Gen -> LoopRow] /\ loop[g] \in LoopRow
      /\ LoopSound(loop[g]) /\ Rest(g) # <<>> /\ current = 0
      /\ UNCHANGED <<store, uploads, queues, flags, handles, batch, counts>>
  BY DEF Open, Ready, Sound, TypeOK
<1> DEFINE r == [loop[g] EXCEPT !.pc = "open"]
<1>1. r \in LoopRow /\ r.pc = "open" /\ LoopSound(r)
  <2>1. /\ r \in LoopRow /\ r.pc = "open" /\ r.next = loop[g].next /\ r.window = loop[g].window
        /\ r.entries = loop[g].entries /\ r.last = loop[g].last
    BY <1>0 DEF LoopRow
  <2> HIDE DEF r
  <2> QED
    BY <1>0, <2>1, RestIs DEF LoopSound
<1>2. loop' = [loop EXCEPT ![g] = r]
  BY DEF Open, Goto
<1> HIDE DEF r
<1>3. TypeOK'
  BY <1>0, <1>1, <1>2 DEF Sound, TypeOK, store, queues, flags, handles, counts
<1> QED
  BY <1>0, <1>1, <1>2, <1>3, DrainStep DEF flags, store, queues

LEMMA AdvancedSound ==
  ASSUME UploaderAssumption, Sound, NEW l \in LoopRow, l.next + l.window <= Len(l.entries) + 1,
         ~l.last
  PROVE  /\ Advanced(l) \in LoopRow /\ Advanced(l).pc = "entries" /\ LoopSound(Advanced(l))
         /\ Advanced(l).entries = l.entries /\ Advanced(l).next = l.next + l.window
         /\ Advanced(l).window = 0
<1>1. l.next \in Nat \ {0} /\ l.window \in Nat
  BY DEF LoopRow
<1>2. PICK n \in Nat \ {0} : n = l.next + l.window
  BY <1>1
<1>3. Advanced(l) = [l EXCEPT !.pc = "entries", !.next = n, !.window = 0]
  BY <1>2 DEF Advanced, LoopRow
<1>4. /\ Advanced(l) \in LoopRow /\ Advanced(l).pc = "entries" /\ Advanced(l).next = n
      /\ Advanced(l).window = 0 /\ Advanced(l).entries = l.entries /\ Advanced(l).last = l.last
  <2>1. [l EXCEPT !.pc = "entries", !.next = n, !.window = 0] \in LoopRow
    BY DEF LoopRow
  <2>2. DOMAIN l = {"pc", "entries", "next", "window", "fly", "batch", "found", "last"}
    BY DEF LoopRow
  <2> QED
    BY <1>3, <2>1, <2>2
<1>5. LoopSound(Advanced(l))
  BY <1>2, <1>4 DEF LoopSound
<1> QED
  BY <1>2, <1>4, <1>5

LEMMA OpenFailsSound ==
  ASSUME UploaderAssumption, Sound, NEW g \in Gen, OpenFails(g)
  PROVE  Sound'
<1>0. /\ loop[g].pc = "open" /\ loop \in [Gen -> LoopRow] /\ loop[g] \in LoopRow
      /\ LoopSound(loop[g]) /\ fails' \in Nat
      /\ UNCHANGED <<store, queues, flags, handles, batch, acts, hazard>>
  BY DEF OpenFails, Fail, Sound, TypeOK
<1> DEFINE l == [loop[g] EXCEPT !.window = 1]
<1>1. /\ l \in LoopRow /\ l.next + l.window <= Len(l.entries) + 1 /\ ~l.last
  <2>1. /\ l \in LoopRow /\ l.next = loop[g].next /\ l.window = 1
        /\ l.entries = loop[g].entries /\ l.last = loop[g].last
    BY <1>0 DEF LoopRow
  <2>2. l.next \in Nat /\ Len(l.entries) \in Nat /\ loop[g].next <= Len(loop[g].entries)
    BY <1>0, <2>1, LenProperties DEF LoopSound, LoopRow
  <2> HIDE DEF l
  <2> QED
    BY <1>0, <2>1, <2>2 DEF LoopSound
<1> HIDE DEF l
<1>2. loop' = [loop EXCEPT ![g] = Advanced(l)]
  BY DEF OpenFails, l
<1>3. uploads' \in [File -> Status]
  BY Statuses DEF OpenFails, Sound, TypeOK
<1>4. TypeOK'
  BY <1>0, <1>1, <1>2, <1>3, AdvancedSound DEF Sound, TypeOK, store, queues, flags, handles
<1> QED
  BY <1>0, <1>1, <1>2, <1>4, AdvancedSound, DrainStep DEF flags, store, queues

LEMMA AddingSound ==
  ASSUME UploaderAssumption, Sound, NEW g \in Gen, NEW b \in Batch, NEW bs, NEW n \in Nat \ {0},
         ~Stale(g), loop[g].pc \in {"entries", "open"}, n <= Len(Rest(g)), Rest(g) # <<>>,
         Adding(g, b, bs, n),
         UNCHANGED <<store, queues, flags, uploading, flushing, counts>>,
         current' = b, current # 0 => b = current, current = 0 => batch[b].phase = "none",
         bs \in [Batch -> BatchRow], \A c \in Batch : c # b => bs[c] = batch[c],
         bs[b].phase = "open", bs[b].files = bs[b].added,
         bs[b].at = 1, bs[b].won = {}, bs[b].gone = {}, ~bs[b].cancelled
  PROVE  Sound'
<1> DEFINE es == SubSeq(loop[g].entries, loop[g].next, loop[g].next + n - 1)
           r == [loop[g] EXCEPT !.pc = "add", !.fly = es, !.window = n, !.batch = b]
           q == [bs EXCEPT ![b].files = @ \o es]
<1>0. /\ active /\ g = generation /\ loop[g] \in LoopRow /\ LoopSound(loop[g])
      /\ loop \in [Gen -> LoopRow] /\ draining = g /\ ~shut.on /\ uploading = 0
  BY DEF Stale, Sound, TypeOK, Drains, InDrain, Flags
<1>1. /\ loop[g].entries \in Seq(File) /\ loop[g].next \in Nat \ {0}
      /\ Len(loop[g].entries) \in Nat /\ loop[g].next + n <= Len(loop[g].entries) + 1
  <2>1. loop[g].entries \in Seq(File) /\ loop[g].next \in Nat \ {0}
    BY <1>0 DEF LoopRow
  <2> QED
    BY <2>1, RestIs, LenProperties
<1>2. es \in Seq(File) /\ es # <<>>
  <2>1. \A i \in loop[g].next .. loop[g].next + n - 1 : loop[g].entries[i] \in File
    <3>1. \A i \in 1 .. Len(loop[g].entries) : loop[g].entries[i] \in File
      BY <1>1, ElementOfSeq
    <3>2. \A i \in loop[g].next .. loop[g].next + n - 1 : i \in 1 .. Len(loop[g].entries)
      BY <1>1
    <3> QED
      BY <3>1, <3>2
  <2>2. es \in Seq(File) /\ Len(es) = n
    BY <1>1, <2>1, SubSeqProperties
  <2> QED
    BY <2>2, Empty
<1>3. /\ r \in LoopRow /\ r.pc = "add" /\ r.fly = es /\ r.window = n /\ r.batch = b
      /\ r.next = loop[g].next /\ r.entries = loop[g].entries /\ r.last = loop[g].last
  <2> HIDE DEF es
  <2>1. b \in 0 .. MaxBatch
    BY UploaderAssumption DEF Batch, UploaderAssumption
  <2>2. r \in LoopRow
    BY <1>0, <1>2, <2>1 DEF LoopRow
  <2>3. DOMAIN loop[g] = {"pc", "entries", "next", "window", "fly", "batch", "found", "last"}
    BY <1>0 DEF LoopRow
  <2> QED
    BY <2>2, <2>3
<1>4. /\ q \in [Batch -> BatchRow] /\ q[b] = [bs[b] EXCEPT !.files = bs[b].files \o es]
      /\ \A c \in Batch : c # b => q[c] = batch[c]
  <2> HIDE DEF es
  <2>1. bs[b].files \o es \in Seq(File)
    BY <1>2, ConcatSet DEF BatchRow
  <2>2. [bs[b] EXCEPT !.files = bs[b].files \o es] \in BatchRow
    BY <2>1 DEF BatchRow
  <2> QED
    BY <2>2
<1>5. /\ q[b].phase = "open" /\ q[b].files = q[b].added \o es /\ q[b].at = 1 /\ q[b].won = {}
      /\ q[b].gone = {} /\ ~q[b].cancelled
  <2> HIDE DEF es, q
  <2>1. bs[b] \in BatchRow
    OBVIOUS
  <2> QED
    BY <1>4, <2>1 DEF BatchRow
<1>6. batch' = q /\ loop' = [loop EXCEPT ![g] = r]
  BY <1>0 DEF Adding
<1>7. uploads' \in [File -> Status]
  BY Statuses DEF Adding, Sound, TypeOK
<1> HIDE DEF es, r, q
<1>8. loop'[g] = r /\ \A h \in Gen : h # g => loop'[h] = loop[h]
  BY <1>0, <1>6
<1>9. TypeOK'
  <2>1. current' \in 0 .. MaxBatch
    BY UploaderAssumption DEF Batch, UploaderAssumption
  <2> QED
    BY <1>0, <1>3, <1>4, <1>6, <1>7, <2>1 DEF Sound, TypeOK, store, queues, flags, counts
<1>10. Handles'
  <2>1. ASSUME NEW c \in Batch
        PROVE  /\ batch'[c].phase = "open" <=> c = b
               /\ batch'[c].phase \in Underway <=> c = 0
               /\ batch'[c].phase = "none" => batch'[c] = NoBatch
    <3>1. CASE c = b
      BY <1>5, <1>6, <3>1 DEF Underway, Batch
    <3>2. CASE c # b
      BY <1>0, <1>4, <1>6, <3>2 DEF Sound, Handles, Batch
    <3> QED
      BY <3>1, <3>2
  <2> QED
    BY <1>0, <2>1 DEF Sound, Handles
<1>11. Flags'
  BY <1>0, <1>8 DEF Sound, Flags, flags, queues, Gen
<1>12. ASSUME NEW h \in Gen PROVE LoopSound(loop[h])'
  <2>1. LoopSound(r)
    BY <1>0, <1>1, <1>2, <1>3 DEF LoopSound
  <2>2. LoopSound(loop'[h])
    BY <1>8, <2>1 DEF Sound
  <2> QED
    BY <2>2 DEF LoopSound
<1>13. Drains'
  BY <1>0, <1>3, <1>8 DEF Drains, InDrain, queues, flags, Gen, Batch
<1>14. Batches'
  BY <1>0, <1>3, <1>5, <1>6, <1>8 DEF Batches, Fly, flags, Batch
<1> QED
  BY <1>9, <1>10, <1>11, <1>12, <1>13, <1>14 DEF Sound, store

LEMMA processWindowSound ==
  ASSUME UploaderAssumption, Sound, NEW g \in Gen, processWindow(g)
  PROVE  Sound'
<1>1. PICK n \in 1 .. Len(Rest(g)) : Adding(g, current, batch, n)
  BY DEF processWindow
<1>2. /\ ~Stale(g) /\ loop[g].pc = "entries" /\ Rest(g) # <<>> /\ current # 0
      /\ UNCHANGED <<store, queues, flags, handles, counts>>
  BY DEF processWindow, Ready
<1>3. Len(Rest(g)) \in Nat
  BY RestIs, LenProperties
<1>4. batch \in [Batch -> BatchRow]
  BY DEF Sound, TypeOK
<1> QED
  BY <1>1, <1>2, <1>3, <1>4, OpenBatch, AddingSound DEF handles

LEMMA OpenedSound ==
  ASSUME UploaderAssumption, Sound, NEW g \in Gen, Opened(g)
  PROVE  Sound'
<1>0. /\ loop[g].pc = "open" /\ loop \in [Gen -> LoopRow] /\ loop[g] \in LoopRow
      /\ LoopSound(loop[g]) /\ batch \in [Batch -> BatchRow]
      /\ UNCHANGED <<store, queues, flags, uploading, flushing, counts>>
  BY DEF Opened, Sound, TypeOK
<1>1. CASE Stale(g)
  <2> DEFINE r == [loop[g] EXCEPT !.pc = "entries"]
  <2>1. r \in LoopRow /\ r.pc = "entries" /\ LoopSound(r)
    <3>1. /\ r \in LoopRow /\ r.pc = "entries" /\ r.next = loop[g].next
          /\ r.window = loop[g].window /\ r.entries = loop[g].entries /\ r.last = loop[g].last
      BY <1>0 DEF LoopRow
    <3> HIDE DEF r
    <3> QED
      BY <1>0, <3>1 DEF LoopSound
  <2>2. loop' = [loop EXCEPT ![g] = r] /\ UNCHANGED <<current, batch, uploads>>
    BY <1>1 DEF Opened, Goto
  <2> HIDE DEF r
  <2>3. TypeOK'
    BY <1>0, <2>1, <2>2 DEF Sound, TypeOK, store, queues, flags, counts
  <2> QED
    BY <1>0, <2>1, <2>2, <2>3, DrainStep DEF flags, store, queues, handles
<1>2. CASE ~Stale(g)
  <2>1. PICK b \in Batch :
          /\ batch[b].phase = "none" /\ current' = b
          /\ Adding(g, b, [batch EXCEPT ![b] = [NoBatch EXCEPT !.phase = "open"]], 1)
    BY <1>2 DEF Opened
  <2>2. PICK n \in BatchRow : n = [NoBatch EXCEPT !.phase = "open"]
    BY NoLoopRow DEF BatchRow
  <2>3. PICK bs \in [Batch -> BatchRow] : bs = [batch EXCEPT ![b] = n]
    BY <1>0
  <2>4. bs[b] = n /\ \A c \in Batch : c # b => bs[c] = batch[c]
    BY <1>0, <2>3
  <2>9. /\ bs[b].phase = "open" /\ bs[b].files = bs[b].added
        /\ bs[b].at = 1 /\ bs[b].won = {} /\ bs[b].gone = {} /\ ~bs[b].cancelled
    BY <2>2, <2>4 DEF NoBatch
  <2>10. Adding(g, b, bs, 1)
    BY <2>1, <2>2, <2>3
  <2>5. current = 0
    BY <1>0, <1>2 DEF Stale, Sound, Drains
  <2>6. Rest(g) # <<>> /\ 1 <= Len(Rest(g))
    BY <1>0, RestIs, Empty, LenProperties DEF LoopSound
  <2>7. 1 \in Nat \ {0} /\ loop[g].pc \in {"entries", "open"} /\ b # 0
    BY <1>0 DEF Batch
  <2>8. batch[b].phase = "none" /\ current' = b
    BY <2>1
  <2> QED
    <3>1. /\ current # 0 => b = current
          /\ current = 0 => batch[b].phase = "none"
          /\ UNCHANGED <<store, queues, flags, uploading, flushing, counts>>
      BY <1>0, <2>5, <2>8
    <3>2. \A c \in Batch : c # b => bs[c] = batch[c]
      BY <2>4
    <3> QED
      BY <1>2, <2>6, <2>7, <2>8, <2>9, <2>10, <3>1, <3>2, AddingSound
<1> QED
  BY <1>1, <1>2

LEMMA PreFlushSound ==
  ASSUME UploaderAssumption, Sound, NEW g \in Gen, PreFlush(g)
  PROVE  Sound'
<1>0. /\ ~Stale(g) /\ loop[g].pc = "entries" /\ Rest(g) # <<>> /\ current # 0
      /\ UNCHANGED <<store, queues, flags, acts, fails>>
      /\ loop[g] \in LoopRow /\ LoopSound(loop[g]) /\ batch \in [Batch -> BatchRow] /\ fails' \in Nat
  BY DEF PreFlush, Ready, Sound, TypeOK
<1> DEFINE l == [loop[g] EXCEPT !.pc = "flush", !.last = TRUE]
<1>1. Flush(g, uploads, batch, l)
  BY DEF PreFlush
<1>2. /\ l \in LoopRow /\ l.pc = "flush" /\ l.next = loop[g].next /\ l.window = loop[g].window
      /\ l.entries = loop[g].entries
  BY <1>0 DEF LoopRow
<1> HIDE DEF l
<1>3. loop[g].window = 0 /\ loop[g].next <= Len(loop[g].entries)
      /\ loop[g].next + loop[g].window <= Len(loop[g].entries) + 1
  BY <1>0, RestIs DEF LoopSound
<1>4. draining = g /\ l.entries # <<>>
  <2>1. loop[g].entries # <<>>
    BY <1>0, <1>3, Empty DEF LoopRow
  <2> QED
    BY <1>0, <1>2, <2>1 DEF Stale, Sound, Drains, InDrain
<1>5. uploads' \in [File -> Status]
  BY <1>1, Statuses, ZenonT(60) DEF Flush, Sound, TypeOK
<1> QED
  BY <1>0, <1>1, <1>2, <1>3, <1>4, <1>5, OpenBatch, FlushSound

\* What an add that settles makes of the batch.
LEMMA SettledIs ==
  ASSUME UploaderAssumption, Sound, NEW g \in Gen, ~Stale(g), loop[g].pc = "add",
         NEW ok \in BOOLEAN
  PROVE  LET bs == Settled(current, loop[g].fly, ok)
             e == Head(loop[g].fly)
             t == Tail(loop[g].fly)
         IN  /\ current \in Batch /\ loop[g].batch = current /\ e \in File /\ t \in Seq(File)
             /\ loop[g].fly = <<e>> \o t
             /\ bs \in [Batch -> BatchRow] /\ \A c \in Batch : c # current => bs[c] = batch[c]
             /\ bs[current].phase = "open" /\ bs[current].files = bs[current].added \o t
             /\ bs[current].at = 1 /\ bs[current].won = {} /\ bs[current].gone = {}
             /\ ~bs[current].cancelled
             /\ batch[current].added \in Seq(File)
             /\ batch[current].files = batch[current].added \o (<<e>> \o t)
             /\ bs[current].added = IF ok THEN batch[current].added \o <<e>> ELSE batch[current].added
<1>1. /\ active /\ g = generation /\ loop[g] \in LoopRow /\ loop[g].fly # <<>>
      /\ current \in Batch /\ loop[g].batch = current /\ batch \in [Batch -> BatchRow]
  BY UploaderAssumption
     DEF Stale, Sound, TypeOK, Drains, LoopSound, Batch, UploaderAssumption
<1>2. PICK fly \in Seq(File) : fly = loop[g].fly
  BY <1>1 DEF LoopRow
<1>3. PICK e \in File : e = Head(fly)
  BY <1>1, <1>2, HeadFirst
<1>4. PICK t \in Seq(File) : t = Tail(fly)
  BY <1>1, <1>2, HeadFirst
<1>5. fly = <<e>> \o t
  BY <1>1, <1>2, <1>3, <1>4, HeadFirst
<1>6. PICK b \in BatchRow : b = batch[current]
  BY <1>1
<1>7. PICK a \in Seq(File) : a = b.added
  BY <1>6 DEF BatchRow
<1>8. /\ b.phase = "open" /\ b.files = a \o fly /\ b.at = 1 /\ b.won = {}
      /\ b.gone = {} /\ ~b.cancelled
  <2>1. Fly = fly /\ current # 0
    BY <1>1, <1>2 DEF Fly, Batch
  <2>2. b.phase = "open"
    BY <1>1, <1>6 DEF Sound, Handles
  <2> QED
    BY <1>6, <1>7, <2>1, <2>2 DEF Sound, Batches
<1>9. DOMAIN b = {"phase", "files", "added", "cancelled", "at", "won", "gone"}
  BY DEF BatchRow
<1>10. <<e>> \in Seq(File)
  BY One
<1>11. PICK n \in BatchRow :
         /\ Settled(current, fly, ok) = [batch EXCEPT ![current] = n]
         /\ n.phase = "open" /\ n.files = n.added \o t
         /\ n.at = 1 /\ n.won = {} /\ n.gone = {} /\ ~n.cancelled
         /\ n.added = IF ok THEN a \o <<e>> ELSE a
  <2>1. CASE ok
    <3>1. PICK s \in Seq(File) : s = a \o <<e>> /\ s = Append(a, e)
      BY AppendIsConcat, AppendProperties
    <3>2. b.files = s \o t
      BY <1>5, <1>8, <1>10, <3>1, ConcatAssociative
    <3>3. Settled(current, fly, ok) = [batch EXCEPT ![current] = [b EXCEPT !.added = s]]
      BY <1>1, <1>3, <1>6, <1>7, <2>1, <3>1 DEF Settled
    <3>4. [b EXCEPT !.added = s] \in BatchRow
      BY DEF BatchRow
    <3> QED
      BY <1>8, <1>9, <2>1, <3>1, <3>2, <3>3, <3>4
  <2>2. CASE ~ok
    <3>1. PICK s \in Seq(File) : s = a \o t
      BY ConcatSet
    <3>2. PICK f \in Seq(File) : f = b.files
      BY DEF BatchRow
    <3>3. f = a \o (<<e>> \o t)
      BY <1>5, <1>8, <3>2
    <3>4. RemoveAt(f, Len(f) - Len(<<e>> \o t) + 1) = a \o t
      BY <3>3, Dropped
    <3>5. Settled(current, fly, ok) = [batch EXCEPT ![current] = [b EXCEPT !.files = s]]
      BY <1>1, <1>5, <1>6, <2>2, <3>1, <3>2, <3>4 DEF Settled
    <3>6. [b EXCEPT !.files = s] \in BatchRow
      BY DEF BatchRow
    <3> QED
      BY <1>7, <1>8, <1>9, <2>2, <3>1, <3>5, <3>6
  <2> QED
    BY <2>1, <2>2
<1>12. /\ Settled(current, fly, ok) \in [Batch -> BatchRow]
       /\ Settled(current, fly, ok)[current] = n
       /\ \A c \in Batch : c # current => Settled(current, fly, ok)[c] = batch[c]
  BY <1>1, <1>11
<1> QED
  BY <1>1, <1>2, <1>3, <1>4, <1>5, <1>6, <1>7, <1>8, <1>11, <1>12, ZenonT(60)

LEMMA AddSettlesSound ==
  ASSUME UploaderAssumption, Sound, NEW g \in Gen, AddSettles(g)
  PROVE  Sound'
<1>0. /\ loop[g].pc = "add" /\ loop \in [Gen -> LoopRow] /\ loop[g] \in LoopRow
      /\ LoopSound(loop[g]) /\ ~loop[g].last /\ loop[g].fly # <<>>
      /\ UNCHANGED <<store, queues, flags, acts>>
  BY DEF AddSettles, Sound, TypeOK, LoopSound
<1>1. loop[g].next + loop[g].window <= Len(loop[g].entries) + 1
  BY <1>0 DEF LoopSound
<1>2. loop[g].fly \in Seq(File)
  BY <1>0 DEF LoopRow
<1>3. Tail(loop[g].fly) \in Seq(File)
  BY <1>0, <1>2, HeadFirst
<1>4. ASSUME NEW s \in Seq(File)
      PROVE  LET l == [loop[g] EXCEPT !.fly = s]
             IN  /\ l \in LoopRow /\ l.next + l.window <= Len(l.entries) + 1 /\ ~l.last
                 /\ l.pc = "add" /\ l.fly = s /\ l.batch = loop[g].batch
                 /\ l.entries = loop[g].entries /\ l.window = loop[g].window
  <2> DEFINE l == [loop[g] EXCEPT !.fly = s]
  <2>1. /\ l \in LoopRow /\ l.next = loop[g].next /\ l.window = loop[g].window
        /\ l.entries = loop[g].entries /\ l.last = loop[g].last
        /\ l.pc = "add" /\ l.fly = s /\ l.batch = loop[g].batch
    BY <1>0 DEF LoopRow
  <2> QED
    BY <1>0, <1>1, <2>1
<1>5. CASE Stale(g)
  <2>1. PICK l \in LoopRow : l = [loop[g] EXCEPT !.fly = <<>>]
    BY <1>4, EmptySeq
  <2>2. l.next + l.window <= Len(l.entries) + 1 /\ ~l.last
    BY <1>4, <2>1, EmptySeq
  <2>3. loop' = [loop EXCEPT ![g] = Advanced(l)] /\ UNCHANGED <<uploads, handles, batch, hazard, fails>>
    BY <1>5, <2>1 DEF AddSettles
  <2>4. /\ Advanced(l) \in LoopRow /\ Advanced(l).pc = "entries" /\ LoopSound(Advanced(l))
    BY <2>2, AdvancedSound
  <2>5. TypeOK'
    BY <1>0, <2>3, <2>4 DEF Sound, TypeOK, store, queues, flags, handles
  <2> QED
    BY <1>0, <1>5, <2>3, <2>4, <2>5, DrainStep DEF flags, store, queues
<1>6. CASE ~Stale(g)
  <2>1. /\ active /\ g = generation /\ current \in Batch /\ loop[g].batch = current
        /\ draining = g /\ uploading = 0 /\ ~shut.on
    BY <1>0, <1>6, UploaderAssumption
       DEF Stale, Sound, TypeOK, Drains, InDrain, Flags, Batch, UploaderAssumption
  <2>2. PICK rest \in LoopRow : rest = [loop[g] EXCEPT !.fly = Tail(loop[g].fly)]
    BY <1>3, <1>4
  <2>3. /\ rest.next + rest.window <= Len(rest.entries) + 1 /\ ~rest.last /\ rest.pc = "add"
        /\ rest.fly = Tail(loop[g].fly) /\ rest.batch = current /\ rest.entries = loop[g].entries
        /\ rest.window > 0
    BY <1>0, <1>3, <1>4, <2>1, <2>2 DEF LoopSound
  <2>4. PICK ok \in BOOLEAN, up \in [File -> Status] :
          /\ fails' \in Nat
          /\ LET bs == Settled(current, loop[g].fly, ok) IN
             \/ /\ batch' = bs /\ uploads' = up
                /\ loop' = [loop EXCEPT ![g] = IF rest.fly = <<>> THEN Advanced(rest) ELSE rest]
                /\ UNCHANGED <<handles, hazard>>
             \/ /\ rest.fly = <<>>
                /\ \E l \in {rest, Advanced(rest)} : Flush(g, up, bs, [l EXCEPT !.pc = "flush"])
    <3>1. PICK ok \in BOOLEAN :
          LET bs == Settled(current, loop[g].fly, ok)
              up == IF ok THEN setStatus(uploads, {Head(loop[g].fly)})
                    ELSE failEntry(uploads, {Head(loop[g].fly)}, FALSE)
          IN
          /\ IF ok THEN UNCHANGED fails ELSE Fail
          /\ \/ /\ batch' = bs /\ uploads' = up
                /\ loop' = [loop EXCEPT ![g] = IF rest.fly = <<>> THEN Advanced(rest) ELSE rest]
                /\ UNCHANGED <<handles, hazard>>
             \/ /\ rest.fly = <<>>
                /\ \E l \in {rest, Advanced(rest)} : Flush(g, up, bs, [l EXCEPT !.pc = "flush"])
      BY <1>6, <2>1, <2>2 DEF AddSettles
    <3>2. uploads \in [File -> Status]
      BY DEF Sound, TypeOK
    <3>3. fails' \in Nat
      BY <3>1 DEF Fail, Sound, TypeOK
    <3>4. CASE ok
      BY <3>1, <3>2, <3>3, <3>4, Statuses
    <3>5. CASE ~ok
      BY <3>1, <3>2, <3>3, <3>5, Statuses
    <3> QED
      BY <3>4, <3>5
  <2>5. PICK bs \in [Batch -> BatchRow] : bs = Settled(current, loop[g].fly, ok)
    BY <1>0, <1>6, SettledIs
  <2>6. PICK t \in Seq(File) : t = Tail(loop[g].fly)
    BY <1>3
  <2>7. /\ \A c \in Batch : c # current => bs[c] = batch[c]
        /\ bs[current].phase = "open" /\ bs[current].files = bs[current].added \o t
        /\ bs[current].at = 1 /\ bs[current].won = {} /\ bs[current].gone = {}
        /\ ~bs[current].cancelled
    BY <1>0, <1>6, <2>5, <2>6, SettledIs, ZenonT(60)
  <2>8. bs[current].added \in Seq(File)
    BY <2>1, <2>5 DEF BatchRow
  <2>9. rest.fly = <<>> => bs[current].files = bs[current].added
    <3>1. PICK a \in Seq(File) : a = bs[current].added
      BY <2>8
    <3>2. a \o <<>> = a
      BY ConcatEmptySeq
    <3> QED
      BY <2>3, <2>6, <2>7, <3>1, <3>2
  <2>10. CASE /\ batch' = bs /\ uploads' = up
              /\ loop' = [loop EXCEPT ![g] = IF rest.fly = <<>> THEN Advanced(rest) ELSE rest]
              /\ UNCHANGED <<handles, hazard>>
    <3>1. PICK r \in LoopRow : r = IF rest.fly = <<>> THEN Advanced(rest) ELSE rest
      BY <2>3, AdvancedSound
    <3>2. /\ LoopSound(r) /\ InDrain(r) /\ r.pc \notin {"open", "flush"}
          /\ r.pc = "add" => r.batch = current /\ r.fly = t
          /\ r.pc # "add" => t = <<>>
      <4>1. CASE rest.fly = <<>>
        BY <2>3, <2>6, <3>1, <4>1, AdvancedSound DEF InDrain
      <4>2. CASE rest.fly # <<>>
        BY <2>3, <2>6, <3>1, <4>2 DEF InDrain, LoopSound
      <4> QED
        BY <4>1, <4>2
    <3>3. loop' = [loop EXCEPT ![g] = r]
      BY <2>10, <3>1
    <3>4. loop'[g] = r /\ \A h \in Gen : h # g => loop'[h] = loop[h]
      BY <1>0, <3>3
    <3>5. TypeOK'
      BY <1>0, <2>4, <2>10, <3>3 DEF Sound, TypeOK, store, queues, flags, handles
    <3>6. Handles'
      <4>1. batch[current].phase = "open"
        BY <2>1 DEF Sound, Handles
      <4> QED
        BY <2>1, <2>7, <2>10, <4>1 DEF Sound, Handles, handles, Underway
    <3>7. Flags'
      BY <1>0, <2>1, <2>10, <3>4 DEF Sound, Flags, flags, queues, handles, Gen
    <3>8. ASSUME NEW h \in Gen PROVE LoopSound(loop[h])'
      <4>1. LoopSound(loop'[h])
        BY <3>2, <3>4 DEF Sound
      <4> QED
        BY <2>10, <4>1 DEF LoopSound, handles
    <3>9. Drains'
      BY <1>0, <2>1, <2>10, <3>2, <3>4 DEF Drains, InDrain, queues, flags, handles, Gen, Batch
    <3>10. Batches'
      <4>1. Fly' = IF r.pc = "add" THEN r.fly ELSE <<>>
        BY <1>0, <2>1, <3>4 DEF Fly, flags
      <4>2. Fly' = t
        BY <3>2, <4>1
      <4> QED
        BY <1>0, <2>1, <2>7, <2>10, <4>2 DEF Batches, flags, handles
    <3> QED
      BY <1>0, <3>5, <3>6, <3>7, <3>8, <3>9, <3>10 DEF Sound, store
  <2>11. CASE /\ rest.fly = <<>>
              /\ \E l \in {rest, Advanced(rest)} : Flush(g, up, bs, [l EXCEPT !.pc = "flush"])
    <3>1. PICK m \in {rest, Advanced(rest)} : Flush(g, up, bs, [m EXCEPT !.pc = "flush"])
      BY <2>11
    <3>2. /\ m \in LoopRow /\ m.next + m.window <= Len(m.entries) + 1 /\ ~m.last
          /\ m.entries = loop[g].entries
      <4>1. CASE m = rest
        BY <2>3, <4>1
      <4>2. CASE m = Advanced(rest)
        <5>1. LoopSound(m) /\ m.pc = "entries"
          BY <2>3, <4>2, AdvancedSound
        <5> QED
          BY <2>3, <4>2, <5>1, AdvancedSound DEF LoopSound
      <4> QED
        BY <3>1, <4>1, <4>2
    <3>3. PICK l \in LoopRow : l = [m EXCEPT !.pc = "flush"]
      BY <3>2 DEF LoopRow
    <3>4. /\ l.pc = "flush" /\ l.next + l.window <= Len(l.entries) + 1 /\ ~l.last
          /\ l.entries = loop[g].entries
      <4>1. /\ l.pc = "flush" /\ l.next = m.next /\ l.window = m.window /\ l.entries = m.entries
            /\ l.last = m.last
        BY <3>2, <3>3 DEF LoopRow
      <4> QED
        BY <3>2, <4>1
    <3>5. l.entries # <<>>
      <4>1. /\ loop[g].window \in Nat /\ loop[g].next \in Nat \ {0} /\ loop[g].window > 0
            /\ loop[g].entries \in Seq(File) /\ Len(loop[g].entries) \in Nat
        <5>1. /\ loop[g].window \in Nat /\ loop[g].next \in Nat \ {0} /\ loop[g].entries \in Seq(File)
          BY <1>0 DEF LoopRow
        <5> QED
          BY <1>0, <5>1, LenProperties DEF LoopSound
      <4>2. Len(loop[g].entries) > 0
        BY <1>1, <4>1
      <4> QED
        BY <3>4, <4>1, <4>2, Empty
    <3>6. Flush(g, up, bs, l) /\ uploads' \in [File -> Status] /\ current # 0
      <4>1. Flush(g, up, bs, l) /\ current # 0
        BY <2>1, <3>1, <3>3 DEF Batch
      <4> QED
        BY <4>1, Statuses DEF Flush
    <3> QED
      BY <1>0, <1>6, <2>1, <2>4, <2>7, <2>9, <2>11, <3>4, <3>5, <3>6, FlushSound
  <2> QED
    BY <2>4, <2>5, <2>10, <2>11
<1> QED
  BY <1>5, <1>6

(***************************************************************************)
(* Sound: the batch under flush().                                         *)
(***************************************************************************)
LEMMA ReturnedIs ==
  ASSUME UploaderAssumption, Sound, NEW g \in Gen, loop[g].pc = "flush"
  PROVE  /\ Returned(g) \in LoopRow /\ LoopSound(Returned(g))
         /\ Returned(g).pc \in {"top", "entries", "open"}
         /\ InDrain(Returned(g)) <=> loop[g].entries # <<>>
         /\ loop[g].entries # <<>> =>
              /\ Returned(g).entries = loop[g].entries
              /\ Returned(g).next + Returned(g).window = loop[g].next + loop[g].window
<1>1. loop[g] \in LoopRow /\ LoopSound(loop[g])
  BY DEF Sound, TypeOK
<1>2. /\ loop[g].next + loop[g].window <= Len(loop[g].entries) + 1
      /\ loop[g].entries # <<>> /\ loop[g].last =>
           loop[g].window = 0 /\ loop[g].next <= Len(loop[g].entries)
      /\ loop[g].next \in Nat \ {0} /\ loop[g].window \in Nat
  BY <1>1 DEF LoopSound, LoopRow
<1>3. CASE loop[g].entries = <<>>
  <2>1. PICK r \in LoopRow : r = [NoLoop EXCEPT !.pc = "top"] /\ Returned(g) = r
    BY <1>3, NoLoopRow DEF Returned, LoopRow
  <2>2. r.pc = "top" /\ r.entries = <<>> /\ r.next = 1 /\ r.window = 0
    BY <2>1 DEF NoLoop
  <2> QED
    BY <1>3, <2>1, <2>2 DEF LoopSound, InDrain
<1>4. CASE loop[g].entries # <<>> /\ ~loop[g].last
  <2>1. Returned(g) = Advanced(loop[g])
    BY <1>4 DEF Returned
  <2>2. /\ Advanced(loop[g]) \in LoopRow /\ Advanced(loop[g]).pc = "entries"
        /\ LoopSound(Advanced(loop[g])) /\ Advanced(loop[g]).entries = loop[g].entries
        /\ Advanced(loop[g]).next = loop[g].next + loop[g].window /\ Advanced(loop[g]).window = 0
    BY <1>1, <1>2, <1>4, AdvancedSound
  <2> QED
    BY <1>2, <1>4, <2>1, <2>2 DEF InDrain
<1>5. CASE loop[g].entries # <<>> /\ loop[g].last /\ Stale(g)
  <2>1. PICK l \in LoopRow : l = [loop[g] EXCEPT !.last = FALSE]
    BY <1>1 DEF LoopRow
  <2>2. ~l.last /\ l.next = loop[g].next /\ l.window = loop[g].window /\ l.entries = loop[g].entries
    BY <1>1, <2>1 DEF LoopRow
  <2>3. Returned(g) = Advanced(l)
    BY <1>5, <2>1 DEF Returned
  <2>4. /\ Advanced(l) \in LoopRow /\ Advanced(l).pc = "entries"
        /\ LoopSound(Advanced(l)) /\ Advanced(l).entries = l.entries
        /\ Advanced(l).next = l.next + l.window /\ Advanced(l).window = 0
    BY <1>2, <2>2, AdvancedSound
  <2> QED
    BY <1>2, <1>5, <2>2, <2>3, <2>4 DEF InDrain
<1>6. CASE loop[g].entries # <<>> /\ loop[g].last /\ ~Stale(g)
  <2>1. PICK l \in LoopRow : l = [loop[g] EXCEPT !.pc = "open", !.last = FALSE] /\ Returned(g) = l
    BY <1>1, <1>6 DEF LoopRow, Returned
  <2>2. /\ ~l.last /\ l.next = loop[g].next /\ l.window = loop[g].window
        /\ l.entries = loop[g].entries /\ l.pc = "open"
    BY <1>1, <2>1 DEF LoopRow
  <2> QED
    BY <1>2, <1>6, <2>1, <2>2 DEF InDrain, LoopSound
<1> QED
  BY <1>3, <1>4, <1>5, <1>6

LEMMA UploadingBatch ==
  ASSUME UploaderAssumption, Sound, NEW b \in Batch, batch[b].phase \notin {"none", "open"}
  PROVE  /\ b = uploading /\ flushing = b /\ current = 0 /\ batch[b] \in BatchRow
         /\ batch[b].phase \in Underway
<1>1. batch[b] \in BatchRow
  BY DEF Sound, TypeOK
<1>2. batch[b].phase \in Underway
  BY <1>1 DEF BatchRow
<1> QED
  BY <1>1, <1>2 DEF Sound, Handles, Batch

LEMMA EndsSound ==
  ASSUME UploaderAssumption, Sound, NEW b \in Batch, batch[b].phase \notin {"none", "open"},
         Ends(b), UNCHANGED <<store, queues, flags, current, acts>>,
         uploads' \in [File -> Status], fails' \in Nat, hazard' \in SUBSET Races
  PROVE  Sound'
<1>0. /\ b = uploading /\ flushing = b /\ current = 0 /\ b # 0 /\ generation \in Gen
      /\ batch' = [batch EXCEPT ![b] = NoBatch] /\ uploading' = 0 /\ flushing' = 0
      /\ batch \in [Batch -> BatchRow] /\ loop \in [Gen -> LoopRow]
  BY UploadingBatch DEF Ends, Batch, Sound, TypeOK
<1>1. \A h \in Gen : loop[h].pc = "flush" => loop'[h] = Returned(h)
  BY <1>0 DEF Ends, Sound, LoopSound
<1>2. \A h \in Gen : loop[h].pc # "flush" => loop'[h] = loop[h]
  BY DEF Ends
<1>3. loop' \in [Gen -> LoopRow]
  <2>1. \A h \in Gen : loop'[h] \in LoopRow
    BY <1>0, <1>1, <1>2, ReturnedIs
  <2>2. loop' = [h \in Gen |-> loop'[h]]
    BY DEF Ends
  <2> QED
    BY <2>1, <2>2
<1>4. TypeOK'
  <2>1. 0 \in 0 .. MaxBatch
    BY UploaderAssumption DEF UploaderAssumption
  <2> QED
    BY <1>0, <1>3, <2>1, NoLoopRow DEF Sound, TypeOK, store, queues, flags
<1>5. Handles'
  <2>1. ASSUME NEW c \in Batch
        PROVE  /\ batch'[c].phase = "open" <=> c = 0
               /\ batch'[c].phase \in Underway <=> c = 0
               /\ batch'[c].phase = "none" => batch'[c] = NoBatch
    <3>1. CASE c = b
      BY <1>0, <3>1 DEF NoBatch, Underway, Batch
    <3>2. CASE c # b
      BY <1>0, <3>2 DEF Sound, Handles, Batch
    <3> QED
      BY <3>1, <3>2
  <2> QED
    BY <1>0, <2>1 DEF Handles
<1>6. Flags'
  <2>1. \A h \in Gen : h > generation => loop'[h] = NoLoop
    BY <1>2 DEF Sound, Flags, NoLoop
  <2> QED
    BY <1>0, <2>1 DEF Sound, Flags, flags, queues
<1>7. ASSUME NEW h \in Gen PROVE LoopSound(loop[h])'
  <2>1. loop'[h].pc # "flush" /\ LoopSound(loop'[h])
    BY <1>1, <1>2, ReturnedIs DEF Sound
  <2> QED
    BY <2>1 DEF LoopSound
<1>8. Drains'
  <2>1. \A h \in Gen : InDrain(loop[h])' <=> InDrain(loop[h])
    BY <1>1, <1>2, ReturnedIs DEF InDrain
  <2>2. draining # 0 => draining \in Gen
    BY UploaderAssumption DEF Sound, TypeOK, Gen, UploaderAssumption
  <2>3. loop'[generation].pc = "add" => loop'[generation] = loop[generation]
    BY <1>0, <1>1, <1>2, ReturnedIs
  <2> QED
    BY <1>0, <2>1, <2>2, <2>3 DEF Sound, Drains, flags, queues
<1>9. Batches'
  BY <1>0 DEF Batches
<1> QED
  BY <1>4, <1>5, <1>6, <1>7, <1>8, <1>9 DEF Sound, store

LEMMA BatchFailsSound ==
  ASSUME UploaderAssumption, Sound, NEW b \in Batch, BatchFails(b)
  PROVE  Sound'
<1>1. batch[b].phase \notin {"none", "open"} /\ Ends(b) /\ UNCHANGED <<store, queues, flags, current, acts>>
  BY DEF BatchFails
<1>2. fails' \in Nat
  BY DEF BatchFails, Fail, Sound, TypeOK
<1>3. uploads' \in [File -> Status]
  <2>1. PICK refused \in {FALSE, suspended} :
          uploads' = failEntry(uploads, ToSet(batch[b].files), refused)
    BY DEF BatchFails
  <2>2. uploads \in [File -> Status]
    BY DEF Sound, TypeOK
  <2> QED
    BY <2>1, <2>2, Statuses
<1>4. hazard' \in SUBSET Races
  BY DEF BatchFails, Sound, TypeOK, Races
<1> QED
  BY <1>1, <1>2, <1>3, <1>4, EndsSound

LEMMA RemoveUploadsSound ==
  ASSUME UploaderAssumption, Sound, NEW b \in Batch, RemoveUploads(b)
  PROVE  Sound'
<1>1. /\ batch[b].phase \notin {"none", "open"} /\ Ends(b)
      /\ UNCHANGED <<store, queues, flags, current, acts>> /\ fails' \in Nat /\ hazard' \in SUBSET Races
  BY DEF RemoveUploads, counts, Sound, TypeOK
<1>2. uploads' \in [File -> Status]
  BY Statuses DEF RemoveUploads, Sound, TypeOK
<1> QED
  BY <1>1, <1>2, EndsSound

\* A step of uploadBatch: the record of the batch alone changes, of what Sound is about.
LEMMA UploadStep ==
  ASSUME UploaderAssumption, Sound, TypeOK', NEW b \in Batch, NEW r \in BatchRow,
         batch[b].phase \notin {"none", "open"}, batch' = [batch EXCEPT ![b] = r],
         UNCHANGED <<swapped, queues, flags, handles, loop>>,
         r.phase \in Underway, r.files = batch[b].files, r.added = batch[b].added,
         r.cancelled = batch[b].cancelled,
         r.at <= Len(r.files) + 1, r.won \union r.gone \subseteq ToSet(r.files),
         r.phase = "finalize" \/ r.at = 1 => r.at = 1 /\ r.won = {} /\ r.gone = {},
         r.phase = "remove" => r.at = Len(r.files) + 1
  PROVE  Sound'
<1>0. /\ b = uploading /\ current = 0 /\ batch \in [Batch -> BatchRow] /\ b # 0
      /\ batch[b].phase \in Underway
  BY UploadingBatch DEF Sound, TypeOK, Batch
<1>1. batch'[b] = r /\ \A c \in Batch : c # b => batch'[c] = batch[c]
  BY <1>0
<1>2. Handles'
  <2>1. ASSUME NEW c \in Batch
        PROVE  /\ batch'[c].phase = "open" <=> c = current
               /\ batch'[c].phase \in Underway <=> c = uploading
               /\ batch'[c].phase = "none" => batch'[c] = NoBatch
    <3>1. CASE c = b
      BY <1>0, <1>1, <3>1 DEF Underway
    <3>2. CASE c # b
      BY <1>0, <1>1, <3>2 DEF Sound, Handles
    <3> QED
      BY <3>1, <3>2
  <2> QED
    BY <2>1 DEF Sound, Handles, handles
<1>3. Flags'
  BY DEF Sound, Flags, flags, queues, handles
<1>4. \A h \in Gen : LoopSound(loop[h])'
  BY DEF Sound, LoopSound, handles
<1>5. Drains'
  BY DEF Sound, Drains, InDrain, queues, flags, handles
<1>6. Batches'
  BY <1>0, <1>1 DEF Sound, Batches, flags, handles
<1> QED
  BY <1>2, <1>3, <1>4, <1>5, <1>6 DEF Sound

LEMMA BatchIs ==
  ASSUME UploaderAssumption, Sound, NEW b \in Batch, batch[b].phase \notin {"none", "open"}
  PROVE  /\ batch[b] \in BatchRow /\ batch[b].phase \in Underway
         /\ batch[b].files \in Seq(File) /\ batch[b].files = batch[b].added
         /\ Len(batch[b].files) \in Nat /\ batch[b].at \in Nat \ {0}
         /\ batch[b].at <= Len(batch[b].files) + 1
         /\ batch[b].won \union batch[b].gone \subseteq ToSet(batch[b].files)
         /\ batch[b].phase = "finalize" \/ batch[b].at = 1 =>
              batch[b].at = 1 /\ batch[b].won = {} /\ batch[b].gone = {}
         /\ batch[b].phase = "remove" => batch[b].at = Len(batch[b].files) + 1
         /\ DOMAIN batch[b] = {"phase", "files", "added", "cancelled", "at", "won", "gone"}
<1>1. uploading = b /\ b # 0 /\ batch[b] \in BatchRow /\ batch[b].phase \in Underway
  BY UploadingBatch DEF Batch
<1>2. batch[b].files \in Seq(File) /\ batch[b].at \in Nat \ {0}
      /\ DOMAIN batch[b] = {"phase", "files", "added", "cancelled", "at", "won", "gone"}
  BY <1>1 DEF BatchRow
<1> QED
  BY <1>1, <1>2, LenProperties DEF Sound, Batches

LEMMA FinalizeSound ==
  ASSUME UploaderAssumption, Sound, NEW b \in Batch, Finalize(b)
  PROVE  Sound'
<1>0. /\ batch[b].phase = "finalize"
      /\ UNCHANGED <<store, uploads, queues, flags, handles, loop, counts>>
      /\ batch \in [Batch -> BatchRow]
  BY DEF Finalize, Sound, TypeOK
<1>1. PICK r \in BatchRow : r = [batch[b] EXCEPT !.phase = "pin"]
  BY <1>0 DEF BatchRow, Underway
<1>2. batch' = [batch EXCEPT ![b] = r]
  BY <1>0, <1>1 DEF Finalize
<1>3. TypeOK'
  BY <1>0, <1>2 DEF Sound, TypeOK, store, queues, flags, handles, counts
<1>4. /\ r.phase = "pin" /\ r.files = batch[b].files /\ r.added = batch[b].added
      /\ r.cancelled = batch[b].cancelled /\ r.at = batch[b].at /\ r.won = batch[b].won
      /\ r.gone = batch[b].gone
  BY <1>0, <1>1, BatchIs
<1> QED
  BY <1>0, <1>2, <1>3, <1>4, BatchIs, UploadStep DEF store, Underway

LEMMA RecordSound ==
  ASSUME UploaderAssumption, Sound, NEW b \in Batch, Record(b)
  PROVE  Sound'
<1>0. /\ batch[b].phase = "pin" /\ batch[b].at > Len(batch[b].files)
      /\ UNCHANGED <<file, pins, swapped, uploads, queues, flags, handles, loop, counts>>
      /\ batch \in [Batch -> BatchRow] /\ objects' = objects \union batch[b].won
  BY DEF Record, Sound, TypeOK
<1>1. PICK r \in BatchRow : r = [batch[b] EXCEPT !.phase = "remove"]
  BY <1>0 DEF BatchRow, Underway
<1>2. batch' = [batch EXCEPT ![b] = r]
  BY <1>0, <1>1 DEF Record
<1>3. TypeOK'
  BY <1>0, <1>2 DEF Sound, TypeOK, queues, flags, handles, counts, BatchRow
<1>4. /\ r.phase = "remove" /\ r.files = batch[b].files /\ r.added = batch[b].added
      /\ r.cancelled = batch[b].cancelled /\ r.at = batch[b].at /\ r.won = batch[b].won
      /\ r.gone = batch[b].gone
  BY <1>0, <1>1, BatchIs
<1>5. /\ batch[b].at = Len(batch[b].files) + 1
      /\ batch[b].won \union batch[b].gone \subseteq ToSet(batch[b].files)
      /\ batch[b].at = 1 => batch[b].won = {} /\ batch[b].gone = {}
      /\ batch[b].phase \notin {"none", "open"}
  BY <1>0, BatchIs
<1>6. /\ r.at <= Len(r.files) + 1 /\ r.won \union r.gone \subseteq ToSet(r.files)
      /\ r.phase = "finalize" \/ r.at = 1 => r.at = 1 /\ r.won = {} /\ r.gone = {}
      /\ r.phase = "remove" => r.at = Len(r.files) + 1
      /\ r.phase \in Underway
  BY <1>0, <1>4, <1>5, BatchIs DEF Underway
<1> QED
  BY <1>0, <1>2, <1>3, <1>4, <1>5, <1>6, UploadStep

\* The pin of the file whose turn it is, whatever comes of it.
LEMMA PinIs ==
  ASSUME UploaderAssumption, Sound, NEW b \in Batch, Pin(b)
  PROVE  LET f == batch[b].files[batch[b].at]
             after == [batch[b] EXCEPT !.at = batch[b].at + 1]
         IN  /\ batch[b].phase = "pin" /\ batch[b].at \in 1 .. Len(batch[b].files)
             /\ f \in File /\ f \in ToSet(batch[b].files)
             /\ UNCHANGED <<file, objects, queues, flags, handles, loop, acts>>
             /\ fails' \in Nat /\ swapped' = swapped
             /\ \/ /\ UNCHANGED <<uploads, pins, hazard>>
                   /\ batch' = [batch EXCEPT ![b] = [after EXCEPT !.gone = batch[b].gone \union {f}]]
                \/ /\ file[f] # "gone" /\ pins' = [pins EXCEPT ![f] = pins[f] + 1]
                   /\ UNCHANGED <<uploads, hazard>>
                   /\ batch' = [batch EXCEPT ![b] = [after EXCEPT !.won = batch[b].won \union {f}]]
                \/ /\ \/ UNCHANGED <<pins, hazard>>
                      \/ /\ pins' = [pins EXCEPT ![f] = pins[f] + 1]
                         /\ hazard' = hazard \union {"unrecorded"}
                   /\ \E refused \in {FALSE, suspended} : uploads' = failEntry(uploads, {f}, refused)
                   /\ batch' = [batch EXCEPT ![b] = after]
<1> DEFINE f == batch[b].files[batch[b].at]
           after == [batch[b] EXCEPT !.at = batch[b].at + 1]
<1>1. /\ batch[b].phase = "pin" /\ batch[b].at <= Len(batch[b].files)
      /\ UNCHANGED <<file, objects, queues, flags, handles, loop, acts>>
  BY DEF Pin
<1>2. /\ batch[b].files \in Seq(File) /\ batch[b].files = batch[b].added
      /\ Len(batch[b].files) \in Nat /\ batch[b].at \in Nat \ {0}
      /\ batch[b] \in BatchRow
      /\ DOMAIN batch[b] = {"phase", "files", "added", "cancelled", "at", "won", "gone"}
  BY <1>1, BatchIs
<1>3. batch[b].at \in 1 .. Len(batch[b].files)
  BY <1>1, <1>2
<1>4. f \in File /\ f \in ToSet(batch[b].files) /\ f = batch[b].added[batch[b].at]
  BY <1>2, <1>3, ElementOfSeq, ElementsIn
<1>5. ~(batch[b].at > Len(batch[b].added))
  BY <1>2, <1>3
<1>6. after.gone = batch[b].gone /\ after.won = batch[b].won
  BY <1>2
<1> HIDE DEF f, after
<1>7. \/ /\ batch' = [batch EXCEPT ![b] = [after EXCEPT !.gone = after.gone \union {f}]]
         /\ UNCHANGED <<uploads, pins, swapped, fails, hazard>>
      \/ /\ file[f] # "gone" /\ pins' = [pins EXCEPT ![f] = pins[f] + 1]
         /\ swapped' = swapped \union ({f} \ {batch[b].added[batch[b].at]})
         /\ batch' = [batch EXCEPT ![b] = [after EXCEPT !.won = after.won \union {f}]]
         /\ UNCHANGED <<uploads, fails, hazard>>
      \/ /\ Fail
         /\ \E refused \in {FALSE, suspended} : uploads' = failEntry(uploads, {f}, refused)
         /\ batch' = [batch EXCEPT ![b] = after]
         /\ \/ UNCHANGED <<pins, swapped, hazard>>
            \/ /\ pins' = [pins EXCEPT ![f] = pins[f] + 1]
               /\ swapped' = swapped \union ({f} \ {batch[b].added[batch[b].at]})
               /\ hazard' = hazard \union {"unrecorded"}
  BY <1>5 DEF Pin, f, after
<1>8. (Fail => fails' \in Nat) /\ (UNCHANGED fails => fails' \in Nat)
  BY DEF Fail, Sound, TypeOK
<1>9. swapped \union ({f} \ {batch[b].added[batch[b].at]}) = swapped
  BY <1>4
<1> QED
  BY <1>1, <1>3, <1>4, <1>6, <1>7, <1>8, <1>9 DEF f, after

LEMMA PinSound ==
  ASSUME UploaderAssumption, Sound, NEW b \in Batch, Pin(b)
  PROVE  Sound'
<1>1. PICK f : f = batch[b].files[batch[b].at]
  OBVIOUS
<1>2. /\ batch[b].phase = "pin" /\ batch[b].at \in 1 .. Len(batch[b].files)
      /\ f \in File /\ f \in ToSet(batch[b].files)
      /\ UNCHANGED <<file, objects, queues, flags, handles, loop, acts>>
  BY <1>1, PinIs, ZenonT(60)
<1>3. /\ batch[b] \in BatchRow /\ Len(batch[b].files) \in Nat /\ batch \in [Batch -> BatchRow]
      /\ batch[b].won \union batch[b].gone \subseteq ToSet(batch[b].files)
      /\ batch[b].at \in Nat \ {0}
  BY <1>2, BatchIs DEF Sound, TypeOK
<1>4. PICK r \in BatchRow :
        /\ batch' = [batch EXCEPT ![b] = r]
        /\ r.phase = "pin" /\ r.files = batch[b].files /\ r.added = batch[b].added
        /\ r.cancelled = batch[b].cancelled /\ r.at = batch[b].at + 1
        /\ r.won \union r.gone \subseteq ToSet(batch[b].files)
  <2>1. PICK n \in Nat \ {0} : n = batch[b].at + 1
    BY <1>3
  <2>2. PICK after \in BatchRow : after = [batch[b] EXCEPT !.at = n]
    BY <1>3, ZenonT(60) DEF BatchRow
  <2>3. /\ DOMAIN after = {"phase", "files", "added", "cancelled", "at", "won", "gone"}
        /\ after.phase = "pin" /\ after.files = batch[b].files /\ after.added = batch[b].added
        /\ after.cancelled = batch[b].cancelled /\ after.at = n /\ after.won = batch[b].won
        /\ after.gone = batch[b].gone
    BY <1>2, <1>3, <2>2 DEF BatchRow
  <2>4. PICK r \in {after, [after EXCEPT !.gone = batch[b].gone \union {f}],
                    [after EXCEPT !.won = batch[b].won \union {f}]} :
          batch' = [batch EXCEPT ![b] = r]
    BY <1>1, <2>1, <2>2, PinIs, ZenonT(60)
  <2>5. r \in BatchRow
    <3>1. batch[b].gone \union {f} \in SUBSET File /\ batch[b].won \union {f} \in SUBSET File
      BY <1>2, <1>3 DEF BatchRow
    <3>2. [after EXCEPT !.gone = batch[b].gone \union {f}] \in BatchRow
      BY <3>1 DEF BatchRow
    <3>3. [after EXCEPT !.won = batch[b].won \union {f}] \in BatchRow
      BY <3>1 DEF BatchRow
    <3> QED
      BY <2>4, <3>2, <3>3
  <2>6. /\ r.phase = "pin" /\ r.files = batch[b].files /\ r.added = batch[b].added
        /\ r.cancelled = batch[b].cancelled /\ r.at = n
        /\ r.won \union r.gone \subseteq batch[b].won \union batch[b].gone \union {f}
    BY <2>3, <2>4
  <2> QED
    BY <1>2, <1>3, <2>1, <2>4, <2>5, <2>6
<1>5. /\ pins' \in [File -> Nat] /\ uploads' \in [File -> Status] /\ hazard' \in SUBSET Races
      /\ swapped' = swapped /\ fails' \in Nat
  <2>1. pins \in [File -> Nat] /\ uploads \in [File -> Status] /\ fails \in Nat
    BY DEF Sound, TypeOK
  <2>2. \A refused : failEntry(uploads, {f}, refused) \in [File -> Status]
    BY <2>1, Statuses
  <2>3. [pins EXCEPT ![f] = pins[f] + 1] \in [File -> Nat]
    BY <1>2, <2>1
  <2>4. /\ swapped' = swapped /\ fails' \in Nat
        /\ pins' \in {pins, [pins EXCEPT ![f] = pins[f] + 1]}
        /\ hazard' \in {hazard, hazard \union {"unrecorded"}}
        /\ \/ uploads' = uploads
           \/ \E refused \in {FALSE, suspended} : uploads' = failEntry(uploads, {f}, refused)
    BY <1>1, PinIs, ZenonT(60)
  <2>5. hazard' \in SUBSET Races
    BY <2>4 DEF Sound, TypeOK, Races
  <2> QED
    BY <2>1, <2>2, <2>3, <2>4, <2>5, ZenonT(60)
<1>6. TypeOK'
  BY <1>2, <1>3, <1>4, <1>5 DEF Sound, TypeOK, queues, flags, handles
<1>7. /\ r.at <= Len(r.files) + 1 /\ r.at # 1
  BY <1>2, <1>3, <1>4
<1> QED
  BY <1>2, <1>4, <1>5, <1>6, <1>7, UploadStep, ZenonT(60) DEF Underway

(***************************************************************************)
(* Sound: shutdown and restart, suspend and resume, the user.              *)
(***************************************************************************)
LEMMA Removed ==
  ASSUME Sound, NEW ids
  PROVE  removeMany(uploads, ids) \in [File -> Status]
BY Statuses DEF Sound, TypeOK

LEMMA WokenIs ==
  ASSUME UploaderAssumption, Sound, NEW pcs, pcs \subseteq {"parked", "idle", "sleep"},
         loop' = Woken(loop, pcs)
  PROVE  /\ loop' \in [Gen -> LoopRow]
         /\ \A h \in Gen :
              /\ loop'[h] = loop[h] \/ (Idles(loop[h]) /\ Idles(loop'[h]) /\ loop'[h].pc = "top")
              /\ LoopSound(loop'[h])
              /\ h > generation => loop'[h] = NoLoop
              /\ loop'[h].pc = "flush" <=> loop[h].pc = "flush"
<1>1. ASSUME NEW h \in Gen
      PROVE  \/ loop'[h] = loop[h]
             \/ Idles(loop[h]) /\ loop'[h] = [loop[h] EXCEPT !.pc = "top"]
  BY DEF Woken, Idles
<1>2. ASSUME NEW h \in Gen PROVE loop[h] \in LoopRow /\ LoopSound(loop[h])
  BY DEF Sound, TypeOK
<1>3. ASSUME NEW h \in Gen, Idles(loop[h]), loop'[h] = [loop[h] EXCEPT !.pc = "top"]
      PROVE  /\ loop'[h] \in LoopRow /\ LoopSound(loop'[h]) /\ Idles(loop'[h])
             /\ loop'[h].pc = "top" /\ loop[h].pc # "flush" /\ loop[h] # NoLoop
  <2>1. loop'[h] \in LoopRow
    BY <1>2, <1>3 DEF LoopRow
  <2>2. /\ loop'[h].pc = "top" /\ loop'[h].next = loop[h].next /\ loop'[h].window = loop[h].window
        /\ loop'[h].entries = loop[h].entries
    BY <1>2, <1>3 DEF LoopRow
  <2>3. loop[h] # NoLoop
    BY <1>3 DEF Idles, NoLoop
  <2> QED
    BY <1>2, <1>3, <2>1, <2>2, <2>3 DEF LoopSound, Idles
<1>4. loop' \in [Gen -> LoopRow]
  <2>1. \A h \in Gen : loop'[h] \in LoopRow
    BY <1>1, <1>2, <1>3
  <2>2. loop' = [h \in Gen |-> loop'[h]]
    BY DEF Woken
  <2> QED
    BY <2>1, <2>2
<1> QED
  BY <1>1, <1>2, <1>3, <1>4 DEF Sound, Flags

LEMMA ShutdownSound ==
  ASSUME UploaderAssumption, Sound, Shutdown
  PROVE  Sound'
<1> DEFINE pinning == IF uploading = 0 THEN {} ELSE ToSet(batch[uploading].files)
<1>1. /\ ~shut.on /\ active' = FALSE /\ shut' = [on |-> TRUE, ids |-> pinning, batch |-> flushing]
      /\ batch' = [b \in Batch |-> IF b = current THEN NoBatch
                                   ELSE IF b = uploading THEN [batch[b] EXCEPT !.cancelled = TRUE]
                                   ELSE batch[b]]
      /\ explicit' = <<>> /\ polled' = <<>> /\ draining' = 0 /\ current' = 0
      /\ loop' = Woken(loop, {"parked", "idle", "sleep"})
      /\ UNCHANGED <<store, suspended, generation, uploading, flushing, fails, hazard>>
      /\ acts' \in Nat
  BY DEF Shutdown, Act, Sound, TypeOK
<1>2. \E ids : uploads' = removeMany(uploads, ids)
  BY DEF Shutdown
<1>3. uploads' \in [File -> Status]
  BY <1>2, Removed
<1>4. pinning \in SUBSET File
  <2>1. uploading # 0 => uploading \in Batch
    BY UploaderAssumption DEF Sound, TypeOK, Batch, UploaderAssumption
  <2> QED
    BY <2>1, ElementsIn DEF Sound, TypeOK, BatchRow
<1>5. batch' \in [Batch -> BatchRow]
  <2>1. \A b \in Batch : [batch[b] EXCEPT !.cancelled = TRUE] \in BatchRow /\ batch[b] \in BatchRow
    BY ZenonT(60) DEF Sound, TypeOK, BatchRow
  <2> QED
    BY <1>1, <2>1, NoLoopRow
<1>6. shut' \in [on : BOOLEAN, ids : SUBSET File, batch : 0 .. MaxBatch]
  BY <1>1, <1>4 DEF Sound, TypeOK
<1>7. \A h \in Gen :
        /\ loop'[h] = loop[h] \/ (Idles(loop[h]) /\ Idles(loop'[h]) /\ loop'[h].pc = "top")
        /\ LoopSound(loop'[h]) /\ (h > generation => loop'[h] = NoLoop)
  BY <1>1, WokenIs
<1>8. TypeOK'
  <2>1. loop' \in [Gen -> LoopRow]
    BY <1>1, WokenIs
  <2>2. 0 \in 0 .. MaxBatch /\ 0 \in 0 .. MaxGen
    BY UploaderAssumption DEF UploaderAssumption
  <2> QED
    BY <1>1, <1>3, <1>5, <1>6, <2>1, <2>2, EmptySeq DEF Sound, TypeOK, store
<1>9. Handles'
  <2>1. ASSUME NEW b \in Batch
        PROVE  /\ batch'[b].phase = "open" <=> b = 0
               /\ batch'[b].phase \in Underway <=> b = uploading
               /\ batch'[b].phase = "none" => batch'[b] = NoBatch
    <3>1. CASE b = current
      <4>1. batch'[b] = NoBatch /\ uploading = 0
        BY <1>1, <3>1 DEF Sound, Handles, Batch
      <4> QED
        BY <4>1 DEF NoBatch, Underway, Batch
    <3>2. CASE b # current /\ b = uploading
      <4>1. batch'[b] = [batch[b] EXCEPT !.cancelled = TRUE]
        BY <1>1, <3>2
      <4>2. batch'[b].phase = batch[b].phase
        BY <4>1 DEF Sound, TypeOK, BatchRow
      <4> QED
        BY <3>2, <4>2 DEF Sound, Handles, Batch, Underway
    <3>3. CASE b # current /\ b # uploading
      BY <1>1, <3>3 DEF Sound, Handles, Batch
    <3> QED
      BY <3>1, <3>2, <3>3
  <2> QED
    BY <1>1, <2>1 DEF Sound, Handles
<1>10. Flags'
  BY <1>1, <1>7 DEF Sound, Flags, Handles
<1>11. \A h \in Gen : LoopSound(loop[h])'
  BY <1>1, <1>7 DEF LoopSound
<1>12. Drains'
  BY <1>1 DEF Drains
<1>13. Batches'
  <2>1. CASE uploading = 0
    BY <1>1, <2>1 DEF Batches
  <2>2. CASE uploading # 0
    <3>1. uploading \in Batch /\ current # uploading
      BY <2>2, UploaderAssumption DEF Sound, TypeOK, Handles, Batch, UploaderAssumption
    <3>2. batch'[uploading] = [batch[uploading] EXCEPT !.cancelled = TRUE] /\ batch[uploading] \in BatchRow
      BY <1>1, <3>1 DEF Sound, TypeOK
    <3>3. /\ batch'[uploading].phase = batch[uploading].phase
          /\ batch'[uploading].files = batch[uploading].files
          /\ batch'[uploading].added = batch[uploading].added
          /\ batch'[uploading].at = batch[uploading].at
          /\ batch'[uploading].won = batch[uploading].won
          /\ batch'[uploading].gone = batch[uploading].gone
      BY <3>2 DEF BatchRow
    <3>4. ToSet(batch'[uploading].files) = pinning /\ shut'.on /\ shut'.ids = pinning
      BY <1>1, <2>2, <3>3
    <3> HIDE DEF pinning
    <3> QED
      BY <1>1, <2>2, <3>3, <3>4, ZenonT(60) DEF Sound, Batches, store
  <2> QED
    BY <2>1, <2>2
<1> QED
  BY <1>1, <1>8, <1>9, <1>10, <1>11, <1>12, <1>13 DEF Sound, store

LEMMA ShutdownReturnsSound ==
  ASSUME UploaderAssumption, Sound, NEW clear \in BOOLEAN, ShutdownReturns(clear)
  PROVE  Sound'
<1>1. /\ shut.on /\ shut.batch \notin {b \in Batch : batch[b].phase # "none"}
      /\ shut' = [on |-> FALSE, ids |-> {}, batch |-> 0]
      /\ UNCHANGED <<store, queues, active, suspended, generation, handles, batch, loop, acts, fails>>
  BY DEF ShutdownReturns
<1>2. ~active /\ uploading = 0
  <2>1. ~active /\ uploading \in {0, shut.batch}
    BY <1>1 DEF Sound, Flags
  <2>2. uploading # 0 => uploading \in Batch /\ batch[uploading].phase \in Underway
    BY UploaderAssumption DEF Sound, TypeOK, Handles, Batch, UploaderAssumption
  <2> QED
    BY <1>1, <2>1, <2>2 DEF Underway
<1>3. uploads' \in [File -> Status] /\ hazard' \in SUBSET Races
  <2>1. uploads' = [f \in File |-> "none"] \/ \E ids : uploads' = removeMany(uploads, ids)
    BY DEF ShutdownReturns
  <2>2. [f \in File |-> "none"] \in [File -> Status]
    BY DEF Status
  <2>3. hazard' \in SUBSET Races
    BY DEF ShutdownReturns, Sound, TypeOK, Races
  <2> QED
    BY <2>1, <2>2, <2>3, Removed
<1>4. TypeOK'
  <2>1. 0 \in 0 .. MaxBatch
    BY UploaderAssumption DEF UploaderAssumption
  <2> QED
    BY <1>1, <1>3, <2>1 DEF Sound, TypeOK, store, queues, handles
<1>5. Handles'
  BY <1>1 DEF Sound, Handles, handles
<1>6. Flags'
  BY <1>1, <1>2 DEF Sound, Flags, handles, queues
<1>7. \A h \in Gen : LoopSound(loop[h])'
  BY <1>1 DEF Sound, LoopSound, handles
<1>8. Drains'
  BY <1>1 DEF Sound, Drains, InDrain, handles, queues
<1>9. Batches'
  BY <1>1, <1>2 DEF Sound, Batches, Flags, handles
<1> QED
  BY <1>1, <1>4, <1>5, <1>6, <1>7, <1>8, <1>9 DEF Sound, store

LEMMA initializeSound ==
  ASSUME UploaderAssumption, Sound, initialize
  PROVE  Sound'
<1>1. /\ ~active /\ ~shut.on /\ generation < MaxGen /\ active' = TRUE /\ generation' = generation + 1
      /\ loop' = [loop EXCEPT ![generation + 1].pc = "top"]
      /\ UNCHANGED <<store, uploads, queues, suspended, shut, handles, batch, counts>>
      /\ loop \in [Gen -> LoopRow]
  BY DEF initialize, Sound, TypeOK
<1>2. PICK g \in Gen : g = generation + 1 /\ g > generation /\ generation \in Nat
  BY <1>1, UploaderAssumption DEF Sound, TypeOK, Gen, UploaderAssumption
<1>3. loop[g] = NoLoop /\ draining = 0 /\ current = 0 /\ uploading = 0
  BY <1>1, <1>2 DEF Sound, Flags
<1>4. PICK r \in LoopRow : r = [NoLoop EXCEPT !.pc = "top"]
  BY NoLoopRow DEF LoopRow
<1>5. r.pc = "top" /\ r.entries = <<>> /\ r.next = 1 /\ r.window = 0
  BY <1>4 DEF NoLoop
<1>6. loop' = [loop EXCEPT ![g] = r]
  BY <1>1, <1>2, <1>3, <1>4
<1>7. loop'[g] = r /\ \A h \in Gen : h # g => loop'[h] = loop[h]
  BY <1>1, <1>6
<1>8. TypeOK'
  BY <1>1, <1>2, <1>6 DEF Sound, TypeOK, store, queues, handles, counts
<1>9. Handles'
  BY <1>1 DEF Sound, Handles, handles
<1>10. Flags'
  <2>1. \A h \in Gen : h > generation' => h > generation /\ h # g
    BY <1>1, <1>2 DEF Gen
  <2> QED
    BY <1>1, <1>3, <1>7, <2>1 DEF Sound, Flags, handles, queues
<1>11. ASSUME NEW h \in Gen PROVE LoopSound(loop[h])'
  <2>1. LoopSound(r)
    BY <1>5 DEF LoopSound
  <2>2. LoopSound(loop'[h])
    BY <1>7, <2>1 DEF Sound
  <2> QED
    BY <1>1, <2>2 DEF LoopSound, handles
<1>12. Drains'
  BY <1>1, <1>2, <1>3, <1>5, <1>7 DEF Drains, InDrain, handles, queues
<1>13. Batches'
  BY <1>1, <1>3 DEF Batches, Sound, handles
<1> QED
  BY <1>1, <1>8, <1>9, <1>10, <1>11, <1>12, <1>13 DEF Sound, store

LEMMA suspendSound ==
  ASSUME UploaderAssumption, Sound, suspend
  PROVE  Sound'
<1>1. /\ suspended' = TRUE /\ loop' = Woken(loop, {"idle", "sleep"}) /\ acts' \in Nat
      /\ UNCHANGED <<store, uploads, queues, active, generation, shut, handles, batch, fails, hazard>>
  BY DEF suspend, Act, Sound, TypeOK
<1>2. loop' \in [Gen -> LoopRow]
  BY <1>1, WokenIs
<1>3. TypeOK'
  BY <1>1, <1>2 DEF Sound, TypeOK, store, queues, handles
<1> QED
  BY <1>1, <1>3, WokenStep DEF store, queues

LEMMA resumeSound ==
  ASSUME UploaderAssumption, Sound, resume
  PROVE  Sound'
<1>1. /\ suspended' = FALSE /\ loop' = Woken(loop, {"parked"})
      /\ UNCHANGED <<store, uploads, queues, active, generation, shut, handles, batch, counts>>
  BY DEF resume
<1>2. loop' \in [Gen -> LoopRow]
  BY <1>1, WokenIs
<1>3. TypeOK'
  BY <1>1, <1>2 DEF Sound, TypeOK, store, queues, handles, counts
<1> QED
  BY <1>1, <1>3, WokenStep DEF store, queues

LEMMA enqueueSound ==
  ASSUME UploaderAssumption, Sound, NEW f \in File, enqueue(f)
  PROVE  Sound'
<1>1. /\ uploads' = [uploads EXCEPT ![f] = "active"] /\ explicit' = Append(explicit, f)
      /\ loop' = Woken(loop, {"idle", "sleep"}) /\ acts' \in Nat
      /\ UNCHANGED <<store, polled, draining, flags, handles, batch, fails, hazard>>
  BY DEF enqueue, Act, Sound, TypeOK
<1>2. loop' \in [Gen -> LoopRow]
  BY <1>1, WokenIs
<1>3. uploads' \in [File -> Status] /\ explicit' \in Seq(File)
  BY <1>1, AppendProperties DEF Sound, TypeOK, Status
<1>4. TypeOK'
  BY <1>1, <1>2, <1>3 DEF Sound, TypeOK, store, flags, handles
<1> QED
  BY <1>1, <1>4, WokenStep DEF store, flags

LEMMA EditSound ==
  ASSUME UploaderAssumption, Sound, NEW f \in File,
         Trash(f) \/ Delete(f) \/ Restore(f) \/ deleteWithThumbnails(f)
  PROVE  Sound'
<1>1. /\ \E to \in {"live", "trashed", "deleted", "gone"} : file' = [file EXCEPT ![f] = to]
      /\ Act /\ objects' \in {objects, objects \ {f}}
      /\ UNCHANGED <<pins, swapped, queues, flags, handles, batch, loop, fails>>
  BY DEF Trash, Delete, Restore, Discard, Edit, deleteWithThumbnails
<1>2. acts' \in Nat /\ objects' \in SUBSET File
  BY <1>1 DEF Act, Sound, TypeOK
<1>3. uploads' \in [File -> Status] /\ hazard' \in SUBSET Races
  <2>1. uploads' \in {uploads, removeMany(uploads, {f})}
    BY DEF Trash, Delete, Restore, Discard, deleteWithThumbnails
  <2>2. hazard' \in {hazard, hazard \union {"dropped"}}
    BY DEF Trash, Delete, Restore, Discard, deleteWithThumbnails
  <2> QED
    <3>1. uploads \in [File -> Status] /\ hazard \in SUBSET Races /\ "dropped" \in Races
      BY DEF Sound, TypeOK, Races
    <3> QED
      BY <2>1, <2>2, <3>1, Removed
<1>4. TypeOK'
  BY <1>1, <1>2, <1>3 DEF Sound, TypeOK, queues, flags, handles
<1> QED
  BY <1>1, <1>4, StillStep DEF queues, flags

LEMMA SoundNext ==
  ASSUME UploaderAssumption, Sound, [Next]_vars
  PROVE  Sound'
<1>1. ASSUME NEW g \in Gen, LoopStep(g) \/ Gated(g) \/ PollSkip(g) \/ OpenFails(g)
      PROVE  Sound'
  BY <1>1, TopSound, QuerySound, pollDBSound, TimeoutSound, EntriesEndSound, PreFlushSound,
     processWindowSound, OpenSound, OpenedSound, AddSettlesSound, GatedSound, PollSkipSound,
     OpenFailsSound DEF LoopStep
<1>2. ASSUME NEW b \in Batch, BatchStep(b) PROVE Sound'
  BY <1>2, FinalizeSound, BatchFailsSound, PinSound, RecordSound, RemoveUploadsSound DEF BatchStep
<1>3. CASE User
  BY <1>3, ShutdownSound, suspendSound, enqueueSound, EditSound DEF User
<1>4. CASE UNCHANGED vars
  <2>1. TypeOK'
    BY <1>4 DEF Sound, TypeOK, vars, store, queues, flags, handles, counts
  <2> QED
    BY <1>4, <2>1, StillStep DEF vars, store, queues, flags
<1> QED
  BY <1>1, <1>2, <1>3, <1>4, ShutdownReturnsSound, initializeSound, resumeSound DEF Next

LEMMA SoundInit ==
  ASSUME UploaderAssumption, Init
  PROVE  Sound
<1>1. 0 \in 0 .. MaxBatch /\ 0 \in 0 .. MaxGen /\ 1 \in Gen
  BY UploaderAssumption DEF UploaderAssumption, Gen
<1>2. PICK r \in LoopRow : r = [NoLoop EXCEPT !.pc = "top"]
  BY NoLoopRow DEF LoopRow
<1>3. r.pc = "top" /\ r.entries = <<>> /\ r.next = 1 /\ r.window = 0
  BY <1>2 DEF NoLoop
<1>4. loop = [g \in Gen |-> IF g = 1 THEN r ELSE NoLoop] /\ batch = [b \in Batch |-> NoBatch]
  BY <1>2 DEF Init
<1>5. TypeOK
  BY <1>1, <1>4, NoLoopRow, EmptySeq, ZenonT(60) DEF Init, TypeOK, Status
<1>6. Handles
  BY <1>4 DEF Init, Handles, NoBatch, Underway, Batch
<1>7. Flags
  BY <1>1, <1>4 DEF Init, Flags, Gen
<1>8. \A g \in Gen : LoopSound(loop[g])
  <2>1. LoopSound(r)
    BY <1>3 DEF LoopSound
  <2> QED
    BY <1>4, <2>1, NoLoopRow
<1>9. Drains
  BY <1>1, <1>3, <1>4 DEF Init, Drains, InDrain
<1>10. Batches
  BY DEF Init, Batches
<1> QED
  BY <1>5, <1>6, <1>7, <1>8, <1>9, <1>10 DEF Sound, Init

(***************************************************************************)
(* Held: the places and the store.                                         *)
(***************************************************************************)
LEMMA StatusSets ==
  ASSUME NEW up, NEW ids, NEW refused \in BOOLEAN
  PROVE  LET ActiveIn(u) == {f \in File : u[f] = "active"} IN
         /\ ActiveIn(up) \subseteq ActiveIn(setStatus(up, ids))
         /\ ActiveIn(setStatus(up, ids)) \subseteq ActiveIn(up) \union ids
         /\ ActiveIn(failEntry(up, ids, refused)) = ActiveIn(up) \ ids
         /\ ActiveIn(removeMany(up, ids)) = ActiveIn(up) \ ids
BY DEF setStatus, failEntry, removeMany

LEMMA CurrentIs ==
  ASSUME UploaderAssumption, Sound
  PROVE  /\ current = 0 => C = <<>>
         /\ current # 0 => /\ current \in Batch /\ batch[current].files \in Seq(File)
                           /\ C = batch[current].files
<1>1. CASE current = 0
  BY <1>1 DEF C, Working
<1>2. CASE current # 0
  <2>1. current \in Batch
    BY <1>2, UploaderAssumption DEF Sound, TypeOK, Batch, UploaderAssumption
  <2>2. batch[current].phase = "open" /\ batch[current].at = 1 /\ batch[current].files \in Seq(File)
    BY <1>2, <2>1 DEF Sound, Handles, Batches, TypeOK, BatchRow
  <2>3. C = SubSeq(batch[current].files, 1, Len(batch[current].files))
    BY <1>2, <2>2 DEF C, Working
  <2> QED
    BY <1>2, <2>1, <2>2, <2>3, SubSeqFull
<1> QED
  BY <1>1, <1>2

LEMMA UploadingIs ==
  ASSUME UploaderAssumption, Sound
  PROVE  /\ uploading = 0 => W = <<>> /\ Done = {}
         /\ uploading # 0 =>
              /\ uploading \in Batch /\ current = 0
              /\ batch[uploading].phase \notin {"none", "open"}
              /\ ToSet(W) \union Done \subseteq ToSet(batch[uploading].files)
              /\ Done = batch[uploading].won \union batch[uploading].gone
<1>1. CASE uploading = 0
  BY <1>1 DEF W, Working, Done
<1>2. CASE uploading # 0
  <2>1. uploading \in Batch
    BY <1>2, UploaderAssumption DEF Sound, TypeOK, Batch, UploaderAssumption
  <2>2. batch[uploading].phase \notin {"none", "open"} /\ current = 0
    BY <1>2, <2>1 DEF Sound, Handles, Underway
  <2>3. /\ batch[uploading].files \in Seq(File) /\ batch[uploading].at \in Nat \ {0}
        /\ Len(batch[uploading].files) \in Nat
        /\ batch[uploading].won \union batch[uploading].gone \subseteq ToSet(batch[uploading].files)
        /\ batch[uploading].at <= Len(batch[uploading].files) + 1
    BY <2>1, <2>2, BatchIs
  <2>4. ToSet(W) \subseteq ToSet(batch[uploading].files)
    <3>6. ToSet(SubSeq(batch[uploading].files, batch[uploading].at, Len(batch[uploading].files)))
            \subseteq ToSet(batch[uploading].files)
      BY <2>3, SuffixSet
    <3>7. ToSet(<<>>) = {}
      BY Nothing
    <3> QED
      BY <1>2, <3>6, <3>7 DEF W, Working
  <2> QED
    BY <1>2, <2>1, <2>2, <2>3, <2>4 DEF Done
<1> QED
  BY <1>1, <1>2

LEMMA UnaddedIs ==
  ASSUME UploaderAssumption, Sound
  PROVE  /\ draining = 0 => Unadded = <<>>
         /\ draining # 0 =>
              LET l == loop[draining] IN
              /\ draining \in Gen /\ active /\ draining = generation /\ InDrain(l)
              /\ Unadded = SubSeq(l.entries, l.next + l.window, Len(l.entries))
              /\ l.pc \in {"entries", "open"} => Unadded = Rest(draining)
<1>1. CASE draining = 0
  BY <1>1 DEF Unadded
<1>2. CASE draining # 0
  <2>1. draining \in Gen /\ active /\ draining = generation /\ InDrain(loop[draining])
    BY <1>2, UploaderAssumption DEF Sound, TypeOK, Drains, Gen, UploaderAssumption
  <2>2. loop[draining].pc \in {"entries", "open"} =>
          loop[draining].next + loop[draining].window = loop[draining].next
    BY <2>1 DEF Sound, LoopSound, TypeOK, LoopRow
  <2> QED
    BY <1>2, <2>1, <2>2 DEF Unadded, Rest
<1> QED
  BY <1>1, <1>2

LEMMA PartsFrame ==
  ASSUME UNCHANGED <<batch, handles>>
  PROVE  W' = W /\ C' = C /\ Done' = Done
<1>1. uploading' = uploading /\ current' = current /\ batch' = batch
  BY DEF handles
<1> QED
  BY <1>1 DEF W, C, Done, Working

LEMMA DrainFrame ==
  ASSUME UploaderAssumption, Sound, draining' = draining,
         draining # 0 => LET l == loop[draining] IN
           /\ loop'[draining].entries = l.entries
           /\ loop'[draining].next + loop'[draining].window = l.next + l.window
  PROVE  Unadded' = Unadded
<1>1. CASE draining = 0
  BY <1>1 DEF Unadded
<1>2. CASE draining # 0
  BY <1>2 DEF Unadded
<1> QED
  BY <1>1, <1>2

LEMMA HeldStill ==
  ASSUME Held, W' = W, C' = C, Unadded' = Unadded, Done' = Done,
         UNCHANGED <<explicit, polled, uploads, shut>>, Calm' => Calm,
         uploading' # 0 => uploading # 0 /\ batch'[uploading'].files = batch[uploading].files
  PROVE  Keeps
<1>1. Places' = Places /\ getActiveIds' = getActiveIds
  BY DEF Places, getActiveIds
<1>2. Apart => Apart'
  BY DEF Apart
<1>3. Kept => Kept'
  BY <1>1 DEF Kept
<1> QED
  BY <1>1, <1>2, <1>3 DEF Held, Keeps

\* A step of one loop that leaves the queues, the batches and the store alone.
LEMMA HeldLoop ==
  ASSUME UploaderAssumption, Sound, Held,
         UNCHANGED <<batch, handles, explicit, polled, uploads, shut, hazard, draining>>,
         draining # 0 => LET l == loop[draining] IN
           /\ loop'[draining].entries = l.entries
           /\ loop'[draining].next + loop'[draining].window = l.next + l.window
  PROVE  Keeps
<1>1. Unadded' = Unadded
  BY DrainFrame
<1> QED
  BY <1>1, PartsFrame, HeldStill DEF Calm, handles

(***************************************************************************)
(* Held: the steps of a loop.                                              *)
(***************************************************************************)
\* A step of a loop that is in no drain, and moves nothing.
LEMMA HeldIdle ==
  ASSUME UploaderAssumption, Sound, Held, NEW g \in Gen, Idles(loop[g]),
         UNCHANGED <<batch, handles, explicit, polled, uploads, shut, hazard, draining>>,
         \A h \in Gen : h # g => loop'[h] = loop[h]
  PROVE  Keeps
<1>1. draining # 0 => draining \in Gen /\ draining # g
  BY UnaddedIs DEF InDrain, Idles
<1> QED
  BY <1>1, HeldLoop

LEMMA HeldWoken ==
  ASSUME UploaderAssumption, Sound, Held, NEW pcs, pcs \subseteq {"parked", "idle", "sleep"},
         UNCHANGED <<batch, handles, explicit, polled, uploads, shut, hazard, draining>>,
         loop' = Woken(loop, pcs)
  PROVE  Keeps
<1>1. draining # 0 => draining \in Gen /\ ~Idles(loop[draining])
  BY UnaddedIs DEF InDrain, Idles
<1>2. draining # 0 => loop'[draining] = loop[draining]
  BY <1>1, WokenIs
<1> QED
  BY <1>2, HeldLoop

LEMMA GotoOthers ==
  ASSUME Sound, NEW g \in Gen, NEW pc, Goto(g, pc)
  PROVE  /\ \A h \in Gen : h # g => loop'[h] = loop[h]
         /\ loop'[g] = [loop[g] EXCEPT !.pc = pc]
BY DEF Goto, Sound, TypeOK

LEMMA TopHeld ==
  ASSUME UploaderAssumption, Sound, Sound', Held, NEW g \in Gen, Top(g)
  PROVE  Keeps
<1>0. loop[g].pc = "top" /\ Idles(loop[g]) /\ UNCHANGED <<store, uploads, flags, handles, batch, counts>>
  BY DEF Top, Idles
<1>1. CASE ~Stale(g) /\ ~suspended /\ explicit \o polled # <<>>
  <2>1. /\ loop' = [loop EXCEPT ![g] = [NoLoop EXCEPT !.pc = "entries", !.entries = explicit \o polled]]
        /\ explicit' = <<>> /\ polled' = <<>> /\ draining' = g
    BY <1>1 DEF Top
  <2>2. explicit \in Seq(File) /\ polled \in Seq(File)
    BY DEF Sound, TypeOK
  <2>3. PICK s \in Seq(File) : s = explicit \o polled
    BY <2>2, ConcatSet
  <2>4. draining = 0 /\ Unadded = <<>>
    <3>1. draining # 0 => draining = generation /\ InDrain(loop[generation])
      BY UnaddedIs
    <3>2. g = generation
      BY <1>1 DEF Stale
    <3> QED
      BY <1>0, <3>1, <3>2, UnaddedIs DEF InDrain, Idles
  <2>5. Unadded' = s
    <3>1. loop'[g] = [NoLoop EXCEPT !.pc = "entries", !.entries = s]
      BY <2>1, <2>3 DEF Sound, TypeOK
    <3>2. loop'[g].entries = s /\ loop'[g].next + loop'[g].window = 1
      BY <3>1 DEF NoLoop
    <3>3. draining' # 0
      BY <2>1 DEF Gen
    <3>4. Unadded' = SubSeq(s, 1, Len(s))
      BY <2>1, <3>2, <3>3 DEF Unadded
    <3> QED
      BY <3>4, SubSeqFull
  <2>6. /\ ToSet(s) = ToSet(explicit) \union ToSet(polled)
        /\ IsInjective(s) <=> /\ IsInjective(explicit) /\ IsInjective(polled)
                              /\ ToSet(explicit) \cap ToSet(polled) = {}
    BY <2>2, <2>3, ConcatSet, ConcatInjective
  <2>7. W' = W /\ C' = C /\ Done' = Done /\ getActiveIds' = getActiveIds
    BY <1>0, PartsFrame DEF getActiveIds
  <2>8. ToSet(<<>>) = {} /\ IsInjective(<<>>)
    BY Nothing
  <2>9. Places' = Places
    BY <2>1, <2>4, <2>5, <2>6, <2>7, <2>8 DEF Places
  <2>10. Apart => Apart'
    BY <2>1, <2>4, <2>5, <2>6, <2>7, <2>8 DEF Apart
  <2>11. uploading' = 0
    <3>1. uploading = 0
      BY <1>0, <1>1 DEF Stale, Sound, Flags
    <3> QED
      BY <1>0, <3>1 DEF handles
  <2>12. Kept => Kept'
    BY <2>7, <2>9, <2>11 DEF Kept
  <2> QED
    BY <1>0, <2>7, <2>9, <2>10, <2>12 DEF Held, Calm, counts, flags, Keeps
<1>2. CASE ~(~Stale(g) /\ ~suspended /\ explicit \o polled # <<>>)
  <2>1. PICK pc : Goto(g, pc) /\ UNCHANGED queues
    BY <1>2 DEF Top
  <2> QED
    BY <1>0, <2>1, GotoOthers, HeldIdle DEF queues, flags, counts
<1> QED
  BY <1>1, <1>2

LEMMA GatedHeld ==
  ASSUME UploaderAssumption, Sound, Held, NEW g \in Gen, Gated(g)
  PROVE  Keeps
<1>1. Idles(loop[g]) /\ UNCHANGED <<store, uploads, queues, flags, handles, batch, counts>>
  BY DEF Gated, Idles
<1>2. \A h \in Gen : h # g => loop'[h] = loop[h]
  BY DEF Gated, Sound, TypeOK
<1> QED
  BY <1>1, <1>2, HeldIdle DEF queues, flags, counts

LEMMA QueryHeld ==
  ASSUME UploaderAssumption, Sound, Held, NEW g \in Gen, Query(g)
  PROVE  Keeps
<1>1. Idles(loop[g]) /\ UNCHANGED <<store, uploads, queues, flags, handles, batch, counts>>
  BY DEF Query, Idles
<1>2. \A h \in Gen : h # g => loop'[h] = loop[h]
  BY DEF Query, Sound, TypeOK
<1> QED
  BY <1>1, <1>2, HeldIdle DEF queues, flags, counts

LEMMA TimeoutHeld ==
  ASSUME UploaderAssumption, Sound, Held, NEW g \in Gen, Timeout(g)
  PROVE  Keeps
<1>1. Idles(loop[g]) /\ UNCHANGED <<store, uploads, queues, flags, handles, batch, counts>>
  BY DEF Timeout, Idles
<1>2. \A h \in Gen : h # g => loop'[h] = loop[h]
  BY DEF Timeout, Sound, TypeOK
<1> QED
  BY <1>1, <1>2, HeldIdle DEF queues, flags, counts

\* The files of the batch, less one that failed perhaps, go under flush().
LEMMA FlushHeld ==
  ASSUME UploaderAssumption, Sound, Sound', Held, NEW g \in Gen, NEW up, NEW bs, NEW l,
         NEW gone \in SUBSET File,
         Flush(g, up, bs, l), UNCHANGED <<store, queues, flags, acts>>,
         ~Stale(g), current # 0, bs \in [Batch -> BatchRow],
         ToSet(C) \ gone \subseteq ToSet(bs[current].files),
         ToSet(bs[current].files) \subseteq ToSet(C),
         IsInjective(C) =>
           IsInjective(bs[current].files) /\ ToSet(bs[current].files) \cap gone = {},
         gone \subseteq ToSet(C),
         \A f \in File : (uploads[f] = "active" /\ f \notin gone) => up[f] = "active",
         \A f \in File : up[f] = "active" => uploads[f] = "active" \/ f \in ToSet(C),
         \A f \in File : up[f] = "active" => f \notin gone,
         Unadded' = Unadded,
         bs[current].at = 1, bs[current].won = {}, bs[current].gone = {}, ~bs[current].cancelled
  PROVE  Keeps
<1>1. /\ active /\ ~shut.on /\ shut.ids = {} /\ uploading = 0 /\ current \in Batch
  BY UploaderAssumption
     DEF Stale, Sound, TypeOK, Handles, Flags, Batch, UploaderAssumption
<1>2. /\ current' = 0 /\ uploading' = current /\ uploads' = setStatus(up, ToSet(bs[current].files))
      /\ batch' = [bs EXCEPT ![current].phase = "finalize"]
      /\ hazard' \in {hazard, hazard \union {"suspended"}}
  BY DEF Flush
<1>3. bs[current] \in BatchRow /\ bs[current].files \in Seq(File)
  BY <1>1 DEF BatchRow
<1>4. batch'[current] = [bs[current] EXCEPT !.phase = "finalize"]
  BY <1>1, <1>2
<1>5. /\ batch'[current].phase = "finalize" /\ batch'[current].files = bs[current].files
      /\ batch'[current].at = 1 /\ batch'[current].won = {} /\ batch'[current].gone = {}
      /\ ~batch'[current].cancelled
  BY <1>3, <1>4 DEF BatchRow
<1>6. W' = bs[current].files
  <2>1. W' = SubSeq(bs[current].files, 1, Len(bs[current].files))
    BY <1>1, <1>2, <1>5 DEF W, Working
  <2> QED
    BY <1>3, <2>1, SubSeqFull
<1>7. C' = <<>> /\ Done' = {} /\ Done = {} /\ W = <<>>
  BY <1>1, <1>2, <1>5 DEF C, W, Done, Working
<1>8. ToSet(<<>>) = {} /\ IsInjective(<<>>)
  BY Nothing
<1>9. Calm' => Calm
  BY <1>2 DEF Calm
<1>10. explicit' = explicit /\ polled' = polled /\ shut' = shut
  BY DEF queues, flags
<1>11. PICK files \in SUBSET File : files = ToSet(bs[current].files)
  BY <1>3, ElementsIn
<1>12. \A f \in File : uploads'[f] = "active" =>
          \/ uploads[f] = "active" /\ f \notin gone
          \/ f \in files \/ (f \in ToSet(C) /\ f \notin gone)
  BY <1>2, <1>11 DEF setStatus
<1>13. \A f \in File : uploads[f] = "active" /\ f \notin gone => uploads'[f] = "active"
  BY <1>2, <1>11 DEF setStatus
<1>14. Places' = ToSet(bs[current].files) \union ToSet(Unadded)
                   \union ToSet(explicit) \union ToSet(polled)
  BY <1>6, <1>7, <1>8, <1>10 DEF Places
<1>15. Apart => Apart' /\ Places' = Places \ gone
  <2>1. Apart => Apart'
    BY <1>6, <1>7, <1>8, <1>10 DEF Apart
  <2>2. Apart => ToSet(bs[current].files) = ToSet(C) \ gone
    BY DEF Apart
  <2>3. Apart => gone \cap (ToSet(Unadded) \union ToSet(explicit) \union ToSet(polled)) = {}
    BY DEF Apart
  <2>4. Apart => Places' = Places \ gone
    BY <1>7, <1>8, <1>14, <2>2, <2>3 DEF Places
  <2> QED
    BY <2>1, <2>4
<1>16. getActiveIds' \subseteq Places' \union Done' \union shut'.ids
  <2>1. \A f \in File : uploads[f] = "active" => f \in Places
    BY <1>1, <1>7 DEF Held, getActiveIds
  <2> QED
    BY <1>1, <1>7, <1>10, <1>11, <1>12, <1>14, <2>1 DEF getActiveIds, Places
<1>17. Places' \subseteq Places
  BY <1>14 DEF Places
<1>18. Calm => Kept'
  <2> SUFFICES ASSUME Calm PROVE Kept'
    OBVIOUS
  <2>1. Apart /\ Kept
    BY DEF Held
  <2>2. Places' \subseteq getActiveIds'
    BY <1>13, <1>15, <2>1, PlacesTyped DEF Kept, getActiveIds, Sound
  <2>3. ToSet(W') \cap ToSet(Unadded') = {}
    BY <1>15, <2>1 DEF Apart
  <2> QED
    BY <1>2, <1>5, <1>6, <1>7, <2>2, <2>3 DEF Kept
<1> QED
  BY <1>9, <1>15, <1>16, <1>17, <1>18 DEF Held, Keeps

LEMMA EntriesEndHeld ==
  ASSUME UploaderAssumption, Sound, Sound', Held, NEW g \in Gen, EntriesEnd(g)
  PROVE  Keeps
<1>0. /\ loop[g].pc = "entries" /\ UNCHANGED <<store, uploads, polled, flags, handles, batch, counts>>
      /\ \A h \in Gen : h # g => loop'[h] = loop[h]
  BY DEF EntriesEnd, Sound, TypeOK
<1>1. CASE Stale(g)
  <2>1. draining # g
    BY <1>1, UnaddedIs DEF Stale, Gen
  <2>2. explicit' = explicit /\ draining' = draining
    BY <1>1, <2>1 DEF EntriesEnd
  <2> QED
    BY <1>0, <2>1, <2>2, UnaddedIs, HeldLoop DEF flags, counts
<1>2. CASE ~Stale(g)
  <2>1. draining = g /\ draining # 0 /\ uploading = 0
    BY <1>0, <1>2 DEF Stale, Sound, Drains, InDrain, Gen, Flags
  <2>2. Unadded = Rest(g) /\ draining' = 0 /\ explicit' = Rest(g) \o explicit /\ Unadded' = <<>>
    BY <1>0, <1>2, <2>1, UnaddedIs DEF EntriesEnd, Unadded
  <2>3. Rest(g) \in Seq(File) /\ explicit \in Seq(File)
    BY RestIs DEF Sound, TypeOK
  <2>4. /\ ToSet(explicit') = ToSet(Unadded) \union ToSet(explicit)
        /\ IsInjective(explicit') <=> /\ IsInjective(Unadded) /\ IsInjective(explicit)
                                      /\ ToSet(Unadded) \cap ToSet(explicit) = {}
    BY <2>2, <2>3, ConcatSet, ConcatInjective
  <2>5. W' = W /\ C' = C /\ Done' = Done /\ getActiveIds' = getActiveIds /\ polled' = polled
    BY <1>0, PartsFrame DEF getActiveIds
  <2>6. ToSet(<<>>) = {} /\ IsInjective(<<>>)
    BY Nothing
  <2>7. Places' = Places
    BY <2>2, <2>4, <2>5, <2>6 DEF Places
  <2>8. Apart => Apart'
    BY <2>2, <2>4, <2>5, <2>6 DEF Apart
  <2>9. Kept => Kept'
    BY <1>0, <2>1, <2>5, <2>7 DEF Kept, handles
  <2> QED
    BY <1>0, <2>5, <2>7, <2>8, <2>9 DEF Held, Calm, counts, flags, Keeps
<1> QED
  BY <1>1, <1>2

LEMMA GotoFields ==
  ASSUME Sound, NEW g \in Gen, NEW pc, Goto(g, pc)
  PROVE  \A h \in Gen : /\ loop'[h].entries = loop[h].entries /\ loop'[h].next = loop[h].next
                        /\ loop'[h].window = loop[h].window
<1>1. loop[g] \in LoopRow
  BY DEF Sound, TypeOK
<1>2. DOMAIN loop[g] = {"pc", "entries", "next", "window", "fly", "batch", "found", "last"}
  BY <1>1 DEF LoopRow
<1>3. loop'[g] = [loop[g] EXCEPT !.pc = pc] /\ \A h \in Gen : h # g => loop'[h] = loop[h]
  BY GotoOthers
<1>4. /\ loop'[g].entries = loop[g].entries /\ loop'[g].next = loop[g].next
      /\ loop'[g].window = loop[g].window
  BY <1>2, <1>3
<1> QED
  BY <1>3, <1>4

LEMMA OpenHeld ==
  ASSUME UploaderAssumption, Sound, Held, NEW g \in Gen, Open(g)
  PROVE  Keeps
<1>1. Goto(g, "open") /\ UNCHANGED <<store, uploads, queues, flags, handles, batch, counts>>
  BY DEF Open
<1> QED
  BY <1>1, GotoFields, UnaddedIs, HeldLoop DEF queues, flags, counts

LEMMA IdleFlushHeld ==
  ASSUME UploaderAssumption, Sound, Sound', Held, NEW g \in Gen,
         Flush(g, uploads, batch, [NoLoop EXCEPT !.pc = "flush"]),
         UNCHANGED <<store, queues, flags, acts, fails>>,
         Waits(g) = "idle", Idles(loop[g])
  PROVE  Keeps
<1>1. ~Stale(g) /\ current # 0
  BY DEF Waits
<1>2. /\ batch[current].files \in Seq(File) /\ C = batch[current].files
      /\ batch[current].at = 1 /\ batch[current].won = {} /\ batch[current].gone = {}
      /\ ~batch[current].cancelled
  BY <1>1, CurrentIs, OpenBatch DEF Idles
<1>3. draining = 0
  BY <1>1, UnaddedIs DEF Stale, Idles, InDrain
<1>4. Unadded' = Unadded
  BY <1>3 DEF queues, Unadded
<1>5. batch \in [Batch -> BatchRow] /\ {} \in SUBSET File
  BY DEF Sound, TypeOK
<1>6. UNCHANGED <<store, queues, flags, acts>>
  OBVIOUS
<1>7. PICK gone \in SUBSET File : gone = {}
  OBVIOUS
<1> QED
  BY <1>1, <1>2, <1>4, <1>5, <1>6, <1>7, FlushHeld

LEMMA PollSkipHeld ==
  ASSUME UploaderAssumption, Sound, Sound', Held, NEW g \in Gen, PollSkip(g)
  PROVE  Keeps
<1>1. Idles(loop[g]) /\ UNCHANGED <<store, queues, flags, acts, fails>>
  BY DEF PollSkip, Idles
<1>2. CASE loop[g].last /\ Waits(g) = "idle"
  BY <1>1, <1>2, IdleFlushHeld DEF PollSkip
<1>3. CASE ~(loop[g].last /\ Waits(g) = "idle")
  <2>1. Goto(g, Waits(g)) /\ UNCHANGED <<handles, batch, uploads, hazard>>
    BY <1>3 DEF PollSkip
  <2> QED
    BY <1>1, <2>1, GotoOthers, HeldIdle DEF queues, flags
<1> QED
  BY <1>2, <1>3

LEMMA pollDBHeld ==
  ASSUME UploaderAssumption, Sound, Sound', Held, NEW g \in Gen, pollDB(g)
  PROVE  /\ Held'
         /\ Places' \subseteq Places \union (IF Stale(g) THEN {} ELSE loop[g].found)
<1>1. Idles(loop[g]) /\ UNCHANGED <<store, explicit, draining, flags, acts, fails>>
  BY DEF pollDB, Idles
<1>2. PICK fresh \in Seq(File) :
        /\ IsInjective(fresh) /\ ToSet(fresh) \cap getActiveIds = {}
        /\ ToSet(fresh) \subseteq IF Stale(g) THEN {} ELSE loop[g].found
        /\ \/ /\ uploads' = [f \in File |-> IF f \in ToSet(fresh) THEN "active" ELSE uploads[f]]
              /\ polled' = polled \o fresh
              /\ \E pc : Goto(g, pc)
              /\ UNCHANGED <<handles, batch, hazard>>
           \/ /\ Waits(g) = "idle"
              /\ Flush(g, uploads, batch, [NoLoop EXCEPT !.pc = "flush"])
              /\ UNCHANGED polled
  <2>1. CASE Stale(g)
    BY <2>1, Nothing DEF pollDB
  <2>2. CASE ~Stale(g)
    <3>1. PICK s \in Seq(File) : s = notActive(loop[g].found)
      BY Fresh
    <3>2. IsInjective(s) /\ ToSet(s) \cap getActiveIds = {} /\ ToSet(s) \subseteq loop[g].found
      BY <3>1, Fresh
    <3> QED
      BY <2>2, <3>1, <3>2 DEF pollDB
  <2> QED
    BY <2>1, <2>2
<1>3. CASE /\ Waits(g) = "idle" /\ UNCHANGED polled
           /\ Flush(g, uploads, batch, [NoLoop EXCEPT !.pc = "flush"])
  BY <1>1, <1>3, IdleFlushHeld DEF queues, Keeps
<1>4. CASE /\ uploads' = [f \in File |-> IF f \in ToSet(fresh) THEN "active" ELSE uploads[f]]
           /\ polled' = polled \o fresh
           /\ \E pc : Goto(g, pc)
           /\ UNCHANGED <<handles, batch, hazard>>
  <2>1. Unadded' = Unadded
    <3>1. draining # 0 => draining \in Gen /\ draining # g
      BY <1>1, UnaddedIs DEF InDrain, Idles
    <3>2. \A h \in Gen : h # g => loop'[h] = loop[h]
      BY <1>4, GotoOthers
    <3> QED
      BY <1>1, <3>1, <3>2, DrainFrame
  <2>2. W' = W /\ C' = C /\ Done' = Done
    BY <1>4, PartsFrame
  <2>3. polled \in Seq(File)
    BY DEF Sound, TypeOK
  <2>4. /\ ToSet(polled') = ToSet(polled) \union ToSet(fresh)
        /\ IsInjective(polled') <=> /\ IsInjective(polled) /\ IsInjective(fresh)
                                    /\ ToSet(polled) \cap ToSet(fresh) = {}
    BY <1>4, <2>3, ConcatSet, ConcatInjective
  <2>5. getActiveIds' = getActiveIds \union ToSet(fresh)
    BY <1>4, ElementsIn DEF getActiveIds
  <2>6. Places' = Places \union ToSet(fresh)
    BY <1>1, <2>1, <2>2, <2>4 DEF Places
  <2>7. Kept => (Places \union Done) \cap ToSet(fresh) = {}
    BY <1>2 DEF Kept
  <2>8. Kept /\ Apart => Apart'
    BY <1>1, <1>2, <2>1, <2>2, <2>4, <2>7 DEF Apart, Places
  <2>9. Kept => Kept'
    BY <1>4, <2>1, <2>2, <2>5, <2>6, <2>7 DEF Kept, handles
  <2> QED
    BY <1>1, <1>2, <1>4, <2>2, <2>5, <2>6, <2>8, <2>9 DEF Held, Calm, flags
<1> QED
  BY <1>2, <1>3, <1>4

\* The drain, beside a loop that is not stale.
LEMMA DrainIs ==
  ASSUME UploaderAssumption, Sound, NEW g \in Gen, ~Stale(g), InDrain(loop[g])
  PROVE  /\ draining = g /\ draining # 0 /\ shut.ids = {} /\ active /\ generation = g
         /\ loop[g].pc # "flush" => uploading = 0 /\ W = <<>> /\ Done = {}
<1>1. active /\ generation = g /\ draining = g /\ g # 0
  BY DEF Stale, Sound, Drains, Gen
<1>2. ~shut.on /\ shut.ids = {}
  BY <1>1 DEF Sound, Flags
<1>3. loop[g].pc # "flush" => uploading = 0
  BY <1>1 DEF Sound, Flags
<1> QED
  BY <1>1, <1>2, <1>3, UploadingIs

LEMMA AddingHeld ==
  ASSUME UploaderAssumption, Sound, Sound', Held, NEW g \in Gen, NEW b \in Batch, NEW bs,
         NEW n \in Nat \ {0},
         ~Stale(g), loop[g].pc \in {"entries", "open"}, n <= Len(Rest(g)), Rest(g) # <<>>,
         Adding(g, b, bs, n),
         UNCHANGED <<store, queues, flags, uploading, flushing, counts>>,
         current' = b, bs \in [Batch -> BatchRow],
         bs[b].phase = "open", bs[b].at = 1, bs[b].files = C
  PROVE  Keeps
<1>1. /\ draining = g /\ draining # 0 /\ shut.ids = {}
      /\ uploading = 0 /\ W = <<>> /\ Done = {}
  BY DrainIs DEF InDrain
<1>2. PICK l \in LoopRow : l = loop[g]
  BY DEF Sound, TypeOK
<1>3. /\ l.entries \in Seq(File) /\ l.next \in Nat \ {0} /\ Len(l.entries) \in Nat
      /\ l.window \in Nat
      /\ DOMAIN l = {"pc", "entries", "next", "window", "fly", "batch", "found", "last"}
  BY <1>2, LenProperties DEF LoopRow
<1>4. PICK k \in Nat : k = l.next + n - 1
  BY <1>3
<1>5. l.next <= k + 1 /\ k <= Len(l.entries) /\ k + 1 = l.next + n /\ l.next + n - 1 = k
  BY <1>2, <1>3, <1>4, RestIs
<1>6. PICK es \in Seq(File), rest \in Seq(File) :
        /\ es = SubSeq(l.entries, l.next, k) /\ rest = SubSeq(l.entries, k + 1, Len(l.entries))
        /\ SubSeq(l.entries, l.next, Len(l.entries)) = es \o rest
  <2>1. \A s \in Seq(File), m \in Nat \ {0}, i \in Nat, j \in Nat :
          m <= i + 1 /\ i <= j /\ j <= Len(s) =>
            /\ SubSeq(s, m, j) = SubSeq(s, m, i) \o SubSeq(s, i + 1, j)
            /\ SubSeq(s, m, i) \in Seq(File) /\ SubSeq(s, i + 1, j) \in Seq(File)
    BY Cut
  <2>2. Len(l.entries) <= Len(l.entries)
    BY <1>3
  <2>3. /\ SubSeq(l.entries, l.next, Len(l.entries))
             = SubSeq(l.entries, l.next, k) \o SubSeq(l.entries, k + 1, Len(l.entries))
        /\ SubSeq(l.entries, l.next, k) \in Seq(File)
        /\ SubSeq(l.entries, k + 1, Len(l.entries)) \in Seq(File)
    BY <1>3, <1>4, <1>5, <2>1, <2>2
  <2> QED
    BY <2>3
<1>8. Unadded = es \o rest
  BY <1>1, <1>2, <1>6, UnaddedIs DEF Rest
<1>9. /\ batch' = [bs EXCEPT ![b].files = bs[b].files \o es]
      /\ uploads' = setStatus(uploads, ToSet(es))
      /\ loop' = [loop EXCEPT ![g] = [l EXCEPT !.pc = "add", !.fly = es, !.window = n, !.batch = b]]
  BY <1>2, <1>5, <1>6 DEF Adding, Sound, TypeOK
<1>10. Unadded' = rest
  <2>1. loop'[g] = [l EXCEPT !.pc = "add", !.fly = es, !.window = n, !.batch = b]
    BY <1>9 DEF Sound, TypeOK
  <2>2. loop'[g].entries = l.entries /\ loop'[g].next = l.next /\ loop'[g].window = n
    BY <1>3, <2>1
  <2>3. draining' = g /\ g # 0
    BY <1>1 DEF queues
  <2> QED
    BY <1>5, <1>6, <2>2, <2>3 DEF Unadded
<1>11. C \in Seq(File)
  BY PartsTyped DEF Sound
<1>12. C' = C \o es
  <2>1. batch'[b] = [bs[b] EXCEPT !.files = C \o es]
    BY <1>9
  <2>2. DOMAIN bs[b] = {"phase", "files", "added", "cancelled", "at", "won", "gone"}
    BY DEF BatchRow
  <2>3. batch'[b].phase = "open" /\ batch'[b].at = 1 /\ batch'[b].files = C \o es
    BY <2>1, <2>2
  <2>4. C \o es \in Seq(File)
    BY <1>11, ConcatSet
  <2>5. b # 0
    BY DEF Batch
  <2>6. C' = SubSeq(C \o es, 1, Len(C \o es))
    BY <2>3, <2>5 DEF C, Working
  <2> QED
    BY <2>4, <2>6, SubSeqFull
<1>13. W' = <<>> /\ Done' = {} /\ uploading' = 0
  BY <1>1 DEF W, Done, Working
<1>14. /\ ToSet(Unadded) = ToSet(es) \union ToSet(rest)
       /\ IsInjective(Unadded) <=>
            IsInjective(es) /\ IsInjective(rest) /\ ToSet(es) \cap ToSet(rest) = {}
       /\ ToSet(C') = ToSet(C) \union ToSet(es)
       /\ IsInjective(C') <=> IsInjective(C) /\ IsInjective(es) /\ ToSet(C) \cap ToSet(es) = {}
  BY <1>8, <1>11, <1>12, ConcatSet, ConcatInjective
<1>15. explicit' = explicit /\ polled' = polled /\ shut' = shut /\ hazard' = hazard
  BY DEF queues, flags, counts
<1>16. Places' = Places
  BY <1>1, <1>10, <1>13, <1>14, <1>15 DEF Places
<1>17. Apart => Apart'
  BY <1>1, <1>10, <1>13, <1>14, <1>15 DEF Apart
<1>18. getActiveIds \subseteq getActiveIds' /\ getActiveIds' \subseteq getActiveIds \union ToSet(es)
  BY <1>9 DEF setStatus, getActiveIds
<1>19. ToSet(es) \subseteq Places
  BY <1>14 DEF Places
<1>20. Kept => Kept'
  BY <1>1, <1>13, <1>16, <1>18 DEF Kept
<1> QED
  BY <1>1, <1>13, <1>15, <1>16, <1>17, <1>18, <1>19, <1>20 DEF Held, Calm, Keeps

LEMMA processWindowHeld ==
  ASSUME UploaderAssumption, Sound, Sound', Held, NEW g \in Gen, processWindow(g)
  PROVE  Keeps
<1>1. /\ loop[g].pc = "entries" /\ ~Stale(g) /\ Rest(g) # <<>> /\ current # 0
      /\ UNCHANGED <<store, queues, flags, handles, counts>>
  BY DEF processWindow, Ready
<1>2. PICK n \in 1 .. Len(Rest(g)) : Adding(g, current, batch, n)
  BY DEF processWindow
<1>3. n \in Nat \ {0} /\ n <= Len(Rest(g))
  BY RestIs, LenProperties
<1>4. /\ current \in Batch /\ batch \in [Batch -> BatchRow]
      /\ batch[current].phase = "open" /\ batch[current].at = 1 /\ batch[current].files = C
  BY <1>1, OpenBatch, CurrentIs DEF Sound, TypeOK
<1> QED
  BY <1>1, <1>2, <1>3, <1>4, AddingHeld DEF handles

LEMMA OpenedHeld ==
  ASSUME UploaderAssumption, Sound, Sound', Held, NEW g \in Gen, Opened(g)
  PROVE  Keeps
<1>1. loop[g].pc = "open" /\ UNCHANGED <<store, queues, flags, uploading, flushing, counts>>
  BY DEF Opened
<1>2. CASE Stale(g)
  <2>1. Goto(g, "entries") /\ UNCHANGED <<current, batch, uploads>>
    BY <1>2 DEF Opened
  <2> QED
    BY <1>1, <2>1, GotoFields, UnaddedIs, HeldLoop DEF queues, flags, counts, handles
<1>3. CASE ~Stale(g)
  <2>1. PICK b \in Batch :
          /\ batch[b].phase = "none" /\ current' = b
          /\ Adding(g, b, [batch EXCEPT ![b] = [NoBatch EXCEPT !.phase = "open"]], 1)
    BY <1>3 DEF Opened
  <2>2. PICK bs : bs = [batch EXCEPT ![b] = [NoBatch EXCEPT !.phase = "open"]]
    OBVIOUS
  <2>3. bs[b] = [NoBatch EXCEPT !.phase = "open"]
    BY <2>2 DEF Sound, TypeOK
  <2>4. bs[b].phase = "open" /\ bs[b].at = 1 /\ bs[b].files = <<>> /\ bs[b] \in BatchRow
    <3>1. [NoBatch EXCEPT !.phase = "open"] \in BatchRow
      BY NoLoopRow DEF BatchRow
    <3> QED
      BY <2>3, <3>1 DEF NoBatch
  <2>5. bs \in [Batch -> BatchRow]
    BY <2>2, <2>3, <2>4 DEF Sound, TypeOK
  <2>6. C = <<>>
    <3>1. current = 0
      BY <1>1, <1>3 DEF Sound, Drains, Stale
    <3> QED
      BY <3>1, CurrentIs
  <2>7. Rest(g) # <<>> /\ 1 \in Nat \ {0} /\ 1 <= Len(Rest(g))
    <3>1. loop[g].next <= Len(loop[g].entries)
      BY <1>1 DEF Sound, LoopSound
    <3>2. Rest(g) # <<>> /\ Rest(g) \in Seq(File)
      BY <3>1, RestIs
    <3> QED
      BY <3>2, Empty, LenProperties
  <2> QED
    BY <1>1, <1>3, <2>1, <2>2, <2>4, <2>5, <2>6, <2>7, AddingHeld
<1> QED
  BY <1>2, <1>3

LEMMA PreFlushHeld ==
  ASSUME UploaderAssumption, Sound, Sound', Held, NEW g \in Gen, PreFlush(g)
  PROVE  Keeps
<1>1. /\ loop[g].pc = "entries" /\ ~Stale(g) /\ current # 0
      /\ UNCHANGED <<store, queues, flags, acts, fails>>
      /\ Flush(g, uploads, batch, [loop[g] EXCEPT !.pc = "flush", !.last = TRUE])
  BY DEF PreFlush, Ready
<1>2. /\ batch[current].files \in Seq(File) /\ C = batch[current].files
      /\ batch[current].at = 1 /\ batch[current].won = {} /\ batch[current].gone = {}
      /\ ~batch[current].cancelled
  BY <1>1, CurrentIs, OpenBatch
<1>3. draining = g /\ draining # 0
  BY <1>1, DrainIs DEF InDrain
<1>4. Unadded' = Unadded
  <2>1. loop[g] \in LoopRow
    BY DEF Sound, TypeOK
  <2>2. DOMAIN loop[g] = {"pc", "entries", "next", "window", "fly", "batch", "found", "last"}
    BY <2>1 DEF LoopRow
  <2>3. loop'[g] = [loop[g] EXCEPT !.pc = "flush", !.last = TRUE, !.batch = current]
    BY <1>1 DEF Flush, Sound, TypeOK
  <2>4. /\ loop'[g].entries = loop[g].entries /\ loop'[g].next = loop[g].next
        /\ loop'[g].window = loop[g].window
    BY <2>2, <2>3
  <2> QED
    BY <1>1, <1>3, <2>4, DrainFrame DEF queues
<1>5. batch \in [Batch -> BatchRow]
  BY DEF Sound, TypeOK
<1>6. PICK gone \in SUBSET File : gone = {}
  OBVIOUS
<1> QED
  BY <1>1, <1>2, <1>4, <1>5, <1>6, FlushHeld

LEMMA OpenFailsHeld ==
  ASSUME UploaderAssumption, Sound, Sound', Held, NEW g \in Gen, OpenFails(g)
  PROVE  Keeps
<1>1. /\ loop[g].pc = "open" /\ UNCHANGED <<store, queues, flags, handles, batch, acts, hazard>>
      /\ uploads' = IF Stale(g) THEN uploads ELSE failEntry(uploads, {Entry(g)}, FALSE)
      /\ loop' = [loop EXCEPT ![g] = Advanced([loop[g] EXCEPT !.window = 1])]
  BY DEF OpenFails, Sound, TypeOK
<1>2. CASE Stale(g)
  <2>1. draining # 0 => draining \in Gen /\ draining # g
    BY <1>2, UnaddedIs DEF Stale
  <2>2. \A h \in Gen : h # g => loop'[h] = loop[h]
    BY <1>1 DEF Sound, TypeOK
  <2> QED
    BY <1>1, <1>2, <2>1, <2>2, HeldLoop DEF queues, flags
<1>3. CASE ~Stale(g)
  <2>1. /\ draining = g /\ draining # 0 /\ shut.ids = {}
        /\ uploading = 0 /\ W = <<>> /\ Done = {}
    BY <1>1, <1>3, DrainIs DEF InDrain
  <2>2. PICK l \in LoopRow : l = loop[g]
    BY DEF Sound, TypeOK
  <2>3. /\ l.entries \in Seq(File) /\ l.next \in Nat \ {0} /\ l.next <= Len(l.entries)
        /\ DOMAIN l = {"pc", "entries", "next", "window", "fly", "batch", "found", "last"}
    BY <1>1, <2>2 DEF LoopRow, Sound, LoopSound
  <2>4. PICK e \in File, t \in Seq(File) :
          /\ e = Entry(g) /\ t = SubSeq(l.entries, l.next + 1, Len(l.entries))
          /\ Unadded = <<e>> \o t
    <3>1. \A s \in Seq(File), m \in Nat \ {0} :
            m <= Len(s) => /\ s[m] \in File /\ SubSeq(s, m + 1, Len(s)) \in Seq(File)
                           /\ SubSeq(s, m, Len(s)) = <<s[m]>> \o SubSeq(s, m + 1, Len(s))
      BY TakeFirst, ZenonT(60)
    <3>2. Unadded = SubSeq(l.entries, l.next, Len(l.entries))
      BY <1>1, <2>1, <2>2, UnaddedIs DEF Rest
    <3> QED
      BY <2>2, <2>3, <3>1, <3>2 DEF Entry
  <2>5. Unadded' = t
    <3>1. loop'[g] = [l EXCEPT !.window = 0, !.pc = "entries", !.next = l.next + 1]
      BY <1>1, <2>2, <2>3 DEF Advanced, Sound, TypeOK
    <3>2. loop'[g].entries = l.entries /\ loop'[g].next = l.next + 1 /\ loop'[g].window = 0
      BY <2>3, <3>1
    <3>3. loop'[g].next + loop'[g].window = l.next + 1
      BY <2>3, <3>2
    <3> QED
      BY <1>1, <2>1, <2>4, <3>2, <3>3 DEF queues, Unadded
  <2>6. W' = W /\ C' = C /\ Done' = Done /\ uploading' = 0
    BY <1>1, <2>1, PartsFrame DEF handles
  <2>7. /\ ToSet(Unadded) = {e} \union ToSet(Unadded')
        /\ IsInjective(Unadded) => IsInjective(Unadded') /\ e \notin ToSet(Unadded')
    <3>1. /\ ToSet(<<e>> \o t) = {e} \union ToSet(t)
          /\ IsInjective(<<e>> \o t) <=> IsInjective(t) /\ e \notin ToSet(t)
      <4>1. \A x \in File, s \in Seq(File) :
              /\ ToSet(<<x>> \o s) = {x} \union ToSet(s)
              /\ IsInjective(<<x>> \o s) <=> IsInjective(s) /\ x \notin ToSet(s)
        BY Headed, ZenonT(60)
      <4> QED
        BY <2>4, <4>1, ZenonT(60)
    <3> QED
      BY <2>4, <2>5, <3>1
  <2>8. getActiveIds' = getActiveIds \ {e}
    BY <1>1, <1>3, <2>4 DEF failEntry, getActiveIds
  <2>9. explicit' = explicit /\ polled' = polled /\ shut' = shut /\ hazard' = hazard
    BY <1>1 DEF queues, flags
  <2>10. Places = Places' \union {e}
    BY <2>6, <2>7, <2>9 DEF Places
  <2>11. Apart => Apart' /\ e \notin Places'
    BY <2>6, <2>7, <2>9 DEF Apart, Places
  <2>12. Apart /\ Kept => Kept'
    BY <2>1, <2>6, <2>8, <2>10, <2>11 DEF Kept
  <2> QED
    BY <2>6, <2>8, <2>9, <2>10, <2>11, <2>12 DEF Held, Calm, Keeps
<1> QED
  BY <1>2, <1>3

\* What the settling of an add leaves of the batch.
LEMMA SettledHeld ==
  ASSUME UploaderAssumption, Sound, NEW g \in Gen, ~Stale(g), loop[g].pc = "add",
         NEW ok \in BOOLEAN, NEW files, files = Settled(current, loop[g].fly, ok)[current].files
  PROVE  /\ files \in Seq(File) /\ Head(loop[g].fly) \in ToSet(C)
         /\ IsInjective(C) => IsInjective(files)
         /\ ok => ToSet(C) = ToSet(files)
         /\ ~ok => ToSet(C) = ToSet(files) \union {Head(loop[g].fly)}
         /\ ~ok /\ IsInjective(C) => Head(loop[g].fly) \notin ToSet(files)
<1>1. PICK e \in File, t \in Seq(File), a \in Seq(File) :
        /\ e = Head(loop[g].fly)
        /\ batch[current].files = a \o (<<e>> \o t)
        /\ files = (IF ok THEN a \o <<e>> ELSE a) \o t
  <2> DEFINE bs == Settled(current, loop[g].fly, ok)
             x == Head(loop[g].fly)
             y == Tail(loop[g].fly)
             z == batch[current].added
  <2>1. /\ x \in File /\ y \in Seq(File) /\ z \in Seq(File)
        /\ batch[current].files = z \o (<<x>> \o y)
        /\ bs[current].files = bs[current].added \o y
        /\ bs[current].added = IF ok THEN z \o <<x>> ELSE z
    BY SettledIs
  <2>2. files = bs[current].files
    OBVIOUS
  <2> HIDE DEF bs, x, y, z
  <2>3. files = (IF ok THEN z \o <<x>> ELSE z) \o y
    BY <2>1, <2>2
  <2> QED
    BY <2>1, <2>3 DEF x
<1>2. C = a \o (<<e>> \o t)
  <2>1. current # 0
    BY DEF Stale, Sound, Drains
  <2> QED
    BY <1>1, <2>1, CurrentIs
<1>3. /\ ToSet(a \o (<<e>> \o t)) = ToSet(a) \union {e} \union ToSet(t)
      /\ (a \o <<e>>) \o t \in Seq(File)
      /\ ToSet((a \o <<e>>) \o t) = ToSet(a) \union {e} \union ToSet(t)
      /\ IsInjective(a \o (<<e>> \o t)) <=>
           IsInjective(a \o t) /\ e \notin ToSet(a) \union ToSet(t)
      /\ IsInjective((a \o <<e>>) \o t) <=> IsInjective(a \o (<<e>> \o t))
  BY <1>1, Between
<1>4. a \o t \in Seq(File) /\ ToSet(a \o t) = ToSet(a) \union ToSet(t)
  BY <1>1, Joined
<1>5. CASE ok
  <2>1. files = (a \o <<e>>) \o t
    BY <1>1, <1>5
  <2> QED
    BY <1>1, <1>2, <1>3, <1>5, <2>1
<1>6. CASE ~ok
  <2>1. files = a \o t
    BY <1>1, <1>6
  <2> QED
    BY <1>1, <1>2, <1>3, <1>4, <1>6, <2>1
<1> QED
  BY <1>5, <1>6

LEMMA AddSettlesHeld ==
  ASSUME UploaderAssumption, Sound, Sound', Held, NEW g \in Gen, AddSettles(g)
  PROVE  Keeps
<1>1. loop[g].pc = "add" /\ UNCHANGED <<store, queues, flags, acts>>
  BY DEF AddSettles
<1>2. CASE Stale(g) \/ current # loop[g].batch
  <2>1. Stale(g)
    BY <1>1, <1>2 DEF Stale, Sound, Drains
  <2>2. draining # 0 => draining \in Gen /\ draining # g
    BY <2>1, UnaddedIs DEF Stale
  <2>3. (\A h \in Gen : h # g => loop'[h] = loop[h]) /\ UNCHANGED <<uploads, handles, batch, hazard>>
    BY <1>2 DEF AddSettles, Sound, TypeOK
  <2> QED
    BY <1>1, <2>2, <2>3, HeldLoop DEF queues, flags
<1>3. CASE ~(Stale(g) \/ current # loop[g].batch)
  <2>1. PICK ok \in BOOLEAN :
          LET bs == Settled(current, loop[g].fly, ok)
              up == IF ok THEN setStatus(uploads, {Head(loop[g].fly)})
                    ELSE failEntry(uploads, {Head(loop[g].fly)}, FALSE)
          IN \/ /\ batch' = bs /\ uploads' = up
                /\ \E l \in {[loop[g] EXCEPT !.fly = Tail(loop[g].fly)],
                             Advanced([loop[g] EXCEPT !.fly = Tail(loop[g].fly)])} :
                     loop' = [loop EXCEPT ![g] = l]
                /\ UNCHANGED <<handles, hazard>>
             \/ \E l \in {[loop[g] EXCEPT !.fly = Tail(loop[g].fly)],
                          Advanced([loop[g] EXCEPT !.fly = Tail(loop[g].fly)])} :
                  Flush(g, up, bs, [l EXCEPT !.pc = "flush"])
    BY <1>3 DEF AddSettles
  <2>0. ok \in BOOLEAN /\ ~Stale(g)
    BY <1>3, <2>1
  <2>2. PICK bs : bs = Settled(current, loop[g].fly, ok)
    OBVIOUS
  <2>3. PICK up : up = IF ok THEN setStatus(uploads, {Head(loop[g].fly)})
                       ELSE failEntry(uploads, {Head(loop[g].fly)}, FALSE)
    OBVIOUS
  <2>4. PICK gone \in SUBSET File : gone = IF ok THEN {} ELSE {Head(loop[g].fly)}
    <3>1. Head(loop[g].fly) \in File
      BY <1>1, <1>3, SettledIs
    <3> QED
      BY <3>1
  <2>5. /\ current \in Batch /\ current # 0 /\ bs \in [Batch -> BatchRow]
        /\ bs[current].phase = "open" /\ bs[current].at = 1
        /\ bs[current].won = {} /\ bs[current].gone = {} /\ ~bs[current].cancelled
    <3> DEFINE cs == Settled(current, loop[g].fly, ok)
    <3>1. /\ current \in Batch /\ cs \in [Batch -> BatchRow]
          /\ cs[current].phase = "open" /\ cs[current].at = 1
          /\ cs[current].won = {} /\ cs[current].gone = {} /\ ~cs[current].cancelled
      BY <1>1, <2>0, SettledIs
    <3>2. current # 0
      BY <3>1 DEF Batch
    <3> HIDE DEF cs
    <3> QED
      BY <2>2, <3>1, <3>2 DEF cs
  <2>6. /\ bs[current].files \in Seq(File) /\ gone \subseteq ToSet(C)
        /\ Head(loop[g].fly) \in ToSet(C)
        /\ ToSet(C) = ToSet(bs[current].files) \union gone
        /\ IsInjective(C) => IsInjective(bs[current].files) /\ ToSet(bs[current].files) \cap gone = {}
    <3>1. PICK files : files = Settled(current, loop[g].fly, ok)[current].files
      OBVIOUS
    <3>2. /\ files \in Seq(File) /\ Head(loop[g].fly) \in ToSet(C)
          /\ IsInjective(C) => IsInjective(files)
          /\ ok => ToSet(C) = ToSet(files)
          /\ ~ok => ToSet(C) = ToSet(files) \union {Head(loop[g].fly)}
          /\ ~ok /\ IsInjective(C) => Head(loop[g].fly) \notin ToSet(files)
      BY <1>1, <2>0, <3>1, SettledHeld
    <3>3. bs[current].files = files
      BY <2>2, <3>1
    <3> QED
      BY <2>0, <2>4, <3>2, <3>3
  <2>7. /\ \A f \in File : (uploads[f] = "active" /\ f \notin gone) => up[f] = "active"
        /\ \A f \in File : up[f] = "active" => uploads[f] = "active" \/ f \in ToSet(C)
        /\ \A f \in File : up[f] = "active" => f \notin gone
    BY <2>3, <2>4, <2>6 DEF setStatus, failEntry
  <2>8. /\ draining = g /\ draining # 0 /\ shut.ids = {}
        /\ uploading = 0 /\ W = <<>> /\ Done = {}
    BY <1>1, <1>3, DrainIs DEF InDrain
  <2>9. ASSUME NEW l \in {[loop[g] EXCEPT !.fly = Tail(loop[g].fly)],
                           Advanced([loop[g] EXCEPT !.fly = Tail(loop[g].fly)])}
        PROVE  /\ DOMAIN l = {"pc", "entries", "next", "window", "fly", "batch", "found", "last"}
               /\ l.entries = loop[g].entries
               /\ l.next + l.window = loop[g].next + loop[g].window
    <3>1. PICK r \in LoopRow : r = loop[g]
      BY DEF Sound, TypeOK
    <3>2. /\ DOMAIN r = {"pc", "entries", "next", "window", "fly", "batch", "found", "last"}
          /\ r.next \in Nat /\ r.window \in Nat
      BY <3>1 DEF LoopRow
    <3>3. PICK m : m = [r EXCEPT !.fly = Tail(r.fly)]
      OBVIOUS
    <3>4. /\ DOMAIN m = {"pc", "entries", "next", "window", "fly", "batch", "found", "last"}
          /\ m.entries = r.entries /\ m.next = r.next /\ m.window = r.window
      BY <3>2, <3>3
    <3>5. CASE l = m
      BY <3>1, <3>4, <3>5
    <3>6. CASE l = Advanced(m)
      <4>1. l = [m EXCEPT !.pc = "entries", !.next = m.next + m.window, !.window = 0]
        BY <3>6 DEF Advanced
      <4>2. /\ DOMAIN l = DOMAIN m /\ l.entries = m.entries
            /\ l.next = m.next + m.window /\ l.window = 0
        BY <3>4, <4>1
      <4> QED
        BY <3>1, <3>2, <3>4, <4>2
    <3> QED
      BY <3>1, <3>3, <3>5, <3>6
  <2>10. CASE /\ batch' = bs /\ uploads' = up
              /\ \E l \in {[loop[g] EXCEPT !.fly = Tail(loop[g].fly)],
                           Advanced([loop[g] EXCEPT !.fly = Tail(loop[g].fly)])} :
                   loop' = [loop EXCEPT ![g] = l]
              /\ UNCHANGED <<handles, hazard>>
    <3>1. Unadded' = Unadded
      <4>1. /\ loop'[g].entries = loop[g].entries
            /\ loop'[g].next + loop'[g].window = loop[g].next + loop[g].window
        BY <2>9, <2>10 DEF Sound, TypeOK
      <4> QED
        BY <1>1, <2>8, <4>1, DrainFrame DEF queues
    <3>2. C' = bs[current].files
      <4>1. C' = SubSeq(bs[current].files, 1, Len(bs[current].files))
        BY <2>5, <2>10 DEF C, Working, handles
      <4> QED
        BY <2>6, <4>1, SubSeqFull
    <3>3. W' = <<>> /\ Done' = {} /\ uploading' = 0
      BY <2>8, <2>10 DEF W, Done, Working, handles
    <3>4. explicit' = explicit /\ polled' = polled /\ shut' = shut
      BY <1>1 DEF queues, flags
    <3>5. Places = Places' \union gone
      BY <2>6, <2>8, <3>1, <3>2, <3>3, <3>4 DEF Places
    <3>6. Apart => Apart' /\ Places' \cap gone = {}
      <4>1. Apart => Apart'
        BY <2>6, <2>8, <3>1, <3>2, <3>3, <3>4 DEF Apart
      <4>2. Apart => gone \cap (ToSet(Unadded) \union ToSet(explicit) \union ToSet(polled)) = {}
        BY <2>6 DEF Apart
      <4>3. Apart => gone \cap ToSet(bs[current].files) = {}
        BY <2>6 DEF Apart
      <4>4. Places' = ToSet(bs[current].files) \union ToSet(Unadded) \union ToSet(explicit)
                        \union ToSet(polled)
        BY <2>8, <3>1, <3>2, <3>3, <3>4, Nothing DEF Places
      <4> QED
        BY <4>1, <4>2, <4>3, <4>4
    <3>7. getActiveIds' \subseteq (getActiveIds \union ToSet(C)) \ gone
      BY <2>7, <2>10 DEF getActiveIds
    <3>8. getActiveIds \ gone \subseteq getActiveIds'
      BY <2>7, <2>10 DEF getActiveIds
    <3>9. Apart /\ Kept => Kept'
      BY <2>8, <3>3, <3>5, <3>6, <3>8 DEF Kept
    <3>10. ToSet(C) \subseteq Places
      BY DEF Places
    <3> QED
      BY <2>8, <2>10, <3>3, <3>4, <3>5, <3>6, <3>7, <3>9, <3>10 DEF Held, Calm, Keeps
  <2>11. CASE \E l \in {[loop[g] EXCEPT !.fly = Tail(loop[g].fly)],
                        Advanced([loop[g] EXCEPT !.fly = Tail(loop[g].fly)])} :
                Flush(g, up, bs, [l EXCEPT !.pc = "flush"])
    <3>1. PICK l \in {[loop[g] EXCEPT !.fly = Tail(loop[g].fly)],
                       Advanced([loop[g] EXCEPT !.fly = Tail(loop[g].fly)])} :
            Flush(g, up, bs, [l EXCEPT !.pc = "flush"])
      BY <2>11
    <3>2. Unadded' = Unadded
      <4>1. loop'[g] = [[l EXCEPT !.pc = "flush"] EXCEPT !.batch = current]
        BY <3>1 DEF Flush, Sound, TypeOK
      <4>2. /\ loop'[g].entries = l.entries /\ loop'[g].next = l.next
            /\ loop'[g].window = l.window
        BY <2>9, <4>1
      <4>3. /\ loop'[g].entries = loop[g].entries
            /\ loop'[g].next + loop'[g].window = loop[g].next + loop[g].window
        BY <2>9, <4>2
      <4> QED
        BY <1>1, <2>8, <4>3, DrainFrame DEF queues
    <3>3. /\ ToSet(C) \ gone \subseteq ToSet(bs[current].files)
          /\ ToSet(bs[current].files) \subseteq ToSet(C)
      BY <2>6
    <3> QED
      BY <1>1, <1>3, <2>5, <2>6, <2>7, <3>1, <3>2, <3>3, FlushHeld
  <2> QED
    BY <2>1, <2>2, <2>3, <2>10, <2>11
<1> QED
  BY <1>2, <1>3

(***************************************************************************)
(* Held: the batch under flush().                                          *)
(***************************************************************************)
LEMMA PinningIs ==
  ASSUME UploaderAssumption, Sound, NEW b \in Batch, batch[b].phase \notin {"none", "open"}
  PROVE  /\ b = uploading /\ b # 0 /\ current = 0 /\ C = <<>>
         /\ Done = batch[b].won \union batch[b].gone
         /\ batch[b].phase # "finalize" \/ ~batch[b].cancelled =>
              W = SubSeq(batch[b].files, batch[b].at, Len(batch[b].files))
<1>1. b = uploading /\ b # 0 /\ current = 0
  BY UploadingBatch DEF Batch
<1> QED
  BY <1>1, CurrentIs DEF Done, W, Working

LEMMA FinalizeHeld ==
  ASSUME UploaderAssumption, Sound, Held, NEW b \in Batch, Finalize(b)
  PROVE  Keeps
<1>1. /\ batch[b].phase = "finalize" /\ ~batch[b].cancelled
      /\ batch' = [batch EXCEPT ![b].phase = "pin"]
      /\ UNCHANGED <<store, uploads, queues, flags, handles, loop, counts>>
  BY DEF Finalize
<1>2. b = uploading /\ b # 0 /\ current = 0
  BY <1>1, PinningIs
<1>3. DOMAIN batch[b] = {"phase", "files", "added", "cancelled", "at", "won", "gone"}
  BY <1>1, BatchIs
<1>4. batch'[b] = [batch[b] EXCEPT !.phase = "pin"]
  BY <1>1 DEF Sound, TypeOK
<1>5. /\ batch'[b].phase = "pin" /\ batch'[b].files = batch[b].files /\ batch'[b].at = batch[b].at
      /\ batch'[b].won = batch[b].won /\ batch'[b].gone = batch[b].gone
  BY <1>3, <1>4
<1>6. W' = W /\ C' = C /\ Done' = Done
  BY <1>1, <1>2, <1>5 DEF W, C, Done, Working, handles
<1>7. Unadded' = Unadded
  BY <1>1 DEF Unadded, queues
<1> QED
  BY <1>1, <1>2, <1>5, <1>6, <1>7, HeldStill DEF handles, queues, flags, counts, Calm

LEMMA RecordHeld ==
  ASSUME UploaderAssumption, Sound, Held, NEW b \in Batch, Record(b)
  PROVE  Keeps
<1>1. /\ batch[b].phase = "pin" /\ batch' = [batch EXCEPT ![b].phase = "remove"]
      /\ UNCHANGED <<uploads, queues, flags, handles, loop, counts>>
  BY DEF Record
<1>2. b = uploading /\ b # 0 /\ current = 0
  BY <1>1, PinningIs
<1>3. DOMAIN batch[b] = {"phase", "files", "added", "cancelled", "at", "won", "gone"}
  BY <1>1, BatchIs
<1>4. batch'[b] = [batch[b] EXCEPT !.phase = "remove"]
  BY <1>1 DEF Sound, TypeOK
<1>5. /\ batch'[b].phase = "remove" /\ batch'[b].files = batch[b].files /\ batch'[b].at = batch[b].at
      /\ batch'[b].won = batch[b].won /\ batch'[b].gone = batch[b].gone
  BY <1>3, <1>4
<1>6. W' = W /\ C' = C /\ Done' = Done
  BY <1>1, <1>2, <1>5 DEF W, C, Done, Working, handles
<1>7. Unadded' = Unadded
  BY <1>1 DEF Unadded, queues
<1> QED
  BY <1>1, <1>2, <1>5, <1>6, <1>7, HeldStill DEF handles, queues, flags, counts, Calm

\* The pin of the next file: it leaves the places, and is done or no longer active.
LEMMA PinMoves ==
  ASSUME UploaderAssumption, Sound, NEW b \in Batch, Pin(b)
  PROVE  LET f == batch[b].files[batch[b].at] IN
         /\ b = uploading /\ uploading' = uploading /\ b # 0
         /\ batch'[b].files = batch[b].files
         /\ W \in Seq(File) /\ W' \in Seq(File) /\ W = <<f>> \o W'
         /\ C' = C /\ Unadded' = Unadded
         /\ \/ Done' = Done \union {f} /\ uploads' = uploads
            \/ /\ Done' = Done /\ batch'[b].won = batch[b].won
               /\ \E refused \in {FALSE, suspended} : uploads' = failEntry(uploads, {f}, refused)
<1> DEFINE f == batch[b].files[batch[b].at]
<1>1. /\ batch[b].phase = "pin" /\ batch[b].at \in 1 .. Len(batch[b].files) /\ f \in File
      /\ UNCHANGED <<queues, flags, handles, loop>>
  BY PinIs, ZenonT(60)
<1>2. b = uploading /\ b # 0 /\ current = 0 /\ C = <<>> /\ Done = batch[b].won \union batch[b].gone
      /\ W = SubSeq(batch[b].files, batch[b].at, Len(batch[b].files))
  BY <1>1, PinningIs
<1>3. /\ DOMAIN batch[b] = {"phase", "files", "added", "cancelled", "at", "won", "gone"}
      /\ batch[b].files \in Seq(File) /\ batch[b].at \in Nat \ {0}
  BY <1>1, BatchIs
<1>4. PICK after : after = [batch[b] EXCEPT !.at = batch[b].at + 1]
  BY ZenonT(60)
<1>5. /\ DOMAIN after = {"phase", "files", "added", "cancelled", "at", "won", "gone"}
      /\ after.phase = "pin" /\ after.files = batch[b].files /\ after.at = batch[b].at + 1
      /\ after.won = batch[b].won /\ after.gone = batch[b].gone
  BY <1>1, <1>3, <1>4
<1>6. \/ /\ batch' = [batch EXCEPT ![b] = [after EXCEPT !.gone = batch[b].gone \union {f}]]
         /\ uploads' = uploads
      \/ /\ batch' = [batch EXCEPT ![b] = [after EXCEPT !.won = batch[b].won \union {f}]]
         /\ uploads' = uploads
      \/ /\ batch' = [batch EXCEPT ![b] = after]
         /\ \E refused \in {FALSE, suspended} : uploads' = failEntry(uploads, {f}, refused)
  BY <1>4, PinIs, ZenonT(60)
<1> HIDE DEF f
<1>7. /\ batch'[b].phase = "pin" /\ batch'[b].files = batch[b].files
      /\ batch'[b].at = batch[b].at + 1
      /\ \/ batch'[b].won \union batch'[b].gone = Done \union {f} /\ uploads' = uploads
         \/ /\ batch'[b].won = batch[b].won /\ batch'[b].gone = batch[b].gone
            /\ \E refused \in {FALSE, suspended} : uploads' = failEntry(uploads, {f}, refused)
  <2>1. batch \in [Batch -> BatchRow]
    BY DEF Sound, TypeOK
  <2>2. CASE /\ batch' = [batch EXCEPT ![b] = [after EXCEPT !.gone = batch[b].gone \union {f}]]
             /\ uploads' = uploads
    <3>1. batch'[b] = [after EXCEPT !.gone = batch[b].gone \union {f}]
      BY <2>1, <2>2
    <3>2. /\ batch'[b].phase = "pin" /\ batch'[b].files = after.files /\ batch'[b].at = after.at
          /\ batch'[b].won = after.won /\ batch'[b].gone = batch[b].gone \union {f}
      BY <1>5, <3>1
    <3> QED
      BY <1>2, <1>5, <2>2, <3>2
  <2>3. CASE /\ batch' = [batch EXCEPT ![b] = [after EXCEPT !.won = batch[b].won \union {f}]]
             /\ uploads' = uploads
    <3>1. batch'[b] = [after EXCEPT !.won = batch[b].won \union {f}]
      BY <2>1, <2>3
    <3>2. /\ batch'[b].phase = "pin" /\ batch'[b].files = after.files /\ batch'[b].at = after.at
          /\ batch'[b].gone = after.gone /\ batch'[b].won = batch[b].won \union {f}
      BY <1>5, <3>1
    <3> QED
      BY <1>2, <1>5, <2>3, <3>2
  <2>4. CASE /\ batch' = [batch EXCEPT ![b] = after]
             /\ \E refused \in {FALSE, suspended} : uploads' = failEntry(uploads, {f}, refused)
    <3>1. batch'[b] = after
      BY <2>1, <2>4
    <3> QED
      BY <1>5, <2>4, <3>1
  <2> QED
    BY <1>6, <2>2, <2>3, <2>4
<1>8. uploading' = uploading /\ current' = current
  BY <1>1 DEF handles
<1>9. C' = C
  BY <1>2, <1>8 DEF C, Working
<1>10. Done' = batch'[b].won \union batch'[b].gone
  BY <1>2, <1>8 DEF Done
<1>11. W' = SubSeq(batch[b].files, batch[b].at + 1, Len(batch[b].files))
  BY <1>2, <1>7, <1>8 DEF W, Working
<1>12. W \in Seq(File) /\ W' \in Seq(File) /\ W = <<f>> \o W'
  <2>1. \A s \in Seq(File), m \in Nat \ {0} :
          m <= Len(s) => /\ s[m] \in File /\ SubSeq(s, m + 1, Len(s)) \in Seq(File)
                         /\ SubSeq(s, m, Len(s)) = <<s[m]>> \o SubSeq(s, m + 1, Len(s))
    BY TakeFirst, ZenonT(60)
  <2>2. batch[b].at <= Len(batch[b].files)
    BY <1>1, <1>3
  <2>3. W \in Seq(File)
    BY PartsTyped DEF Sound
  <2> QED
    BY <1>2, <1>3, <1>11, <2>1, <2>2, <2>3 DEF f
<1>13. Unadded' = Unadded
  BY <1>1 DEF Unadded, queues
<1> QED
  BY <1>2, <1>7, <1>8, <1>9, <1>10, <1>12, <1>13, ZenonT(60) DEF f

LEMMA PinHeld ==
  ASSUME UploaderAssumption, Sound, Held, NEW b \in Batch, Pin(b)
  PROVE  Keeps
<1> DEFINE x == batch[b].files[batch[b].at]
<1>1. PICK f \in File : f = x
  BY PinIs, ZenonT(60)
<1>2. /\ b = uploading /\ uploading' = uploading /\ b # 0
      /\ batch'[b].files = batch[b].files
      /\ W' \in Seq(File) /\ W = <<f>> \o W'
      /\ C' = C /\ Unadded' = Unadded
      /\ \/ Done' = Done \union {f} /\ uploads' = uploads
         \/ /\ Done' = Done
            /\ \E refused \in {FALSE, suspended} : uploads' = failEntry(uploads, {f}, refused)
  BY <1>1, PinMoves, ZenonT(60)
<1>3. /\ explicit' = explicit /\ polled' = polled /\ shut' = shut
      /\ hazard' = hazard \/ hazard' = hazard \union {"unrecorded"}
  BY PinIs, ZenonT(60) DEF queues, flags
<1> HIDE DEF x
<1>4. ToSet(W) = {f} \union ToSet(W') /\ (IsInjective(W) <=> IsInjective(W') /\ f \notin ToSet(W'))
  <2>1. \A y \in File, s \in Seq(File) :
          /\ ToSet(<<y>> \o s) = {y} \union ToSet(s)
          /\ IsInjective(<<y>> \o s) <=> IsInjective(s) /\ y \notin ToSet(s)
    BY Headed, ZenonT(60)
  <2> QED
    BY <1>2, <2>1, ZenonT(60)
<1>5. Places = Places' \union {f}
  BY <1>2, <1>3, <1>4 DEF Places
<1>6. Apart => Apart' /\ f \notin Places'
  BY <1>2, <1>3, <1>4 DEF Apart, Places
<1>7. CASE Done' = Done \union {f} /\ uploads' = uploads
  <2>1. getActiveIds' = getActiveIds
    BY <1>7 DEF getActiveIds
  <2>2. Apart /\ Kept => Kept'
    BY <1>2, <1>5, <1>6, <1>7, <2>1 DEF Kept
  <2> QED
    BY <1>3, <1>5, <1>6, <1>7, <2>1, <2>2 DEF Held, Calm, Keeps
<1>8. CASE /\ Done' = Done
           /\ \E refused \in {FALSE, suspended} : uploads' = failEntry(uploads, {f}, refused)
  <2>1. getActiveIds' = getActiveIds \ {f}
    BY <1>8 DEF getActiveIds, failEntry
  <2>2. Apart /\ Kept => Kept'
    BY <1>2, <1>5, <1>6, <1>8, <2>1 DEF Kept
  <2> QED
    BY <1>3, <1>5, <1>6, <1>8, <2>1, <2>2 DEF Held, Calm, Keeps
<1> QED
  BY <1>2, <1>7, <1>8, ZenonT(60)

LEMMA EndsHeld ==
  ASSUME UploaderAssumption, Sound, NEW b \in Batch, batch[b].phase \notin {"none", "open"},
         Ends(b), UNCHANGED <<store, queues, flags, current, acts>>
  PROVE  /\ W' = <<>> /\ C' = <<>> /\ C = <<>> /\ Done' = {} /\ uploading' = 0
         /\ Unadded' = Unadded /\ UNCHANGED <<explicit, polled, shut>>
<1>1. b = uploading /\ current = 0 /\ C = <<>>
  BY PinningIs
<1>2. uploading' = 0 /\ current' = 0
  BY <1>1 DEF Ends
<1>3. Unadded' = Unadded
  <2>1. CASE draining = 0
    BY <2>1 DEF Unadded, queues
  <2>2. CASE draining # 0
    <3>1. draining \in Gen /\ active /\ draining = generation /\ InDrain(loop[draining])
      BY <2>2, UnaddedIs
    <3>2. CASE loop[draining].pc = "flush" /\ loop[draining].batch = b
      <4>1. loop[draining].entries # <<>>
        BY <3>1, <3>2 DEF InDrain
      <4>2. loop'[draining] = Returned(draining)
        BY <3>1, <3>2 DEF Ends
      <4> QED
        BY <3>1, <3>2, <4>1, <4>2, ReturnedIs, DrainFrame DEF queues
    <3>3. CASE ~(loop[draining].pc = "flush" /\ loop[draining].batch = b)
      <4>1. loop'[draining] = loop[draining]
        BY <3>1, <3>3 DEF Ends
      <4> QED
        BY <4>1, DrainFrame DEF queues
    <3> QED
      BY <3>2, <3>3
  <2> QED
    BY <2>1, <2>2
<1> QED
  BY <1>1, <1>2, <1>3 DEF W, C, Done, Working, queues, flags

LEMMA RemoveUploadsHeld ==
  ASSUME UploaderAssumption, Sound, Held, NEW b \in Batch, RemoveUploads(b)
  PROVE  Keeps
<1>1. /\ batch[b].phase = "remove" /\ Ends(b)
      /\ uploads' = removeMany(uploads, batch[b].won \union batch[b].gone)
      /\ UNCHANGED <<store, queues, flags, current, counts>>
  BY DEF RemoveUploads
<1>2. /\ W' = <<>> /\ C' = <<>> /\ C = <<>> /\ Done' = {} /\ uploading' = 0
      /\ Unadded' = Unadded /\ UNCHANGED <<explicit, polled, shut>>
  BY <1>1, EndsHeld DEF counts
<1>3. Done = batch[b].won \union batch[b].gone /\ W = <<>>
  <2>1. W = SubSeq(batch[b].files, batch[b].at, Len(batch[b].files))
    BY <1>1, PinningIs
  <2>2. batch[b].at = Len(batch[b].files) + 1 /\ batch[b].files \in Seq(File)
    BY <1>1, BatchIs
  <2> QED
    BY <1>1, <2>1, <2>2, Empty, PinningIs
<1>4. Places' = Places /\ (Apart => Apart')
  BY <1>2, <1>3 DEF Places, Apart
<1>5. getActiveIds' = getActiveIds \ Done
  BY <1>1, <1>3 DEF getActiveIds, removeMany
<1>6. Kept => Kept'
  BY <1>2, <1>4, <1>5 DEF Kept
<1> QED
  BY <1>1, <1>2, <1>4, <1>5, <1>6 DEF Held, Calm, counts, Keeps

LEMMA BatchFailsHeld ==
  ASSUME UploaderAssumption, Sound, Held, NEW b \in Batch, BatchFails(b)
  PROVE  Keeps
<1>1. PICK ids : ids = ToSet(batch[b].files)
  OBVIOUS
<1>2. /\ batch[b].phase \notin {"none", "open"} /\ Ends(b)
      /\ \E refused \in {FALSE, suspended} : uploads' = failEntry(uploads, ids, refused)
      /\ UNCHANGED <<store, queues, flags, current, acts>>
      /\ hazard \subseteq hazard'
      /\ ids \cap (ToSet(explicit) \union ToSet(polled)) # {} => "requeued" \in hazard'
  BY <1>1 DEF BatchFails
<1>3. /\ W' = <<>> /\ C' = <<>> /\ C = <<>> /\ Done' = {} /\ uploading' = 0
      /\ Unadded' = Unadded /\ UNCHANGED <<explicit, polled, shut>>
  BY <1>2, EndsHeld
<1>4. ToSet(W) \union Done \subseteq ids /\ uploading # 0 /\ b = uploading
  <2>1. b = uploading /\ uploading # 0
    BY <1>2, PinningIs
  <2> QED
    BY <1>1, <2>1, UploadingIs
<1>5. getActiveIds' = getActiveIds \ ids
  BY <1>2 DEF getActiveIds, failEntry
<1>6. ToSet(<<>>) = {} /\ IsInjective(<<>>)
  BY Nothing
<1>7. /\ Places = ToSet(W) \union Places'
      /\ Places' = ToSet(Unadded) \union ToSet(explicit) \union ToSet(polled)
  BY <1>3, <1>6 DEF Places
<1>8. Apart => Apart'
  BY <1>3, <1>6 DEF Apart
<1>9. Calm' => Calm /\ ids \cap (ToSet(explicit) \union ToSet(polled)) = {}
  BY <1>2 DEF Calm
<1>10. Calm' /\ Kept => Kept'
  BY <1>1, <1>3, <1>4, <1>5, <1>7, <1>9 DEF Kept
<1> QED
  BY <1>3, <1>4, <1>5, <1>7, <1>8, <1>9, <1>10 DEF Held, Keeps

(***************************************************************************)
(* Held: shutdown, and the user.                                           *)
(***************************************************************************)
LEMMA RemainderHas ==
  ASSUME UploaderAssumption, Sound
  PROVE  ToSet(Unadded) \subseteq ToSet(Remainder)
<1>1. CASE draining = 0
  BY <1>1, UnaddedIs DEF Remainder
<1>2. CASE draining # 0
  <2>1. /\ draining \in Gen
        /\ Unadded = SubSeq(loop[draining].entries, loop[draining].next + loop[draining].window,
                            Len(loop[draining].entries))
    BY <1>2, UnaddedIs
  <2>2. PICK e \in Seq(File), m \in Nat \ {0}, w \in Nat, n \in Nat :
          /\ e = loop[draining].entries /\ m = loop[draining].next /\ w = loop[draining].window
          /\ n = Len(e) /\ m + w <= n + 1
    <3>1. loop[draining] \in LoopRow /\ LoopSound(loop[draining])
      BY <2>1 DEF Sound, TypeOK
    <3>2. /\ loop[draining].entries \in Seq(File) /\ loop[draining].next \in Nat \ {0}
          /\ loop[draining].window \in Nat /\ Len(loop[draining].entries) \in Nat
      BY <3>1, LenProperties DEF LoopRow
    <3> QED
      BY <3>1, <3>2 DEF LoopSound
  <2>3. m \in Nat \ {0} /\ w \in Nat /\ n \in Nat /\ m + w <= n + 1 /\ e \in Seq(File)
    BY <2>2
  <2>4. PICK k \in Nat : k = m + w - 1
    BY <2>3
  <2>5. k \in Nat /\ m <= k + 1 /\ k <= n /\ k + 1 = m + w
    BY <2>3, <2>4
  <2>6. \A s \in Seq(File), i \in Nat \ {0}, j \in Nat, h \in Nat :
          i <= j + 1 /\ j <= h /\ h <= Len(s) =>
            /\ SubSeq(s, i, h) = SubSeq(s, i, j) \o SubSeq(s, j + 1, h)
            /\ SubSeq(s, i, j) \in Seq(File) /\ SubSeq(s, j + 1, h) \in Seq(File)
    BY Cut
  <2>7. n <= Len(e)
    BY <2>2
  <2>8. /\ SubSeq(e, m, n) = SubSeq(e, m, k) \o SubSeq(e, k + 1, n)
        /\ SubSeq(e, m, k) \in Seq(File) /\ SubSeq(e, k + 1, n) \in Seq(File)
    BY <2>3, <2>5, <2>6, <2>7
  <2>9. PICK x \in Seq(File), y \in Seq(File) : x = SubSeq(e, m, k) /\ y = SubSeq(e, k + 1, n)
    BY <2>8
  <2>10. ToSet(y) \subseteq ToSet(x \o y)
    <3>1. \A s \in Seq(File), t \in Seq(File) : ToSet(s \o t) = ToSet(s) \union ToSet(t)
      BY Joined
    <3>2. ToSet(x \o y) = ToSet(x) \union ToSet(y)
      BY <2>9, <3>1, ZenonT(60)
    <3> QED
      BY <3>2
  <2>11. Unadded = y
    BY <2>1, <2>2, <2>5, <2>9
  <2>12. Remainder = x \o y
    BY <1>2, <2>2, <2>8, <2>9 DEF Remainder, Rest
  <2> QED
    BY <2>10, <2>11, <2>12
<1> QED
  BY <1>1, <1>2

LEMMA ShutdownHeld ==
  ASSUME UploaderAssumption, Sound, Held, Shutdown
  PROVE  Keeps
<1>1. PICK pinning : pinning = IF uploading = 0 THEN {} ELSE ToSet(batch[uploading].files)
  OBVIOUS
<1>2. PICK held : held = ToSet(explicit) \union ToSet(polled) \union ToSet(Remainder)
                           \union IF current = 0 THEN {} ELSE ToSet(batch[current].files)
  OBVIOUS
<1>3. /\ ~shut.on /\ uploads' = removeMany(uploads, held \ pinning)
      /\ shut' = [on |-> TRUE, ids |-> pinning, batch |-> flushing]
      /\ batch' = [b \in Batch |-> IF b = current THEN NoBatch
                                   ELSE IF b = uploading THEN [batch[b] EXCEPT !.cancelled = TRUE]
                                   ELSE batch[b]]
      /\ explicit' = <<>> /\ polled' = <<>> /\ draining' = 0 /\ current' = 0
      /\ uploading' = uploading /\ hazard' = hazard
  BY <1>1, <1>2 DEF Shutdown
<1>4. shut.ids = {} /\ shut'.ids = pinning
  BY <1>3 DEF Sound, Flags
<1>5. C' = <<>> /\ Unadded' = <<>>
  BY <1>3 DEF C, Unadded, Working
<1>6. W' \in {W, <<>>} /\ Done' = Done /\ ToSet(W) \union Done \subseteq pinning
  <2>1. CASE uploading = 0
    BY <1>3, <2>1, UploadingIs, Nothing DEF W, Done, Working
  <2>2. CASE uploading # 0
    <3>1. /\ uploading \in Batch /\ current = 0 /\ batch[uploading].phase \notin {"none", "open"}
          /\ ToSet(W) \union Done \subseteq ToSet(batch[uploading].files)
      BY <2>2, UploadingIs
    <3>2. DOMAIN batch[uploading] = {"phase", "files", "added", "cancelled", "at", "won", "gone"}
      BY <3>1, BatchIs
    <3>3. batch'[uploading] = [batch[uploading] EXCEPT !.cancelled = TRUE]
      BY <1>3, <2>2, <3>1
    <3>4. /\ batch'[uploading].phase = batch[uploading].phase
          /\ batch'[uploading].files = batch[uploading].files
          /\ batch'[uploading].at = batch[uploading].at
          /\ batch'[uploading].won = batch[uploading].won
          /\ batch'[uploading].gone = batch[uploading].gone
          /\ batch'[uploading].cancelled
      BY <3>2, <3>3
    <3>5. uploading' = uploading /\ Done' = Done
      BY <1>3, <2>2, <3>4 DEF Done
    <3>6. W' \in {W, <<>>}
      <4>1. CASE batch[uploading].phase = "finalize"
        <5>1. batch'[uploading].phase = "finalize" /\ batch'[uploading].cancelled
          BY <3>4, <4>1
        <5>2. W' = <<>>
          BY <1>3, <5>1, ZenonT(60) DEF W, Working
        <5> QED
          BY <5>2
      <4>2. CASE batch[uploading].phase # "finalize"
        <5>1. batch'[uploading].phase # "finalize"
          BY <3>4, <4>2
        <5>2. W' = SubSeq(batch[uploading].files, batch[uploading].at, Len(batch[uploading].files))
          BY <1>3, <2>2, <3>4, <5>1 DEF W, Working
        <5>3. W = SubSeq(batch[uploading].files, batch[uploading].at, Len(batch[uploading].files))
          BY <2>2, <4>2 DEF W, Working
        <5> QED
          BY <5>2, <5>3
      <4> QED
        BY <4>1, <4>2
    <3> QED
      BY <1>1, <2>2, <3>1, <3>5, <3>6
  <2> QED
    BY <2>1, <2>2
<1>7. ToSet(C) \subseteq held /\ ToSet(explicit) \subseteq held /\ ToSet(polled) \subseteq held
      /\ ToSet(Unadded) \subseteq held
  <2>1. ToSet(Unadded) \subseteq ToSet(Remainder)
    BY RemainderHas
  <2>2. current = 0 => ToSet(C) = {}
    BY CurrentIs, Nothing
  <2> QED
    BY <1>2, <2>1, <2>2, CurrentIs
<1>8. getActiveIds' = getActiveIds \ (held \ pinning)
  BY <1>3 DEF getActiveIds, removeMany
<1>9. ToSet(<<>>) = {} /\ IsInjective(<<>>)
  BY Nothing
<1>10. Places' = ToSet(W') /\ ToSet(W') \subseteq ToSet(W)
  BY <1>3, <1>5, <1>6, <1>9 DEF Places
<1>11. Apart => Apart'
  BY <1>3, <1>5, <1>6, <1>9 DEF Apart
<1>12. Kept => Kept'
  <2>1. Kept => Places' \union Done' \subseteq getActiveIds'
    BY <1>6, <1>8, <1>10 DEF Kept, Places
  <2>2. Kept => Places' \cap Done' = {}
    BY <1>6, <1>10 DEF Kept, Places
  <2> QED
    BY <1>5, <1>9, <2>1, <2>2 DEF Kept
<1>13. getActiveIds' \subseteq Places' \union Done' \union shut'.ids
  <2>1. getActiveIds \subseteq Places \union Done
    BY <1>4 DEF Held
  <2> QED
    BY <1>4, <1>6, <1>7, <1>8, <2>1 DEF Places
<1> QED
  BY <1>3, <1>10, <1>11, <1>12, <1>13 DEF Held, Calm, Keeps, Places

LEMMA ShutdownReturnsHeld ==
  ASSUME UploaderAssumption, Sound, Held, NEW clear \in BOOLEAN, ShutdownReturns(clear)
  PROVE  Keeps
<1>1. /\ shut.on /\ shut' = [on |-> FALSE, ids |-> {}, batch |-> 0]
      /\ uploads' = IF clear THEN [f \in File |-> "none"]
                    ELSE removeMany(uploads, shut.ids \ ToSet(explicit))
      /\ hazard' = IF clear /\ explicit # <<>> THEN hazard \union {"cleared"} ELSE hazard
      /\ UNCHANGED <<queues, handles, batch, loop>>
  BY DEF ShutdownReturns
<1>2. uploading = 0
  <2>1. uploading # 0 => uploading \in Batch /\ batch[uploading].phase # "none" /\ uploading = shut.batch
    BY <1>1, UploadingIs DEF Sound, Flags
  <2> QED
    BY <2>1 DEF ShutdownReturns
<1>3. current = 0 /\ draining = 0 /\ polled = <<>>
  BY <1>1 DEF Sound, Flags
<1>4. W = <<>> /\ Done = {} /\ C = <<>> /\ Unadded = <<>>
  BY <1>2, <1>3, UploadingIs, CurrentIs, UnaddedIs
<1>5. W' = W /\ C' = C /\ Done' = Done /\ Unadded' = Unadded
      /\ UNCHANGED <<explicit, polled, uploading>>
  BY <1>1, <1>3, PartsFrame DEF Unadded, queues, handles
<1>6. Places = ToSet(explicit) /\ Places' = Places
  BY <1>3, <1>4, <1>5, Nothing DEF Places
<1>7. Apart => Apart'
  BY <1>5 DEF Apart
<1>8. shut'.ids = {}
  BY <1>1
<1>9. CASE clear
  <2>1. getActiveIds' = {}
    BY <1>1, <1>9 DEF getActiveIds
  <2>2. Calm' => Calm /\ explicit = <<>>
    BY <1>1, <1>9 DEF Calm
  <2>3. Calm' => Places' = {}
    BY <1>6, <2>2, Nothing
  <2>4. Calm' => Kept'
    BY <1>2, <1>4, <1>5, <2>1, <2>3 DEF Kept
  <2> QED
    BY <1>6, <1>7, <2>1, <2>2, <2>4 DEF Held, Keeps
<1>10. CASE ~clear
  <2>1. getActiveIds' = getActiveIds \ (shut.ids \ ToSet(explicit))
    BY <1>1, <1>10 DEF getActiveIds, removeMany
  <2>2. Calm' => Calm
    BY <1>1, <1>10 DEF Calm
  <2>3. Kept => Kept'
    BY <1>2, <1>4, <1>5, <1>6, <2>1 DEF Kept
  <2>4. getActiveIds' \subseteq Places' \union Done' \union shut'.ids
    BY <1>4, <1>6, <2>1 DEF Held
  <2> QED
    BY <1>6, <1>7, <2>2, <2>3, <2>4 DEF Held, Keeps
<1> QED
  BY <1>9, <1>10

LEMMA initializeHeld ==
  ASSUME UploaderAssumption, Sound, Held, initialize
  PROVE  Keeps
<1>1. draining = 0
  BY DEF initialize, Sound, Flags
<1> QED
  BY <1>1, HeldLoop DEF initialize, queues, counts

LEMMA suspendHeld ==
  ASSUME UploaderAssumption, Sound, Held, suspend \/ resume
  PROVE  Keeps
<1>1. UNCHANGED <<batch, handles, explicit, polled, uploads, shut, hazard, draining>>
  BY DEF suspend, resume, queues, counts
<1>2. loop' = Woken(loop, {"idle", "sleep"}) \/ loop' = Woken(loop, {"parked"})
  BY DEF suspend, resume
<1> QED
  BY <1>1, <1>2, HeldWoken

LEMMA enqueueHeld ==
  ASSUME UploaderAssumption, Sound, Held, NEW f \in File, enqueue(f)
  PROVE  Held' /\ Places' = Places \union {f}
<1>1. /\ f \notin getActiveIds /\ uploads' = [uploads EXCEPT ![f] = "active"]
      /\ explicit' = Append(explicit, f) /\ loop' = Woken(loop, {"idle", "sleep"})
      /\ UNCHANGED <<polled, draining, flags, handles, batch, hazard>>
  BY DEF enqueue
<1>2. W' = W /\ C' = C /\ Done' = Done /\ uploading' = uploading
  BY <1>1, PartsFrame DEF handles
<1>3. Unadded' = Unadded
  <2>1. draining # 0 => draining \in Gen /\ ~Idles(loop[draining])
    BY UnaddedIs DEF InDrain, Idles
  <2>2. draining # 0 => loop'[draining] = loop[draining]
    BY <1>1, <2>1, WokenIs
  <2> QED
    BY <1>1, <2>2, DrainFrame
<1>4. /\ ToSet(explicit') = ToSet(explicit) \union {f}
      /\ IsInjective(explicit') <=> IsInjective(explicit) /\ f \notin ToSet(explicit)
  <2>1. explicit \in Seq(File)
    BY DEF Sound, TypeOK
  <2>2. explicit' = explicit \o <<f>>
    BY <1>1, <2>1, AppendIsConcat
  <2>3. <<f>> \in Seq(File) /\ ToSet(<<f>>) = {f} /\ IsInjective(<<f>>)
    BY One
  <2>4. \A o \in Seq(File) :
          /\ ToSet(explicit \o o) = ToSet(explicit) \union ToSet(o)
          /\ IsInjective(explicit \o o) <=>
               IsInjective(explicit) /\ IsInjective(o) /\ ToSet(explicit) \cap ToSet(o) = {}
    BY <2>1, Joined
  <2>5. /\ ToSet(explicit \o <<f>>) = ToSet(explicit) \union ToSet(<<f>>)
        /\ IsInjective(explicit \o <<f>>) <=>
             /\ IsInjective(explicit) /\ IsInjective(<<f>>)
             /\ ToSet(explicit) \cap ToSet(<<f>>) = {}
    BY <2>3, <2>4, ZenonT(60)
  <2>6. ToSet(explicit) \cap {f} = {} <=> f \notin ToSet(explicit)
    OBVIOUS
  <2> QED
    BY <2>2, <2>3, <2>5, <2>6, ZenonT(60)
<1>5. Places' = Places \union {f}
  BY <1>1, <1>2, <1>3, <1>4 DEF Places
<1>6. getActiveIds' = getActiveIds \union {f}
  BY <1>1 DEF getActiveIds, Sound, TypeOK
<1>7. Kept => f \notin Places /\ f \notin Done
  BY <1>1 DEF Kept
<1>8. Kept /\ Apart => Apart'
  BY <1>1, <1>2, <1>3, <1>4, <1>7 DEF Apart, Places
<1>9. Kept => Kept'
  BY <1>1, <1>2, <1>3, <1>5, <1>6, <1>7 DEF Kept
<1> QED
  BY <1>1, <1>2, <1>5, <1>6, <1>8, <1>9 DEF Held, Calm, flags

LEMMA EditHeld ==
  ASSUME UploaderAssumption, Sound, Held, NEW f \in File,
         Trash(f) \/ Delete(f) \/ Restore(f) \/ deleteWithThumbnails(f)
  PROVE  Keeps
<1>1. UNCHANGED <<queues, flags, handles, batch, loop>>
  BY DEF Trash, Delete, Restore, Discard, Edit, deleteWithThumbnails
<1>2. /\ W' = W /\ C' = C /\ Done' = Done /\ Unadded' = Unadded
      /\ UNCHANGED <<explicit, polled, shut, uploading>>
  BY <1>1, PartsFrame DEF Unadded, queues, flags, handles
<1>3. Places' = Places
  BY <1>2 DEF Places
<1>4. CASE uploads' = uploads /\ hazard' = hazard
  BY <1>1, <1>2, <1>4, HeldStill DEF Calm
<1>5. CASE /\ uploads' = removeMany(uploads, {f})
           /\ hazard' = IF f \in ToSet(Pipeline) \union Done THEN hazard \union {"dropped"} ELSE hazard
  <2>1. getActiveIds' = getActiveIds \ {f}
    BY <1>5 DEF getActiveIds, removeMany
  <2>2. Calm' => Calm /\ f \notin Places \union Done
    BY <1>5, PipelineIs DEF Calm, Sound
  <2>3. Apart => Apart'
    BY <1>2 DEF Apart
  <2>4. Kept /\ f \notin Places \union Done => Kept'
    BY <1>1, <1>2, <1>3, <2>1 DEF Kept
  <2> QED
    BY <1>2, <1>3, <2>1, <2>2, <2>3, <2>4 DEF Held, Keeps
<1> QED
  BY <1>4, <1>5 DEF Trash, Delete, Restore, Discard, deleteWithThumbnails

LEMMA HeldInit ==
  ASSUME UploaderAssumption, Init
  PROVE  Held
<1>1. /\ uploads = [f \in File |-> "none"] /\ explicit = <<>> /\ polled = <<>> /\ draining = 0
      /\ current = 0 /\ uploading = 0
  BY DEF Init
<1>2. W = <<>> /\ C = <<>> /\ Unadded = <<>> /\ Done = {}
  BY <1>1 DEF W, C, Unadded, Done, Working
<1>3. ToSet(<<>>) = {} /\ IsInjective(<<>>)
  BY Nothing
<1>4. getActiveIds = {}
  BY <1>1 DEF getActiveIds
<1>5. Apart /\ Kept
  BY <1>1, <1>2, <1>3, <1>4 DEF Apart, Kept, Places
<1> QED
  BY <1>4, <1>5 DEF Held

LEMMA HeldNext ==
  ASSUME UploaderAssumption, Sound, Sound', Held, [Next]_vars
  PROVE  Held'
<1>1. ASSUME NEW g \in Gen, LoopStep(g) \/ Gated(g) \/ PollSkip(g) \/ OpenFails(g) PROVE Held'
  BY <1>1, TopHeld, QueryHeld, pollDBHeld, TimeoutHeld, EntriesEndHeld, PreFlushHeld,
     processWindowHeld, OpenHeld, OpenedHeld, AddSettlesHeld, GatedHeld, PollSkipHeld,
     OpenFailsHeld
     DEF LoopStep, Keeps
<1>2. ASSUME NEW b \in Batch, BatchStep(b) PROVE Held'
  BY <1>2, FinalizeHeld, BatchFailsHeld, PinHeld, RecordHeld, RemoveUploadsHeld DEF BatchStep, Keeps
<1>3. ASSUME NEW clear \in BOOLEAN, ShutdownReturns(clear) PROVE Held'
  BY <1>3, ShutdownReturnsHeld DEF Keeps
<1>4. CASE initialize \/ resume \/ User
  BY <1>4, initializeHeld, suspendHeld, ShutdownHeld, enqueueHeld, EditHeld DEF User, Keeps
<1>5. CASE UNCHANGED vars
  <2>1. UNCHANGED <<queues, flags, handles, batch, loop, uploads, counts>>
    BY <1>5 DEF vars
  <2> QED
    BY <2>1, UnaddedIs, HeldLoop DEF queues, flags, counts, Keeps
<1> QED
  BY <1>1, <1>2, <1>3, <1>4, <1>5 DEF Next

(***************************************************************************)
(* Pinned.                                                                 *)
(***************************************************************************)
LEMMA PinnedFrame ==
  ASSUME Pinned, Keeps, UNCHANGED pins, hazard \subseteq hazard',
         objects' \subseteq objects, Recorded \subseteq Recorded', Won \subseteq Won' \union Recorded',
         active' /\ loop'[generation'].pc = "poll" =>
           /\ active /\ loop[generation].pc = "poll"
           /\ loop'[generation'].found = loop[generation].found
  PROVE  Pinned'
<1> SUFFICES ASSUME hazard' \subseteq {"suspended"}
             PROVE  /\ Places' \cap objects' = {}
                    /\ \A f \in File : /\ pins[f] <= 1
                                       /\ pins[f] = 1 => f \in Recorded' \/ f \in Won'
                    /\ active' /\ loop'[generation'].pc = "poll" =>
                         loop'[generation'].found \cap objects' = {}
  BY DEF Pinned
<1>1. hazard \subseteq {"suspended"}
  OBVIOUS
<1>2. Places \cap objects = {}
  BY <1>1 DEF Pinned
<1>3. \A f \in File : /\ pins[f] <= 1
                      /\ pins[f] = 1 => f \in Recorded \/ f \in Won
  BY <1>1 DEF Pinned
<1>4. active /\ loop[generation].pc = "poll" => loop[generation].found \cap objects = {}
  BY <1>1 DEF Pinned
<1> QED
  BY <1>2, <1>3, <1>4 DEF Keeps

\* A step that changes no file, no object and no pin.
LEMMA PinnedStill ==
  ASSUME Pinned, Keeps, UNCHANGED <<file, objects, pins>>, hazard \subseteq hazard',
         Won \subseteq Won' \union Recorded,
         active' /\ loop'[generation'].pc = "poll" =>
           /\ active /\ loop[generation].pc = "poll"
           /\ loop'[generation'].found = loop[generation].found
  PROVE  Pinned'
<1>1. Recorded' = Recorded
  BY DEF Recorded
<1> QED
  BY <1>1, PinnedFrame

\* A step of one loop, which polls nothing and does not touch the batch under flush().
LEMMA PinnedLoop ==
  ASSUME Sound, Pinned, Keeps, NEW g \in Gen,
         UNCHANGED <<store, active, generation>>, hazard \subseteq hazard',
         uploading = 0 \/ UNCHANGED <<uploading, batch>>,
         \A h \in Gen : h # g => loop'[h] = loop[h], loop'[g].pc # "poll"
  PROVE  Pinned'
<1>1. Won \subseteq Won'
  BY DEF Won
<1>2. generation \in Gen
  BY DEF Sound, TypeOK
<1> QED
  BY <1>1, <1>2, PinnedStill DEF store

LEMMA FlushPinned ==
  ASSUME UploaderAssumption, Sound, NEW g \in Gen, NEW up, NEW bs, NEW l, Flush(g, up, bs, l),
         l \in LoopRow, l.pc = "flush", ~Stale(g), current # 0
  PROVE  /\ uploading = 0 /\ hazard \subseteq hazard'
         /\ \A h \in Gen : h # g => loop'[h] = loop[h]
         /\ loop'[g].pc # "poll"
<1>1. uploading = 0
  BY DEF Sound, Handles
<1>2. loop' = [loop EXCEPT ![g] = [l EXCEPT !.batch = current]] /\ hazard \subseteq hazard'
  BY DEF Flush
<1>3. [l EXCEPT !.batch = current].pc = "flush"
  BY DEF LoopRow
<1> QED
  BY <1>1, <1>2, <1>3 DEF Sound, TypeOK

LEMMA GotoPinned ==
  ASSUME UploaderAssumption, Sound, Pinned, Keeps, NEW g \in Gen, NEW pc, Goto(g, pc), pc # "poll",
         UNCHANGED <<store, active, generation>>, hazard \subseteq hazard',
         UNCHANGED <<uploading, batch>>
  PROVE  Pinned'
<1>1. loop[g] \in LoopRow
  BY DEF Sound, TypeOK
<1>2. DOMAIN loop[g] = {"pc", "entries", "next", "window", "fly", "batch", "found", "last"}
  BY <1>1 DEF LoopRow
<1>3. loop'[g] = [loop[g] EXCEPT !.pc = pc] /\ \A h \in Gen : h # g => loop'[h] = loop[h]
  BY GotoOthers
<1>4. loop'[g].pc = pc
  BY <1>2, <1>3
<1> QED
  BY <1>3, <1>4, PinnedLoop

LEMMA TopPinned ==
  ASSUME UploaderAssumption, Sound, Sound', Held, Pinned, NEW g \in Gen, Top(g)
  PROVE  Pinned'
<1>1. Keeps /\ UNCHANGED <<store, flags, handles, batch, counts>>
  BY TopHeld DEF Top
<1>2. CASE ~Stale(g) /\ ~suspended /\ explicit \o polled # <<>>
  <2>1. loop'[g] = [NoLoop EXCEPT !.pc = "entries", !.entries = explicit \o polled]
    BY <1>2 DEF Top, Sound, TypeOK
  <2>2. loop'[g].pc = "entries"
    BY <2>1 DEF NoLoop
  <2>3. \A h \in Gen : h # g => loop'[h] = loop[h]
    BY <1>2 DEF Top, Sound, TypeOK
  <2> QED
    BY <1>1, <2>2, <2>3, PinnedLoop DEF flags, handles, counts
<1>3. CASE ~(~Stale(g) /\ ~suspended /\ explicit \o polled # <<>>)
  <2>1. PICK pc : Goto(g, pc) /\ pc # "poll"
    BY <1>3 DEF Top
  <2> QED
    BY <1>1, <2>1, GotoPinned DEF flags, handles, counts
<1> QED
  BY <1>2, <1>3

LEMMA GatedPinned ==
  ASSUME UploaderAssumption, Sound, Held, Pinned, NEW g \in Gen, Gated(g)
  PROVE  Pinned'
<1>1. Keeps /\ UNCHANGED <<store, flags, handles, batch, counts>>
  BY GatedHeld DEF Gated
<1>2. /\ loop'[g] = [NoLoop EXCEPT !.pc = IF suspended THEN "top" ELSE "sleep"]
      /\ \A h \in Gen : h # g => loop'[h] = loop[h]
  BY DEF Gated, Sound, TypeOK
<1>3. loop'[g].pc # "poll"
  BY <1>2 DEF NoLoop
<1> QED
  BY <1>1, <1>2, <1>3, PinnedLoop DEF flags, handles, counts

LEMMA IdleFlushPinned ==
  ASSUME UploaderAssumption, Sound, Pinned, Keeps, NEW g \in Gen, Waits(g) = "idle",
         Flush(g, uploads, batch, [NoLoop EXCEPT !.pc = "flush"]),
         UNCHANGED <<store, active, generation>>
  PROVE  Pinned'
<1>1. ~Stale(g) /\ current # 0
  BY DEF Waits
<1>2. PICK l \in LoopRow : l = [NoLoop EXCEPT !.pc = "flush"] /\ l.pc = "flush"
  <2>1. [NoLoop EXCEPT !.pc = "flush"] \in LoopRow
    BY NoLoopRow DEF LoopRow
  <2>2. [NoLoop EXCEPT !.pc = "flush"].pc = "flush"
    BY DEF NoLoop
  <2> QED
    BY <2>1, <2>2
<1>3. /\ uploading = 0 /\ hazard \subseteq hazard' /\ loop'[g].pc # "poll"
      /\ \A h \in Gen : h # g => loop'[h] = loop[h]
  BY <1>1, <1>2, FlushPinned
<1> QED
  BY <1>3, PinnedLoop

LEMMA PollSkipPinned ==
  ASSUME UploaderAssumption, Sound, Sound', Held, Pinned, NEW g \in Gen, PollSkip(g)
  PROVE  Pinned'
<1>1. Keeps /\ UNCHANGED <<store, active, generation>>
  BY PollSkipHeld DEF PollSkip, flags
<1>2. CASE loop[g].last /\ Waits(g) = "idle"
  BY <1>1, <1>2, IdleFlushPinned DEF PollSkip
<1>3. CASE ~(loop[g].last /\ Waits(g) = "idle")
  <2>1. Goto(g, Waits(g)) /\ UNCHANGED <<handles, batch, uploads, hazard>>
    BY <1>3 DEF PollSkip
  <2>2. Waits(g) # "poll"
    BY WaitsIs
  <2> QED
    BY <1>1, <2>1, <2>2, GotoPinned DEF handles
<1> QED
  BY <1>2, <1>3

\* The query passes over the files that have an object.
LEMMA QueryPinned ==
  ASSUME UploaderAssumption, Sound, Held, Pinned, NEW g \in Gen, Query(g)
  PROVE  Pinned'
<1>1. Keeps /\ UNCHANGED <<store, flags, handles, batch, counts>>
  BY QueryHeld DEF Query
<1>2. CASE Stale(g)
  <2>1. Goto(g, "over")
    BY <1>2 DEF Query, Goto
  <2> QED
    BY <1>1, <2>1, GotoPinned DEF flags, handles, counts
<1>3. CASE ~Stale(g)
  <2>1. g = generation /\ loop[g] \in LoopRow
    BY <1>3 DEF Stale, Sound, TypeOK
  <2>2. DOMAIN loop[g] = {"pc", "entries", "next", "window", "fly", "batch", "found", "last"}
    BY <2>1 DEF LoopRow
  <2>3. PICK found : found = {f \in File \ (objects \union getActiveIds) : file[f] = "live"}
    OBVIOUS
  <2>4. loop'[g] = [loop[g] EXCEPT !.pc = "poll", !.found = found]
    BY <1>3, <2>3 DEF Query, Sound, TypeOK
  <2>5. loop'[g].found = found
    BY <2>2, <2>4
  <2>6. /\ UNCHANGED <<objects, pins, generation, uploading, batch, hazard>>
        /\ Places' \subseteq Places
    BY <1>1 DEF store, flags, handles, counts, Keeps
  <2>7. found \cap objects = {}
    BY <2>3
  <2>8. Recorded' = Recorded /\ Won' = Won
    BY <1>1 DEF store, handles, Recorded, Won
  <2> QED
    BY <2>1, <2>5, <2>6, <2>7, <2>8 DEF Pinned
<1> QED
  BY <1>2, <1>3

\* What the query found is still without an object, since nothing was uploading.
LEMMA pollDBPinned ==
  ASSUME UploaderAssumption, Sound, Sound', Held, Pinned, NEW g \in Gen, pollDB(g)
  PROVE  Pinned'
<1>1. /\ loop[g].pc = "poll" /\ UNCHANGED <<store, active, generation>>
      /\ Held' /\ Places' \subseteq Places \union (IF Stale(g) THEN {} ELSE loop[g].found)
  BY pollDBHeld DEF pollDB, flags
<1>2. \/ (\E pc : pc # "poll" /\ Goto(g, pc)) /\ UNCHANGED <<handles, batch, hazard>>
      \/ Waits(g) = "idle" /\ Flush(g, uploads, batch, [NoLoop EXCEPT !.pc = "flush"])
  BY WaitsIs DEF pollDB
<1>3. ASSUME hazard \subseteq {"suspended"}
      PROVE  Places' \cap objects = {}
  <2>1. Places \cap objects = {}
    BY <1>3 DEF Pinned
  <2>2. ~Stale(g) => loop[g].found \cap objects = {}
    BY <1>1, <1>3 DEF Stale, Pinned
  <2> QED
    BY <1>1, <2>1, <2>2
<1>4. /\ hazard \subseteq hazard' /\ loop'[g].pc # "poll"
      /\ \A h \in Gen : h # g => loop'[h] = loop[h]
      /\ uploading = 0 \/ UNCHANGED <<uploading, batch>>
  <2>1. CASE (\E pc : pc # "poll" /\ Goto(g, pc)) /\ UNCHANGED <<handles, batch, hazard>>
    <3>1. PICK pc : pc # "poll" /\ Goto(g, pc)
      BY <2>1
    <3>2. loop'[g] = [loop[g] EXCEPT !.pc = pc] /\ \A h \in Gen : h # g => loop'[h] = loop[h]
      BY <3>1, GotoOthers
    <3>3. DOMAIN loop[g] = {"pc", "entries", "next", "window", "fly", "batch", "found", "last"}
      BY DEF Sound, TypeOK, LoopRow
    <3>4. loop'[g].pc = pc
      BY <3>2, <3>3
    <3> QED
      BY <2>1, <3>1, <3>2, <3>4 DEF handles
  <2>2. CASE Waits(g) = "idle" /\ Flush(g, uploads, batch, [NoLoop EXCEPT !.pc = "flush"])
    <3>1. ~Stale(g) /\ current # 0
      BY <2>2 DEF Waits
    <3>2. PICK l \in LoopRow : l = [NoLoop EXCEPT !.pc = "flush"] /\ l.pc = "flush"
      <4>1. [NoLoop EXCEPT !.pc = "flush"] \in LoopRow
        BY NoLoopRow DEF LoopRow
      <4>2. [NoLoop EXCEPT !.pc = "flush"].pc = "flush"
        BY DEF NoLoop
      <4> QED
        BY <4>1, <4>2
    <3> QED
      BY <2>2, <3>1, <3>2, FlushPinned
  <2> QED
    BY <1>2, <2>1, <2>2
<1>5. Won \subseteq Won'
  BY <1>4 DEF Won
<1>6. generation \in Gen
  BY DEF Sound, TypeOK
<1> SUFFICES ASSUME hazard' \subseteq {"suspended"}
             PROVE  /\ Places' \cap objects' = {}
                    /\ \A f \in File : /\ pins'[f] <= 1
                                       /\ pins'[f] = 1 => f \in Recorded' \/ f \in Won'
                    /\ active' /\ loop'[generation'].pc = "poll" =>
                         loop'[generation'].found \cap objects' = {}
  BY DEF Pinned, Won
<1>7. hazard \subseteq {"suspended"}
  BY <1>4
<1>8. \A f \in File : pins[f] <= 1 /\ (pins[f] = 1 => f \in Recorded \/ f \in Won)
  BY <1>7 DEF Pinned, Won
<1>9. active /\ loop[generation].pc = "poll" => loop[generation].found \cap objects = {}
  BY <1>7 DEF Pinned
<1>10. Places' \cap objects = {}
  BY <1>3, <1>7
<1>11. objects' = objects /\ pins' = pins /\ active' = active /\ generation' = generation
  BY <1>1 DEF store
<1>12. active' /\ loop'[generation].pc = "poll" =>
         loop'[generation] = loop[generation] /\ loop[generation].pc = "poll"
  BY <1>4, <1>6, <1>11
<1>13. Recorded' = Recorded
  BY <1>1 DEF store, Recorded
<1> QED
  BY <1>5, <1>8, <1>9, <1>10, <1>11, <1>12, <1>13

LEMMA TimeoutPinned ==
  ASSUME UploaderAssumption, Sound, Held, Pinned, NEW g \in Gen, Timeout(g)
  PROVE  Pinned'
<1>1. Keeps /\ UNCHANGED <<store, flags, handles, batch, counts>>
  BY TimeoutHeld DEF Timeout
<1>2. DOMAIN loop[g] = {"pc", "entries", "next", "window", "fly", "batch", "found", "last"}
  BY DEF Sound, TypeOK, LoopRow
<1>3. PICK pc, last :
        /\ pc # "poll" /\ loop' = [loop EXCEPT ![g] = [loop[g] EXCEPT !.pc = pc, !.last = last]]
  BY ZenonT(60) DEF Timeout
<1>4. /\ loop'[g] = [loop[g] EXCEPT !.pc = pc, !.last = last]
      /\ \A h \in Gen : h # g => loop'[h] = loop[h]
  BY <1>3 DEF Sound, TypeOK
<1>5. loop'[g].pc # "poll"
  BY <1>2, <1>3, <1>4
<1> QED
  BY <1>1, <1>4, <1>5, PinnedLoop DEF flags, handles, counts

LEMMA EntriesEndPinned ==
  ASSUME UploaderAssumption, Sound, Sound', Held, Pinned, NEW g \in Gen, EntriesEnd(g)
  PROVE  Pinned'
<1>1. Keeps /\ UNCHANGED <<store, flags, handles, batch, counts>>
  BY EntriesEndHeld DEF EntriesEnd
<1>2. loop'[g] = [NoLoop EXCEPT !.pc = "top"] /\ \A h \in Gen : h # g => loop'[h] = loop[h]
  BY DEF EntriesEnd, Sound, TypeOK
<1>3. loop'[g].pc # "poll"
  BY <1>2 DEF NoLoop
<1> QED
  BY <1>1, <1>2, <1>3, PinnedLoop DEF flags, handles, counts

LEMMA PreFlushPinned ==
  ASSUME UploaderAssumption, Sound, Sound', Held, Pinned, NEW g \in Gen, PreFlush(g)
  PROVE  Pinned'
<1>1. /\ Keeps /\ UNCHANGED <<store, flags>> /\ ~Stale(g) /\ current # 0
      /\ Flush(g, uploads, batch, [loop[g] EXCEPT !.pc = "flush", !.last = TRUE])
  BY PreFlushHeld, ZenonT(60) DEF PreFlush, Ready
<1>2. PICK l \in LoopRow : l = [loop[g] EXCEPT !.pc = "flush", !.last = TRUE] /\ l.pc = "flush"
  <2>1. PICK r \in LoopRow : r = loop[g]
    BY DEF Sound, TypeOK
  <2>2. [r EXCEPT !.pc = "flush", !.last = TRUE] \in LoopRow
    BY DEF LoopRow
  <2>3. DOMAIN r = {"pc", "entries", "next", "window", "fly", "batch", "found", "last"}
    BY DEF LoopRow
  <2>4. [r EXCEPT !.pc = "flush", !.last = TRUE].pc = "flush"
    BY <2>3
  <2> QED
    BY <2>1, <2>2, <2>4
<1>3. /\ uploading = 0 /\ hazard \subseteq hazard' /\ loop'[g].pc # "poll"
      /\ \A h \in Gen : h # g => loop'[h] = loop[h]
  BY <1>1, <1>2, FlushPinned
<1> QED
  BY <1>1, <1>3, PinnedLoop DEF flags

LEMMA AddingPinned ==
  ASSUME Sound, NEW g \in Gen, NEW b, NEW bs, NEW n, Adding(g, b, bs, n)
  PROVE  loop'[g].pc # "poll" /\ \A h \in Gen : h # g => loop'[h] = loop[h]
<1>1. DOMAIN loop[g] = {"pc", "entries", "next", "window", "fly", "batch", "found", "last"}
  BY DEF Sound, TypeOK, LoopRow
<1>2. PICK es : loop' = [loop EXCEPT ![g] =
                           [loop[g] EXCEPT !.pc = "add", !.fly = es, !.window = n, !.batch = b]]
  BY ZenonT(60) DEF Adding, Sound, TypeOK
<1>3. /\ loop'[g] = [loop[g] EXCEPT !.pc = "add", !.fly = es, !.window = n, !.batch = b]
      /\ \A h \in Gen : h # g => loop'[h] = loop[h]
  BY <1>2 DEF Sound, TypeOK
<1>4. loop'[g].pc = "add"
  BY <1>1, <1>3
<1> QED
  BY <1>3, <1>4

LEMMA processWindowPinned ==
  ASSUME UploaderAssumption, Sound, Sound', Held, Pinned, NEW g \in Gen, processWindow(g)
  PROVE  Pinned'
<1>1. Keeps /\ UNCHANGED <<store, flags, counts>> /\ current # 0
  BY processWindowHeld DEF processWindow
<1>2. PICK n : Adding(g, current, batch, n)
  BY DEF processWindow
<1>3. uploading = 0
  BY <1>1 DEF Sound, Handles
<1> QED
  BY <1>1, <1>2, <1>3, AddingPinned, PinnedLoop DEF flags, counts

LEMMA OpenPinned ==
  ASSUME UploaderAssumption, Sound, Held, Pinned, NEW g \in Gen, Open(g) 
  PROVE  Pinned'
<1>1. /\ Keeps /\ Goto(g, "open")
      /\ UNCHANGED <<store, flags, handles, batch, counts>>
  BY OpenHeld DEF Open
<1> QED
  BY <1>1, GotoPinned DEF flags, handles, counts

LEMMA OpenedPinned ==
  ASSUME UploaderAssumption, Sound, Sound', Held, Pinned, NEW g \in Gen, Opened(g)
  PROVE  Pinned'
<1>1. /\ Keeps /\ UNCHANGED <<store, flags, uploading, counts>>
      /\ loop[g].pc = "open"
  BY OpenedHeld DEF Opened
<1>2. CASE Stale(g)
  <2>1. Goto(g, "entries") /\ UNCHANGED batch
    BY <1>2 DEF Opened
  <2> QED
    BY <1>1, <2>1, GotoPinned DEF flags, counts
<1>3. CASE ~Stale(g)
  <2>1. PICK b, bs : Adding(g, b, bs, 1)
    BY <1>3 DEF Opened
  <2>2. uploading = 0
    BY <1>1, <1>3, DrainIs DEF InDrain
  <2> QED
    BY <1>1, <2>1, <2>2, AddingPinned, PinnedLoop DEF flags, counts
<1> QED
  BY <1>2, <1>3

LEMMA AdvancedPc ==
  ASSUME NEW r, DOMAIN r = {"pc", "entries", "next", "window", "fly", "batch", "found", "last"}
  PROVE  Advanced(r).pc = "entries"
BY DEF Advanced

LEMMA OpenFailsPinned ==
  ASSUME UploaderAssumption, Sound, Sound', Held, Pinned, NEW g \in Gen, OpenFails(g)
  PROVE  Pinned'
<1>1. /\ Keeps /\ UNCHANGED <<store, flags, handles, batch, hazard>>
      /\ loop' = [loop EXCEPT ![g] = Advanced([loop[g] EXCEPT !.window = 1])]
  BY OpenFailsHeld DEF OpenFails, Sound, TypeOK
<1>2. DOMAIN loop[g] = {"pc", "entries", "next", "window", "fly", "batch", "found", "last"}
  BY DEF Sound, TypeOK, LoopRow
<1>3. DOMAIN [loop[g] EXCEPT !.window = 1] = DOMAIN loop[g]
  OBVIOUS
<1>4. /\ loop'[g] = Advanced([loop[g] EXCEPT !.window = 1])
      /\ \A h \in Gen : h # g => loop'[h] = loop[h]
  BY <1>1 DEF Sound, TypeOK
<1>5. loop'[g].pc = "entries"
  BY <1>2, <1>3, <1>4, AdvancedPc
<1> QED
  BY <1>1, <1>4, <1>5, PinnedLoop DEF flags, handles

LEMMA AddSettlesPinned ==
  ASSUME UploaderAssumption, Sound, Sound', Held, Pinned, NEW g \in Gen, AddSettles(g)
  PROVE  Pinned'
<1>1. Keeps /\ UNCHANGED <<store, flags>> /\ loop[g].pc = "add"
  BY AddSettlesHeld, ZenonT(60) DEF AddSettles
<1>2. DOMAIN loop[g] = {"pc", "entries", "next", "window", "fly", "batch", "found", "last"}
  BY DEF Sound, TypeOK, LoopRow
<1>3. /\ hazard \subseteq hazard'
      /\ uploading = 0 \/ UNCHANGED <<uploading, batch>>
      /\ \/ \E fly : loop' = [loop EXCEPT ![g] = Advanced([loop[g] EXCEPT !.fly = fly])]
         \/ \E fly : loop' = [loop EXCEPT ![g] = [loop[g] EXCEPT !.fly = fly]]
         \/ \E l \in {[loop[g] EXCEPT !.fly = Tail(loop[g].fly)],
                     Advanced([loop[g] EXCEPT !.fly = Tail(loop[g].fly)])} :
              loop' = [loop EXCEPT ![g] = [[l EXCEPT !.pc = "flush"] EXCEPT !.batch = current]]
  <2>1. CASE Stale(g) \/ current # loop[g].batch
    <3>1. /\ loop' = [loop EXCEPT ![g] = Advanced([loop[g] EXCEPT !.fly = <<>>])]
          /\ UNCHANGED <<handles, batch, hazard>>
      BY <2>1 DEF AddSettles, Sound, TypeOK
    <3> QED
      BY <3>1 DEF handles
  <2>2. CASE ~(Stale(g) \/ current # loop[g].batch)
    <3>1. uploading = 0
      BY <1>1, <2>2, DrainIs DEF InDrain
    <3>2. PICK bs, up :
            \/ /\ \E l \in {[loop[g] EXCEPT !.fly = Tail(loop[g].fly)],
                            Advanced([loop[g] EXCEPT !.fly = Tail(loop[g].fly)])} :
                    loop' = [loop EXCEPT ![g] = l]
               /\ UNCHANGED <<handles, hazard>>
            \/ \E l \in {[loop[g] EXCEPT !.fly = Tail(loop[g].fly)],
                         Advanced([loop[g] EXCEPT !.fly = Tail(loop[g].fly)])} :
                 Flush(g, up, bs, [l EXCEPT !.pc = "flush"])
      BY <2>2 DEF AddSettles
    <3>3. CASE \E l \in {[loop[g] EXCEPT !.fly = Tail(loop[g].fly)],
                         Advanced([loop[g] EXCEPT !.fly = Tail(loop[g].fly)])} :
                 Flush(g, up, bs, [l EXCEPT !.pc = "flush"])
      BY <3>1, <3>3 DEF Flush
    <3> QED
      BY <3>1, <3>2, <3>3
  <2> QED
    BY <2>1, <2>2
<1>4. ASSUME NEW fly
      PROVE  /\ DOMAIN [loop[g] EXCEPT !.fly = fly]
                  = {"pc", "entries", "next", "window", "fly", "batch", "found", "last"}
             /\ [loop[g] EXCEPT !.fly = fly].pc = "add"
             /\ Advanced([loop[g] EXCEPT !.fly = fly]).pc = "entries"
             /\ DOMAIN Advanced([loop[g] EXCEPT !.fly = fly])
                  = {"pc", "entries", "next", "window", "fly", "batch", "found", "last"}
  <2>1. PICK r : r = [loop[g] EXCEPT !.fly = fly]
    OBVIOUS
  <2>2. /\ DOMAIN r = {"pc", "entries", "next", "window", "fly", "batch", "found", "last"}
        /\ r.pc = "add"
    BY <1>1, <1>2, <2>1
  <2>3. Advanced(r).pc = "entries" /\ DOMAIN Advanced(r) = DOMAIN r
    BY <2>2 DEF Advanced
  <2> QED
    BY <2>1, <2>2, <2>3
<1>5. (\A h \in Gen : h # g => loop'[h] = loop[h]) /\ loop'[g].pc # "poll"
  <2>1. CASE \E fly : loop' = [loop EXCEPT ![g] = Advanced([loop[g] EXCEPT !.fly = fly])]
    BY <1>4, <2>1 DEF Sound, TypeOK
  <2>2. CASE \E fly : loop' = [loop EXCEPT ![g] = [loop[g] EXCEPT !.fly = fly]]
    BY <1>4, <2>2, ZenonT(60) DEF Sound, TypeOK
  <2>3. CASE \E l \in {[loop[g] EXCEPT !.fly = Tail(loop[g].fly)],
                       Advanced([loop[g] EXCEPT !.fly = Tail(loop[g].fly)])} :
               loop' = [loop EXCEPT ![g] = [[l EXCEPT !.pc = "flush"] EXCEPT !.batch = current]]
    <3>1. PICK l \in {[loop[g] EXCEPT !.fly = Tail(loop[g].fly)],
                       Advanced([loop[g] EXCEPT !.fly = Tail(loop[g].fly)])} :
            loop' = [loop EXCEPT ![g] = [[l EXCEPT !.pc = "flush"] EXCEPT !.batch = current]]
      BY <2>3
    <3>2. DOMAIN l = {"pc", "entries", "next", "window", "fly", "batch", "found", "last"}
      BY <1>4, <3>1
    <3>3. [[l EXCEPT !.pc = "flush"] EXCEPT !.batch = current].pc = "flush"
      BY <3>2
    <3> QED
      BY <3>1, <3>3 DEF Sound, TypeOK
  <2> QED
    BY <1>3, <2>1, <2>2, <2>3
<1> QED
  BY <1>1, <1>3, <1>5, PinnedLoop DEF flags

LEMMA FinalizePinned ==
  ASSUME UploaderAssumption, Sound, Held, Pinned, NEW b \in Batch, Finalize(b)
  PROVE  Pinned'
<1>1. /\ Keeps /\ batch[b].phase = "finalize" /\ batch' = [batch EXCEPT ![b].phase = "pin"]
      /\ UNCHANGED <<store, flags, handles, loop, counts>>
  BY FinalizeHeld DEF Finalize
<1>2. batch'[b] = [batch[b] EXCEPT !.phase = "pin"] /\ b = uploading
  BY <1>1, PinningIs DEF Sound, TypeOK
<1>3. DOMAIN batch[b] = {"phase", "files", "added", "cancelled", "at", "won", "gone"}
  BY <1>1, BatchIs
<1>4. batch'[b].won = batch[b].won /\ batch'[b].phase = "pin"
  BY <1>2, <1>3
<1>5. Won' = Won
  BY <1>1, <1>2, <1>4 DEF Won, handles
<1> QED
  BY <1>1, <1>5, PinnedStill DEF store, flags, counts

\* Nothing that waits is recorded: what was pinned has left the places.
LEMMA RecordPinned ==
  ASSUME UploaderAssumption, Sound, Held, Pinned, NEW b \in Batch, Record(b)
  PROVE  Pinned'
<1>1. /\ Keeps /\ batch[b].phase = "pin" /\ objects' = objects \union batch[b].won
      /\ UNCHANGED <<file, pins, flags, handles, loop, counts>>
  BY RecordHeld DEF Record
<1>2. b = uploading /\ uploading # 0 /\ batch[b].won \subseteq Done
  BY <1>1, PinningIs
<1>3. Won = batch[b].won /\ Recorded' = Recorded \union Won
  BY <1>1, <1>2 DEF Won, Recorded
<1>4. active /\ uploading # 0 => loop[generation].pc = "flush"
  BY DEF Sound, Flags
<1> SUFFICES ASSUME hazard' \subseteq {"suspended"}
             PROVE  /\ Places' \cap objects' = {}
                    /\ \A f \in File : /\ pins'[f] <= 1
                                       /\ pins'[f] = 1 => f \in Recorded' \/ f \in Won'
                    /\ active' /\ loop'[generation'].pc = "poll" =>
                         loop'[generation'].found \cap objects' = {}
  BY DEF Pinned
<1>5. hazard \subseteq {"suspended"} /\ Calm
  BY <1>1 DEF counts, Calm
<1>6. /\ Places \cap objects = {}
      /\ \A f \in File : pins[f] <= 1 /\ (pins[f] = 1 => f \in Recorded \/ f \in Won)
  BY <1>5 DEF Pinned
<1>7. Places \cap Done = {}
  BY <1>5 DEF Held, Kept
<1>8. Places' \cap objects' = {}
  BY <1>1, <1>2, <1>6, <1>7 DEF Keeps
<1>9. ~(active' /\ loop'[generation'].pc = "poll")
  BY <1>1, <1>2, <1>4 DEF flags
<1>10. \A f \in File : /\ pins'[f] <= 1
                       /\ pins'[f] = 1 => f \in Recorded' \/ f \in Won'
  BY <1>1, <1>3, <1>6
<1> QED
  BY <1>8, <1>9, <1>10

\* A file that is pinned was in the places, so it had no pin.
LEMMA PinPinned ==
  ASSUME UploaderAssumption, Sound, Held, Pinned, NEW b \in Batch, Pin(b)
  PROVE  Pinned'
<1> DEFINE x == batch[b].files[batch[b].at]
<1>1. PICK f \in File : f = x
  BY PinIs, ZenonT(60)
<1>2. /\ b = uploading /\ uploading' = uploading /\ b # 0
      /\ W \in Seq(File) /\ W' \in Seq(File) /\ W = <<f>> \o W'
  BY <1>1, PinMoves, ZenonT(60)
<1>3. /\ Keeps /\ UNCHANGED <<file, objects, flags, handles, loop>> /\ batch[b].phase = "pin"
  BY PinHeld, PinIs, ZenonT(60)
<1>4. \/ pins' = pins /\ Won \subseteq Won' /\ hazard' = hazard
      \/ /\ pins' = [pins EXCEPT ![f] = pins[f] + 1] /\ Won' = Won \union {f}
         /\ hazard' = hazard /\ file[f] # "gone"
      \/ hazard' = hazard \union {"unrecorded"}
  <2>1. /\ DOMAIN batch[b] = {"phase", "files", "added", "cancelled", "at", "won", "gone"}
        /\ batch \in [Batch -> BatchRow]
    BY <1>3, BatchIs DEF Sound, TypeOK
  <2>2. PICK after : after = [batch[b] EXCEPT !.at = batch[b].at + 1]
    OBVIOUS
  <2>3. /\ DOMAIN after = {"phase", "files", "added", "cancelled", "at", "won", "gone"}
        /\ after.won = batch[b].won /\ after.phase = "pin"
    BY <1>3, <2>1, <2>2
  <2>4. \/ /\ batch' = [batch EXCEPT ![b] = [after EXCEPT !.gone = batch[b].gone \union {f}]]
           /\ pins' = pins /\ hazard' = hazard
        \/ /\ batch' = [batch EXCEPT ![b] = [after EXCEPT !.won = batch[b].won \union {f}]]
           /\ pins' = [pins EXCEPT ![f] = pins[f] + 1] /\ hazard' = hazard /\ file[f] # "gone"
        \/ batch' = [batch EXCEPT ![b] = after] /\ pins' = pins /\ hazard' = hazard
        \/ hazard' = hazard \union {"unrecorded"}
    BY <1>1, <2>2, PinIs, ZenonT(60)
  <2>5. /\ Won = batch[b].won
        /\ batch'[b].phase = "pin" => Won' = batch'[b].won
    BY <1>2, <1>3 DEF Won
  <2>6. CASE /\ batch' = [batch EXCEPT ![b] = [after EXCEPT !.gone = batch[b].gone \union {f}]]
             /\ pins' = pins /\ hazard' = hazard
    <3>1. batch'[b] = [after EXCEPT !.gone = batch[b].gone \union {f}]
      BY <2>1, <2>6
    <3>2. batch'[b].won = batch[b].won /\ batch'[b].phase = "pin"
      BY <2>3, <3>1
    <3> QED
      BY <2>5, <2>6, <3>2
  <2>7. CASE /\ batch' = [batch EXCEPT ![b] = [after EXCEPT !.won = batch[b].won \union {f}]]
             /\ pins' = [pins EXCEPT ![f] = pins[f] + 1] /\ hazard' = hazard /\ file[f] # "gone"
    <3>1. batch'[b] = [after EXCEPT !.won = batch[b].won \union {f}]
      BY <2>1, <2>7
    <3>2. batch'[b].won = batch[b].won \union {f} /\ batch'[b].phase = "pin"
      BY <2>3, <3>1
    <3> QED
      BY <2>5, <2>7, <3>2
  <2>8. CASE batch' = [batch EXCEPT ![b] = after] /\ pins' = pins /\ hazard' = hazard
    BY <2>1, <2>3, <2>5, <2>8
  <2> QED
    BY <2>4, <2>6, <2>7, <2>8
<1>5. CASE pins' = pins /\ Won \subseteq Won' /\ hazard' = hazard
  BY <1>3, <1>5, PinnedStill DEF flags
<1>6. CASE /\ pins' = [pins EXCEPT ![f] = pins[f] + 1] /\ Won' = Won \union {f}
           /\ hazard' = hazard /\ file[f] # "gone"
  <2> SUFFICES ASSUME hazard \subseteq {"suspended"}
               PROVE  /\ Places' \cap objects = {}
                      /\ \A h \in File : /\ pins'[h] <= 1
                                         /\ pins'[h] = 1 => h \in Recorded' \/ h \in Won'
                      /\ active /\ loop[generation].pc = "poll" =>
                           loop[generation].found \cap objects = {}
    BY <1>3, <1>6 DEF Pinned, flags
  <2>1. /\ Places \cap objects = {}
        /\ \A h \in File : pins[h] <= 1 /\ (pins[h] = 1 => h \in Recorded \/ h \in Won)
        /\ active /\ loop[generation].pc = "poll" =>
             loop[generation].found \cap objects = {}
    BY DEF Pinned
  <2>2. f \in Places
    <3>1. \A y \in File, s \in Seq(File) : ToSet(<<y>> \o s) = {y} \union ToSet(s)
      BY Headed, ZenonT(60)
    <3>2. f \in ToSet(W)
      BY <1>2, <3>1
    <3> QED
      BY <3>2 DEF Places
  <2>3. f \notin Recorded /\ f \notin Won
    <3>1. Won \subseteq Done
      BY DEF Won, Done
    <3>2. Places \cap Done = {}
      BY DEF Held, Kept, Calm
    <3> QED
      BY <1>6, <2>1, <2>2, <3>1, <3>2 DEF Recorded
  <2>4. pins[f] = 0
    BY <2>1, <2>3 DEF Sound, TypeOK
  <2>5. Recorded' = Recorded
    BY <1>3 DEF Recorded
  <2>6. \A h \in File : /\ pins'[h] <= 1
                        /\ pins'[h] = 1 => h \in Recorded' \/ h \in Won'
    BY <1>6, <2>1, <2>4, <2>5 DEF Sound, TypeOK
  <2> QED
    BY <1>3, <2>1, <2>6 DEF Keeps
<1>7. CASE hazard' = hazard \union {"unrecorded"}
  BY <1>7 DEF Pinned
<1> QED
  BY <1>4, <1>5, <1>6, <1>7

LEMMA EndsPinned ==
  ASSUME UploaderAssumption, Sound, Pinned, Keeps, NEW b \in Batch,
         batch[b].phase \notin {"none", "open"}, Ends(b),
         UNCHANGED <<store, flags>>, hazard \subseteq hazard', Won = {}
  PROVE  Pinned'
<1>2. generation \in Gen
  BY DEF Sound, TypeOK
<1>3. loop'[generation].pc = "poll" => loop'[generation] = loop[generation]
  <2>1. CASE loop[generation].pc = "flush" /\ loop[generation].batch = b
    <3>1. loop'[generation] = Returned(generation)
      BY <1>2, <2>1 DEF Ends
    <3> QED
      BY <1>2, <2>1, <3>1, ReturnedIs
  <2>2. CASE ~(loop[generation].pc = "flush" /\ loop[generation].batch = b)
    BY <1>2, <2>2 DEF Ends
  <2> QED
    BY <2>1, <2>2
<1> QED
  BY <1>3, PinnedStill DEF store, flags

LEMMA RemoveUploadsPinned ==
  ASSUME UploaderAssumption, Sound, Held, Pinned, NEW b \in Batch, RemoveUploads(b)
  PROVE  Pinned'
<1>1. /\ Keeps /\ batch[b].phase = "remove" /\ Ends(b) /\ UNCHANGED <<store, flags, counts>>
  BY RemoveUploadsHeld DEF RemoveUploads
<1>2. Won = {}
  BY <1>1, PinningIs DEF Won
<1> QED
  BY <1>1, <1>2, EndsPinned DEF counts

LEMMA BatchFailsPinned ==
  ASSUME UploaderAssumption, Sound, Held, Pinned, NEW b \in Batch, BatchFails(b)
  PROVE  Pinned'
<1>1. /\ Keeps /\ batch[b].phase \notin {"none", "open"} /\ Ends(b) /\ UNCHANGED <<store, flags>>
      /\ hazard \subseteq hazard'
      /\ batch[b].phase = "pin" /\ batch[b].won # {} => "unrecorded" \in hazard'
  BY BatchFailsHeld DEF BatchFails
<1>2. CASE batch[b].phase = "pin" /\ batch[b].won # {}
  BY <1>1, <1>2 DEF Pinned
<1>3. CASE ~(batch[b].phase = "pin" /\ batch[b].won # {})
  <2>1. Won = {}
    BY <1>1, <1>3, BatchIs, PinningIs DEF Underway, Won
  <2> QED
    BY <1>1, <2>1, EndsPinned
<1> QED
  BY <1>2, <1>3

LEMMA ShutdownPinned ==
  ASSUME UploaderAssumption, Sound, Held, Pinned, Shutdown
  PROVE  Pinned'
<1>1. /\ Keeps /\ UNCHANGED <<store, uploading, hazard>> /\ ~active'
      /\ batch' = [b \in Batch |-> IF b = current THEN NoBatch
                                   ELSE IF b = uploading THEN [batch[b] EXCEPT !.cancelled = TRUE]
                                   ELSE batch[b]]
  BY ShutdownHeld DEF Shutdown
<1>2. Won' = Won
  <2>1. CASE uploading = 0
    BY <1>1, <2>1 DEF Won
  <2>2. CASE uploading # 0
    <3>1. uploading \in Batch /\ current = 0 /\ batch[uploading].phase \notin {"none", "open"}
      BY <2>2, UploadingIs
    <3>2. DOMAIN batch[uploading] = {"phase", "files", "added", "cancelled", "at", "won", "gone"}
      BY <3>1, BatchIs
    <3>3. batch'[uploading] = [batch[uploading] EXCEPT !.cancelled = TRUE]
      BY <1>1, <2>2, <3>1
    <3>4. batch'[uploading].won = batch[uploading].won /\ batch'[uploading].phase = batch[uploading].phase
      BY <3>2, <3>3
    <3> QED
      BY <1>1, <2>2, <3>4 DEF Won
  <2> QED
    BY <2>1, <2>2
<1> QED
  BY <1>1, <1>2, PinnedStill DEF store

LEMMA ShutdownReturnsPinned ==
  ASSUME UploaderAssumption, Sound, Held, Pinned, NEW clear \in BOOLEAN, ShutdownReturns(clear)
  PROVE  Pinned'
<1>1. /\ Keeps /\ UNCHANGED <<store, active, generation, handles, batch, loop>>
      /\ hazard \subseteq hazard'
  BY ShutdownReturnsHeld DEF ShutdownReturns
<1>2. Won' = Won
  BY <1>1 DEF Won, handles
<1> QED
  BY <1>1, <1>2, PinnedStill DEF store

LEMMA initializePinned ==
  ASSUME UploaderAssumption, Sound, Held, Pinned, initialize
  PROVE  Pinned'
<1>1. /\ Keeps /\ UNCHANGED <<store, handles, batch, counts>>
      /\ generation' = generation + 1 /\ generation < MaxGen
      /\ loop' = [loop EXCEPT ![generation + 1].pc = "top"]
  BY initializeHeld DEF initialize
<1>2. Won' = Won
  BY <1>1 DEF Won, handles
<1>3. generation + 1 \in Gen /\ loop \in [Gen -> LoopRow]
  BY <1>1, UploaderAssumption DEF Sound, TypeOK, Gen, UploaderAssumption
<1>4. DOMAIN loop[generation + 1]
        = {"pc", "entries", "next", "window", "fly", "batch", "found", "last"}
  BY <1>3 DEF LoopRow
<1>5. loop'[generation + 1] = [loop[generation + 1] EXCEPT !.pc = "top"]
  BY <1>1, <1>3
<1>6. loop'[generation'].pc = "top"
  BY <1>1, <1>4, <1>5
<1> QED
  BY <1>1, <1>2, <1>6, PinnedStill DEF store, counts

LEMMA WokenPinned ==
  ASSUME UploaderAssumption, Sound, Sound', NEW pcs, pcs \subseteq {"parked", "idle", "sleep"},
         loop' = Woken(loop, pcs), generation' = generation
  PROVE  loop'[generation'].pc = "poll" => loop'[generation'] = loop[generation]
<1>1. generation \in Gen
  BY DEF Sound, TypeOK
<1> QED
  BY <1>1, WokenIs

LEMMA suspendPinned ==
  ASSUME UploaderAssumption, Sound, Sound', Held, Pinned, suspend \/ resume
  PROVE  Pinned'
<1>1. /\ Keeps /\ UNCHANGED <<store, active, generation, handles, batch, hazard>>
  BY suspendHeld DEF suspend, resume, counts
<1>2. loop' = Woken(loop, {"idle", "sleep"}) \/ loop' = Woken(loop, {"parked"})
  BY DEF suspend, resume
<1>3. loop'[generation'].pc = "poll" => loop'[generation'] = loop[generation]
  BY <1>1, <1>2, WokenPinned
<1>4. Won' = Won
  BY <1>1 DEF Won, handles
<1> QED
  BY <1>1, <1>3, <1>4, PinnedStill DEF store

LEMMA enqueuePinned ==
  ASSUME UploaderAssumption, Sound, Sound', Held, Pinned, NEW f \in File, enqueue(f)
  PROVE  Pinned'
<1>1. /\ f \notin objects /\ loop' = Woken(loop, {"idle", "sleep"})
      /\ UNCHANGED <<store, active, generation, handles, batch, hazard>>
      /\ Places' = Places \union {f}
  BY enqueueHeld DEF enqueue, flags
<1>2. loop'[generation'].pc = "poll" => loop'[generation'] = loop[generation]
  BY <1>1, WokenPinned
<1>3. /\ Won' = Won /\ Recorded' = Recorded
      /\ UNCHANGED <<objects, pins, active, generation, hazard>>
  BY <1>1 DEF Won, Recorded, handles, store
<1> QED
  BY <1>1, <1>2, <1>3 DEF Pinned

LEMMA EditPinned ==
  ASSUME UploaderAssumption, Sound, Held, Pinned, NEW f \in File,
         Trash(f) \/ Delete(f) \/ Restore(f) \/ deleteWithThumbnails(f)
  PROVE  Pinned'
<1>1. /\ Keeps /\ UNCHANGED <<pins, flags, handles, batch, loop>> /\ hazard \subseteq hazard'
      /\ objects' \subseteq objects
  BY EditHeld DEF Trash, Delete, Restore, Discard, Edit, deleteWithThumbnails
<1>2. Won' = Won
  BY <1>1 DEF Won, handles
<1>3. /\ file[f] # "gone" \/ file' = file
      /\ \E to : file' = [file EXCEPT ![f] = to] /\ (to = "gone" \/ objects' = objects)
      /\ objects \subseteq objects' \union {f}
  BY DEF Trash, Delete, Restore, Discard, Edit, deleteWithThumbnails
<1>4. Recorded \subseteq Recorded'
  BY <1>3 DEF Recorded, Sound, TypeOK
<1> QED
  BY <1>1, <1>2, <1>4, PinnedFrame DEF flags

LEMMA PinnedInit ==
  ASSUME UploaderAssumption, Init
  PROVE  Pinned
<1>1. objects = {} /\ pins = [f \in File |-> 0]
  BY DEF Init
<1> QED
  BY <1>1 DEF Pinned

LEMMA PinnedNext ==
  ASSUME UploaderAssumption, Sound, Sound', Held, Pinned, [Next]_vars
  PROVE  Pinned'
<1>1. ASSUME NEW g \in Gen, LoopStep(g) \/ Gated(g) \/ PollSkip(g) \/ OpenFails(g) PROVE Pinned'
  BY <1>1, TopPinned, QueryPinned, pollDBPinned, TimeoutPinned, EntriesEndPinned, PreFlushPinned,
     processWindowPinned, OpenPinned, OpenedPinned, AddSettlesPinned, GatedPinned, PollSkipPinned,
     OpenFailsPinned
     DEF LoopStep
<1>2. ASSUME NEW b \in Batch, BatchStep(b) PROVE Pinned'
  BY <1>2, FinalizePinned, BatchFailsPinned, PinPinned, RecordPinned, RemoveUploadsPinned
     DEF BatchStep
<1>3. ASSUME NEW clear \in BOOLEAN, ShutdownReturns(clear) PROVE Pinned'
  BY <1>3, ShutdownReturnsPinned
<1>4. CASE initialize \/ resume \/ User
  BY <1>4, initializePinned, suspendPinned, ShutdownPinned, enqueuePinned, EditPinned DEF User
<1>5. CASE UNCHANGED vars
  <2>1. UNCHANGED <<store, queues, flags, handles, batch, loop, uploads, counts>>
    BY <1>5 DEF vars
  <2>2. Keeps
    BY <2>1, UnaddedIs, HeldLoop DEF queues, flags, counts
  <2>3. Won' = Won
    BY <2>1 DEF Won, handles
  <2> QED
    BY <2>1, <2>2, <2>3, PinnedStill DEF store, flags, counts
<1> QED
  BY <1>1, <1>2, <1>3, <1>4, <1>5 DEF Next

(***************************************************************************)
(* The theorems.                                                           *)
(***************************************************************************)
LEMMA Inductive ==
  Spec => []IInv
<1>1. Init => IInv
  BY UploaderAssumption, SoundInit, HeldInit, PinnedInit DEF IInv
<1>2. IInv /\ [Next]_vars => IInv'
  <2> SUFFICES ASSUME IInv, [Next]_vars PROVE IInv'
    OBVIOUS
  <2>1. Sound /\ Held /\ Pinned
    BY DEF IInv
  <2>2. Sound'
    BY <2>1, UploaderAssumption, SoundNext
  <2>3. Held'
    BY <2>1, <2>2, UploaderAssumption, HeldNext
  <2>4. Pinned'
    BY <2>1, <2>2, UploaderAssumption, PinnedNext
  <2> QED
    BY <2>2, <2>3, <2>4 DEF IInv
<1> QED
  BY <1>1, <1>2, PTL DEF Spec

\* The variables of the upload manager have their types, with any number of
\* files, batches and loops.
THEOREM UploaderTypeCorrect == Spec => []TypeOK
<1>1. IInv => TypeOK
  BY DEF IInv, Sound
<1> QED
  BY <1>1, Inductive, PTL

\* A file waits or is packed in one place at a time (notActive after the query of
\* pollDB, the drain of processEntries, shutdown), except after the three races;
\* an active entry of the store always has a file behind it; and no batch is left
\* beside the open one and the one under flush().
THEOREM FilesHeldOnce == Spec => []HeldOnce
<1>1. IInv => HeldOnce
  <2> SUFFICES ASSUME IInv PROVE HeldOnce
    OBVIOUS
  <2>1. Sound /\ Held
    BY DEF IInv
  <2>2. (IsInjective(Pipeline) <=> Apart) /\ ToSet(Pipeline) = Places
    BY <2>1, UploaderAssumption, PipelineIs DEF Sound
  <2>3. Calm => IsInjective(Pipeline) /\ ToSet(Pipeline) \cap Done = {}
    BY <2>1, <2>2 DEF Held, Kept
  <2>4. getActiveIds \subseteq ToSet(Pipeline) \union Done \union shut.ids
    BY <2>1, <2>2 DEF Held
  <2>5. ASSUME NEW b \in Batch, batch[b].phase # "none" PROVE b \in {current, uploading}
    <3>1. batch[b].phase = "open" \/ batch[b].phase \in Underway
      BY <2>1, <2>5 DEF Sound, TypeOK, BatchRow
    <3> QED
      BY <2>1, <3>1 DEF Sound, Handles
  <2> QED
    BY <2>3, <2>4, <2>5 DEF HeldOnce, Calm
<1> QED
  BY <1>1, Inductive, PTL

\* A file is pinned to the network once, over restarts of the uploader and
\* suspensions, as long as no batch fails between its pins and their record and
\* none of the three races happens.
THEOREM FilesPinnedOnce == Spec => []PinnedOnce
<1>1. IInv => PinnedOnce
  BY DEF IInv, Pinned, PinnedOnce
<1> QED
  BY <1>1, Inductive, PTL

\* A file is pinned with its own object: when an add fails, its file leaves
\* batch.files, so the objects finalize returns stand at the places of their files.
THEOREM FilesPinnedAsThemselves == Spec => []PinnedAsItself
<1>1. IInv => PinnedAsItself
  BY DEF IInv, Sound, PinnedAsItself
<1> QED
  BY <1>1, Inductive, PTL
=============================================================================
