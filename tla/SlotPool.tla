------------------------------ MODULE SlotPool ------------------------------
(***************************************************************************)
(* The slot pool (packages/core/src/lib/slotPool.ts) as operators over its *)
(* state: what runs (holders) and what waits (queue).  An entry is         *)
(* [run, key, priority, weight]; a grant or an eviction is told by where   *)
(* the entry is afterwards, in the holders or nowhere.                     *)
(***************************************************************************)
EXTENDS Integers, SequencesExt

inUseWeight(pool) == MapThenSumSet(LAMBDA e : e.weight, pool.holders)

\* Whether `weight` can start with `held`, the weights of at most one earlier waiter, set aside.
fits(pool, weight, held) ==
  /\ Cardinality(pool.holders) + Len(held) < pool.max
  /\ \/ pool.holders = {} /\ held = <<>>
     \/ inUseWeight(pool) + weight + (IF held = <<>> THEN 0 ELSE held[1]) <= pool.capacity

take(pool, e) == [pool EXCEPT !.holders = @ \union {e}]

\* The next waiter runs, or stays: the first to stay holds back what it needs.
serve(acc, e) ==
  IF fits(acc.pool, e.weight, acc.held) THEN [acc EXCEPT !.pool = take(@, e)]
  ELSE [pool |-> [acc.pool EXCEPT !.queue = Append(@, e)],
        held |-> IF acc.held = <<>> THEN <<e.weight>> ELSE acc.held]

\* Serve the queue in order.
drain(pool) ==
  FoldLeft(serve, [pool |-> [pool EXCEPT !.queue = <<>>], held |-> <<>>], pool.queue).pool

\* The waiters that stay when others leave, in their order.
stay(queue, entries) == FoldLeft(LAMBDA q, e : IF e \in entries THEN Append(q, e) ELSE q, <<>>, queue)

\* Before the first waiter that is not ahead of it: the latest of a priority goes first.
insert(queue, e) ==
  LET ahead == Cardinality({i \in DOMAIN queue : queue[i].priority < e.priority})
  IN InsertAt(queue, ahead + 1, e)

\* The oldest waiters of the priority beyond the depth leave; nothing is served for it.
evictBeyond(pool, priority, depth) ==
  LET rank(i) == Cardinality({j \in 1 .. i : pool.queue[j].priority = priority})
      kept == {i \in DOMAIN pool.queue : pool.queue[i].priority # priority \/ rank(i) <= depth}
  IN [pool EXCEPT !.queue = stay(@, {pool.queue[i] : i \in kept})]

\* `depth` is <<>> where the caller gives none.
acquire(pool, e, depth) ==
  IF pool.queue = <<>> /\ fits(pool, e.weight, <<>>) THEN take(pool, e)
  ELSE LET served == drain([pool EXCEPT !.queue = insert(@, e)])
       IN IF depth = <<>> THEN served ELSE evictBeyond(served, e.priority, depth[1])

\* Mutant: the waiter leaves and nobody is let in.
abortSilently(pool, runs) ==
  [pool EXCEPT !.queue = stay(@, {e \in ToSet(@) : e.run \notin runs})]
\* The abort listeners of these runs' waiters.
abortWaiters(pool, runs) ==
  IF \E e \in ToSet(pool.queue) : e.run \in runs
  THEN drain([pool EXCEPT !.queue = stay(@, {e \in ToSet(@) : e.run \notin runs})])
  ELSE pool

releaseSlot(pool, run) ==
  IF \E e \in pool.holders : e.run = run
  THEN drain([pool EXCEPT !.holders = {e \in @ : e.run # run}]) ELSE pool

\* Mutant: the waiter stays where it is.
promoteNobody(pool, key, priority) == pool
promote(pool, key, priority) ==
  LET below == {i \in DOMAIN pool.queue : pool.queue[i].key = key /\ pool.queue[i].priority > priority}
  IN IF below = {} THEN pool
     ELSE LET i == CHOOSE j \in below : TRUE
          IN drain([pool EXCEPT !.queue = insert(RemoveAt(@, i), [@[i] EXCEPT !.priority = priority])])

setMaxSlots(pool, n) == drain([pool EXCEPT !.max = n])
setCapacity(pool, n) == drain([pool EXCEPT !.capacity = n])

waiting(pool) == {e.run : e \in ToSet(pool.queue)}
holding(pool) == {e.run : e \in pool.holders}
=============================================================================
