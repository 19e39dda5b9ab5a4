----------------------------- MODULE AtomicStore -----------------------------
(***************************************************************************)
(* What the callers of a database adapter rely on: a call changes the      *)
(* database in one step, all of its statements together, is told so in     *)
(* that step, and a call that was refused left nothing behind.             *)
(***************************************************************************)
EXTENDS Naturals

CONSTANTS
  Call,   \* calls made on the adapter
  Size    \* the statements each call writes

VARIABLES
  kept,    \* statements the database keeps
  answer   \* what each caller was told

vars == <<kept, answer>>

Writes(c) == {c} \X (1 .. Size[c])

Init ==
  /\ kept = {}
  /\ answer = [c \in Call |-> "none"]

Commit(c) ==
  /\ answer[c] = "none"
  /\ answer' = [answer EXCEPT ![c] = "ok"]
  /\ kept' = kept \union Writes(c)

Refuse(c) ==
  /\ answer[c] = "none"
  /\ answer' = [answer EXCEPT ![c] = "refused"]
  /\ UNCHANGED kept

Next == \E c \in Call : Commit(c) \/ Refuse(c)

Spec == Init /\ [][Next]_vars
=============================================================================
