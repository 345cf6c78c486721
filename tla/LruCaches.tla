------------------------------- MODULE LruCaches -------------------------------
(* What the caches of the simulator promise of replacement: each set holds at  *)
(* most Capacity blocks in the order of their last use.  A use moves a block   *)
(* to the front, a fill of a full set drops the last.  A block is used by its  *)
(* own processor's accesses, again once an access's time is up, and by every   *)
(* broadcast for it on the bus.                                                *)
EXTENDS Naturals, FiniteSets

CONSTANTS
  Procs, Sets,
  SetOf(_),        \* the set a block belongs to
  Jobs,            \* what a processor may be given: an operation and a block
  NoJob,           \* not in Jobs
  Capacity,        \* blocks per set
  KeepsFills       \* FALSE if a fill may leave its block invalid

VARIABLES
  recency,         \* recency[p][i]: the order of the blocks in set i of cache p,
                   \* a set of pairs <<x, y>>: x was used no earlier than y
  last,            \* last[p]: the last job of processor p
  stage            \* stage[p]: whether its request waits for the bus or is served

vars == <<recency, last, stage>>

Stages == {"none", "waiting", "served"}

Init ==
  /\ recency = [p \in Procs |-> [i \in Sets |-> {}]]
  /\ last = [p \in Procs |-> NoJob]
  /\ stage = [p \in Procs |-> "none"]

-------------------------------------------------------------------------------
Members(order) == {pair[1] : pair \in order}

Without(order, b) == {pair \in order : pair[1] # b /\ pair[2] # b}

(* The order with b at its front, whether it was in it or not.                 *)
InFront(order, b) ==
  LET rest == Without(order, b) IN rest \cup {<<b, y>> : y \in Members(rest) \cup {b}}

Used(order, b) == IF b \in Members(order) THEN InFront(order, b) ELSE order

(* The least recently used block.                                              *)
Last(order) == CHOOSE x \in Members(order) : \A y \in Members(order) : <<y, x>> \in order

(* A full set makes room for a block it does not hold.                         *)
RoomFor(order, b) ==
  IF b \in Members(order) \/ Cardinality(Members(order)) < Capacity THEN order
  ELSE Without(order, Last(order))

Filled(order, b) == InFront(RoomFor(order, b), b)

(* The sets of one cache after a use of block b.                               *)
UsedIn(sets, b) == [sets EXCEPT ![SetOf(b)] = Used(@, b)]

(* Processor p's last block counts as used again: its access has ended, or     *)
(* ended some time ago and no other has begun.                                 *)
Refreshed(p) == IF last[p] = NoJob THEN recency[p] ELSE UsedIn(recency[p], last[p].block)

Refresh(p) ==
  /\ stage[p] = "none"
  /\ recency' = [recency EXCEPT ![p] = Refreshed(p)]
  /\ UNCHANGED <<last, stage>>

(* Processor p takes a job; only a read or a write uses its block, and may     *)
(* need the bus.                                                               *)
Access(p, job) ==
  /\ stage[p] = "none"
  /\ \E sets \in {recency[p], Refreshed(p)} :
       recency' = [recency EXCEPT ![p] =
                     IF job.op \in {"R", "W"} THEN UsedIn(sets, job.block) ELSE sets]
  /\ last' = [last EXCEPT ![p] = job]
  /\ \E st \in {"none", "waiting"} : stage' = [stage EXCEPT ![p] = st]

(* The bus carries processor p's request: every other cache uses the block, or *)
(* gives it up.                                                                *)
Broadcast(p) ==
  LET b == last[p].block IN
  /\ stage[p] = "waiting"
  /\ stage' = [stage EXCEPT ![p] = "served"]
  /\ \E taken \in SUBSET (Procs \ {p}) :
       recency' = [q \in Procs |->
         IF q = p THEN recency[q]
         ELSE IF q \in taken THEN [recency[q] EXCEPT ![SetOf(b)] = Without(@, b)]
         ELSE UsedIn(recency[q], b)]
  /\ UNCHANGED last

(* The transaction ends, unless a second one follows: the block takes its      *)
(* place in its set, or is given a way there but left invalid.                 *)
Fill(p) ==
  LET b == last[p].block IN
  /\ stage[p] = "served"
  /\ \E st \in {"none", "waiting"} : stage' = [stage EXCEPT ![p] = st]
  /\ \/ recency' = [recency EXCEPT ![p][SetOf(b)] = Filled(@, b)]
     \/ ~KeepsFills /\ recency' = [recency EXCEPT ![p][SetOf(b)] = RoomFor(@, b)]
  /\ UNCHANGED last

Next ==
  \E p \in Procs :
    \/ Refresh(p) \/ Broadcast(p) \/ Fill(p)
    \/ \E job \in Jobs : Access(p, job)

Spec == Init /\ [][Next]_vars
===============================================================================
