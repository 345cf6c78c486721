------------------------------ MODULE SmpCacheLru ------------------------------
(* The simulator implements LruCaches: the ways of a set, its stale tags and   *)
(* its time stamps amount to blocks in the order of their last use.            *)
EXTENDS SmpCache

(* Two lines of a set may carry the same time.  A cache that takes a job in    *)
(* the cycle in which it touches its last job's line uses the new job's line   *)
(* later; a cache that is snooped does so after its own tick, so its last      *)
(* job's line was used earlier.                                                *)
UsedAfter(c, x, y) ==
  \/ x.lastUsed > y.lastUsed
  \/ x.lastUsed = y.lastUsed /\ c.job.block = (IF c.busy THEN x ELSE y).tag

(* The blocks a set holds, and the line in which getLine finds one of them.    *)
HeldTags(set) == {set[w].tag : w \in {v \in Ways : Valid(set[v])}}

LineOf(set, b) == set[FirstWay(set, b)]

(* The order of the blocks of a set, c being its cache's control fields.       *)
Recency(c, set) ==
  {x \in HeldTags(set) \X HeldTags(set) :
     x[1] = x[2] \/ UsedAfter(c, LineOf(set, x[1]), LineOf(set, x[2]))}

Recencies == [p \in Procs |-> [i \in Sets |-> Recency(ctl[p], lines[p][i])]]

LastJobs == [p \in Procs |-> ctl[p].job]

Stage(c) == IF c.serviced THEN "served" ELSE IF c.haveBusRequest THEN "waiting" ELSE "none"

BusStages == [p \in Procs |-> Stage(ctl[p])]

Lru == INSTANCE LruCaches WITH
  recency    <- Recencies,
  last       <- LastJobs,
  stage      <- BusStages,
  Jobs       <- Job,
  Capacity   <- Assoc,
  KeepsFills <- Protocol # "MESI"

(* Every set replaces the least recently used of its blocks, the uses being    *)
(* those of LruCaches: the code's snoops, its repeated touches of a finished   *)
(* job's line and its stamps of equal time included.                           *)
ImplementsLru == Lru!Spec
===============================================================================
