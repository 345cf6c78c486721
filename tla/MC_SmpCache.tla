------------------------------ MODULE MC_SmpCache ------------------------------
(* SmpCache on small machines (the .cfg files give the sizes), and claims the  *)
(* repository makes that the code keeps under some protocols only, or never.   *)
EXTENDS SmpCacheLru

(* CacheStats.h counts "dirty blocks written back to the main memory" in       *)
(* numWriteBacks: a cache that gives up a dirty line counts one.  CacheSet's   *)
(* isFull never holds, so replaceLine overwrites dirty lines uncounted.        *)
DirtyLinesWrittenBack ==
  [][\A p \in Procs, b \in Blocks :
       (Held(p, SetOf(b), b) \in {"modified", "sharedDirty"} /\ Held(p, SetOf(b), b)' = "invalid")
         => stats'[p].numWriteBacks > stats[p].numWriteBacks]_vars

(* MSItestcomments.trace expects a write by one processor to take the line     *)
(* from another: no two caches own a block.  BusRequest's int tag loses the    *)
(* high bits of a wide address, and the snooper finds no such line.            *)
WriteTakesLine == Abstract!SingleOwner
===============================================================================
