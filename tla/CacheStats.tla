------------------------------ MODULE CacheStats ------------------------------
(* The counters of src/CacheStats.h and where the code advances them.  Each    *)
(* operator gives the counters one handler adds one to.                        *)
EXTENDS CoherenceProtocols

Counters == {"numHit", "numMiss", "numExclusiveToModifiedTransitions",
             "numReads", "numReadHits", "numReadMisses",
             "numWrites", "numWriteHits", "numWriteShared", "numWriteMisses",
             "numWriteBacks", "numCacheShare", "numInterventions",
             "numInvalidations", "numEvict", "numFlush", "numMainMemoryUses",
             "numBusRequests", "numBusReadX"}

ZeroCounters == [c \in Counters |-> 0]

\* Faulty: forgets the writes that need the bus.
WriteCounts_OnlyHits(s) ==
  IF s \in {"modified", "exclusive"} THEN {"numHit", "numWriteHits"} ELSE {}

(* handleRequest, for a job that finds its line in state s.                    *)
WriteCounts(s) ==
  CASE s = "modified"  -> {"numHit", "numWriteHits"}
    [] s = "exclusive" -> {"numHit", "numWriteHits", "numExclusiveToModifiedTransitions"}
    [] s = "shared"    -> {"numWriteShared", "numWriteHits"}
    [] s = "invalid"   -> IF Protocol = "DRAGON" THEN {"numWriteMisses"} ELSE {}
    [] OTHER           -> {"numHit"}

ReadCounts(hit) ==
  CASE Protocol = "DRAGON" -> IF hit THEN {} ELSE {"numReadMisses"}
    [] Protocol = "MOESI"  -> IF hit THEN {"numReadHits", "numHit"} ELSE {"numMiss"}
    [] OTHER               -> IF hit THEN {"numReadHits", "numHit"}
                              ELSE {"numMiss", "numReadMisses"}

RequestCounts(op, s) ==
  CASE op = "W" -> {"numWrites"} \cup WriteCounts(s)
    [] op = "R" -> {"numReads"} \cup ReadCounts(s \in ReadHitStates)
    [] OTHER    -> {}

(* snoopBusRequest, in a cache that holds the line in state s, ...             *)
SnoopCounts(cmd, s) ==
  CASE Protocol \in {"MSI", "MESI"} ->
         (IF Flushes(s) THEN {"numFlush"} ELSE {}) \cup
         (IF cmd = "BusRd"
          THEN IF Flushes(s) \/ (Protocol = "MESI" /\ s = "exclusive")
               THEN {"numInterventions"} ELSE {}
          ELSE IF Flushes(s) \/ AnswersShared(s) THEN {"numInvalidations"} ELSE {})
    [] Protocol = "DRAGON" ->
         IF cmd = "BusRdX" THEN {}
         ELSE (IF s \in {"sharedDirty", "modified"} THEN {"numFlush"} ELSE {}) \cup
              (IF s \in {"modified", "exclusive"} THEN {"numInterventions"} ELSE {})
    [] Protocol = "MOESI" -> IF Supplies(s) THEN {"numCacheShare"} ELSE {}

(* ... and what the bus manager adds for the flushing cache.                   *)
FlushCounts(cmd, s) ==
  IF Flushes(s) /\ (Protocol = "MSI" \/ cmd = "BusRdX") THEN {"numWriteBacks"} ELSE {}

\* Faulty: a BusRdX is counted only when the line is new.
DoneCounts_OnlyInstalled(op, cmd, shared, installed, s) ==
  {"numMainMemoryUses"} \cup
    (IF installed /\ op = "W" THEN {"numBusReadX", "numWriteMisses"} ELSE {})

(* busJobDone, and the bus manager's count just before it.  The line was       *)
(* installed anew or found in state s.                                         *)
DoneCounts(op, cmd, shared, installed, s) ==
  LET fromMemory == CASE Protocol = "MSI"    -> TRUE
                      [] Protocol = "MOESI"  -> IF op = "W" THEN shared \/ s # "owned"
                                                ELSE ~shared
                      [] Protocol = "DRAGON" -> ~shared
                      [] Protocol = "MESI"   -> op = "R" /\ ~shared
  IN (IF Protocol = "MSI" /\ cmd = "BusRdX" THEN {"numBusReadX"} ELSE {}) \cup
     (IF installed /\ op = "W" /\ Protocol # "DRAGON" THEN {"numWriteMisses"} ELSE {}) \cup
     (IF fromMemory THEN {"numMainMemoryUses"} ELSE {}) \cup
     (IF Protocol = "MESI" /\ shared THEN {"numCacheShare"} ELSE {})
===============================================================================
