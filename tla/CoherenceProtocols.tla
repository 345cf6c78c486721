-------------------------- MODULE CoherenceProtocols --------------------------
(* The four coherence protocols of the simulator as pure tables: what a        *)
(* processor request does to the requester's own line, what a snooped bus      *)
(* command does to everyone else's, and what the finished bus job leaves       *)
(* behind.  The line states are CacheLine::State (src/CacheLine.h).            *)

CONSTANT Protocol        \* CacheConstants::getProtocol(), fixed for a whole run

ASSUME ProtocolAssumption == Protocol \in {"MSI", "MESI", "DRAGON", "MOESI"}

States == {"invalid", "shared", "modified", "exclusive", "owned",
           "sharedClean", "sharedDirty"}

Ops      == {"R", "W", "other"}   \* CacheJob::isRead, isWrite, neither
Commands == {"BusRd", "BusRdX"}   \* BusUpd is declared and never issued

(* The states a line takes under the configured protocol.                      *)
ProtocolStates ==
  CASE Protocol = "MSI"    -> {"invalid", "shared", "modified"}
    [] Protocol = "MESI"   -> {"invalid", "shared", "modified", "exclusive"}
    [] Protocol = "DRAGON" -> {"invalid", "modified", "exclusive",
                               "sharedClean", "sharedDirty"}
    [] Protocol = "MOESI"  -> {"invalid", "shared", "modified", "exclusive",
                               "owned"}

-------------------------------------------------------------------------------
(* The requester: Cache::handleRequest                                         *)

ReadHitStates ==
  IF Protocol = "DRAGON"
  THEN {"modified", "exclusive", "sharedClean", "sharedDirty"}
  ELSE {"modified", "exclusive", "shared", "owned"}

WriteHitStates ==
  IF Protocol = "MSI" THEN {"modified"} ELSE {"modified", "exclusive"}

(* What the handler does with its line in state s: serve the job locally, ask  *)
(* for the bus, or (a job that is neither read nor write) drop the job.        *)
Decision(op, s) ==
  CASE op = "R" -> IF s \in ReadHitStates THEN "hit" ELSE "BusRd"
    [] op = "W" -> IF s \in WriteHitStates THEN "hit"
                   ELSE IF Protocol = "DRAGON" /\ s \notin {"sharedClean", "sharedDirty"}
                        THEN "BusRd" ELSE "BusRdX"
    [] OTHER    -> "drop"

(* The requester's own state when the handler returns.  A write upgrades a     *)
(* line it holds at once, before the bus has been granted.                     *)
RequestState(op, s) ==
  IF op # "W" \/ s = "invalid" THEN s
  ELSE IF s \in {"sharedClean", "sharedDirty"} THEN "sharedDirty" ELSE "modified"

-------------------------------------------------------------------------------
(* The other caches: Cache::snoopBusRequest                                    *)

\* Faulty: a modified line turns clean without being flushed.
BusRdState_LosesDirty(s) ==
  IF s \in {"modified", "exclusive"}
  THEN IF Protocol = "DRAGON" THEN "sharedClean" ELSE "shared" ELSE s

\* Faulty: an exclusive line stays exclusive.
BusRdState_KeepsExclusive(s) ==
  IF Protocol = "DRAGON" /\ s = "modified" THEN "sharedDirty" ELSE s

BusRdState(s) ==
  CASE Protocol = "MSI"    -> IF s = "modified" THEN "shared" ELSE s
    [] Protocol = "MESI"   -> IF s \in {"modified", "exclusive"} THEN "shared" ELSE s
    [] Protocol = "DRAGON" -> IF s = "modified" THEN "sharedDirty"
                              ELSE IF s = "exclusive" THEN "sharedClean" ELSE s
    [] Protocol = "MOESI"  -> IF s = "modified" THEN "owned"
                              ELSE IF s = "exclusive" THEN "shared" ELSE s

\* Faulty: only the modified line is given up.
BusRdXState_KeepsClean(s) == IF s = "modified" THEN "invalid" ELSE s

\* Faulty: an update is not taken notice of.
BusRdXState_DropsUpdate(s) == IF Protocol = "DRAGON" THEN s ELSE "invalid"

BusRdXState(s) ==
  CASE Protocol = "MSI"    -> IF s \in {"shared", "modified"} THEN "invalid" ELSE s
    [] Protocol = "MESI"   -> IF s \in {"shared", "exclusive", "modified"}
                              THEN "invalid" ELSE s
    [] Protocol = "DRAGON" -> IF s = "sharedDirty" THEN "sharedClean" ELSE s
    [] Protocol = "MOESI"  -> IF s \in {"owned", "modified", "exclusive", "shared"}
                              THEN "invalid" ELSE s

SnoopState(cmd, s) == IF cmd = "BusRd" THEN BusRdState(s) ELSE BusRdXState(s)

(* The SnoopResult classes the bus manager tells apart.                        *)
Flushes(s)       == Protocol \in {"MSI", "MESI"} /\ s = "modified"
AnswersShared(s) == \/ Protocol \in {"MSI", "MESI"} /\ s = "shared"
                    \/ Protocol = "MESI" /\ s = "exclusive"

\* Faulty: the owner does not answer.
Supplies_NotOwned(s) == Protocol = "MOESI" /\ s \in {"modified", "exclusive"}

Supplies(s)      == Protocol = "MOESI" /\ s \in {"owned", "modified", "exclusive"}
RaisesShared(cmd, s) ==            \* BusRequest::setSharedLine
  Protocol = "DRAGON" /\ cmd = "BusRd"
    /\ s \in {"sharedDirty", "modified", "sharedClean", "exclusive"}

(* The snooper makes the bus manager set isShared.                             *)
MarksShared(cmd, s) ==
  \/ Protocol = "MESI" /\ (Flushes(s) \/ AnswersShared(s))
  \/ Supplies(s)
  \/ RaisesShared(cmd, s)

-------------------------------------------------------------------------------
(* The end of the bus job: Cache::busJobDone                                   *)

\* Faulty: a line nobody shares is left as it was installed.
WriteFill_OnlyShared(shared, s) ==
  IF ~shared THEN s ELSE IF Protocol = "DRAGON" THEN "sharedDirty" ELSE "modified"

(* The requester's state, s being the state it finds (invalid when the line    *)
(* was just installed by replaceLine).                                         *)
WriteFill(shared, s) ==
  CASE Protocol = "MSI"    -> "modified"
    [] Protocol = "MESI"   -> IF shared THEN "modified" ELSE s
    [] Protocol = "DRAGON" -> IF shared THEN "sharedDirty"
                              ELSE IF s = "invalid" THEN "modified" ELSE s
    [] Protocol = "MOESI"  -> IF shared \/ s # "owned" THEN "modified" ELSE s

\* Faulty: the fill of MESI, or the fill of Dragon, under another protocol.
ReadFill_Mesi(shared)   == IF shared THEN "shared" ELSE "exclusive"
ReadFill_Dragon(shared) == IF shared THEN "sharedClean" ELSE "exclusive"

ReadFill(shared) ==
  CASE Protocol = "MSI"    -> "shared"
    [] Protocol = "DRAGON" -> IF shared THEN "sharedClean" ELSE "exclusive"
    [] OTHER               -> IF shared THEN "shared" ELSE "exclusive"

FillState(op, shared, s) == IF op = "W" THEN WriteFill(shared, s) ELSE ReadFill(shared)

\* Faulty: asks again whether or not anybody shares the line.
Reissues_Always(op, shared) == Protocol = "DRAGON" /\ op = "W"

(* A Dragon write that found the line shared asks for the bus a second time,   *)
(* for the update.                                                             *)
Reissues(op, shared) == Protocol = "DRAGON" /\ op = "W" /\ shared
===============================================================================
