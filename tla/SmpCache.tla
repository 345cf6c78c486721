------------------------------- MODULE SmpCache -------------------------------
(* The simulator itself: main's loop over clock cycles (src/CacheController.cpp)*)
(* hands the trace's jobs to the caches, ticks every cache (src/Cache.cpp) in  *)
(* index order and then the bus manager (src/AtomicBusManager.cpp).  One       *)
(* processor runs all of it; a step of this specification is one call of a     *)
(* tick, so that every state between two calls is checked.                     *)
EXTENDS CacheSet, CacheStats, Integers, Sequences, FiniteSets, Functions

CONSTANTS
  N,               \* number of processors, each with one cache
  NumSets,         \* sets per cache
  TagMask,         \* CacheConstants::tagMask
  Blocks,          \* block numbers (addresses without their byte offset)
  TraceLength,     \* bound: the longest trace considered
  TraceOps,        \* bound: the kinds of job in it
  HitCost,         \* CacheConstants::getCacheHitCycleCost
  CacheCost,       \* CacheConstants::getCacheResponseCycleCost
  MemCost,         \* CacheConstants::getMemoryResponseCycleCost
  UninitCosts,     \* words that the uninitialised cost of a MOESI write may be
  IntModulus,      \* 2^32, the range of the ints that a BusRequest is made of
  WordModulus      \* 2^64, the range of the clock and of an unsigned long

ASSUME SizeAssumption ==
  /\ N \in Nat \ {0} /\ NumSets \in Nat \ {0} /\ TraceLength \in Nat
  /\ Blocks \subseteq Nat /\ Blocks # {} /\ TraceOps \subseteq Ops

(* What the constructor of CacheConstants makes of the mask (GeometrySound).   *)
ASSUME MaskAssumption ==
  /\ TagMask \in Nat /\ TagMask < NumSets
  /\ \E k \in 0..NumSets : TagMask + 1 = 2^k /\ NumSets < 2^(k + 1)

(* The fixed costs are 2, 60 and 90 cycles.                                    *)
ASSUME CostAssumption ==
  /\ HitCost \in Nat /\ CacheCost \in Nat /\ MemCost \in Nat
  /\ 0 < HitCost /\ HitCost < CacheCost /\ CacheCost < MemCost
  /\ MemCost < 2 * CacheCost

(* They fit an int, which is half of a word; what is not initialised is a word.*)
ASSUME WidthAssumption ==
  /\ IntModulus \in Nat \ {0} /\ WordModulus \in Nat /\ IntModulus < WordModulus
  /\ 2 * MemCost < IntModulus
  /\ UninitCosts \subseteq 0..(WordModulus - 1) /\ UninitCosts # {}

Procs == 0..(N - 1)
Sets  == 0..(NumSets - 1)

(* Cache::decode_address: the tag is the whole block number, the set its low   *)
(* bits under the mask.  With a number of sets that is not a power of two the  *)
(* mask leaves the sets above it unused.                                       *)
SetOf(block) == block % (TagMask + 1)

\* Faulty: the request is built with its set for a tag.
WireTag_Set(block) == SetOf(block)

Word(x) == x % WordModulus           \* unsigned 64-bit arithmetic

(* A word that has been kept in an int of BusRequest: its low half, which is   *)
(* sign-extended where it meets a 64-bit word again.                           *)
AsInt(x) ==
  LET low == x % IntModulus
  IN IF 2 * low < IntModulus THEN low ELSE low + (WordModulus - IntModulus)

(* The tag a snooper reads back from the request and compares with its lines'. *)
WireTag(block) == AsInt(block)

NoJob == [op |-> "none", block |-> 0]
NoReq == [cmd |-> "none", block |-> 0, cost |-> 0]

VARIABLES
  pc,              \* where main is: "loop", "caches", "bus" or "done"
  turn,            \* the next cache to tick
  cycle,           \* the clock, CacheConstants::cycles
  remaining,       \* number of jobs left in outstandingRequests
  ctl,             \* ctl[p]: the control fields of cache p
  lines,           \* lines[p][i]: set i of cache p
  bus,             \* the fields of the bus manager
  stats            \* stats[p][c]: counter c of cache p

vars == <<pc, turn, cycle, remaining, ctl, lines, bus, stats>>

Init ==
  /\ pc = "loop" /\ turn = 0 /\ cycle = 0
  /\ remaining \in 0..TraceLength
  /\ ctl = [p \in Procs |->
              [pending |-> <<>>, job |-> NoJob, busy |-> FALSE,
               haveBusRequest |-> FALSE, serviced |-> FALSE,
               start |-> 0, cost |-> 0, req |-> NoReq]]
  /\ lines = [p \in Procs |-> [i \in Sets |-> EmptySet]]
  /\ bus = [inUse |-> FALSE, current |-> 0, isShared |-> FALSE, endCycle |-> 0]
  /\ stats = [p \in Procs |-> ZeroCounters]

(* The state in which cache p holds a tag of set i.                            *)
Held(p, i, tag) == LineState(lines[p][i], tag)

Bump(counts, added) ==
  [c \in Counters |-> counts[c] + (IF c \in added THEN 1 ELSE 0)]

-------------------------------------------------------------------------------
(* main                                                                        *)

\* Faulty: looks at the first cache only.
NoJobs_First == ~ctl[0].busy

NoJobs == \A p \in Procs : ~ctl[p].busy

\* Faulty: the clock stands still.
StartTicks_NoClock == cycle' = cycle /\ pc' = "caches" /\ turn' = 0

StartTicks == cycle' = cycle + 1 /\ pc' = "caches" /\ turn' = 0

(* A cycle in which no cache is busy begins with the next job of the trace.    *)
Dispatch(p, op, b) ==
  /\ pc = "loop" /\ NoJobs /\ remaining > 0
  /\ StartTicks
  /\ remaining' = remaining - 1
  /\ ctl' = [ctl EXCEPT ![p].pending = Append(@, [op |-> op, block |-> b])]
  /\ UNCHANGED <<lines, bus, stats>>

(* A cycle in which some cache is busy.                                        *)
Tick ==
  /\ pc = "loop" /\ ~NoJobs
  /\ StartTicks
  /\ UNCHANGED <<remaining, ctl, lines, bus, stats>>

Exit ==
  /\ pc = "loop" /\ NoJobs /\ remaining = 0
  /\ pc' = "done"
  /\ UNCHANGED <<turn, cycle, remaining, ctl, lines, bus, stats>>

(* The program has ended.                                                      *)
Done == pc = "done" /\ UNCHANGED vars

-------------------------------------------------------------------------------
(* Cache::tick                                                                 *)

(* The start of every tick, and the way to the next.                           *)
Ticks(p) ==
  /\ pc = "caches" /\ p = turn
  /\ IF turn = N - 1 THEN pc' = "bus" /\ turn' = 0 ELSE pc' = pc /\ turn' = turn + 1
  /\ UNCHANGED <<cycle, remaining, bus>>

(* The bus is serving this cache, and will tell it when its job is done.       *)
TickServiced(p) ==
  /\ Ticks(p) /\ ctl[p].serviced
  /\ UNCHANGED <<ctl, lines, stats>>

Expired(p) == Word(ctl[p].start + ctl[p].cost) <= cycle

BusyStill(p) == ctl[p].busy /\ ~Expired(p)

(* updateCurrentJobLineCycle: once its time is up, and at every later tick,    *)
(* the last job's line is the most recently used.                              *)
AfterJob(p) ==
  LET job == ctl[p].job
  IN IF Expired(p) /\ job # NoJob
     THEN [lines[p] EXCEPT ![SetOf(job.block)] = Touch(@, job.block, cycle)]
     ELSE lines[p]

TickIdle(p) ==
  /\ Ticks(p) /\ ~ctl[p].serviced
  /\ BusyStill(p) \/ ctl[p].pending = <<>>
  /\ ctl' = [ctl EXCEPT ![p].busy = BusyStill(p)]
  /\ lines' = [lines EXCEPT ![p] = AfterJob(p)]
  /\ UNCHANGED stats

(* getTotalMemoryCost: the cost of a write's request doubles for a dirty       *)
(* victim, if the set is full.                                                 *)
MemoryCosts ==
  CASE Protocol = "MSI"               -> {MemCost}
    [] Protocol \in {"MESI", "DRAGON"} -> {CacheCost}
    [] Protocol = "MOESI"             -> UninitCosts

FlushesVictim(set, tag) ==
  IF ~HasLine(set, tag) /\ IsFull(set) THEN EvictLineModified(set) ELSE {FALSE}

(* The requests handleRequest builds, and their costs as 64-bit words.  Asked  *)
(* of getTotalMemoryCost: a write under the invalidation protocols (but        *)
(* MOESI's owned line) and a Dragon read.                                      *)
AsksTotal(op, s) ==
  IF Protocol = "DRAGON" THEN op = "R" ELSE op = "W" /\ s # "owned"

RequestCosts(op, s, flush) ==
  IF AsksTotal(op, s) THEN {(IF flush THEN Word(2 * c) ELSE c) : c \in MemoryCosts}
  ELSE IF op = "W" THEN {HitCost}      \* Dragon's writes, MOESI's owned line
  ELSE {MemCost}                       \* handleReadMiss

(* handleReadMiss leaves jobCycleCost as the previous job left it.             *)
JobCost(p, op, c) ==
  IF op = "R" /\ Protocol # "DRAGON" THEN ctl[p].cost ELSE c

(* The cache is free and takes the job main has given it: handleRequest.  A    *)
(* lookup that finds the line makes it the most recently used.  The cache      *)
(* keeps the cost of its job as a word, its request as an int.                 *)
TickHandles(p) ==
  LET job   == Head(ctl[p].pending)
      i     == SetOf(job.block)
      set   == AfterJob(p)[i]
      s     == LineState(set, job.block)
      taken == [ctl[p] EXCEPT !.pending = Tail(@), !.job = job, !.busy = FALSE]
      after == SetLineState(Touch(set, job.block, cycle), job.block, RequestState(job.op, s))
  IN
  /\ Ticks(p) /\ ~ctl[p].serviced
  /\ ~BusyStill(p) /\ ctl[p].pending # <<>>
  /\ \/ /\ Decision(job.op, s) = "drop"
        /\ ctl' = [ctl EXCEPT ![p] = taken]
        /\ lines' = [lines EXCEPT ![p] = AfterJob(p)]
        /\ UNCHANGED stats
     \/ /\ Decision(job.op, s) = "hit"
        /\ ctl' = [ctl EXCEPT ![p] =
                    [taken EXCEPT !.busy = TRUE, !.haveBusRequest = FALSE,
                                  !.start = cycle, !.cost = HitCost]]
        /\ lines' = [lines EXCEPT ![p] = [AfterJob(p) EXCEPT ![i] = after]]
        /\ stats' = [stats EXCEPT ![p] = Bump(@, RequestCounts(job.op, s))]
     \/ /\ Decision(job.op, s) \in Commands
        /\ \E flush \in IF AsksTotal(job.op, s) THEN FlushesVictim(set, job.block)
                        ELSE {FALSE} :
             /\ \E c \in RequestCosts(job.op, s, flush) :
                  ctl' = [ctl EXCEPT ![p] =
                    [taken EXCEPT !.busy = TRUE, !.haveBusRequest = TRUE,
                                  !.cost = JobCost(p, job.op, c),
                                  !.req = [cmd   |-> Decision(job.op, s),
                                           block |-> job.block, cost |-> AsInt(c)]]]
             /\ stats' = [stats EXCEPT ![p] = Bump(@, RequestCounts(job.op, s) \cup
                                                (IF flush THEN {"numFlush"} ELSE {}))]
        /\ lines' = [lines EXCEPT ![p] = [AfterJob(p) EXCEPT ![i] = after]]

-------------------------------------------------------------------------------
(* AtomicBusManager::tick                                                      *)

BusWaits ==
  /\ pc = "bus" /\ bus.inUse /\ bus.endCycle > cycle
  /\ pc' = "loop"
  /\ UNCHANGED <<turn, cycle, remaining, ctl, lines, bus, stats>>

(* The time of the transaction is up: busJobDone stores the line in the        *)
(* requester's set, evicting first if the set is full, and the bus is free.    *)
BusFinish ==
  LET p         == bus.current
      op        == ctl[p].job.op
      block     == ctl[p].job.block
      i         == SetOf(block)
      evicts    == IsFull(lines[p][i]) /\ ~HasLine(lines[p][i], block)
      evicted   == IF evicts THEN EvictLRULine(lines[p][i]) ELSE lines[p][i]
      installs  == ~HasLine(evicted, block)
      set       == IF installs THEN ReplaceLine(evicted, block, cycle) ELSE evicted
      w         == FirstWay(set, block)
      s         == set[w].state
      again     == Reissues(op, bus.isShared)
  IN
  /\ pc = "bus" /\ bus.inUse /\ bus.endCycle <= cycle
  /\ lines' = [lines EXCEPT ![p][i] =
                 [set EXCEPT ![w].state = FillState(op, bus.isShared, s),
                             ![w].lastUsed = cycle]]
  /\ ctl' = [ctl EXCEPT ![p] =
               [ctl[p] EXCEPT !.haveBusRequest = again, !.busy = again, !.serviced = FALSE,
                              !.start = cycle,
                              !.cost = IF again THEN CacheCost ELSE ctl[p].cost,
                              !.req = IF again THEN [cmd |-> "BusRdX", block |-> block,
                                                     cost |-> CacheCost]
                                      ELSE ctl[p].req]]
  /\ bus' = [bus EXCEPT !.inUse = FALSE, !.isShared = FALSE, !.current = -1]
  /\ stats' = [stats EXCEPT ![p] = Bump(@,
                 DoneCounts(op, ctl[p].req.cmd, bus.isShared, installs, s) \cup
                 (IF evicts THEN {"numWriteBacks", "numEvict"} ELSE {}))]
  /\ UNCHANGED <<pc, turn, cycle, remaining>>

Requesters == {p \in Procs : ctl[p].haveBusRequest}

BusIdle ==
  /\ pc = "bus" /\ ~bus.inUse /\ Requesters = {}
  /\ pc' = "loop"
  /\ bus' = [bus EXCEPT !.isShared = FALSE]
  /\ UNCHANGED <<turn, cycle, remaining, ctl, lines, stats>>

\* Faulty: an answer saves the whole memory access, whatever the request's cost.
GrantedEnd_FullDiscount(c, flushers, sharers, suppliers) ==
  Word(cycle + c - (IF sharers = {} /\ suppliers = {} THEN 0 ELSE MemCost))

(* How the snoopers' answers move the end of the transaction and the           *)
(* requester's own cost: each flush adds a write to memory (MSI) or a transfer *)
(* between caches (MESI); a shared answer (MESI's first, each supplier of      *)
(* MOESI) trades the memory access for such a transfer.                        *)
GrantedEnd(c, flushers, sharers, suppliers) ==
  CASE Protocol = "MSI"    -> Word(cycle + c + MemCost * Cardinality(flushers))
    [] Protocol = "MESI"   -> Word(cycle + c + CacheCost * Cardinality(flushers)
                                   - (IF sharers = {} THEN 0 ELSE MemCost - CacheCost))
    [] Protocol = "DRAGON" -> Word(cycle + c)
    [] Protocol = "MOESI"  -> IF c = HitCost THEN Word(cycle + c)
                              ELSE Word(cycle + c -
                                        (MemCost - CacheCost) * Cardinality(suppliers))

GrantedCost(p, c, flushers, sharers, suppliers) ==
  LET later == {f \in flushers : \E q \in sharers : q < f}
  IN CASE Protocol = "MSI"    -> Word(ctl[p].cost + MemCost * Cardinality(flushers))
       [] Protocol = "MESI"   ->
            IF sharers = {} THEN Word(ctl[p].cost + CacheCost * Cardinality(flushers))
            ELSE CacheCost + CacheCost * Cardinality(later)
       [] Protocol = "DRAGON" -> ctl[p].cost
       [] Protocol = "MOESI"  -> IF c = HitCost \/ suppliers = {} THEN ctl[p].cost
                                 ELSE CacheCost

\* Faulty: a flush is not counted as a use of memory.
GrantedCounts_FreeFlush(counts, cmd, flushers, sharers) ==
  [counts EXCEPT !.numBusRequests = @ + 1]

(* What the bus manager counts for the requester.                              *)
GrantedCounts(counts, cmd, flushers, sharers) ==
  [counts EXCEPT
     !.numBusRequests = @ + 1,
     !.numMainMemoryUses = @ + Cardinality(flushers) +
        (IF Protocol = "MESI" /\ sharers = {} THEN 1 ELSE 0),
     !.numBusReadX = @ + (IF Protocol = "MESI" /\ cmd = "BusRdX"
                          THEN Cardinality(flushers) ELSE 0)]

(* The free bus goes to the requester with the lowest index, and the request   *)
(* is broadcast to every other cache.                                          *)
BusGrant(p) ==
  LET req       == ctl[p].req
      i         == SetOf(req.block)
      tag       == WireTag(req.block)
      others    == Procs \ {p}
      flushers  == {q \in others : Flushes(Held(q, i, tag))}
      sharers   == {q \in others : AnswersShared(Held(q, i, tag))}
      suppliers == {q \in others : Supplies(Held(q, i, tag))}
  IN
  /\ pc = "bus" /\ ~bus.inUse
  /\ p \in Requesters /\ \A q \in Requesters : p <= q
  /\ lines' = [q \in Procs |->
       IF q = p THEN lines[p]
       ELSE [lines[q] EXCEPT ![i] =
               SetLineState(Touch(@, tag, cycle), tag, SnoopState(req.cmd, Held(q, i, tag)))]]
  /\ ctl' = [ctl EXCEPT ![p] =
       [@ EXCEPT !.serviced = TRUE, !.start = cycle,
                 !.cost = GrantedCost(p, req.cost, flushers, sharers, suppliers)]]
  /\ bus' = [inUse |-> TRUE, current |-> p,
             isShared |-> \E q \in others : MarksShared(req.cmd, Held(q, i, tag)),
             endCycle |-> GrantedEnd(req.cost, flushers, sharers, suppliers)]
  /\ stats' = [q \in Procs |->
       IF q = p THEN GrantedCounts(stats[p], req.cmd, flushers, sharers)
       ELSE Bump(stats[q], SnoopCounts(req.cmd, Held(q, i, tag)) \cup
                           FlushCounts(req.cmd, Held(q, i, tag)))]
  /\ pc' = "loop"
  /\ UNCHANGED <<turn, cycle, remaining>>

-------------------------------------------------------------------------------
Next ==
  \/ \E p \in Procs, op \in TraceOps, b \in Blocks : Dispatch(p, op, b)
  \/ Tick \/ Exit \/ Done
  \/ \E p \in Procs : TickServiced(p) \/ TickIdle(p) \/ TickHandles(p)
  \/ BusWaits \/ BusFinish \/ BusIdle
  \/ \E p \in Procs : BusGrant(p)

(* main's loop runs until it returns: the one thread is never held up.         *)
Spec == Init /\ [][Next]_vars /\ WF_vars(Next)

-------------------------------------------------------------------------------
(* Properties                                                                  *)

Job == [op : Ops, block : Blocks]
Req == [cmd : Commands, block : Blocks, cost : Nat]
Ctl == [pending : Seq(Job), job : Job \cup {NoJob}, busy : BOOLEAN,
        haveBusRequest : BOOLEAN, serviced : BOOLEAN, start : Nat, cost : Nat,
        req : Req \cup {NoReq}]
Line == [tag : Nat, state : ProtocolStates, lastUsed : Nat]

ControlTyped ==
  /\ pc \in {"loop", "caches", "bus", "done"}
  /\ turn \in Procs /\ cycle \in Nat /\ remaining \in 0..TraceLength
  /\ ctl \in [Procs -> Ctl]
  /\ bus \in [inUse : BOOLEAN, current : Procs \cup {-1}, isShared : BOOLEAN, endCycle : Nat]

(* Type correctness of the whole machine.                                      *)
TypeOK ==
  /\ ControlTyped
  /\ lines \in [Procs -> [Sets -> [Ways -> Line]]]
  /\ stats \in [Procs -> [Counters -> Nat]]

(* The handshake between main, the caches and the bus.  One job is under way   *)
(* in the whole machine at a time.  A cache is being served exactly when the   *)
(* bus is in use on its behalf; then it is busy and its request stands.  And a *)
(* request never waits for the bus at the start of a cycle, when the cache     *)
(* would take its own stale deadline (Cache::tick) for the end of the job.     *)
Engaged(p) == ctl[p].busy \/ ctl[p].pending # <<>>

Handshake ==
  /\ \A p, q \in Procs : Engaged(p) /\ Engaged(q) => p = q
  /\ \A p \in Procs :
       /\ Len(ctl[p].pending) <= 1
       /\ ctl[p].pending # <<>> => pc = "caches" /\ turn <= p /\ ~ctl[p].busy
       /\ ctl[p].serviced <=> bus.inUse /\ bus.current = p
       /\ ctl[p].serviced => ctl[p].haveBusRequest
       /\ ctl[p].haveBusRequest =>
            /\ ctl[p].busy
            /\ ctl[p].req.block = ctl[p].job.block
            /\ ctl[p].serviced \/ pc = "bus" \/ (pc = "caches" /\ p < turn)
  /\ bus.inUse => bus.current \in Procs

(* Every set keeps its representation invariant: getLine finds the line that   *)
(* hasLine saw, every valid line lies in the set of its tag, and every line's  *)
(* last use is in the past.                                                    *)
SetsSound ==
  \A p \in Procs, i \in Sets :
    /\ NoShadow(lines[p][i])
    /\ \A w \in Ways : /\ Valid(lines[p][i][w]) => SetOf(lines[p][i][w].tag) = i
                       /\ lines[p][i][w].lastUsed <= cycle

(* The bus is held for at least a hit's time and at most two memory accesses:  *)
(* the manager's subtractions never carry the end before the start (and around *)
(* 2^64), and its additions stay within one flush.                             *)
BusHoldBounded ==
  bus.inUse => LET start == ctl[bus.current].start
               IN start < bus.endCycle /\ bus.endCycle <= start + 2 * MemCost

(* Under the invalidation protocols every access is counted exactly once: a    *)
(* read is a read hit or a miss, and a write is a hit, an upgrade of a shared  *)
(* line or a miss, a miss being counted by busJobDone when its line arrives.   *)
MissInFlight(p) ==
  IF /\ ctl[p].haveBusRequest /\ ctl[p].job.op = "W"
     /\ Held(p, SetOf(ctl[p].job.block), ctl[p].job.block) = "invalid"
  THEN 1 ELSE 0

AccessesCounted ==
  \A p \in Procs :
    LET c == stats[p] IN
    /\ c.numReads = c.numReadHits + c.numMiss
    /\ c.numWrites + c.numReadHits =
         c.numHit + c.numWriteShared + c.numWriteMisses + MissInFlight(p)

(* Dragon counts no read hit anywhere, so its reads do not add up; every write *)
(* is a hit or a miss, and a read at most one miss.  But every miss has been   *)
(* to the bus or is on its way there, once for a read and at most twice for a  *)
(* write, and a hit at most once: the bus manager has granted no request too   *)
(* many and none twice, the second requests of busJobDone included.            *)
RequestsMade(p) ==
  stats[p].numBusRequests +
    (IF ctl[p].haveBusRequest /\ ~ctl[p].serviced THEN 1 ELSE 0)

DragonRequestsCounted ==
  \A p \in Procs :
    LET c == stats[p] IN
    /\ c.numReadMisses <= c.numReads
    /\ c.numWrites = c.numHit + c.numWriteMisses
    /\ c.numReadMisses + c.numWriteMisses <= RequestsMade(p)
    /\ RequestsMade(p) <= c.numReadMisses + 2 * c.numWriteMisses + c.numHit

(* CacheStats.h counts "issued BusRdX transactions" in numBusReadX: outside a  *)
(* transaction, the writes that did not hit by themselves are those it counts. *)
(* MSI counts them in the bus manager's tick; MESI only those that flush.      *)
BusRdXCounted ==
  \A p \in Procs :
    ~ctl[p].haveBusRequest =>
      stats[p].numWrites + stats[p].numReadHits = stats[p].numHit + stats[p].numBusReadX

(* A transfer from or to memory is counted in three places: a flush by the     *)
(* snooping cache, and by the bus manager for the flushing cache and for the   *)
(* requester; a fetch by busJobDone.  Under MSI every transaction fetches once,*)
(* so over all caches the uses of memory are the flushes and the transactions  *)
(* that have ended, and every flush is a write-back.                           *)
Total(counter) == SumFunction([p \in Procs |-> stats[p][counter]])

MemoryUsesCounted ==
  /\ Total("numMainMemoryUses") + (IF bus.inUse THEN 1 ELSE 0) =
       Total("numFlush") + Total("numBusRequests")
  /\ Total("numWriteBacks") = Total("numFlush")

(* The trace is finished: every transaction ends, every job ends, main returns.*)
Termination == <>(pc = "done")

-------------------------------------------------------------------------------
(* The simulator implements Coherence: forget the clock, the ways, the         *)
(* counters and the queue, and read the transaction off the control fields.    *)
AbstractLines == [p \in Procs |-> [b \in Blocks |-> Held(p, SetOf(b), b)]]

AbstractTxns ==
  {[stage  |-> IF ctl[p].serviced THEN "granted" ELSE "requested",
    proc   |-> p, op |-> ctl[p].job.op, block |-> ctl[p].req.block,
    cmd    |-> ctl[p].req.cmd,
    shared |-> ctl[p].serviced /\ bus.isShared] : p \in Requesters}

Abstract == INSTANCE Coherence WITH st <- AbstractLines, txns <- AbstractTxns

(* Every step of the machine is a step of the protocol or changes none of its  *)
(* state.                                                                      *)
ImplementsCoherence == Abstract!Spec
===============================================================================
