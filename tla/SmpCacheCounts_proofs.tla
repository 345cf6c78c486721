----------------------- MODULE SmpCacheCounts_proofs -----------------------
(* For every machine and trace: the invalidation protocols count every access  *)
(* once, and MSI the BusRdX transactions and the uses of memory too; Dragon's  *)
(* requests are those of its misses and shared writes; and the bus is held no  *)
(* longer than two memory accesses.                                            *)
EXTENDS SmpCacheRefinement_proofs

-------------------------------------------------------------------------------
(* The counters of one cache                                                   *)

(* AccessesCounted of one cache's counters, with so many misses in flight, ... *)
Balanced(c, misses) ==
  IF Protocol = "DRAGON" THEN c.numWrites = c.numHit + c.numWriteMisses
  ELSE /\ c.numReads = c.numReadHits + c.numMiss
       /\ c.numWrites + c.numReadHits =
            c.numHit + c.numWriteShared + c.numWriteMisses + misses

(* ... and BusRdXCounted, with so many writes.                                 *)
BalancedRdX(c, writes) ==
  Protocol = "MSI" => c.numWrites + c.numReadHits = c.numHit + c.numBusReadX + writes

Accounted(c, misses, writes) == Balanced(c, misses) /\ BalancedRdX(c, writes)

(* The counters these speak of.                                                *)
Accounts == {"numReads", "numReadHits", "numMiss", "numWrites", "numHit",
             "numWriteShared", "numWriteMisses"}

(* Counters that agree on those are balanced together.                         *)
LEMMA SameAccounts ==
  ASSUME NEW c, NEW d, NEW misses, NEW writes, Accounted(c, misses, writes),
         \A a \in Accounts : d[a] = c[a],
         Protocol = "MSI" => d.numBusReadX = c.numBusReadX
  PROVE  Accounted(d, misses, writes)
BY DEF Accounted, Balanced, BalancedRdX, Accounts

(* Bump adds one to the counters named, and to no other.                       *)
LEMMA BumpAdds ==
  ASSUME NEW counts, NEW added, NEW c \in Counters
  PROVE  Bump(counts, added)[c] = counts[c] + (IF c \in added THEN 1 ELSE 0)
BY DEF Bump

(* Those are counters.                                                         *)
LEMMA AccountsAreCounters == Accounts \subseteq Counters /\ "numBusReadX" \in Counters
BY DEF Accounts, Counters

(* A job is counted when it is taken: as a hit, an upgrade or a read miss at   *)
(* once, and otherwise it is in flight.                                        *)
LEMMA RequestBalances ==
  ASSUME NEW counts \in [Counters -> Nat], Accounted(counts, 0, 0),
         NEW op \in {"R", "W"}, NEW s \in ProtocolStates,
         NEW misses, misses = IF op = "W" /\ s = "invalid" THEN 1 ELSE 0,
         NEW writes, writes = IF op = "W" /\ Decision(op, s) # "hit" THEN 1 ELSE 0
  PROVE  Accounted(Bump(counts, RequestCounts(op, s)), misses, writes)
<1> DEFINE n(a) == IF a \in RequestCounts(op, s) THEN 1 ELSE 0
           new == Bump(counts, RequestCounts(op, s))
<1>1. \A a \in Counters : new[a] = counts[a] + n(a) /\ counts[a] \in Nat
  BY BumpAdds
<1>2. /\ n("numBusReadX") = 0
      /\ n("numWrites") = IF op = "W" THEN 1 ELSE 0
      /\ n("numReads") = IF op = "R" THEN 1 ELSE 0
      /\ op = "R" => n("numWriteShared") = 0 /\ n("numWriteMisses") = 0
      /\ op = "W" => n("numReadHits") = 0 /\ n("numMiss") = 0
  BY ProtocolAssumption DEF RequestCounts, ReadCounts, WriteCounts
<1>3. /\ op = "R" /\ Protocol # "DRAGON" => /\ n("numReadHits") + n("numMiss") = 1
                                            /\ n("numReadHits") = n("numHit")
      /\ op = "R" /\ Protocol = "DRAGON" => n("numHit") = 0
  BY ProtocolAssumption DEF RequestCounts, ReadCounts
<1>4. op = "W" /\ Protocol = "DRAGON" => n("numHit") + n("numWriteMisses") = 1
  BY DEF RequestCounts, WriteCounts, ProtocolStates
<1>5. op = "W" /\ Protocol # "DRAGON" =>
        n("numHit") + n("numWriteShared") + n("numWriteMisses") + misses = 1
  BY ProtocolAssumption DEF RequestCounts, WriteCounts, ProtocolStates
<1>6. op = "W" /\ Protocol = "MSI" => n("numHit") + writes = 1
  BY DEF RequestCounts, WriteCounts, ProtocolStates, Decision, WriteHitStates
<1>7. \A a \in Counters : n(a) \in {0, 1}
  OBVIOUS
<1>8. op = "R" => misses = 0 /\ writes = 0
  OBVIOUS
<1>9. misses \in {0, 1} /\ writes \in {0, 1}
  OBVIOUS
<1> HIDE DEF n, new
<1>10. Balanced(new, misses)
  BY <1>1, <1>2, <1>3, <1>4, <1>5, <1>7, <1>8, <1>9, AccountsAreCounters
     DEF Accounted, Balanced, Accounts
<1>11. BalancedRdX(new, writes)
  BY <1>1, <1>2, <1>3, <1>6, <1>7, <1>8, <1>9, AccountsAreCounters
     DEF Accounted, BalancedRdX, Accounts
<1> QED BY <1>10, <1>11 DEF new, Accounted

(* The end of a transaction counts the miss that was in flight, and under MSI  *)
(* its BusRdX.                                                                 *)
LEMMA DoneBalances ==
  ASSUME NEW counts \in [Counters -> Nat], NEW op, NEW cmd, NEW shared,
         NEW installed \in BOOLEAN, NEW s,
         NEW misses, misses = IF op = "W" /\ installed THEN 1 ELSE 0,
         NEW writes, writes = IF op = "W" THEN 1 ELSE 0,
         Protocol = "MSI" => (cmd = "BusRdX" <=> op = "W"),
         Accounted(counts, misses, writes)
  PROVE  Accounted(Bump(counts, DoneCounts(op, cmd, shared, installed, s)), 0, 0)
<1> DEFINE added == DoneCounts(op, cmd, shared, installed, s)
           n(a) == IF a \in added THEN 1 ELSE 0
           new == Bump(counts, added)
<1>1. \A a \in Counters : new[a] = counts[a] + n(a) /\ counts[a] \in Nat
  BY BumpAdds
<1>2. /\ n("numReads") = 0 /\ n("numReadHits") = 0 /\ n("numMiss") = 0
      /\ n("numWrites") = 0 /\ n("numHit") = 0 /\ n("numWriteShared") = 0
      /\ n("numWriteMisses") = IF Protocol = "DRAGON" THEN 0 ELSE misses
      /\ Protocol = "MSI" => n("numBusReadX") = writes
  BY DEF DoneCounts
<1>3. misses \in {0, 1} /\ writes \in {0, 1}
  OBVIOUS
<1> HIDE DEF n, new
<1>4. Balanced(new, 0)
  BY <1>1, <1>2, <1>3, AccountsAreCounters
     DEF Accounted, Balanced, Accounts
<1>5. BalancedRdX(new, 0)
  BY <1>1, <1>2, <1>3, AccountsAreCounters
     DEF Accounted, BalancedRdX, Accounts
<1> QED BY <1>4, <1>5 DEF new, Accounted

(* A snooping cache counts no access of its own, ...                           *)
LEMMA SnoopCountsNoAccess ==
  ASSUME NEW counts \in [Counters -> Nat], NEW cmd, NEW s, NEW misses, NEW writes,
         Accounted(counts, misses, writes)
  PROVE  Accounted(Bump(counts, SnoopCounts(cmd, s) \cup FlushCounts(cmd, s)), misses, writes)
<1> DEFINE added == SnoopCounts(cmd, s) \cup FlushCounts(cmd, s)
<1>1. added \cap (Accounts \cup {"numBusReadX"}) = {}
  BY ProtocolAssumption DEF SnoopCounts, FlushCounts, Accounts
<1> HIDE DEF added
<1>2. \A a \in Accounts \cup {"numBusReadX"} : Bump(counts, added)[a] = counts[a]
  BY <1>1, BumpAdds, AccountsAreCounters
<1> QED BY <1>2, SameAccounts DEF added

(* ... nor does the bus manager for the requester.                             *)
LEMMA GrantedCountsNoAccess ==
  ASSUME NEW counts \in [Counters -> Nat], NEW cmd, NEW f, NEW h, NEW misses, NEW writes,
         Accounted(counts, misses, writes), Cardinality(f) \in Nat
  PROVE  Accounted(GrantedCounts(counts, cmd, f, h), misses, writes)
<1>1. \A a \in Accounts : GrantedCounts(counts, cmd, f, h)[a] = counts[a]
  BY AccountsAreCounters DEF GrantedCounts, Accounts
<1>2. Protocol = "MSI" => GrantedCounts(counts, cmd, f, h).numBusReadX = counts.numBusReadX
  BY AccountsAreCounters DEF GrantedCounts
<1> QED BY <1>1, <1>2, SameAccounts

-------------------------------------------------------------------------------
(* The invariant                                                               *)

WriteInFlight(p) == IF ctl[p].haveBusRequest /\ ctl[p].job.op = "W" THEN 1 ELSE 0

CountsInv == \A p \in Procs : Accounted(stats[p], MissInFlight(p), WriteInFlight(p))

(* What a request may cost: handleRequest's costs, and that of Dragon's second *)
(* request.                                                                    *)
StandingCosts ==
  CASE Protocol = "MSI"    -> {MemCost}
    [] Protocol = "MESI"   -> {CacheCost, MemCost}
    [] Protocol = "DRAGON" -> {HitCost, CacheCost}
    [] Protocol = "MOESI"  -> Nat

(* A request that stands is that of its job, at one of those costs.            *)
RequestFits ==
  \A p \in Procs :
    ctl[p].haveBusRequest =>
      /\ ctl[p].job.op \in {"R", "W"}
      /\ Protocol # "DRAGON" => (ctl[p].req.cmd = "BusRdX" <=> ctl[p].job.op = "W")
      /\ ctl[p].req.cost \in StandingCosts

-------------------------------------------------------------------------------
(* The steps that leave every request as it is                                 *)

SameRequest(p) ==
  /\ ctl'[p].haveBusRequest = ctl[p].haveBusRequest
  /\ ctl'[p].job = ctl[p].job /\ ctl'[p].req = ctl[p].req

(* A job given to a cache waits beside its request, ...                        *)
LEMMA DispatchKeepsRequests ==
  ASSUME CtlInv, NEW p \in Procs, NEW op \in TraceOps, NEW b \in Blocks, Dispatch(p, op, b)
  PROVE  \A q \in Procs : SameRequest(q)
<1> DEFINE n == Append(ctl[p].pending, [op |-> op, block |-> b])
           c == [ctl[p] EXCEPT !.pending = n]
<1>1. ctl' = [ctl EXCEPT ![p] = c]
  BY DEF Dispatch
<1>2. ctl \in [Procs -> Ctl]
  BY DEF CtlInv, ControlTyped
<1> HIDE DEF n
<1>3. c.haveBusRequest = ctl[p].haveBusRequest /\ c.job = ctl[p].job /\ c.req = ctl[p].req
  BY <1>2 DEF Ctl
<1> HIDE DEF c
<1>4. \A q \in Procs : ctl'[q] = IF q = p THEN c ELSE ctl[q]
  BY <1>1, <1>2
<1> QED BY <1>3, <1>4 DEF SameRequest

(* ... an idle cache has at most ended its job, ...                            *)
LEMMA TickIdleKeepsRequests ==
  ASSUME CtlInv, NEW p \in Procs, TickIdle(p)
  PROVE  \A q \in Procs : SameRequest(q)
<1> DEFINE n == BusyStill(p)
           c == [ctl[p] EXCEPT !.busy = n]
<1>1. ctl' = [ctl EXCEPT ![p] = c]
  BY DEF TickIdle
<1>2. ctl \in [Procs -> Ctl]
  BY DEF CtlInv, ControlTyped
<1> HIDE DEF n
<1>3. c.haveBusRequest = ctl[p].haveBusRequest /\ c.job = ctl[p].job /\ c.req = ctl[p].req
  BY <1>2 DEF Ctl
<1> HIDE DEF c
<1>4. \A q \in Procs : ctl'[q] = IF q = p THEN c ELSE ctl[q]
  BY <1>1, <1>2
<1> QED BY <1>3, <1>4 DEF SameRequest

(* ... and the bus takes the request as it stands.                             *)
LEMMA BusGrantKeepsRequests ==
  ASSUME CtlInv, NEW p \in Procs, BusGrant(p)
  PROVE  \A q \in Procs : SameRequest(q)
<1>1. PICK k : ctl' = [ctl EXCEPT ![p] =
                         [ctl[p] EXCEPT !.serviced = TRUE, !.start = cycle, !.cost = k]]
  BY DEF BusGrant
<1> DEFINE c == [ctl[p] EXCEPT !.serviced = TRUE, !.start = cycle, !.cost = k]
<1>2. ctl \in [Procs -> Ctl]
  BY DEF CtlInv, ControlTyped
<1>3. c.haveBusRequest = ctl[p].haveBusRequest /\ c.job = ctl[p].job /\ c.req = ctl[p].req
  BY <1>2 DEF Ctl
<1>4. \A q \in Procs : ctl'[q] = IF q = p THEN c ELSE ctl[q]
  BY <1>1, <1>2
<1> HIDE DEF c
<1> QED BY <1>3, <1>4 DEF SameRequest

(* Then requests that fitted fit.                                              *)
LEMMA FitsKept ==
  ASSUME RequestFits, \A q \in Procs : SameRequest(q)
  PROVE  RequestFits'
BY DEF RequestFits, SameRequest, StandingCosts

(* If no cache that waits loses or gains a line, and no access is counted, the *)
(* counters stay balanced.                                                     *)
LEMMA CountsKept ==
  ASSUME CountsInv, \A q \in Procs : SameRequest(q),
         \A q \in Procs : ctl[q].haveBusRequest => lines'[q] = lines[q],
         \A q \in Procs : \A misses, writes :
           Accounted(stats[q], misses, writes) => Accounted(stats'[q], misses, writes)
  PROVE  CountsInv'
<1>1. \A q \in Procs : MissInFlight(q)' = MissInFlight(q)
  BY DEF MissInFlight, SameRequest, Held
<1>2. \A q \in Procs : WriteInFlight(q)' = WriteInFlight(q)
  BY DEF WriteInFlight, SameRequest
<1>3. \A q \in Procs : Accounted(stats'[q], MissInFlight(q), WriteInFlight(q))
  BY DEF CountsInv
<1>4. \A q \in Procs : Accounted(stats'[q], MissInFlight(q)', WriteInFlight(q)')
  BY <1>1, <1>2, <1>3
<1> QED BY <1>4 DEF CountsInv, Accounted, Balanced, BalancedRdX

-------------------------------------------------------------------------------
(* A cache takes a job                                                         *)

(* What TickHandles does to a cache that it leaves with the control fields c,  *)
(* s being the state in which it has found the line of its job.                *)
Taken(p, c, job, s) ==
  /\ ctl' = [ctl EXCEPT ![p] = c] /\ c.job = job
  /\ job = Head(ctl[p].pending) /\ c.pending = Tail(ctl[p].pending)
  /\ \/ Decision(job.op, s) = "drop" /\ ~c.haveBusRequest /\ stats' = stats
     \/ /\ Decision(job.op, s) \in Commands \cup {"hit"}
        /\ LineState(lines'[p][SetOf(job.block)], job.block) = RequestState(job.op, s)
        /\ stats' = [stats EXCEPT ![p] = Bump(stats[p], RequestCounts(job.op, s))]
        /\ c.haveBusRequest <=> Decision(job.op, s) \in Commands
        /\ c.haveBusRequest => /\ c.req.cmd = Decision(job.op, s)
                               /\ c.req.cost \in {AsInt(k) : k \in RequestCosts(job.op, s, FALSE)}

(* TickHandles leaves the cache so, and no request stood before it.            *)
LEMMA TickHandlesTakes ==
  ASSUME CtlInv, LinesInv, NEW p \in Procs, TickHandles(p)
  PROVE  /\ \A q \in Procs : ~ctl[q].haveBusRequest
         /\ \E c : \E job \in Job, s \in ProtocolStates : Taken(p, c, job, s)
<1> DEFINE job   == Head(ctl[p].pending)
           i     == SetOf(job.block)
           set   == AfterJob(p)[i]
           s     == LineState(set, job.block)
           new   == RequestState(job.op, s)
           after == SetLineState(Touch(set, job.block, cycle), job.block, new)
           counted == Bump(stats[p], RequestCounts(job.op, s))
           rest  == Tail(ctl[p].pending)
           taken == [ctl[p] EXCEPT !.pending = rest, !.job = job, !.busy = FALSE]
           hit   == [taken EXCEPT !.busy = TRUE, !.haveBusRequest = FALSE,
                                  !.start = cycle, !.cost = HitCost]
           Asked(k, r) == [taken EXCEPT !.busy = TRUE, !.haveBusRequest = TRUE,
                                        !.cost = k, !.req = r]
           Cost(k) == [cmd |-> Decision(job.op, s), block |-> job.block, cost |-> AsInt(k)]
<1>1. /\ ~ctl[p].serviced /\ ~BusyStill(p) /\ ctl[p].pending # <<>> /\ pc = "caches"
  BY DEF TickHandles, Ticks
<1>2. /\ ctl[p] \in Ctl /\ ctl \in [Procs -> Ctl] /\ cycle \in Nat
      /\ SoundCache(AfterJob(p), cycle)
  BY AfterJobSound DEF CtlInv, ControlTyped
<1>3. job \in Job
  <2>1. ctl[p].pending \in Seq(Job) /\ ctl[p].pending # <<>>
    BY <1>1, <1>2 DEF Ctl
  <2> QED BY <2>1, HeadTailProperties
<1>4. i \in Sets
  BY <1>3, SizeAssumption, SetOfTyped DEF Job
<1>5. \A q \in Procs : ~ctl[q].haveBusRequest
  BY <1>1 DEF CtlInv, Handshake, Engaged
<1>6. AfterJob(p) \in [Sets -> [Ways -> Line]] /\ set \in [Ways -> Line] /\ NoShadow(set)
  BY <1>2, <1>4 DEF SoundCache, SoundSet
<1>7. s \in ProtocolStates
  BY <1>6, LineStateTyped
<1>8. \/ /\ Decision(job.op, s) = "drop"
         /\ ctl' = [ctl EXCEPT ![p] = taken]
         /\ stats' = stats
      \/ /\ Decision(job.op, s) = "hit"
         /\ ctl' = [ctl EXCEPT ![p] = hit]
         /\ lines' = [lines EXCEPT ![p] = [AfterJob(p) EXCEPT ![i] = after]]
         /\ stats' = [stats EXCEPT ![p] = counted]
      \/ /\ Decision(job.op, s) \in Commands
         /\ \E k \in RequestCosts(job.op, s, FALSE) :
              ctl' = [ctl EXCEPT ![p] = Asked(JobCost(p, job.op, k), Cost(k))]
         /\ lines' = [lines EXCEPT ![p] = [AfterJob(p) EXCEPT ![i] = after]]
         /\ stats' = [stats EXCEPT ![p] = counted]
  <2>1. \A flush : (flush \in IF AsksTotal(job.op, s) THEN FlushesVictim(set, job.block)
                              ELSE {FALSE}) <=> flush = FALSE
    BY NeverFull DEF FlushesVictim
  <2>2. RequestCounts(job.op, s) \cup {} = RequestCounts(job.op, s)
    OBVIOUS
  <2> HIDE DEF taken, hit
  <2>3. \/ /\ Decision(job.op, s) = "drop"
           /\ ctl' = [ctl EXCEPT ![p] = taken]
           /\ stats' = stats
        \/ /\ Decision(job.op, s) = "hit"
           /\ ctl' = [ctl EXCEPT ![p] = hit]
           /\ lines' = [lines EXCEPT ![p] = [AfterJob(p) EXCEPT ![i] = after]]
           /\ stats' = [stats EXCEPT ![p] = counted]
        \/ /\ Decision(job.op, s) \in Commands
           /\ \E flush \in IF AsksTotal(job.op, s) THEN FlushesVictim(set, job.block)
                           ELSE {FALSE} :
                /\ \E k \in RequestCosts(job.op, s, flush) :
                     ctl' = [ctl EXCEPT ![p] = Asked(JobCost(p, job.op, k), Cost(k))]
                /\ stats' = [stats EXCEPT ![p] =
                     Bump(@, RequestCounts(job.op, s) \cup (IF flush THEN {"numFlush"} ELSE {}))]
           /\ lines' = [lines EXCEPT ![p] = [AfterJob(p) EXCEPT ![i] = after]]
    BY DEF TickHandles, taken, hit
  <2> DEFINE flushes == IF AsksTotal(job.op, s) THEN FlushesVictim(set, job.block) ELSE {FALSE}
  <2> HIDE DEF set, after, i, Asked, Cost, s, job, flushes
  <2>4. CASE /\ Decision(job.op, s) \in Commands
             /\ \E flush \in flushes :
                  /\ \E k \in RequestCosts(job.op, s, flush) :
                       ctl' = [ctl EXCEPT ![p] = Asked(JobCost(p, job.op, k), Cost(k))]
                  /\ stats' = [stats EXCEPT ![p] =
                       Bump(@, RequestCounts(job.op, s) \cup (IF flush THEN {"numFlush"} ELSE {}))]
             /\ lines' = [lines EXCEPT ![p] = [AfterJob(p) EXCEPT ![i] = after]]
    BY <2>1, <2>2, <2>4 DEF flushes
  <2> QED BY <2>3, <2>4 DEF flushes
<1> HIDE DEF job
<1>8a. job = Head(ctl[p].pending) /\ rest = Tail(ctl[p].pending)
  BY DEF job
<1>9. ASSUME lines' = [lines EXCEPT ![p] = [AfterJob(p) EXCEPT ![i] = after]]
      PROVE  LineState(lines'[p][i], job.block) = new
  <2>1. ~HasLine(set, job.block) => new = "invalid"
    BY DEF LineState, RequestState
  <2> HIDE DEF new, set
  <2>2. LineState(after, job.block) = new
    BY <1>2, <1>6, <2>1, TouchAndSet
  <2> HIDE DEF after
  <2>3. lines'[p][i] = after
    BY <1>4, <1>6, <1>9 DEF LinesInv
  <2> QED BY <2>2, <2>3
<1> HIDE DEF new, counted, rest, i, set, after, s
<1>10. /\ taken.job = job /\ taken.pending = rest /\ ~taken.haveBusRequest
       /\ hit.job = job /\ hit.pending = rest /\ ~hit.haveBusRequest
       /\ \A k, r : /\ Asked(k, r).job = job /\ Asked(k, r).pending = rest
                    /\ Asked(k, r).haveBusRequest /\ Asked(k, r).req = r
  BY <1>2, <1>5 DEF Ctl
<1>11. \A k : Cost(k).cmd = Decision(job.op, s) /\ Cost(k).cost = AsInt(k)
  OBVIOUS
<1> HIDE DEF taken, hit, Asked, Cost
<1>12. CASE /\ Decision(job.op, s) = "drop"
            /\ ctl' = [ctl EXCEPT ![p] = taken]
            /\ stats' = stats
  BY <1>3, <1>5, <1>7, <1>8a, <1>10, <1>12 DEF Taken
<1>13. CASE /\ Decision(job.op, s) = "hit"
            /\ ctl' = [ctl EXCEPT ![p] = hit]
            /\ lines' = [lines EXCEPT ![p] = [AfterJob(p) EXCEPT ![i] = after]]
            /\ stats' = [stats EXCEPT ![p] = counted]
  <2>1. Taken(p, hit, job, s)
    BY <1>9, <1>8a, <1>10, <1>13 DEF Taken, new, counted, i, Commands
  <2> QED BY <1>3, <1>5, <1>7, <2>1
<1>14. CASE /\ Decision(job.op, s) \in Commands
            /\ \E k \in RequestCosts(job.op, s, FALSE) :
                 ctl' = [ctl EXCEPT ![p] = Asked(JobCost(p, job.op, k), Cost(k))]
            /\ lines' = [lines EXCEPT ![p] = [AfterJob(p) EXCEPT ![i] = after]]
            /\ stats' = [stats EXCEPT ![p] = counted]
  <2>1. PICK k \in RequestCosts(job.op, s, FALSE) :
          ctl' = [ctl EXCEPT ![p] = Asked(JobCost(p, job.op, k), Cost(k))]
    BY <1>14
  <2> DEFINE c == Asked(JobCost(p, job.op, k), Cost(k))
  <2>2. c.job = job /\ c.pending = rest /\ c.haveBusRequest /\ c.req = Cost(k)
    BY <1>10
  <2>3. /\ c.req.cmd = Decision(job.op, s)
        /\ c.req.cost \in {AsInt(n) : n \in RequestCosts(job.op, s, FALSE)}
    BY <1>11, <2>1, <2>2
  <2>4. ctl' = [ctl EXCEPT ![p] = c]
    BY <2>1
  <2>5. LineState(lines'[p][i], job.block) = new
    BY <1>9, <1>14
  <2> HIDE DEF c
  <2>6. Taken(p, c, job, s)
    BY <1>14, <1>8a, <2>2, <2>3, <2>4, <2>5 DEF Taken, new, counted, i
  <2> QED BY <1>3, <1>5, <1>7, <2>6
<1> QED BY <1>8, <1>12, <1>13, <1>14

(* handleRequest's commands and costs are those that fit.                      *)
LEMMA RequestsFit ==
  ASSUME NEW op \in Ops, NEW s \in ProtocolStates, Decision(op, s) \in Commands,
         NEW c \in {AsInt(k) : k \in RequestCosts(op, s, FALSE)}
  PROVE  /\ op \in {"R", "W"}
         /\ Protocol # "DRAGON" => (Decision(op, s) = "BusRdX" <=> op = "W")
         /\ c \in StandingCosts
<1>1. op \in {"R", "W"}
  BY DEF Decision, Commands, Ops
<1>2. Protocol # "DRAGON" => (Decision(op, s) = "BusRdX" <=> op = "W")
  BY <1>1 DEF Decision, Commands
<1>3. PICK k \in RequestCosts(op, s, FALSE) : c = AsInt(k)
  OBVIOUS
<1>4. c \in StandingCosts
  <2>1. Protocol = "MSI" => k = MemCost
    BY <1>1 DEF RequestCosts, AsksTotal, MemoryCosts, ProtocolStates
  <2>2. Protocol = "MESI" => k \in {CacheCost, MemCost}
    BY <1>1 DEF RequestCosts, AsksTotal, MemoryCosts, ProtocolStates
  <2>3. Protocol = "DRAGON" => k \in {HitCost, CacheCost}
    BY <1>1 DEF RequestCosts, AsksTotal, MemoryCosts
  <2>4. k \in {HitCost, CacheCost, MemCost} => c = k
    BY <1>3, FixedCostsFit
  <2>5. c \in Nat
    BY <1>3, CostsTyped, AsIntTyped
  <2> QED BY <2>1, <2>2, <2>3, <2>4, <2>5, ProtocolAssumption DEF StandingCosts
<1> QED BY <1>1, <1>2, <1>4

(* So the request that a cache makes fits, ...                                 *)
LEMMA TickHandlesFits ==
  ASSUME CtlInv, LinesInv, NEW p \in Procs, TickHandles(p)
  PROVE  RequestFits'
<1>0. PICK c : \E job \in Job, s \in ProtocolStates : Taken(p, c, job, s)
  BY TickHandlesTakes
<1>1. PICK job \in Job, s \in ProtocolStates : Taken(p, c, job, s)
  BY <1>0
<1>2. \A q \in Procs : ~ctl[q].haveBusRequest
  BY TickHandlesTakes
<1>3. ctl' = [ctl EXCEPT ![p] = c] /\ ctl \in [Procs -> Ctl] /\ c.job = job
  BY <1>1 DEF Taken, CtlInv, ControlTyped
<1>4. c.haveBusRequest => /\ Decision(job.op, s) \in Commands
                          /\ c.req.cmd = Decision(job.op, s)
                          /\ c.req.cost \in {AsInt(k) : k \in RequestCosts(job.op, s, FALSE)}
  BY <1>1 DEF Taken
<1>5. \A q \in Procs : ctl'[q] = IF q = p THEN c ELSE ctl[q]
  BY <1>3
<1>6. job.op \in Ops
  BY DEF Job
<1>7. ASSUME c.haveBusRequest
      PROVE  /\ job.op \in {"R", "W"}
             /\ Protocol # "DRAGON" => (c.req.cmd = "BusRdX" <=> job.op = "W")
             /\ c.req.cost \in StandingCosts
  BY <1>4, <1>6, <1>7, RequestsFit
<1>8. \A q \in Procs : ctl'[q].haveBusRequest =>
        /\ ctl'[q].job.op \in {"R", "W"}
        /\ Protocol # "DRAGON" => (ctl'[q].req.cmd = "BusRdX" <=> ctl'[q].job.op = "W")
        /\ ctl'[q].req.cost \in StandingCosts
  BY <1>2, <1>3, <1>5, <1>7
<1> QED BY <1>8 DEF RequestFits, StandingCosts

(* What the end of a transaction leaves of its request: nothing, or Dragon's   *)
(* second one.                                                                 *)
LEMMA BusFinishLeaves ==
  ASSUME CtlInv, BusFinish
  PROVE  /\ bus.current \in Procs /\ ctl[bus.current].haveBusRequest
         /\ \A q \in Procs : q # bus.current => ~ctl[q].haveBusRequest /\ ~ctl'[q].haveBusRequest
         /\ ctl'[bus.current].haveBusRequest =>
              /\ Protocol = "DRAGON"
              /\ ctl[bus.current].job.op = "W"
              /\ ctl'[bus.current].job = ctl[bus.current].job
              /\ bus.isShared
              /\ ctl'[bus.current].req.cmd = "BusRdX"
              /\ ctl'[bus.current].req.cost = CacheCost
<1> DEFINE p     == bus.current
           again == Reissues(ctl[p].job.op, bus.isShared)
           r     == IF again THEN [cmd |-> "BusRdX", block |-> ctl[p].job.block, cost |-> CacheCost]
                    ELSE ctl[p].req
           k     == IF again THEN CacheCost ELSE ctl[p].cost
           c     == [ctl[p] EXCEPT !.haveBusRequest = again, !.busy = again, !.serviced = FALSE,
                                   !.start = cycle, !.cost = k, !.req = r]
<1>1. ctl' = [ctl EXCEPT ![p] = c]
  BY Zenon DEF BusFinish
<1>2. /\ ctl \in [Procs -> Ctl] /\ p \in Procs /\ ctl[p].haveBusRequest
      /\ \A q \in Procs : q # p => ~ctl[q].haveBusRequest
  BY BusTurn DEF BusFinish, CtlInv, ControlTyped
<1>3. again => /\ Protocol = "DRAGON" /\ ctl[p].job.op = "W" /\ bus.isShared
               /\ r.cost = CacheCost /\ r.cmd = "BusRdX"
  BY DEF Reissues
<1> HIDE DEF again, r, k, p
<1>4. c.haveBusRequest = again /\ c.job = ctl[p].job /\ c.req = r
  BY <1>2 DEF Ctl
<1> HIDE DEF c
<1>5. \A q \in Procs : ctl'[q] = IF q = p THEN c ELSE ctl[q]
  BY <1>1, <1>2
<1> QED BY <1>2, <1>3, <1>4, <1>5 DEF p

(* So Dragon's second request fits, ...                                        *)
LEMMA BusFinishFits ==
  ASSUME CtlInv, RequestFits, BusFinish
  PROVE  RequestFits'
<1>1. Protocol = "DRAGON" => CacheCost \in StandingCosts
  BY DEF StandingCosts
<1>2. \A q \in Procs : ctl'[q].haveBusRequest =>
        /\ ctl'[q].job.op \in {"R", "W"}
        /\ Protocol # "DRAGON" => (ctl'[q].req.cmd = "BusRdX" <=> ctl'[q].job.op = "W")
        /\ ctl'[q].req.cost \in StandingCosts
  BY <1>1, BusFinishLeaves
<1> QED BY <1>2 DEF RequestFits, StandingCosts

(* ... and every step keeps the requests fitting.                              *)
LEMMA NextFits ==
  ASSUME CtlInv, LinesInv, RequestFits, [Next]_vars
  PROVE  RequestFits'
<1>1. CASE UNCHANGED ctl
  BY <1>1, FitsKept DEF SameRequest
<1>2. ASSUME NEW p \in Procs, NEW op \in TraceOps, NEW b \in Blocks, Dispatch(p, op, b)
      PROVE  RequestFits'
  BY <1>2, DispatchKeepsRequests, FitsKept
<1>3. CASE Tick \/ Exit \/ Done \/ BusWaits \/ BusIdle
  BY <1>1, <1>3 DEF Tick, Exit, Done, BusWaits, BusIdle, vars
<1>4. ASSUME NEW p \in Procs, TickServiced(p) \/ TickIdle(p) \/ TickHandles(p)
      PROVE  RequestFits'
  BY <1>1, <1>4, TickIdleKeepsRequests, FitsKept, TickHandlesFits DEF TickServiced
<1>5. CASE BusFinish
  BY <1>5, BusFinishFits
<1>6. ASSUME NEW p \in Procs, BusGrant(p) PROVE RequestFits'
  BY <1>6, BusGrantKeepsRequests, FitsKept
<1> QED BY <1>1, <1>2, <1>3, <1>4, <1>5, <1>6 DEF Next, vars

-------------------------------------------------------------------------------
(* Each step keeps the counters balanced                                       *)

(* A job is counted when it is taken, and in flight if its line is.            *)
LEMMA TickHandlesCounts ==
  ASSUME CtlInv, LinesInv, StatsTyped, CountsInv, NEW p \in Procs, TickHandles(p)
  PROVE  CountsInv'
<1>0. PICK c : \E job \in Job, s \in ProtocolStates : Taken(p, c, job, s)
  BY TickHandlesTakes
<1>1. PICK job \in Job, s \in ProtocolStates : Taken(p, c, job, s)
  BY <1>0
<1>2. \A q \in Procs : ~ctl[q].haveBusRequest
  BY TickHandlesTakes
<1>3. /\ ctl' = [ctl EXCEPT ![p] = c] /\ ctl \in [Procs -> Ctl] /\ c.job = job
      /\ stats[p] \in [Counters -> Nat] /\ stats \in [Procs -> [Counters -> Nat]]
  BY <1>1 DEF Taken, CtlInv, ControlTyped, StatsTyped
<1>4. \A q \in Procs : ctl'[q] = IF q = p THEN c ELSE ctl[q]
  BY <1>3
<1>5. \A q \in Procs : Accounted(stats[q], 0, 0)
  <2>1. \A q \in Procs : MissInFlight(q) = 0 /\ WriteInFlight(q) = 0
    BY <1>2 DEF MissInFlight, WriteInFlight
  <2> QED BY <2>1 DEF CountsInv
<1> DEFINE misses == IF c.haveBusRequest /\ job.op = "W"
                        /\ LineState(lines'[p][SetOf(job.block)], job.block) = "invalid"
                     THEN 1 ELSE 0
           writes == IF c.haveBusRequest /\ job.op = "W" THEN 1 ELSE 0
<1>6. MissInFlight(p)' = misses /\ WriteInFlight(p)' = writes
  <2>1. ctl'[p] = c /\ ctl'[p].job = job
    BY <1>3, <1>4
  <2> QED BY <2>1 DEF MissInFlight, WriteInFlight, Held
<1>7. \A q \in Procs : q # p => MissInFlight(q)' = 0 /\ WriteInFlight(q)' = 0
  BY <1>2, <1>4 DEF MissInFlight, WriteInFlight
<1>8. \A q \in Procs : q # p => stats'[q] = stats[q]
  BY <1>1, <1>3 DEF Taken
<1>9. Accounted(stats'[p], misses, writes)
  <2>1. CASE Decision(job.op, s) = "drop"
    <3>1. ~c.haveBusRequest /\ stats' = stats
      BY <1>1, <2>1 DEF Taken, Commands
    <3> QED BY <1>5, <3>1
  <2>2. CASE Decision(job.op, s) \in Commands \cup {"hit"}
    <3>1. job.op \in {"R", "W"}
      BY <2>2 DEF Decision, Commands, Job, Ops
    <3>2. /\ c.haveBusRequest <=> Decision(job.op, s) # "hit"
          /\ stats'[p] = Bump(stats[p], RequestCounts(job.op, s))
          /\ LineState(lines'[p][SetOf(job.block)], job.block) = RequestState(job.op, s)
      BY <1>1, <1>3, <2>2 DEF Taken, Commands
    <3>3. job.op = "W" => (RequestState(job.op, s) = "invalid" <=> s = "invalid")
      BY DEF RequestState
    <3>4. s = "invalid" => Decision(job.op, s) # "hit"
      BY <3>1 DEF Decision, ReadHitStates, WriteHitStates
    <3>5. misses = IF job.op = "W" /\ s = "invalid" THEN 1 ELSE 0
      BY <3>2, <3>3, <3>4
    <3>6. writes = IF job.op = "W" /\ Decision(job.op, s) # "hit" THEN 1 ELSE 0
      BY <3>2
    <3> HIDE DEF misses, writes
    <3>7. Accounted(Bump(stats[p], RequestCounts(job.op, s)), misses, writes)
      BY <1>3, <1>5, <3>1, <3>5, <3>6, RequestBalances
    <3> QED BY <3>2, <3>7
  <2> QED BY <1>1, <2>1, <2>2 DEF Taken
<1> HIDE DEF misses, writes
<1>10. \A q \in Procs : Accounted(stats'[q], MissInFlight(q)', WriteInFlight(q)')
  BY <1>5, <1>6, <1>7, <1>8, <1>9
<1> QED BY <1>10 DEF CountsInv, Accounted, Balanced, BalancedRdX

(* A write miss is counted when its line arrives.                              *)
LEMMA BusFinishCounts ==
  ASSUME CtlInv, LinesInv, StatsTyped, RequestFits, CountsInv, BusFinish
  PROVE  CountsInv'
<1> DEFINE p     == bus.current
           op    == ctl[p].job.op
           block == ctl[p].job.block
           old   == lines[p][SetOf(block)]
           new   == ~HasLine(old, block)
           set   == IF new THEN ReplaceLine(old, block, cycle) ELSE old
           state == set[FirstWay(set, block)].state
           added == DoneCounts(op, ctl[p].req.cmd, bus.isShared, new, state)
<1>1. /\ p \in Procs /\ ctl[p].haveBusRequest
      /\ \A q \in Procs : q # p => ~ctl[q].haveBusRequest /\ ~ctl'[q].haveBusRequest
      /\ Protocol # "DRAGON" => ~ctl'[p].haveBusRequest
      /\ ctl'[p].haveBusRequest => op = "W"
  BY BusFinishLeaves
<1>2. stats' = [stats EXCEPT ![p] = Bump(stats[p], added)]
  <2>1. stats' = [stats EXCEPT ![p] = Bump(@, added \cup {})]
    BY NeverFull DEF BusFinish
  <2>2. added \cup {} = added
    OBVIOUS
  <2> HIDE DEF added
  <2> QED BY <2>1, <2>2
<1>3. LineState(old, block) = "invalid" <=> new
  <2>1. NoShadow(old)
    <3>1. ctl[p].job \in Job \cup {NoJob}
      BY <1>1 DEF CtlInv, ControlTyped, Ctl
    <3>2. block \in Nat
      <4>1. CASE ctl[p].job \in Job
        BY <4>1, SizeAssumption DEF Job
      <4>2. CASE ctl[p].job = NoJob
        BY <4>2 DEF NoJob
      <4> QED BY <3>1, <4>1, <4>2
    <3>3. SetOf(block) \in Sets
      BY <3>2, SetOfTyped
    <3> QED BY <1>1, <3>3 DEF LinesInv, SoundCache, SoundSet
  <2> QED BY <2>1, LookupFindsValid DEF LineState, Valid
<1>4. Protocol = "MSI" => (ctl[p].req.cmd = "BusRdX" <=> op = "W")
  BY <1>1 DEF RequestFits
<1>5. /\ MissInFlight(p) = IF op = "W" /\ new THEN 1 ELSE 0
      /\ WriteInFlight(p) = IF op = "W" THEN 1 ELSE 0
  BY <1>1, <1>3 DEF MissInFlight, WriteInFlight, Held
<1>6. new \in BOOLEAN
  BY DEF HasLine
<1>7. /\ Accounted(stats[p], MissInFlight(p), WriteInFlight(p))
      /\ stats[p] \in [Counters -> Nat] /\ stats \in [Procs -> [Counters -> Nat]]
  BY <1>1 DEF CountsInv, StatsTyped
<1> HIDE DEF new, state, op, block
<1>8. Accounted(Bump(stats[p], added), 0, 0)
  <2> DEFINE m == MissInFlight(p)
             n == WriteInFlight(p)
  <2>1. /\ m = IF op = "W" /\ new THEN 1 ELSE 0
        /\ n = IF op = "W" THEN 1 ELSE 0
        /\ Accounted(stats[p], m, n)
    BY <1>5, <1>7
  <2> HIDE DEF m, n
  <2> QED BY <1>4, <1>6, <1>7, <2>1, DoneBalances
<1> HIDE DEF added
<1>9. \A q \in Procs : q # p => stats'[q] = stats[q]
  BY <1>2, <1>7
<1>10. \A q \in Procs : q # p => Accounted(stats'[q], MissInFlight(q)', WriteInFlight(q)')
  <2> SUFFICES ASSUME NEW q \in Procs, q # p
               PROVE  Accounted(stats'[q], MissInFlight(q)', WriteInFlight(q)')
    OBVIOUS
  <2>1. /\ MissInFlight(q)' = 0 /\ WriteInFlight(q)' = 0
        /\ MissInFlight(q) = 0 /\ WriteInFlight(q) = 0
    BY <1>1 DEF MissInFlight, WriteInFlight
  <2> QED BY <1>9, <2>1 DEF CountsInv
<1>11. ASSUME NEW q \in Procs, q = p
       PROVE  Accounted(stats'[q], MissInFlight(q)', WriteInFlight(q)')
  <2>1. Accounted(stats'[q], 0, 0)
    BY <1>2, <1>7, <1>8, <1>11
  <2>2. CASE Protocol # "DRAGON"
    <3>1. MissInFlight(q)' = 0 /\ WriteInFlight(q)' = 0
      BY <1>1, <1>11, <2>2 DEF MissInFlight, WriteInFlight
    <3> QED BY <2>1, <3>1
  <2>3. CASE Protocol = "DRAGON"
    BY <2>1, <2>3 DEF Accounted, Balanced, BalancedRdX
  <2> QED BY <2>2, <2>3
<1> QED BY <1>10, <1>11 DEF CountsInv, Accounted, Balanced, BalancedRdX

(* A grant changes the lines of the caches that do not wait, and counts no     *)
(* access.                                                                     *)
LEMMA BusGrantCounts ==
  ASSUME CtlInv, StatsTyped, CountsInv, NEW p \in Procs, BusGrant(p)
  PROVE  CountsInv'
<1> DEFINE i        == SetOf(ctl[p].req.block)
           tag      == WireTag(ctl[p].req.block)
           cmd      == ctl[p].req.cmd
           f        == {q \in Procs \ {p} : Flushes(Held(q, i, tag))}
           h        == {q \in Procs \ {p} : AnswersShared(Held(q, i, tag))}
           Added(q) == SnoopCounts(cmd, Held(q, i, tag)) \cup FlushCounts(cmd, Held(q, i, tag))
           Snooped(q) == [lines[q] EXCEPT ![i] = SetLineState(Touch(@, tag, cycle), tag,
                                                   SnoopState(cmd, Held(q, i, tag)))]
<1>1. stats' = [q \in Procs |-> IF q = p THEN GrantedCounts(stats[p], cmd, f, h)
                                ELSE Bump(stats[q], Added(q))]
  BY DEF BusGrant
<1>2. lines' = [q \in Procs |-> IF q = p THEN lines[p] ELSE Snooped(q)]
  BY DEF BusGrant
<1>3. \A q \in Procs : SameRequest(q)
  BY BusGrantKeepsRequests
<1>4. \A q \in Procs : q # p => ~ctl[q].haveBusRequest
  <2>1. pc = "bus" /\ ctl[p].haveBusRequest
    BY DEF BusGrant, Requesters
  <2> QED BY <2>1, BusTurn
<1>5. Cardinality(f) \in Nat /\ \A q \in Procs : stats[q] \in [Counters -> Nat]
  BY ProcsFacts DEF StatsTyped
<1>6. \A q \in Procs : \A m, n :
        Accounted(stats[q], m, n) => Accounted(Bump(stats[q], Added(q)), m, n)
  BY <1>5, SnoopCountsNoAccess
<1> HIDE DEF f, h, Added, Snooped, cmd
<1>7. \A m, n : Accounted(stats[p], m, n) => Accounted(GrantedCounts(stats[p], cmd, f, h), m, n)
  BY <1>5, GrantedCountsNoAccess
<1>8. \A q \in Procs : \A m, n : Accounted(stats[q], m, n) => Accounted(stats'[q], m, n)
  BY <1>1, <1>6, <1>7
<1>9. \A q \in Procs : ctl[q].haveBusRequest => lines'[q] = lines[q]
  BY <1>2, <1>4
<1> QED BY <1>3, <1>8, <1>9, CountsKept

(* A finished job's touch happens to a cache that does not wait for the bus.   *)
LEMMA TickIdleCounts ==
  ASSUME CtlInv, LinesInv, CountsInv, NEW p \in Procs, TickIdle(p)
  PROVE  CountsInv'
<1>1. lines' = [lines EXCEPT ![p] = AfterJob(p)] /\ stats' = stats /\ Ticks(p)
      /\ ~ctl[p].serviced
  BY DEF TickIdle
<1>2. ~ctl[p].haveBusRequest
  BY <1>1, NotWaiting
<1>3. \A q \in Procs : ctl[q].haveBusRequest => lines'[q] = lines[q]
  BY <1>1, <1>2 DEF LinesInv
<1> QED BY <1>1, <1>3, TickIdleKeepsRequests, CountsKept

(* Every step keeps the counters balanced.                                     *)
LEMMA NextCounts ==
  ASSUME SmpInv, RequestFits, CountsInv, [Next]_vars
  PROVE  CountsInv'
<1> USE DEF SmpInv
<1>1. ASSUME UNCHANGED <<ctl, lines, stats>> PROVE CountsInv'
  BY <1>1, CountsKept DEF SameRequest
<1>2. ASSUME NEW p \in Procs, NEW op \in TraceOps, NEW b \in Blocks, Dispatch(p, op, b)
      PROVE  CountsInv'
  <2>1. lines' = lines /\ stats' = stats
    BY <1>2 DEF Dispatch
  <2> QED BY <1>2, <2>1, DispatchKeepsRequests, CountsKept
<1>3. CASE UNCHANGED vars \/ Tick \/ Exit \/ Done \/ BusWaits \/ BusIdle
  BY <1>1, <1>3 DEF Tick, Exit, Done, BusWaits, BusIdle, vars
<1>4. ASSUME NEW p \in Procs, TickServiced(p) PROVE CountsInv'
  BY <1>1, <1>4 DEF TickServiced
<1>5. ASSUME NEW p \in Procs, TickIdle(p) PROVE CountsInv'
  BY <1>5, TickIdleCounts
<1>6. ASSUME NEW p \in Procs, TickHandles(p) PROVE CountsInv'
  BY <1>6, TickHandlesCounts
<1>7. CASE BusFinish
  BY <1>7, BusFinishCounts
<1>8. ASSUME NEW p \in Procs, BusGrant(p) PROVE CountsInv'
  BY <1>8, BusGrantCounts
<1> QED BY <1>2, <1>3, <1>4, <1>5, <1>6, <1>7, <1>8 DEF Next

-------------------------------------------------------------------------------
(* The counters, for every machine                                             *)

AccountInv == SmpInv /\ RequestFits /\ CountsInv

(* They are balanced at first, ...                                             *)
LEMMA InitAccountInv == Init => AccountInv
<1> SUFFICES ASSUME Init PROVE AccountInv
  OBVIOUS
<1>1. \A p \in Procs : ~ctl[p].haveBusRequest /\ stats[p] = ZeroCounters
  BY DEF Init
<1>2. RequestFits
  BY <1>1 DEF RequestFits
<1>3. Accounted(ZeroCounters, 0, 0)
  BY DEF Accounted, Balanced, BalancedRdX, ZeroCounters, Counters
<1>4. CountsInv
  BY <1>1, <1>3 DEF CountsInv, MissInFlight, WriteInFlight
<1> QED BY <1>2, <1>4, InitSmpInv DEF AccountInv

(* ... and with the machine's own invariant they stay so.                      *)
LEMMA NextAccountInv == AccountInv /\ [Next]_vars => AccountInv'
BY NextSmpInv, NextFits, NextCounts DEF AccountInv, SmpInv

(* Under MSI, MESI and MOESI, in every state every access of every processor   *)
(* has been counted exactly once, but for the write misses whose line has not  *)
(* arrived, whatever the replacements and the snoops in between.               *)
THEOREM InvalidationCountsEveryAccess ==
  ASSUME Protocol # "DRAGON"
  PROVE  Spec => []AccessesCounted
<1>1. AccountInv => AccessesCounted
  BY DEF AccountInv, CountsInv, Accounted, Balanced, AccessesCounted
<1> QED BY InitAccountInv, NextAccountInv, <1>1, PTL DEF Spec

(* What CacheStats.h says of numBusReadX, true of MSI: outside a transaction   *)
(* every write that did not hit by itself has been counted as a BusRdX.        *)
THEOREM BusRdXCountedUnderMSI ==
  ASSUME Protocol = "MSI"
  PROVE  Spec => []BusRdXCounted
<1>1. AccountInv => BusRdXCounted
  <2> SUFFICES ASSUME AccountInv, NEW p \in Procs, ~ctl[p].haveBusRequest
               PROVE  stats[p].numWrites + stats[p].numReadHits =
                        stats[p].numHit + stats[p].numBusReadX
    BY DEF BusRdXCounted
  <2>1. BalancedRdX(stats[p], 0)
    BY DEF AccountInv, CountsInv, Accounted, WriteInFlight
  <2>2. stats[p].numHit \in Nat /\ stats[p].numBusReadX \in Nat
    BY DEF AccountInv, SmpInv, StatsTyped, Counters
  <2> QED BY <2>1, <2>2 DEF BalancedRdX
<1> QED BY InitAccountInv, NextAccountInv, <1>1, PTL DEF Spec

-------------------------------------------------------------------------------
(* Dragon's requests                                                           *)

(* A request that waits for the bus, and a first request of a write, which may *)
(* be followed by another.                                                     *)
Standing(p) == IF ctl[p].haveBusRequest /\ ~ctl[p].serviced THEN 1 ELSE 0

MayFollow(p) ==
  IF ctl[p].haveBusRequest /\ ctl[p].job.op = "W" /\ ctl[p].req.cmd # "BusRdX" THEN 1 ELSE 0

(* DragonRequestsCounted of one cache's counters, so many requests standing    *)
(* and so many that may follow; its writes are CountsInv's.                    *)
Asks(c, standing, more) ==
  /\ c.numReadMisses <= c.numReads
  /\ c.numReadMisses + c.numWriteMisses <= c.numBusRequests + standing
  /\ c.numBusRequests + standing + more <= c.numReadMisses + 2 * c.numWriteMisses + c.numHit

AsksInv == \A p \in Procs : Asks(stats[p], Standing(p), MayFollow(p))

(* The flag that makes a write ask again is never up for an update.            *)
UpdateEnds == \A p \in Procs : ctl[p].serviced /\ ctl[p].req.cmd = "BusRdX" => ~bus.isShared

AskCounters == {"numReads", "numReadMisses", "numWriteMisses", "numHit", "numBusRequests"}

LEMMA AskCountersAreCounters == AskCounters \subseteq Counters
BY DEF AskCounters, Counters

(* A job that is taken is counted as its request is made.                      *)
LEMMA RequestAsks ==
  ASSUME Protocol = "DRAGON", NEW counts \in [Counters -> Nat], Asks(counts, 0, 0),
         NEW op \in Ops, NEW s \in ProtocolStates,
         NEW standing, standing = IF Decision(op, s) \in Commands THEN 1 ELSE 0,
         NEW more, more = IF op = "W" /\ Decision(op, s) = "BusRd" THEN 1 ELSE 0
  PROVE  Asks(Bump(counts, RequestCounts(op, s)), standing, more)
<1> DEFINE n(a) == IF a \in RequestCounts(op, s) THEN 1 ELSE 0
           new == Bump(counts, RequestCounts(op, s))
<1>1. \A a \in AskCounters : new[a] = counts[a] + n(a) /\ counts[a] \in Nat
  BY BumpAdds, AskCountersAreCounters
<1>2. n("numBusRequests") = 0
  BY DEF RequestCounts, ReadCounts, WriteCounts
<1>3. /\ n("numReadMisses") <= n("numReads")
      /\ n("numReadMisses") + n("numWriteMisses") <= standing
      /\ standing + more <= n("numReadMisses") + 2 * n("numWriteMisses") + n("numHit")
  <2>1. CASE op = "R"
    BY <2>1 DEF RequestCounts, ReadCounts, Decision, ReadHitStates, Commands
  <2>2. CASE op = "W"
    <3>1. s \in {"invalid", "modified", "exclusive", "sharedClean", "sharedDirty"}
      BY DEF ProtocolStates
    <3> QED BY <2>2, <3>1
        DEF RequestCounts, WriteCounts, Decision, WriteHitStates, Commands
  <2>3. CASE op = "other"
    BY <2>3 DEF RequestCounts, Decision, Commands
  <2> QED BY <2>1, <2>2, <2>3 DEF Ops
<1>4. \A a : n(a) \in {0, 1}
  OBVIOUS
<1>5. standing \in {0, 1} /\ more \in {0, 1}
  OBVIOUS
<1> HIDE DEF n, new
<1>6. Asks(new, standing, more)
  <2> DEFINE a == counts.numReads  b == counts.numReadMisses  c == counts.numWriteMisses
             d == counts.numHit    e == counts.numBusRequests
             na == n("numReads")  nb == n("numReadMisses")  nc == n("numWriteMisses")
             nd == n("numHit")
  <2>1. /\ a \in Nat /\ b \in Nat /\ c \in Nat /\ d \in Nat /\ e \in Nat
        /\ new.numReads = a + na /\ new.numReadMisses = b + nb /\ new.numWriteMisses = c + nc
        /\ new.numHit = d + nd /\ new.numBusRequests = e
    BY <1>1, <1>2 DEF AskCounters
  <2>2. b <= a /\ b + c <= e /\ e <= b + 2 * c + d
    BY <2>1 DEF Asks
  <2>3. na \in {0, 1} /\ nb \in {0, 1} /\ nc \in {0, 1} /\ nd \in {0, 1}
    BY <1>4
  <2>4. nb <= na /\ nb + nc <= standing /\ standing + more <= nb + 2 * nc + nd
    BY <1>3
  <2> HIDE DEF a, b, c, d, e, na, nb, nc, nd
  <2>5. /\ b + nb <= a + na /\ b + nb + (c + nc) <= e + standing
        /\ e + standing + more <= b + nb + 2 * (c + nc) + (d + nd)
    BY <1>5, <2>1, <2>2, <2>3, <2>4
  <2> QED BY <2>1, <2>5 DEF Asks
<1> QED BY <1>6 DEF new

(* Counters that agree ask for the same.                                       *)
LEMMA SameAsks ==
  ASSUME NEW c, NEW d, NEW standing, NEW more, Asks(c, standing, more),
         \A a \in AskCounters : d[a] = c[a]
  PROVE  Asks(d, standing, more)
BY DEF Asks, AskCounters

(* The end of a transaction and a snoop count none of those.                   *)
LEMMA OthersAskNothing ==
  ASSUME Protocol = "DRAGON", NEW counts \in [Counters -> Nat],
         NEW op, NEW cmd, NEW shared, NEW installed, NEW s,
         NEW added \in {DoneCounts(op, cmd, shared, installed, s),
                        SnoopCounts(cmd, s) \cup FlushCounts(cmd, s)},
         NEW standing, NEW more, Asks(counts, standing, more)
  PROVE  Asks(Bump(counts, added), standing, more)
<1>1. \A a \in AskCounters : a \notin DoneCounts(op, cmd, shared, installed, s)
  BY DEF DoneCounts, AskCounters
<1>2. \A a \in AskCounters : a \notin SnoopCounts(cmd, s) \cup FlushCounts(cmd, s)
  BY DEF SnoopCounts, FlushCounts, AskCounters
<1>3. \A a \in AskCounters : a \notin added /\ counts[a] \in Nat
  BY <1>1, <1>2, AskCountersAreCounters
<1>4. \A a \in AskCounters : Bump(counts, added)[a] = counts[a]
  BY <1>3, BumpAdds, AskCountersAreCounters
<1> QED BY <1>4, SameAsks

(* The invariant is kept where no request changes and no counter of it does.   *)
LEMMA AsksKept ==
  ASSUME AsksInv, UpdateEnds,
         \A q \in Procs : SameRequest(q) /\ (ctl'[q].serviced <=> ctl[q].serviced),
         stats' = stats, bus' = bus \/ bus'.isShared = FALSE
  PROVE  AsksInv' /\ UpdateEnds'
<1>1. \A q \in Procs : Standing(q)' = Standing(q) /\ MayFollow(q)' = MayFollow(q)
  BY DEF Standing, MayFollow, SameRequest
<1>2. AsksInv'
  BY <1>1 DEF AsksInv, Asks
<1>3. UpdateEnds'
  BY DEF UpdateEnds, SameRequest
<1> QED BY <1>2, <1>3

(* A cache takes a job: no request stood before.                               *)
LEMMA TickHandlesAsks ==
  ASSUME Protocol = "DRAGON", SmpInv, AsksInv, UpdateEnds, NEW p \in Procs, TickHandles(p)
  PROVE  AsksInv' /\ UpdateEnds'
<1> USE DEF SmpInv
<1>1. PICK c : \E job \in Job, s \in ProtocolStates : Taken(p, c, job, s)
  BY TickHandlesTakes
<1>2. PICK job \in Job, s \in ProtocolStates : Taken(p, c, job, s)
  BY <1>1
<1>3. \A q \in Procs : ~ctl[q].haveBusRequest
  BY TickHandlesTakes
<1>4. /\ ctl' = [ctl EXCEPT ![p] = c] /\ ctl \in [Procs -> Ctl] /\ c.job = job
      /\ stats \in [Procs -> [Counters -> Nat]] /\ job.op \in Ops
  BY <1>2 DEF Taken, CtlInv, ControlTyped, StatsTyped, Job
<1>5. \A q \in Procs : ctl'[q] = IF q = p THEN c ELSE ctl[q]
  BY <1>4
<1>6. \A q \in Procs : ~ctl[q].serviced /\ ~ctl'[q].serviced
  <2>1. \A q \in Procs : ~ctl[q].serviced
    BY <1>3 DEF CtlInv, Handshake
  <2>2. bus' = bus /\ CtlInv'
    BY TickHandlesStep DEF TickHandles, Ticks
  <2> QED BY <2>1, <2>2 DEF CtlInv, Handshake
<1>7. UpdateEnds'
  BY <1>6 DEF UpdateEnds
<1>8. \A q \in Procs : Asks(stats[q], 0, 0)
  <2>1. \A q \in Procs : Standing(q) = 0 /\ MayFollow(q) = 0
    BY <1>3 DEF Standing, MayFollow
  <2> QED BY <2>1 DEF AsksInv
<1>9. ASSUME NEW q \in Procs, q # p
      PROVE  Asks(stats'[q], Standing(q)', MayFollow(q)')
  <2>1. stats'[q] = stats[q] /\ Standing(q)' = 0 /\ MayFollow(q)' = 0
    BY <1>2, <1>3, <1>4, <1>5, <1>9 DEF Taken, Standing, MayFollow
  <2> QED BY <1>8, <2>1
<1>10. Asks(stats'[p], Standing(p)', MayFollow(p)')
  <2>1. CASE Decision(job.op, s) = "drop"
    <3>1. ~c.haveBusRequest /\ stats' = stats
      BY <1>2, <2>1 DEF Taken, Commands
    <3>2. Standing(p)' = 0 /\ MayFollow(p)' = 0
      BY <1>5, <3>1 DEF Standing, MayFollow
    <3> QED BY <1>8, <3>1, <3>2
  <2>2. CASE Decision(job.op, s) \in Commands \cup {"hit"}
    <3> DEFINE standing == IF Decision(job.op, s) \in Commands THEN 1 ELSE 0
               more == IF job.op = "W" /\ Decision(job.op, s) = "BusRd" THEN 1 ELSE 0
    <3>1. /\ c.haveBusRequest <=> Decision(job.op, s) \in Commands
          /\ c.haveBusRequest => c.req.cmd = Decision(job.op, s)
          /\ stats'[p] = Bump(stats[p], RequestCounts(job.op, s))
      BY <1>2, <1>4, <2>2 DEF Taken, Commands
    <3>2. Standing(p)' = standing /\ MayFollow(p)' = more
      BY <1>4, <1>5, <1>6, <3>1 DEF Standing, MayFollow, Commands
    <3> HIDE DEF standing, more
    <3>3. Asks(Bump(stats[p], RequestCounts(job.op, s)), standing, more)
      BY <1>4, <1>8, RequestAsks DEF standing, more
    <3> QED BY <3>1, <3>2, <3>3
  <2> QED BY <1>2, <2>1, <2>2 DEF Taken
<1>11. \A q \in Procs : Asks(stats'[q], Standing(q)', MayFollow(q)')
  BY <1>9, <1>10
<1> QED BY <1>7, <1>11 DEF AsksInv, Asks

(* A transaction ends: a write's second request stands in place of the one     *)
(* that might follow.                                                          *)
LEMMA BusFinishAsks ==
  ASSUME Protocol = "DRAGON", SmpInv, AsksInv, UpdateEnds, BusFinish
  PROVE  AsksInv' /\ UpdateEnds'
<1> USE DEF SmpInv
<1>0. bus.current \in Procs
  BY BusFinishLeaves
<1> PICK p \in Procs : p = bus.current
  BY <1>0
<1>1. /\ ctl[p].haveBusRequest /\ ctl[p].serviced
      /\ \A q \in Procs : q # p => ~ctl[q].haveBusRequest /\ ~ctl'[q].haveBusRequest
      /\ \A q \in Procs : ~ctl'[q].serviced
      /\ ctl'[p].haveBusRequest =>
           ctl[p].job.op = "W" /\ bus.isShared /\ ctl'[p].req.cmd = "BusRdX"
  <2>1. CtlInv' /\ bus.inUse /\ ~bus'.inUse
    BY BusFinishStep DEF BusFinish, CtlInv, ControlTyped
  <2>2. \A q \in Procs : ~ctl'[q].serviced
    BY <2>1 DEF CtlInv, Handshake
  <2>3. ctl[p].serviced
    BY <2>1 DEF CtlInv, Handshake
  <2> QED BY <2>2, <2>3, BusFinishLeaves
<1>2. PICK op, cmd, shared, installed, s :
        stats' = [stats EXCEPT ![p] = Bump(stats[p], DoneCounts(op, cmd, shared, installed, s))]
  <2>1. PICK op, cmd, shared, installed, s :
          stats' = [stats EXCEPT ![p] =
                      Bump(stats[p], DoneCounts(op, cmd, shared, installed, s) \cup {})]
    BY NeverFull DEF BusFinish
  <2>2. DoneCounts(op, cmd, shared, installed, s) \cup {}
          = DoneCounts(op, cmd, shared, installed, s)
    OBVIOUS
  <2> QED BY <2>1, <2>2
<1>3. /\ Standing(p) = 0
      /\ Standing(p)' + MayFollow(p)' <= Standing(p) + MayFollow(p)
      /\ Standing(p) <= Standing(p)'
  <2>1. CASE ctl'[p].haveBusRequest
    <3>1. ctl[p].req.cmd # "BusRdX"
      BY <1>1, <2>1 DEF UpdateEnds
    <3> QED BY <1>1, <2>1, <3>1 DEF Standing, MayFollow
  <2>2. CASE ~ctl'[p].haveBusRequest
    BY <1>1, <2>2 DEF Standing, MayFollow
  <2> QED BY <2>1, <2>2
<1>4. \A q \in Procs : q # p => /\ Standing(q) = 0 /\ MayFollow(q) = 0
                                 /\ Standing(q)' = 0 /\ MayFollow(q)' = 0
  BY <1>1 DEF Standing, MayFollow
<1>5. /\ stats \in [Procs -> [Counters -> Nat]]
      /\ \A q \in Procs : Asks(stats[q], Standing(q), MayFollow(q))
  BY DEF StatsTyped, AsksInv
<1>6. Asks(stats'[p], Standing(p), MayFollow(p))
  BY <1>1, <1>2, <1>5, OthersAskNothing
<1>7. Asks(stats'[p], Standing(p)', MayFollow(p)')
  <2> DEFINE c == stats'[p]
             new == Bump(stats[p], DoneCounts(op, cmd, shared, installed, s))
  <2>1. c = new
    BY <1>1, <1>2, <1>5
  <2>2. /\ c.numReadMisses \in Nat /\ c.numWriteMisses \in Nat /\ c.numHit \in Nat
        /\ c.numBusRequests \in Nat
    <3>1. \A a \in AskCounters : new[a] \in Nat
      BY <1>1, <1>5, BumpAdds, AskCountersAreCounters
    <3> HIDE DEF new, c
    <3> QED BY <2>1, <3>1 DEF AskCounters
  <2>3. /\ Standing(p) \in {0, 1} /\ Standing(p)' \in {0, 1}
        /\ MayFollow(p) \in {0, 1} /\ MayFollow(p)' \in {0, 1}
    BY DEF Standing, MayFollow
  <2> HIDE DEF c
  <2> QED BY <1>3, <1>6, <2>2, <2>3 DEF Asks, c
<1>8. \A q \in Procs : Asks(stats'[q], Standing(q)', MayFollow(q)')
  <2> SUFFICES ASSUME NEW q \in Procs, q # p
               PROVE  Asks(stats'[q], Standing(q)', MayFollow(q)')
    BY <1>7
  <2>1. stats'[q] = stats[q]
    BY <1>2, <1>5
  <2> QED BY <1>4, <1>5, <2>1
<1> QED BY <1>1, <1>8 DEF AsksInv, Asks, UpdateEnds

(* A request that is granted has been waiting, and nobody shares an update.    *)
LEMMA BusGrantAsks ==
  ASSUME Protocol = "DRAGON", SmpInv, AsksInv, UpdateEnds, NEW p \in Procs, BusGrant(p)
  PROVE  AsksInv' /\ UpdateEnds'
<1> USE DEF SmpInv
<1> DEFINE i        == SetOf(ctl[p].req.block)
           tag      == WireTag(ctl[p].req.block)
           cmd      == ctl[p].req.cmd
           f        == {q \in Procs \ {p} : Flushes(Held(q, i, tag))}
           h        == {q \in Procs \ {p} : AnswersShared(Held(q, i, tag))}
           Added(q) == SnoopCounts(cmd, Held(q, i, tag)) \cup FlushCounts(cmd, Held(q, i, tag))
<1>1. stats' = [q \in Procs |-> IF q = p THEN GrantedCounts(stats[p], cmd, f, h)
                                ELSE Bump(stats[q], Added(q))]
  BY DEF BusGrant
<1>2. \A q \in Procs : SameRequest(q)
  BY BusGrantKeepsRequests
<1>3. /\ pc = "bus" /\ ~bus.inUse /\ ctl[p].haveBusRequest
      /\ \A q \in Procs : ~ctl[q].serviced
      /\ \A q \in Procs : q # p => ~ctl[q].haveBusRequest
  <2>1. pc = "bus" /\ ~bus.inUse /\ ctl[p].haveBusRequest
    BY DEF BusGrant, Requesters
  <2> QED BY <2>1, BusTurn
<1>4. bus'.inUse /\ bus'.current = p /\ (cmd = "BusRdX" => ~bus'.isShared)
  <2>1. \A s : ~MarksShared("BusRdX", s)
    BY DEF MarksShared, Supplies, RaisesShared
  <2> QED BY <2>1 DEF BusGrant
<1>5. \A q \in Procs : ctl'[q].serviced <=> q = p
  <2>1. CtlInv'
    BY BusGrantStep
  <2> QED BY <1>4, <2>1 DEF CtlInv, Handshake
<1>6. UpdateEnds'
  BY <1>2, <1>4, <1>5 DEF UpdateEnds, SameRequest
<1>7. \A q \in Procs : stats[q] \in [Counters -> Nat] /\ Asks(stats[q], Standing(q), MayFollow(q))
  BY DEF StatsTyped, AsksInv
<1>8. Asks(stats'[p], Standing(p)', MayFollow(p)')
  <2>1. Standing(p) = 1 /\ Standing(p)' = 0 /\ MayFollow(p)' = MayFollow(p)
    BY <1>2, <1>3, <1>5 DEF Standing, MayFollow, SameRequest
  <2>2. stats'[p] = GrantedCounts(stats[p], cmd, f, h)
    BY <1>1
  <2> HIDE DEF f, h
  <2>3. /\ stats'[p].numBusRequests = stats[p].numBusRequests + 1
        /\ \A a \in {"numReads", "numReadMisses", "numWriteMisses", "numHit"} :
             stats'[p][a] = stats[p][a]
    BY <1>7, <2>2 DEF GrantedCounts, Counters
  <2>4. /\ stats[p].numBusRequests \in Nat /\ MayFollow(p) \in Nat
        /\ \A a \in {"numReads", "numReadMisses", "numWriteMisses", "numHit"} :
             stats[p][a] \in Nat
    BY <1>7 DEF Counters, MayFollow
  <2>5. Asks(stats[p], 1, MayFollow(p))
    BY <1>7, <2>1
  <2>6. Asks(stats'[p], 0, MayFollow(p))
    BY <2>3, <2>4, <2>5 DEF Asks
  <2> QED BY <2>1, <2>6
<1>9. \A q \in Procs : q # p => Asks(stats'[q], Standing(q)', MayFollow(q)')
  <2> SUFFICES ASSUME NEW q \in Procs, q # p
               PROVE  Asks(stats'[q], Standing(q)', MayFollow(q)')
    OBVIOUS
  <2>1. Standing(q)' = Standing(q) /\ MayFollow(q)' = MayFollow(q)
    BY <1>2, <1>3 DEF Standing, MayFollow, SameRequest
  <2>2. Asks(Bump(stats[q], Added(q)), Standing(q), MayFollow(q))
    BY <1>7, OthersAskNothing
  <2> QED BY <1>1, <2>1, <2>2
<1> QED BY <1>6, <1>8, <1>9 DEF AsksInv, Asks

(* Every step keeps the count of the requests.                                 *)
LEMMA NextAsks ==
  ASSUME Protocol = "DRAGON", SmpInv, AsksInv, UpdateEnds, [Next]_vars
  PROVE  AsksInv' /\ UpdateEnds'
<1> USE DEF SmpInv
<1>1. CASE UNCHANGED vars \/ Tick \/ Exit \/ Done \/ BusWaits \/ BusIdle
  <2>1. stats' = stats /\ ctl' = ctl /\ (bus' = bus \/ bus'.isShared = FALSE)
    BY <1>1 DEF Tick, Exit, Done, BusWaits, BusIdle, vars, CtlInv, ControlTyped
  <2> QED BY <2>1, AsksKept DEF SameRequest
<1>2. ASSUME NEW p \in Procs, NEW op \in TraceOps, NEW b \in Blocks, Dispatch(p, op, b)
      PROVE  AsksInv' /\ UpdateEnds'
  <2>1. stats' = stats /\ bus' = bus
    BY <1>2 DEF Dispatch
  <2>2. \A q \in Procs : ctl'[q].serviced <=> ctl[q].serviced
    <3>1. CtlInv'
      BY <1>2, DispatchStep
    <3> QED BY <2>1, <3>1 DEF CtlInv, Handshake
  <2> QED BY <1>2, <2>1, <2>2, DispatchKeepsRequests, AsksKept
<1>3. ASSUME NEW p \in Procs, TickServiced(p) PROVE AsksInv' /\ UpdateEnds'
  BY <1>3, AsksKept DEF TickServiced, Ticks, SameRequest
<1>4. ASSUME NEW p \in Procs, TickIdle(p) PROVE AsksInv' /\ UpdateEnds'
  <2>1. stats' = stats /\ bus' = bus
    BY <1>4 DEF TickIdle, Ticks
  <2>2. \A q \in Procs : ctl'[q].serviced <=> ctl[q].serviced
    <3>1. CtlInv'
      BY <1>4, TickIdleStep
    <3> QED BY <2>1, <3>1 DEF CtlInv, Handshake
  <2> QED BY <1>4, <2>1, <2>2, TickIdleKeepsRequests, AsksKept
<1>5. ASSUME NEW p \in Procs, TickHandles(p) PROVE AsksInv' /\ UpdateEnds'
  BY <1>5, TickHandlesAsks
<1>6. CASE BusFinish
  BY <1>6, BusFinishAsks
<1>7. ASSUME NEW p \in Procs, BusGrant(p) PROVE AsksInv' /\ UpdateEnds'
  BY <1>7, BusGrantAsks
<1> QED BY <1>1, <1>2, <1>3, <1>4, <1>5, <1>6, <1>7 DEF Next

(* Nothing is asked at first, ...                                              *)
LEMMA InitAsks == Init => AsksInv /\ UpdateEnds
<1> SUFFICES ASSUME Init PROVE AsksInv /\ UpdateEnds
  OBVIOUS
<1>1. \A p \in Procs : ~ctl[p].haveBusRequest /\ ~ctl[p].serviced /\ stats[p] = ZeroCounters
  BY DEF Init
<1>2. Asks(ZeroCounters, 0, 0)
  BY DEF Asks, ZeroCounters, Counters
<1> QED BY <1>1, <1>2 DEF AsksInv, UpdateEnds, Standing, MayFollow

(* ... and while the count is kept the property holds.                         *)
LEMMA AsksCounted ==
  ASSUME Protocol = "DRAGON", AccountInv, AsksInv
  PROVE  DragonRequestsCounted
<1> SUFFICES ASSUME NEW p \in Procs
             PROVE  /\ stats[p].numReadMisses <= stats[p].numReads
                    /\ stats[p].numWrites = stats[p].numHit + stats[p].numWriteMisses
                    /\ stats[p].numReadMisses + stats[p].numWriteMisses <= RequestsMade(p)
                    /\ RequestsMade(p) <= stats[p].numReadMisses
                                          + 2 * stats[p].numWriteMisses + stats[p].numHit
  BY DEF DragonRequestsCounted
<1>1. RequestsMade(p) = stats[p].numBusRequests + Standing(p)
  BY DEF RequestsMade, Standing
<1>2. stats[p] \in [Counters -> Nat]
  BY DEF AccountInv, SmpInv, StatsTyped
<1>3. \A a \in AskCounters : stats[p][a] \in Nat
  BY <1>2, AskCountersAreCounters
<1>4. MayFollow(p) \in Nat /\ Standing(p) \in Nat
  BY DEF MayFollow, Standing
<1>5. Asks(stats[p], Standing(p), MayFollow(p))
  BY DEF AsksInv
<1>6. stats[p].numWrites = stats[p].numHit + stats[p].numWriteMisses
  BY DEF AccountInv, CountsInv, Accounted, Balanced
<1> QED BY <1>1, <1>3, <1>4, <1>5, <1>6 DEF Asks, AskCounters

(* On a Dragon machine of any size and with any trace, every miss has been to  *)
(* the bus or is on its way, a read once, a write at most twice, and a hit at  *)
(* most once: no request is granted twice, and no write asks a third time.     *)
THEOREM DragonRequestsStayCounted ==
  ASSUME Protocol = "DRAGON"
  PROVE  Spec => []DragonRequestsCounted
<1>1. AccountInv /\ AsksInv => DragonRequestsCounted
  BY AsksCounted
<1>2. AccountInv /\ AsksInv /\ UpdateEnds /\ [Next]_vars => AsksInv' /\ UpdateEnds'
  BY NextAsks DEF AccountInv
<1> QED BY <1>1, <1>2, InitAsks, InitAccountInv, NextAccountInv, PTL DEF Spec

-------------------------------------------------------------------------------
(* Sums over the caches                                                        *)

(* SumFunction's own recursion: g gives, for every part of S, the sum of f     *)
(* over it, one chosen element at a time.                                      *)
Pick(s) == CHOOSE x \in s : TRUE

IsSum(g, f, S) ==
  g = [s \in SUBSET S |-> IF s = {} THEN 0 ELSE f[Pick(s)] + g[s \ {Pick(s)}]]

(* What holds of no elements, and of a set if it holds without the chosen one, *)
(* holds of every finite set.                                                  *)
LEMMA PartsInduction ==
  ASSUME NEW S, IsFiniteSet(S), NEW G,
         {} \in G,
         \A s \in SUBSET S : s # {} /\ s \ {Pick(s)} \in G => s \in G
  PROVE  \A s \in SUBSET S : s \in G
<1> SUFFICES ASSUME NEW s0 \in SUBSET S, s0 \notin G PROVE FALSE
  OBVIOUS
<1> DEFINE Bad == {n \in Nat : \E s \in SUBSET S : s \notin G /\ Cardinality(s) = n}
<1>1. \A s \in SUBSET S : IsFiniteSet(s) /\ Cardinality(s) \in Nat
  BY FS_Subset, FS_CardinalityType
<1>2. Bad \subseteq Nat /\ Bad # {}
  BY <1>1
<1>3. PICK n \in Bad : \A m \in Bad : n <= m
  <2> HIDE DEF Bad
  <2> QED BY <1>2, LeastNat
<1>4. PICK s \in SUBSET S : s \notin G /\ Cardinality(s) = n
  BY <1>3
<1>5. s # {} /\ s \ {Pick(s)} \notin G
  BY <1>4
<1>6. Pick(s) \in s
  BY <1>5 DEF Pick
<1>7. Cardinality(s \ {Pick(s)}) = n - 1
  BY <1>1, <1>4, <1>6, FS_RemoveElement
<1>8. n - 1 \in Bad
  <2>1. s \ {Pick(s)} \in SUBSET S
    OBVIOUS
  <2> QED BY <1>1, <1>5, <1>7, <2>1
<1> QED BY <1>2, <1>3, <1>8

(* Such a g exists: the partial sums over parts of ever more elements.         *)
LEMMA SumExists ==
  ASSUME NEW S, IsFiniteSet(S), NEW f
  PROVE  \E g : IsSum(g, f, S)
<1> DEFINE Unfold(h) == [s \in SUBSET S |-> IF s = {} THEN 0 ELSE f[Pick(s)] + h[s \ {Pick(s)}]]
           Right(h, n) == \A s \in SUBSET S : Cardinality(s) <= n => h[s] = Unfold(h)[s]
           Bad == {n \in Nat : ~ \E h : Right(h, n)}
<1>1. \A s \in SUBSET S :
        IsFiniteSet(s) /\ Cardinality(s) \in Nat /\ (Cardinality(s) = 0 <=> s = {})
  BY FS_Subset, FS_CardinalityType, FS_EmptySet
<1>2. Right([s \in SUBSET S |-> 0], 0)
  BY <1>1
<1>3. ASSUME NEW n \in Nat, NEW h, Right(h, n)
      PROVE  Right(Unfold(h), n + 1)
  <2> SUFFICES ASSUME NEW s \in SUBSET S, Cardinality(s) <= n + 1
               PROVE  Unfold(h)[s] = Unfold(Unfold(h))[s]
    OBVIOUS
  <2>1. CASE s = {}
    BY <2>1
  <2>2. CASE s # {}
    <3>1. Pick(s) \in s /\ s \ {Pick(s)} \in SUBSET S
      BY <2>2 DEF Pick
    <3>2. Cardinality(s \ {Pick(s)}) <= n
      BY <1>1, <3>1, FS_RemoveElement
    <3>3. h[s \ {Pick(s)}] = Unfold(h)[s \ {Pick(s)}]
      BY <1>3, <3>1, <3>2
    <3> QED BY <2>2, <3>3
  <2> QED BY <2>1, <2>2
<1>4. Bad = {}
  <2> SUFFICES ASSUME Bad # {} PROVE FALSE
    OBVIOUS
  <2> HIDE DEF Unfold
  <2>1. PICK n \in Bad : \A m \in Bad : n <= m
    <3> HIDE DEF Bad
    <3>1. Bad \subseteq Nat
      BY DEF Bad
    <3> QED BY <3>1, LeastNat
  <2>2. n \in Nat /\ ~ \E h : Right(h, n)
    BY <2>1
  <2>3. n # 0
    BY <1>2, <2>2
  <2>4. n - 1 \in Nat /\ n - 1 \notin Bad
    <3> HIDE DEF Bad
    <3> QED BY <2>1, <2>2, <2>3
  <2>5. PICK h : Right(h, n - 1)
    BY <2>4
  <2>6. Right(Unfold(h), n - 1 + 1)
    BY <1>3, <2>4, <2>5
  <2> QED BY <2>2, <2>6
<1>5. Cardinality(S) \in Nat /\ \A s \in SUBSET S : Cardinality(s) <= Cardinality(S)
  BY FS_Subset, FS_CardinalityType
<1>6. PICK h : Right(h, Cardinality(S))
  BY <1>4, <1>5
<1>7. \A s \in SUBSET S : Unfold(h)[s] = Unfold(Unfold(h))[s]
  BY <1>5, <1>6
<1>8. Unfold(h) = Unfold(Unfold(h))
  BY <1>7
<1>9. IsSum(Unfold(h), f, S)
  BY <1>8 DEF IsSum
<1> QED BY <1>9

(* So SumFunction of f is the value of such a g at f's whole domain.           *)
SumOf(f) == CHOOSE g : IsSum(g, f, DOMAIN f)

(* SumFunction is the value, at the whole domain, of what its recursion        *)
(* chooses.                                                                    *)
LEMMA SumFunctionIs ==
  ASSUME NEW f, IsFiniteSet(DOMAIN f)
  PROVE  SumFunction(f) = SumOf(f)[DOMAIN f] /\ IsSum(SumOf(f), f, DOMAIN f)
<1>1. SumFunction(f) = SumOf(f)[DOMAIN f]
  BY Zenon DEF SumFunction, SumFunctionOnSet, FoldFunctionOnSet, MapThenFoldSet, IsSum, SumOf, Pick
<1>2. IsSum(SumOf(f), f, DOMAIN f)
  BY SumExists DEF SumOf
<1> QED BY <1>1, <1>2

(* One step of the recursion.                                                  *)
LEMMA SumSteps ==
  ASSUME NEW S, NEW f, NEW g, IsSum(g, f, S)
  PROVE  /\ g[{}] = 0
         /\ \A s \in SUBSET S : s # {} => /\ g[s] = f[Pick(s)] + g[s \ {Pick(s)}]
                                          /\ Pick(s) \in s /\ Pick(s) \in S
                                          /\ s \ {Pick(s)} \in SUBSET S
<1>1. \A s \in SUBSET S : g[s] = IF s = {} THEN 0 ELSE f[Pick(s)] + g[s \ {Pick(s)}]
  BY DEF IsSum
<1>2. \A s \in SUBSET S : s # {} => Pick(s) \in s
  BY DEF Pick
<1> QED BY <1>1, <1>2

(* Integers sum to an integer.                                                 *)
LEMMA SumTyped ==
  ASSUME NEW S, IsFiniteSet(S), NEW f \in [S -> Int]
  PROVE  SumFunction(f) \in Int
<1> DEFINE g == SumOf(f)
           G == {s \in SUBSET S : g[s] \in Int}
<1>1. SumFunction(f) = g[S] /\ IsSum(g, f, S)
  BY SumFunctionIs
<1> HIDE DEF g
<1>2. {} \in G
  BY <1>1, SumSteps
<1>3. \A s \in SUBSET S : s # {} /\ s \ {Pick(s)} \in G => s \in G
  BY <1>1, SumSteps
<1> HIDE DEF G
<1>4. S \in G
  BY <1>2, <1>3, PartsInduction
<1> QED BY <1>1, <1>4 DEF G

(* Sums add up.                                                                *)
LEMMA SumAdds ==
  ASSUME NEW S, IsFiniteSet(S), NEW f1 \in [S -> Int], NEW f2 \in [S -> Int],
         NEW f3 \in [S -> Int], \A x \in S : f3[x] = f1[x] + f2[x]
  PROVE  SumFunction(f3) = SumFunction(f1) + SumFunction(f2)
<1> DEFINE g1 == SumOf(f1)
           g2 == SumOf(f2)
           g3 == SumOf(f3)
           G == {s \in SUBSET S : g1[s] \in Int /\ g2[s] \in Int /\ g3[s] = g1[s] + g2[s]}
<1>1. /\ SumFunction(f1) = g1[S] /\ IsSum(g1, f1, S)
      /\ SumFunction(f2) = g2[S] /\ IsSum(g2, f2, S)
      /\ SumFunction(f3) = g3[S] /\ IsSum(g3, f3, S)
  BY SumFunctionIs
<1> HIDE DEF g1, g2, g3
<1>2. {} \in G
  BY <1>1, SumSteps
<1>3. \A s \in SUBSET S : s # {} /\ s \ {Pick(s)} \in G => s \in G
  <2> SUFFICES ASSUME NEW s \in SUBSET S, s # {}, s \ {Pick(s)} \in G PROVE s \in G
    OBVIOUS
  <2> DEFINE x == Pick(s)
             t == s \ {Pick(s)}
  <2>1. x \in S /\ g1[s] = f1[x] + g1[t] /\ g2[s] = f2[x] + g2[t] /\ g3[s] = f3[x] + g3[t]
    BY <1>1, SumSteps
  <2>2. g1[t] \in Int /\ g2[t] \in Int /\ g3[t] = g1[t] + g2[t]
    OBVIOUS
  <2> HIDE DEF x, t
  <2>3. f1[x] \in Int /\ f2[x] \in Int /\ f3[x] = f1[x] + f2[x]
    BY <2>1
  <2> QED BY <2>1, <2>2, <2>3
<1> HIDE DEF G
<1>4. S \in G
  BY <1>2, <1>3, PartsInduction
<1> QED BY <1>1, <1>4 DEF G

(* The sum of one value, ...                                                   *)
LEMMA SumOfOne ==
  ASSUME NEW S, IsFiniteSet(S), NEW p \in S, NEW k \in Int
  PROVE  SumFunction([x \in S |-> IF x = p THEN k ELSE 0]) = k
<1> DEFINE f == [x \in S |-> IF x = p THEN k ELSE 0]
           g == SumOf(f)
           G == {s \in SUBSET S : g[s] = IF p \in s THEN k ELSE 0}
<1>1. SumFunction(f) = g[S] /\ IsSum(g, f, S)
  BY SumFunctionIs
<1> HIDE DEF g
<1>2. {} \in G
  BY <1>1, SumSteps
<1>3. \A s \in SUBSET S : s # {} /\ s \ {Pick(s)} \in G => s \in G
  BY <1>1, SumSteps
<1> HIDE DEF G
<1>4. S \in G
  BY <1>2, <1>3, PartsInduction
<1> QED BY <1>1, <1>4 DEF G

(* ... and that of minus one for every element of F.                           *)
LEMMA SumOfEach ==
  ASSUME NEW S, IsFiniteSet(S), NEW F \in SUBSET S
  PROVE  SumFunction([x \in S |-> IF x \in F THEN -1 ELSE 0]) = - Cardinality(F)
<1> DEFINE f == [x \in S |-> IF x \in F THEN -1 ELSE 0]
           g == SumOf(f)
           G == {s \in SUBSET S : g[s] = - Cardinality(s \cap F)}
<1>1. SumFunction(f) = g[S] /\ IsSum(g, f, S)
  BY SumFunctionIs
<1> HIDE DEF g
<1>2. {} \in G
  <2>1. {} \cap F = {} /\ Cardinality({}) = 0
    BY FS_EmptySet
  <2> QED BY <1>1, <2>1, SumSteps
<1>3. \A s \in SUBSET S : s # {} /\ s \ {Pick(s)} \in G => s \in G
  <2> SUFFICES ASSUME NEW s \in SUBSET S, s # {}, s \ {Pick(s)} \in G PROVE s \in G
    OBVIOUS
  <2> DEFINE x == Pick(s)
             t == s \ {Pick(s)}
  <2>1. x \in s /\ g[s] = f[x] + g[t]
    BY <1>1, SumSteps
  <2>2. g[t] = - Cardinality(t \cap F)
    OBVIOUS
  <2>3. IsFiniteSet(s \cap F) /\ Cardinality(s \cap F) \in Nat
    BY FS_Subset, FS_CardinalityType
  <2>4. CASE x \in F
    <3>1. t \cap F = (s \cap F) \ {x} /\ x \in s \cap F /\ f[x] = -1
      BY <2>1, <2>4
    <3> HIDE DEF x, t
    <3>2. Cardinality((s \cap F) \ {x}) = Cardinality(s \cap F) - 1
      BY <2>3, <3>1, FS_RemoveElement
    <3> QED BY <2>1, <2>2, <2>3, <3>1, <3>2
  <2>5. CASE x \notin F
    <3>1. t \cap F = s \cap F /\ f[x] = 0
      BY <2>1, <2>5
    <3> QED BY <2>1, <2>2, <2>3, <3>1
  <2> QED BY <2>4, <2>5
<1> HIDE DEF G
<1>4. S \in G
  BY <1>2, <1>3, PartsInduction
<1>5. S \cap F = F
  OBVIOUS
<1> QED BY <1>1, <1>4, <1>5 DEF G

-------------------------------------------------------------------------------
(* The uses of memory under MSI                                                *)

(* There are finitely many processors.                                         *)
LEMMA ProcsFinite == IsFiniteSet(Procs)
<1>1. N - 1 \in Int
  BY SizeAssumption
<1> QED BY <1>1, FS_Interval DEF Procs

(* What one cache has counted as uses of memory beyond its flushes and its     *)
(* transactions: over all caches it is minus the transaction under way.        *)
MemoryBalance ==
  [p \in Procs |-> stats[p].numMainMemoryUses - stats[p].numFlush - stats[p].numBusRequests]

MemoryInv ==
  /\ SumFunction(MemoryBalance) + (IF bus.inUse THEN 1 ELSE 0) = 0
  /\ \A p \in Procs : stats[p].numWriteBacks = stats[p].numFlush

MemoryCounters == {"numMainMemoryUses", "numFlush", "numBusRequests", "numWriteBacks"}

(* They are counters, and the balance an integer.                              *)
LEMMA MemoryCountersTyped ==
  ASSUME StatsTyped, NEW p \in Procs
  PROVE  /\ stats[p] \in [Counters -> Nat] /\ MemoryCounters \subseteq Counters
         /\ MemoryBalance[p] \in Int
         /\ \A c \in MemoryCounters : stats[p][c] \in Nat
<1>1. stats[p] \in [Counters -> Nat] /\ MemoryCounters \subseteq Counters
  BY DEF StatsTyped, MemoryCounters, Counters
<1>2. \A c \in MemoryCounters : stats[p][c] \in Nat
  BY <1>1
<1>3. /\ stats[p].numMainMemoryUses \in Nat /\ stats[p].numFlush \in Nat
      /\ stats[p].numBusRequests \in Nat
  BY <1>2 DEF MemoryCounters
<1> QED BY <1>1, <1>2, <1>3 DEF MemoryBalance

(* The sum moves by what the caches' balances move by.                         *)
LEMMA BalanceMoves ==
  ASSUME StatsTyped, StatsTyped', NEW d \in [Procs -> Int],
         \A q \in Procs : MemoryBalance'[q] = MemoryBalance[q] + d[q]
  PROVE  /\ SumFunction(MemoryBalance) \in Int
         /\ SumFunction(MemoryBalance') = SumFunction(MemoryBalance) + SumFunction(d)
<1>1. MemoryBalance \in [Procs -> Int]
  BY MemoryCountersTyped DEF MemoryBalance
<1>2. MemoryBalance' \in [Procs -> Int]
  <2>1. \A q \in Procs : MemoryBalance'[q] \in Int
    BY <1>1
  <2> QED BY <2>1 DEF MemoryBalance
<1>3. IsFiniteSet(Procs)
  BY ProcsFinite
<1> HIDE DEF MemoryBalance
<1> QED BY <1>1, <1>2, <1>3, SumTyped, SumAdds

(* A step that counts neither and leaves the bus as it is.                     *)
LEMMA MemoryKept ==
  ASSUME StatsTyped, MemoryInv, bus'.inUse = bus.inUse,
         \A q \in Procs, c \in MemoryCounters : stats'[q][c] = stats[q][c]
  PROVE  MemoryInv'
<1>1. /\ MemoryBalance' = MemoryBalance
      /\ \A q \in Procs : stats'[q].numWriteBacks = stats'[q].numFlush
  BY DEF MemoryBalance, MemoryCounters, MemoryInv
<1>2. SumFunction(MemoryBalance)' = SumFunction(MemoryBalance)
  BY <1>1
<1> QED BY <1>1, <1>2 DEF MemoryInv

(* Taking a job counts no use of memory: no set is ever full, ...              *)
LEMMA RequestCountsNoMemory ==
  ASSUME NEW op, NEW s
  PROVE  RequestCounts(op, s) \cap MemoryCounters = {}
BY ProtocolAssumption DEF RequestCounts, ReadCounts, WriteCounts, MemoryCounters

(* ... so that no victim is flushed.                                           *)
LEMMA TickHandlesMemory ==
  ASSUME CtlInv, LinesInv, StatsTyped, MemoryInv, NEW p \in Procs, TickHandles(p)
  PROVE  MemoryInv'
<1>0. PICK c : \E job \in Job, s \in ProtocolStates : Taken(p, c, job, s)
  BY TickHandlesTakes
<1>1. PICK job \in Job, s \in ProtocolStates : Taken(p, c, job, s)
  BY <1>0
<1>2. stats' = stats \/ stats' = [stats EXCEPT ![p] = Bump(stats[p], RequestCounts(job.op, s))]
  BY <1>1 DEF Taken
<1>3. bus' = bus
  BY DEF TickHandles, Ticks
<1>4. \A q \in Procs, a \in MemoryCounters : stats'[q][a] = stats[q][a]
  <2>1. \A a \in MemoryCounters :
          a \in Counters /\ stats[p][a] \in Nat /\ a \notin RequestCounts(job.op, s)
    BY MemoryCountersTyped, RequestCountsNoMemory
  <2>2. \A a \in MemoryCounters : Bump(stats[p], RequestCounts(job.op, s))[a] = stats[p][a]
    BY <2>1, BumpAdds
  <2> QED BY <1>2, <2>2 DEF StatsTyped
<1> QED BY <1>3, <1>4, MemoryKept

(* The end of a transaction fetches the line, ...                              *)
LEMMA BusFinishMemory ==
  ASSUME Protocol = "MSI", CtlInv, StatsTyped, StatsTyped', MemoryInv, BusFinish
  PROVE  MemoryInv'
<1> DEFINE p     == bus.current
           op    == ctl[p].job.op
           block == ctl[p].job.block
           old   == lines[p][SetOf(block)]
           new   == ~HasLine(old, block)
           set   == IF new THEN ReplaceLine(old, block, cycle) ELSE old
           state == set[FirstWay(set, block)].state
           added == DoneCounts(op, ctl[p].req.cmd, bus.isShared, new, state)
           d     == [q \in Procs |-> IF q = p THEN 1 ELSE 0]
<1>1. stats' = [stats EXCEPT ![p] = Bump(stats[p], added)]
  <2>1. stats' = [stats EXCEPT ![p] = Bump(@, added \cup {})]
    BY NeverFull DEF BusFinish
  <2>2. added \cup {} = added
    OBVIOUS
  <2> HIDE DEF added
  <2> QED BY <2>1, <2>2
<1>2. p \in Procs /\ bus.inUse
  BY BusFinishLeaves DEF BusFinish
<1>3. bus'.inUse = FALSE
  BY DEF BusFinish, CtlInv, ControlTyped
<1>4. added \cap MemoryCounters = {"numMainMemoryUses"}
  BY DEF DoneCounts, MemoryCounters
<1> HIDE DEF added, p
<1>5. \A q \in Procs, a \in MemoryCounters :
        stats'[q][a] = stats[q][a] + (IF q = p /\ a = "numMainMemoryUses" THEN 1 ELSE 0)
  <2>1. \A a \in MemoryCounters : Bump(stats[p], added)[a] =
          stats[p][a] + (IF a = "numMainMemoryUses" THEN 1 ELSE 0)
    BY <1>2, <1>4, BumpAdds, MemoryCountersTyped
  <2>2. \A q \in Procs, a \in MemoryCounters : stats[q][a] \in Nat
    BY MemoryCountersTyped
  <2> QED BY <1>1, <2>1, <2>2 DEF StatsTyped
<1>6. \A q \in Procs : MemoryBalance'[q] = MemoryBalance[q] + d[q]
  <2> SUFFICES ASSUME NEW q \in Procs PROVE MemoryBalance'[q] = MemoryBalance[q] + d[q]
    OBVIOUS
  <2>1. /\ stats'[q].numMainMemoryUses = stats[q].numMainMemoryUses + (IF q = p THEN 1 ELSE 0)
        /\ stats'[q].numFlush = stats[q].numFlush + 0
        /\ stats'[q].numBusRequests = stats[q].numBusRequests + 0
    BY <1>5 DEF MemoryCounters
  <2>2. /\ stats[q].numMainMemoryUses \in Nat /\ stats[q].numFlush \in Nat
        /\ stats[q].numBusRequests \in Nat
    BY MemoryCountersTyped DEF MemoryCounters
  <2> QED BY <2>1, <2>2 DEF MemoryBalance
<1>7. SumFunction(d) = 1
  BY <1>2, ProcsFinite, SumOfOne
<1>8. d \in [Procs -> Int]
  OBVIOUS
<1> HIDE DEF d
<1>9. /\ SumFunction(MemoryBalance) \in Int
      /\ SumFunction(MemoryBalance') = SumFunction(MemoryBalance) + 1
  BY <1>6, <1>7, <1>8, BalanceMoves
<1>10. SumFunction(MemoryBalance') + (IF bus'.inUse THEN 1 ELSE 0) = 0
  <2> HIDE DEF MemoryBalance
  <2> QED BY <1>2, <1>3, <1>9 DEF MemoryInv
<1>11. \A q \in Procs : stats'[q].numWriteBacks = stats'[q].numFlush
  <2>1. \A q \in Procs : /\ stats'[q].numWriteBacks = stats[q].numWriteBacks + 0
                         /\ stats'[q].numFlush = stats[q].numFlush + 0
    BY <1>5 DEF MemoryCounters
  <2> QED BY <2>1, MemoryCountersTyped DEF MemoryInv, MemoryCounters
<1> QED BY <1>10, <1>11 DEF MemoryInv

(* ... and its start counts every flush twice: once in the snooping cache and  *)
(* once for the requester.                                                     *)
LEMMA BusGrantMemory ==
  ASSUME Protocol = "MSI", StatsTyped, MemoryInv, StatsTyped', NEW p \in Procs, BusGrant(p)
  PROVE  MemoryInv'
<1> DEFINE i        == SetOf(ctl[p].req.block)
           tag      == WireTag(ctl[p].req.block)
           cmd      == ctl[p].req.cmd
           f        == {q \in Procs \ {p} : Flushes(Held(q, i, tag))}
           h        == {q \in Procs \ {p} : AnswersShared(Held(q, i, tag))}
           Added(q) == SnoopCounts(cmd, Held(q, i, tag)) \cup FlushCounts(cmd, Held(q, i, tag))
           one      == [q \in Procs |-> IF q = p THEN Cardinality(f) - 1 ELSE 0]
           each     == [q \in Procs |-> IF q \in f THEN -1 ELSE 0]
           d        == [q \in Procs |-> one[q] + each[q]]
<1>1. stats' = [q \in Procs |-> IF q = p THEN GrantedCounts(stats[p], cmd, f, h)
                                ELSE Bump(stats[q], Added(q))]
  BY DEF BusGrant
<1>2. ~bus.inUse /\ bus'.inUse
  BY DEF BusGrant
<1>3. f \in SUBSET Procs /\ p \notin f /\ IsFiniteSet(f) /\ Cardinality(f) \in Nat
  BY ProcsFinite, FS_Subset, FS_CardinalityType
<1>4. \A q \in Procs \ {p} :
        Added(q) \cap MemoryCounters = IF q \in f THEN {"numFlush", "numWriteBacks"} ELSE {}
  BY DEF SnoopCounts, FlushCounts, MemoryCounters
<1>5. \A q \in Procs : /\ stats[q].numMainMemoryUses \in Nat /\ stats[q].numFlush \in Nat
                       /\ stats[q].numBusRequests \in Nat /\ stats[q].numWriteBacks \in Nat
                       /\ stats[q] \in [Counters -> Nat]
  BY MemoryCountersTyped DEF MemoryCounters
<1> HIDE DEF f, h, Added, cmd
<1>6. /\ stats'[p].numMainMemoryUses = stats[p].numMainMemoryUses + Cardinality(f)
      /\ stats'[p].numFlush = stats[p].numFlush
      /\ stats'[p].numBusRequests = stats[p].numBusRequests + 1
      /\ stats'[p].numWriteBacks = stats[p].numWriteBacks
  <2>1. stats'[p] = GrantedCounts(stats[p], cmd, f, h)
    BY <1>1
  <2>2. /\ "numMainMemoryUses" \in Counters /\ "numFlush" \in Counters
        /\ "numBusRequests" \in Counters /\ "numWriteBacks" \in Counters
    BY DEF Counters
  <2> QED BY <1>3, <1>5, <2>1, <2>2 DEF GrantedCounts
<1>7. ASSUME NEW q \in Procs, q # p
      PROVE  /\ stats'[q].numMainMemoryUses = stats[q].numMainMemoryUses
             /\ stats'[q].numFlush = stats[q].numFlush + (IF q \in f THEN 1 ELSE 0)
             /\ stats'[q].numBusRequests = stats[q].numBusRequests
             /\ stats'[q].numWriteBacks = stats[q].numWriteBacks + (IF q \in f THEN 1 ELSE 0)
  <2>1. stats'[q] = Bump(stats[q], Added(q))
    BY <1>1, <1>7
  <2>2. \A a \in MemoryCounters :
          stats'[q][a] = stats[q][a] + (IF a \in Added(q) THEN 1 ELSE 0)
    BY <2>1, BumpAdds, MemoryCountersTyped
  <2>3. \A a \in MemoryCounters :
          a \in Added(q) <=> q \in f /\ a \in {"numFlush", "numWriteBacks"}
    BY <1>4, <1>7
  <2> QED BY <1>5, <2>2, <2>3 DEF MemoryCounters
<1>8. \A q \in Procs : MemoryBalance'[q] = MemoryBalance[q] + d[q]
  <2>1. MemoryBalance'[p] = MemoryBalance[p] + d[p]
    BY <1>3, <1>5, <1>6 DEF MemoryBalance
  <2>2. ASSUME NEW q \in Procs, q # p PROVE MemoryBalance'[q] = MemoryBalance[q] + d[q]
    BY <1>5, <1>7, <2>2 DEF MemoryBalance
  <2> QED BY <2>1, <2>2
<1>9. SumFunction(one) = Cardinality(f) - 1 /\ SumFunction(each) = - Cardinality(f)
  BY <1>3, ProcsFinite, SumOfOne, SumOfEach
<1>10. one \in [Procs -> Int] /\ each \in [Procs -> Int] /\ d \in [Procs -> Int]
       /\ \A q \in Procs : d[q] = one[q] + each[q]
  BY <1>3
<1> HIDE DEF one, each, d
<1>11. SumFunction(d) = -1
  <2>1. SumFunction(d) = SumFunction(one) + SumFunction(each)
    BY <1>10, ProcsFinite, SumAdds
  <2> QED BY <1>3, <1>9, <2>1
<1>12. /\ SumFunction(MemoryBalance) \in Int
       /\ SumFunction(MemoryBalance') = SumFunction(MemoryBalance) - 1
  BY <1>8, <1>10, <1>11, BalanceMoves
<1>13. SumFunction(MemoryBalance') + (IF bus'.inUse THEN 1 ELSE 0) = 0
  <2> HIDE DEF MemoryBalance
  <2> QED BY <1>2, <1>12 DEF MemoryInv
<1>14. \A q \in Procs : stats'[q].numWriteBacks = stats'[q].numFlush
  BY <1>5, <1>6, <1>7 DEF MemoryInv
<1> QED BY <1>13, <1>14 DEF MemoryInv

(* Every step keeps the balance.                                               *)
LEMMA NextMemory ==
  ASSUME Protocol = "MSI", SmpInv, StatsTyped', MemoryInv, [Next]_vars
  PROVE  MemoryInv'
<1> USE DEF SmpInv
<1>1. ASSUME stats' = stats, bus'.inUse = bus.inUse PROVE MemoryInv'
  BY <1>1, MemoryKept
<1>2. CASE UNCHANGED vars \/ Tick \/ Exit \/ Done \/ BusWaits \/ BusIdle
  <2>1. stats' = stats /\ (bus' = bus \/ bus' = [bus EXCEPT !.isShared = FALSE])
    BY <1>2 DEF Tick, Exit, Done, BusWaits, BusIdle, vars
  <2>2. bus'.inUse = bus.inUse
    BY <2>1 DEF CtlInv, ControlTyped
  <2> QED BY <1>1, <2>1, <2>2
<1>3. ASSUME NEW p \in Procs, NEW op \in TraceOps, NEW b \in Blocks, Dispatch(p, op, b)
      PROVE  MemoryInv'
  BY <1>1, <1>3 DEF Dispatch
<1>4. ASSUME NEW p \in Procs, TickServiced(p) \/ TickIdle(p) PROVE MemoryInv'
  BY <1>1, <1>4 DEF TickServiced, TickIdle, Ticks
<1>5. ASSUME NEW p \in Procs, TickHandles(p) PROVE MemoryInv'
  BY <1>5, TickHandlesMemory
<1>6. CASE BusFinish
  BY <1>6, BusFinishMemory
<1>7. ASSUME NEW p \in Procs, BusGrant(p) PROVE MemoryInv'
  BY <1>7, BusGrantMemory
<1> QED BY <1>2, <1>3, <1>4, <1>5, <1>6, <1>7 DEF Next

(* At first all counters are zero.                                             *)
LEMMA InitMemory == Init => MemoryInv
<1> SUFFICES ASSUME Init PROVE MemoryInv
  OBVIOUS
<1>1. \A p \in Procs : stats[p] = ZeroCounters
  BY DEF Init
<1>2. \A a \in MemoryCounters : ZeroCounters[a] = 0
  BY DEF ZeroCounters, Counters, MemoryCounters
<1>3. \A p \in Procs, a \in MemoryCounters : stats[p][a] = 0
  BY <1>1, <1>2
<1>4. MemoryBalance = [p \in Procs |-> 0]
  BY <1>3 DEF MemoryBalance, MemoryCounters
<1>5. SumFunction([p \in Procs |-> 0]) = 0
  <2>1. 0 \in Procs
    BY ProcsFacts
  <2>2. [p \in Procs |-> IF p = 0 THEN 0 ELSE 0] = [p \in Procs |-> 0]
    OBVIOUS
  <2>3. SumFunction([p \in Procs |-> IF p = 0 THEN 0 ELSE 0]) = 0
    BY <2>1, ProcsFinite, SumOfOne
  <2> QED BY <2>2, <2>3
<1>6. ~bus.inUse
  BY DEF Init
<1> QED BY <1>3, <1>4, <1>5, <1>6 DEF MemoryInv, MemoryCounters

(* The uses of memory that the three places count are, over all caches of an   *)
(* MSI machine of any size, the flushes and the transactions that have ended;  *)
(* and every flush is a write-back.                                            *)
THEOREM MemoryUsesCountedUnderMSI ==
  ASSUME Protocol = "MSI"
  PROVE  Spec => []MemoryUsesCounted
<1>1. SmpInv /\ MemoryInv => MemoryUsesCounted
  <2> SUFFICES ASSUME StatsTyped, MemoryInv PROVE MemoryUsesCounted
    BY DEF SmpInv
  <2> DEFINE u == [p \in Procs |-> stats[p]["numMainMemoryUses"]]
             f == [p \in Procs |-> stats[p]["numFlush"]]
             r == [p \in Procs |-> stats[p]["numBusRequests"]]
             w == [p \in Procs |-> stats[p]["numWriteBacks"]]
             fr == [p \in Procs |-> f[p] + r[p]]
             b == MemoryBalance
  <2>1. \A p \in Procs : u[p] \in Nat /\ f[p] \in Nat /\ r[p] \in Nat
    BY MemoryCountersTyped DEF MemoryCounters
  <2>2. \A p \in Procs : b[p] = u[p] - f[p] - r[p]
    BY DEF MemoryBalance
  <2>3. w = f
    BY DEF MemoryInv
  <2>4. Total("numMainMemoryUses") = SumFunction(u) /\ Total("numFlush") = SumFunction(f)
        /\ Total("numBusRequests") = SumFunction(r) /\ Total("numWriteBacks") = SumFunction(w)
    BY DEF Total
  <2>5. u \in [Procs -> Int] /\ f \in [Procs -> Int] /\ r \in [Procs -> Int]
    BY <2>1
  <2>6. DOMAIN b = Procs /\ b = [p \in Procs |-> b[p]]
    BY DEF MemoryBalance
  <2> HIDE DEF u, f, r, w, b
  <2>7. fr \in [Procs -> Int] /\ b \in [Procs -> Int] /\ \A p \in Procs : fr[p] = f[p] + r[p]
    BY <2>1, <2>2, <2>6
  <2> HIDE DEF fr
  <2>8. \A p \in Procs : u[p] = fr[p] + b[p]
    BY <2>1, <2>2, <2>7
  <2>9. /\ SumFunction(u) = SumFunction(fr) + SumFunction(b)
        /\ SumFunction(fr) = SumFunction(f) + SumFunction(r)
    BY <2>5, <2>7, <2>8, ProcsFinite, SumAdds
  <2>10. SumFunction(f) \in Int /\ SumFunction(r) \in Int /\ SumFunction(b) \in Int
    BY <2>5, <2>7, ProcsFinite, SumTyped
  <2>11. SumFunction(b) + (IF bus.inUse THEN 1 ELSE 0) = 0
    BY DEF MemoryInv, b
  <2> QED BY <2>3, <2>4, <2>9, <2>10, <2>11 DEF MemoryUsesCounted
<1>2. Init => SmpInv /\ MemoryInv
  BY InitSmpInv, InitMemory
<1>3. SmpInv /\ MemoryInv /\ [Next]_vars => SmpInv' /\ MemoryInv'
  <2>1. SmpInv' => StatsTyped'
    BY DEF SmpInv
  <2> QED BY <2>1, NextSmpInv, NextMemory
<1> QED BY <1>1, <1>2, <1>3, PTL DEF Spec

-------------------------------------------------------------------------------
(* How long the bus is held                                                    *)

(* A time that leaves two memory accesses before the clock wraps around.       *)
ClockFits(time) == time + 2 * MemCost < WordModulus

(* BusHoldBounded from a start that fits; the start is never in the future.    *)
HoldInv ==
  bus.inUse => LET start == ctl[bus.current].start IN
               /\ start <= cycle
               /\ ClockFits(start) => start < bus.endCycle /\ bus.endCycle <= start + 2 * MemCost

(* Arithmetic below the width of a word is exact.                              *)
LEMMA WordIs == \A x \in Nat : x < WordModulus => Word(x) = x
BY WidthAssumption DEF Word

(* The manager's sums, with at most one flush: MESI's discount is less than    *)
(* the cost of any request, because MemCost < 2 * CacheCost.                   *)
LEMMA GrantedEndBounded ==
  ASSUME Protocol # "MOESI", NEW now \in Nat, now = cycle, ClockFits(now),
         NEW c \in StandingCosts, NEW f, Cardinality(f) \in {0, 1}, NEW h, NEW u
  PROVE  now < GrantedEnd(c, f, h, u) /\ GrantedEnd(c, f, h, u) <= now + 2 * MemCost
<1> DEFINE n == Cardinality(f)
<1>1. /\ HitCost \in Nat /\ CacheCost \in Nat /\ MemCost \in Nat
      /\ 0 < HitCost /\ HitCost < CacheCost /\ CacheCost < MemCost /\ MemCost < 2 * CacheCost
  BY CostAssumption
<1>2. /\ MemCost * n = IF n = 0 THEN 0 ELSE MemCost
      /\ CacheCost * n = IF n = 0 THEN 0 ELSE CacheCost
  BY <1>1
<1>3. CASE Protocol = "MSI"
  <2>1. GrantedEnd(c, f, h, u) = Word(now + c + MemCost * n) /\ c = MemCost
    BY <1>3 DEF GrantedEnd, StandingCosts
  <2> DEFINE x == now + c + MemCost * n
  <2>2. x \in Nat /\ now < x /\ x <= now + 2 * MemCost
    BY <1>1, <1>2, <2>1
  <2> HIDE DEF x
  <2>3. Word(x) = x
    BY <1>1, <2>2, WordIs, WidthAssumption DEF ClockFits
  <2> QED BY <2>1, <2>2, <2>3 DEF x
<1>4. CASE Protocol = "MESI"
  <2> DEFINE x == now + c + CacheCost * n - (IF h = {} THEN 0 ELSE MemCost - CacheCost)
  <2>1. GrantedEnd(c, f, h, u) = Word(x) /\ c \in {CacheCost, MemCost}
    BY <1>4 DEF GrantedEnd, StandingCosts
  <2>2. x \in Nat /\ now < x /\ x <= now + 2 * MemCost
    BY <1>1, <1>2, <2>1
  <2> HIDE DEF x
  <2>3. Word(x) = x
    BY <1>1, <2>2, WordIs, WidthAssumption DEF ClockFits
  <2> QED BY <2>1, <2>2, <2>3
<1>5. CASE Protocol = "DRAGON"
  <2>1. GrantedEnd(c, f, h, u) = Word(now + c) /\ c \in {HitCost, CacheCost}
    BY <1>5 DEF GrantedEnd, StandingCosts
  <2> DEFINE x == now + c
  <2>2. x \in Nat /\ now < x /\ x <= now + 2 * MemCost
    BY <1>1, <2>1
  <2> HIDE DEF x
  <2>3. Word(x) = x
    BY <1>1, <2>2, WordIs, WidthAssumption DEF ClockFits
  <2> QED BY <2>1, <2>2, <2>3 DEF x
<1> QED BY <1>3, <1>4, <1>5, ProtocolAssumption

(* When the bus is free only the requester may be upgrading, so at most one    *)
(* other cache holds the block modified.                                       *)
LEMMA OneFlusher ==
  ASSUME NarrowTags, CtlInv, RequestInv, Abstract!SingleOwner,
         NEW p \in Procs, BusGrant(p),
         NEW b, b = ctl[p].req.block,
         NEW f, f = {q \in Procs \ {p} : Flushes(Held(q, SetOf(b), WireTag(b)))}
  PROVE  Cardinality(f) \in {0, 1}
<1>1. pc = "bus" /\ ctl[p].haveBusRequest
  BY DEF BusGrant, Requesters
<1>2. \A q \in Procs : q # p => ~ctl[q].haveBusRequest
  BY <1>1, BusTurn
<1>3. b \in Blocks /\ WireTag(b) = b
  BY <1>1 DEF RequestInv, CtlInv, Handshake, Job, NarrowTags
<1>4. \A q \in f : q \in Procs /\ q # p /\ AbstractLines[q][b] = "modified"
  BY <1>3 DEF AbstractLines, Flushes
<1>5. \A q \in Procs : q # p => ~Abstract!Upgrading(q, b)
  BY <1>2 DEF Abstract!Upgrading, AbstractTxns, Requesters
<1>6. \A q, r \in f : q = r
  BY <1>3, <1>4, <1>5 DEF Abstract!SingleOwner, Abstract!OwnerStates
<1>7. f = {} \/ \E q : f = {q}
  BY <1>6
<1> QED BY <1>7, FS_EmptySet, FS_Singleton

(* The bus is granted for a time within the bounds.                            *)
LEMMA BusGrantHold ==
  ASSUME NarrowTags, Protocol # "MOESI", CtlInv, RequestInv, RequestFits,
         Abstract!SingleOwner, NEW p \in Procs, BusGrant(p)
  PROVE  HoldInv'
<1> DEFINE b == ctl[p].req.block
           f == {q \in Procs \ {p} : Flushes(Held(q, SetOf(b), WireTag(b)))}
           h == {q \in Procs \ {p} : AnswersShared(Held(q, SetOf(b), WireTag(b)))}
           u == {q \in Procs \ {p} : Supplies(Held(q, SetOf(b), WireTag(b)))}
           end == GrantedEnd(ctl[p].req.cost, f, h, u)
<1>1. Cardinality(f) \in {0, 1}
  BY OneFlusher
<1>2. cycle \in Nat /\ cycle' = cycle /\ ctl[p].req.cost \in StandingCosts
      /\ ctl \in [Procs -> Ctl]
  BY DEF BusGrant, Requesters, RequestFits, CtlInv, ControlTyped
<1>3. PICK k : ctl' = [ctl EXCEPT ![p] =
                         [ctl[p] EXCEPT !.serviced = TRUE, !.start = cycle, !.cost = k]]
  BY DEF BusGrant
<1>4. ctl'[p].start = cycle
  BY <1>2, <1>3 DEF Ctl
<1>5. bus'.current = p /\ bus'.endCycle = end
  BY DEF BusGrant
<1> HIDE DEF f, h, u
<1>6. ClockFits(cycle) => cycle < end /\ end <= cycle + 2 * MemCost
  BY <1>1, <1>2, GrantedEndBounded
<1> HIDE DEF end
<1> QED BY <1>2, <1>4, <1>5, <1>6 DEF HoldInv, ClockFits

(* While the bus is in use nothing moves the end or the start.                 *)
LEMMA HoldKept ==
  ASSUME CtlInv, HoldInv, bus' = bus \/ ~bus'.inUse, cycle' \in {cycle, cycle + 1},
         bus.inUse => ctl'[bus.current].start = ctl[bus.current].start
  PROVE  HoldInv'
<1> SUFFICES ASSUME bus'.inUse PROVE HoldInv'
  BY DEF HoldInv
<1> DEFINE start == ctl[bus.current].start
<1>1. bus' = bus /\ bus.inUse /\ ctl'[bus'.current].start = start
  OBVIOUS
<1>2. start \in Nat /\ cycle \in Nat /\ start <= cycle
  BY <1>1 DEF CtlInv, ControlTyped, Handshake, Ctl, HoldInv
<1>3. start <= cycle'
  BY <1>2
<1>4. ClockFits(start) => start < bus.endCycle /\ bus.endCycle <= start + 2 * MemCost
  BY <1>1 DEF HoldInv
<1> HIDE DEF start
<1> QED BY <1>1, <1>3, <1>4 DEF HoldInv, ClockFits

(* And no step but a grant moves the start or the end of a transaction.        *)
LEMMA NextHold ==
  ASSUME NarrowTags, Protocol # "MOESI", SmpInv, RequestInv, RequestFits,
         Abstract!SingleOwner, HoldInv, [Next]_vars
  PROVE  HoldInv'
<1> USE DEF SmpInv
<1>1. CASE UNCHANGED vars \/ Tick \/ Exit \/ Done \/ BusWaits \/ BusIdle
  <2>1. bus' = bus \/ ~bus'.inUse
    BY <1>1 DEF Tick, StartTicks, Exit, Done, BusWaits, BusIdle, vars, CtlInv, ControlTyped
  <2>2. ctl' = ctl /\ cycle' \in {cycle, cycle + 1}
    BY <1>1 DEF Tick, StartTicks, Exit, Done, BusWaits, BusIdle, vars
  <2> QED BY <2>1, <2>2, HoldKept
<1>2. ASSUME NEW p \in Procs, NEW op \in TraceOps, NEW b \in Blocks, Dispatch(p, op, b)
      PROVE  HoldInv'
  <2>1. bus' = bus /\ ~bus.inUse
    BY <1>2 DEF Dispatch, NoJobs, CtlInv, Handshake
  <2> QED BY <2>1 DEF HoldInv
<1>3. ASSUME NEW p \in Procs, TickServiced(p) \/ TickIdle(p) \/ TickHandles(p)
      PROVE  HoldInv'
  <2>1. bus' = bus /\ cycle' = cycle
    BY <1>3 DEF TickServiced, TickIdle, TickHandles, Ticks
  <2>2. ctl' = ctl \/ (~ctl[p].serviced /\ \E c : ctl' = [ctl EXCEPT ![p] = c])
    BY <1>3 DEF TickServiced, TickIdle, TickHandles
  <2>3. bus.inUse => bus.current \in Procs /\ ctl[bus.current].serviced
    BY DEF CtlInv, Handshake
  <2>4. bus.inUse => ctl'[bus.current] = ctl[bus.current]
    BY <2>2, <2>3 DEF CtlInv, ControlTyped
  <2> QED BY <2>1, <2>4, HoldKept
<1>4. CASE BusFinish
  BY <1>4 DEF BusFinish, HoldInv, CtlInv, ControlTyped
<1>5. ASSUME NEW p \in Procs, BusGrant(p) PROVE HoldInv'
  BY <1>5, BusGrantHold
<1> QED BY <1>1, <1>2, <1>3, <1>4, <1>5 DEF Next

(* Under MSI, MESI and Dragon the bus is held for some time and for no more    *)
(* than two memory accesses, until the clock comes within two of its end.      *)
THEOREM BusHoldStaysBounded ==
  ASSUME NarrowTags, Protocol # "MOESI"
  PROVE  Spec => [](ClockFits(cycle) => BusHoldBounded)
<1>1. Init => HoldInv /\ MachineInv
  BY InitSmpInv DEF Init, HoldInv, MachineInv, RequestInv
<1>2. MachineInv /\ [Next]_vars => MachineInv'
  BY NextSmpInv, NextRequest DEF MachineInv, SmpInv
<1>3. /\ MachineInv /\ AccountInv /\ Abstract!SingleOwner /\ HoldInv
      /\ [Next]_vars
      => HoldInv'
  BY NextHold DEF MachineInv, AccountInv
<1>4. MachineInv /\ HoldInv => (ClockFits(cycle) => BusHoldBounded)
  <2> SUFFICES ASSUME MachineInv, HoldInv, ClockFits(cycle), bus.inUse
               PROVE  BusHoldBounded
    BY DEF BusHoldBounded
  <2> DEFINE start == ctl[bus.current].start
  <2>1. start \in Nat /\ cycle \in Nat /\ start <= cycle
    BY DEF MachineInv, SmpInv, CtlInv, ControlTyped, Handshake, Ctl, HoldInv
  <2>2. MemCost \in Nat /\ WordModulus \in Nat
    BY CostAssumption, WidthAssumption
  <2> HIDE DEF start
  <2>3. ClockFits(start)
    BY <2>1, <2>2 DEF ClockFits
  <2> QED BY <2>3 DEF start, HoldInv, BusHoldBounded
<1> QED
  BY <1>1, <1>2, <1>3, <1>4, InitAccountInv, NextAccountInv, OneOwnerInSimulator, PTL DEF Spec

===============================================================================
