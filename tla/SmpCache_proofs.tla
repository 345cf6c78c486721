---------------------------- MODULE SmpCache_proofs ----------------------------
(* For every machine, trace and cost: the control of the simulator is typed,   *)
(* and main, the caches and the bus manager keep their handshake.              *)
EXTENDS SmpCache, FiniteSetTheorems, SequenceTheorems, TLAPS

CtlInv == ControlTyped /\ Handshake

-------------------------------------------------------------------------------
(* Facts about processors, costs and times                                     *)

(* Processor numbers are naturals below N, and there are finitely many.        *)
LEMMA ProcsFacts ==
  /\ N \in Nat \ {0} /\ 0 \in Procs
  /\ \A p \in Procs : p \in Nat /\ p <= N - 1
  /\ \A T \in SUBSET Procs : Cardinality(T) \in Nat
<1>1. N \in Nat \ {0}
  BY SizeAssumption
<1>2. 0 \in Procs /\ \A p \in Procs : p \in Nat /\ p <= N - 1
  BY <1>1 DEF Procs
<1>3. IsFiniteSet(Procs)
  BY <1>1, FS_Interval DEF Procs
<1>4. \A T \in SUBSET Procs : Cardinality(T) \in Nat
  BY <1>3, FS_Subset, FS_CardinalityType
<1> QED BY <1>1, <1>2, <1>4

(* Unsigned arithmetic stays unsigned.                                         *)
LEMMA WordTyped == \A x \in Int : Word(x) \in Nat
BY WidthAssumption DEF Word

(* What an int holds is a natural again where it meets a word, ...             *)
LEMMA AsIntTyped == \A x \in Nat : AsInt(x) \in Nat
BY WidthAssumption DEF AsInt

(* ... and a fixed cost is not changed on the way.                             *)
LEMMA FixedCostsFit == \A x \in {HitCost, CacheCost, MemCost} : AsInt(x) = x
<1>1. \A x \in {HitCost, CacheCost, MemCost} : x \in Nat /\ 2 * x < IntModulus
  BY CostAssumption, WidthAssumption
<1>2. \A x \in {HitCost, CacheCost, MemCost} : x % IntModulus = x
  BY <1>1, WidthAssumption
<1> QED BY <1>1, <1>2 DEF AsInt

(* Every request has a cost, whatever getTotalMemoryCost makes of it.          *)
LEMMA CostsTyped ==
  ASSUME NEW op, NEW s, NEW flush, NEW c \in RequestCosts(op, s, flush)
  PROVE  c \in Nat
<1>1. MemCost \in Nat /\ CacheCost \in Nat /\ HitCost \in Nat /\ UninitCosts \subseteq Nat
  BY CostAssumption, WidthAssumption
<1>2. MemoryCosts \subseteq Nat
  BY <1>1, ProtocolAssumption DEF MemoryCosts
<1>3. \A k \in MemoryCosts : k \in Nat /\ Word(2 * k) \in Nat
  BY <1>2, WordTyped
<1> QED BY <1>1, <1>3 DEF RequestCosts

(* The end and the cost that the bus manager computes are times.               *)
LEMMA GrantedTyped ==
  ASSUME ControlTyped, NEW p \in Procs, NEW c \in Nat,
         NEW f \in SUBSET Procs, NEW h \in SUBSET Procs, NEW u \in SUBSET Procs
  PROVE  GrantedEnd(c, f, h, u) \in Nat /\ GrantedCost(p, c, f, h, u) \in Nat
<1>1. /\ MemCost \in Nat /\ CacheCost \in Nat /\ cycle \in Nat /\ ctl[p].cost \in Nat
  BY CostAssumption DEF ControlTyped, Ctl
<1>2. /\ Cardinality(f) \in Nat /\ Cardinality(u) \in Nat
      /\ \A T \in SUBSET f : Cardinality(T) \in Nat
  BY ProcsFacts
<1>3. /\ MemCost * Cardinality(f) \in Nat /\ CacheCost * Cardinality(f) \in Nat
      /\ (MemCost - CacheCost) * Cardinality(u) \in Int
  BY <1>1, <1>2
<1>4. GrantedEnd(c, f, h, u) \in Nat
  <2>1. /\ cycle + c + MemCost * Cardinality(f) \in Int
        /\ cycle + c + CacheCost * Cardinality(f) - (IF h = {} THEN 0 ELSE MemCost - CacheCost) \in Int
        /\ cycle + c \in Int
        /\ cycle + c - (MemCost - CacheCost) * Cardinality(u) \in Int
    BY <1>1, <1>3
  <2> QED BY <2>1, WordTyped, ProtocolAssumption DEF GrantedEnd
<1>5. GrantedCost(p, c, f, h, u) \in Nat
  <2> DEFINE later == {g \in f : \E q \in h : q < g}
  <2>1. Cardinality(later) \in Nat
    BY <1>2
  <2>2. CacheCost * Cardinality(later) \in Nat
    BY <1>1, <2>1
  <2> HIDE DEF later
  <2>3. /\ ctl[p].cost + MemCost * Cardinality(f) \in Int
        /\ ctl[p].cost + CacheCost * Cardinality(f) \in Int
        /\ CacheCost + CacheCost * Cardinality(later) \in Nat
    BY <1>1, <1>3, <2>2
  <2>4. GrantedCost(p, c, f, h, u) =
          CASE Protocol = "MSI"    -> Word(ctl[p].cost + MemCost * Cardinality(f))
            [] Protocol = "MESI"   ->
                 IF h = {} THEN Word(ctl[p].cost + CacheCost * Cardinality(f))
                 ELSE CacheCost + CacheCost * Cardinality(later)
            [] Protocol = "DRAGON" -> ctl[p].cost
            [] Protocol = "MOESI"  -> IF c = HitCost \/ u = {} THEN ctl[p].cost
                                      ELSE CacheCost
    BY DEF GrantedCost, later
  <2> QED BY <1>1, <2>3, <2>4, WordTyped, ProtocolAssumption
<1> QED BY <1>4, <1>5

-------------------------------------------------------------------------------
(* The steps of main                                                           *)

(* What changing some fields of one cache does to the others.                  *)
LEMMA CtlUpdate ==
  ASSUME ControlTyped, NEW p \in Procs, NEW c \in Ctl, ctl' = [ctl EXCEPT ![p] = c]
  PROVE  /\ ctl' \in [Procs -> Ctl]
         /\ ctl'[p] = c
         /\ \A q \in Procs : q # p => ctl'[q] = ctl[q]
BY DEF ControlTyped

(* A job is handed out when nobody is busy, so nobody else has one.            *)
LEMMA DispatchStep ==
  ASSUME CtlInv, NEW p \in Procs, NEW op \in TraceOps, NEW b \in Blocks, Dispatch(p, op, b)
  PROVE  CtlInv'
<1> DEFINE job == [op |-> op, block |-> b]
           queue == Append(ctl[p].pending, job)
           c == [ctl[p] EXCEPT !.pending = queue]
<1>1. job \in Job
  BY SizeAssumption DEF Job
<1>2. \A q \in Procs : ctl[q].pending = <<>> /\ ~ctl[q].busy /\ ctl[q] \in Ctl
  BY DEF CtlInv, ControlTyped, Handshake, Dispatch, NoJobs
<1>3. queue \in Seq(Job) /\ Len(queue) <= 1
  <2>1. queue = Append(<<>>, job)
    BY <1>2
  <2>2. <<>> \in Seq(Job) /\ Len(<<>>) = 0
    OBVIOUS
  <2> HIDE DEF job
  <2> QED BY <1>1, <2>1, <2>2, AppendProperties
<1> HIDE DEF job, queue
<1>4. c \in Ctl /\ c.pending = queue
      /\ c.busy = ctl[p].busy /\ c.haveBusRequest = ctl[p].haveBusRequest
      /\ c.serviced = ctl[p].serviced
  BY <1>2, <1>3 DEF Ctl
<1>5. /\ pc = "loop" /\ pc' = "caches" /\ turn' = 0 /\ cycle' = cycle + 1 /\ bus' = bus
      /\ remaining > 0 /\ remaining' = remaining - 1
      /\ ctl' = [ctl EXCEPT ![p] = c]
  BY DEF Dispatch, StartTicks, queue, job
<1> HIDE DEF c
<1>6. /\ ctl' \in [Procs -> Ctl]
      /\ ctl'[p] = c
      /\ \A q \in Procs : q # p => ctl'[q] = ctl[q]
  BY <1>4, <1>5, CtlUpdate DEF CtlInv
<1>7. ControlTyped'
  BY <1>5, <1>6, ProcsFacts, SizeAssumption DEF CtlInv, ControlTyped
<1>8. Handshake'
  <2>1. \A q \in Procs : /\ ~ctl[q].haveBusRequest /\ ~ctl[q].serviced
                        /\ ~(bus.inUse /\ bus.current = q)
    BY <1>2 DEF CtlInv, Handshake
  <2>2. \A q \in Procs : ~ctl'[q].busy /\ ~ctl'[q].haveBusRequest /\ ~ctl'[q].serviced
    BY <1>2, <1>4, <1>6, <2>1
  <2>3. \A q \in Procs : q # p => ctl'[q].pending = <<>> /\ Len(ctl'[q].pending) = 0
    BY <1>2, <1>6
  <2>4. Len(ctl'[p].pending) <= 1
    BY <1>3, <1>4, <1>6
  <2>5. \A q \in Procs : turn' <= q
    BY <1>5, ProcsFacts
  <2>6. bus.inUse => bus.current \in Procs
    BY DEF CtlInv, Handshake
  <2>7. \A q \in Procs : ctl'[q].pending # <<>> => q = p
    BY <2>3
  <2>8. \A q \in Procs : Len(ctl'[q].pending) <= 1
    <3> SUFFICES ASSUME NEW q \in Procs PROVE Len(ctl'[q].pending) <= 1
      OBVIOUS
    <3>1. CASE q = p
      BY <2>4, <3>1
    <3>2. CASE q # p
      BY <2>3, <3>2
    <3> QED BY <3>1, <3>2
  <2>9. bus' = bus /\ pc' = "caches"
    BY <1>5
  <2> QED BY <2>1, <2>2, <2>5, <2>6, <2>7, <2>8, <2>9 DEF Handshake, Engaged
<1> QED BY <1>7, <1>8 DEF CtlInv

(* The other steps of main start the tick of the first cache, or end.          *)
LEMMA MainStep ==
  ASSUME CtlInv, Tick \/ Exit \/ Done
  PROVE  CtlInv'
<1>1. CASE Tick
  <2>1. /\ pc' = "caches" /\ turn' = 0 /\ cycle' = cycle + 1 /\ pc = "loop"
        /\ UNCHANGED <<remaining, ctl, bus>>
    BY <1>1 DEF Tick, StartTicks
  <2>2. ControlTyped'
    BY <2>1, ProcsFacts DEF CtlInv, ControlTyped
  <2>3. Handshake'
    BY <2>1 DEF CtlInv, Handshake, Engaged
  <2> QED BY <2>2, <2>3 DEF CtlInv
<1>2. CASE Exit
  BY <1>2 DEF Exit, CtlInv, ControlTyped, Handshake, Engaged
<1>3. CASE Done
  BY <1>3 DEF Done, vars, CtlInv, ControlTyped, Handshake, Engaged
<1> QED BY <1>1, <1>2, <1>3

-------------------------------------------------------------------------------
(* The steps of a cache                                                        *)

(* Whoever is waiting for the bus when a cache's turn comes has been granted   *)
(* it or has ticked before; the next turn, or the bus, comes after.            *)
LEMMA TurnPasses ==
  ASSUME CtlInv, NEW p \in Procs, Ticks(p)
  PROVE  /\ pc = "caches" /\ p = turn /\ pc' \in {"caches", "bus"} /\ turn' \in Procs
         /\ pc' = "bus" \/ p < turn'
         /\ \A q \in Procs : q < turn => pc' = "bus" \/ q < turn'
         /\ \A q \in Procs : q # p /\ turn <= q => pc' = "caches" /\ turn' <= q
         /\ cycle' = cycle /\ remaining' = remaining /\ bus' = bus
  BY ProcsFacts DEF Ticks, Procs, CtlInv, ControlTyped

(* A cache that is being served only lets its turn pass.                       *)
LEMMA TickServicedStep ==
  ASSUME CtlInv, NEW p \in Procs, TickServiced(p)
  PROVE  CtlInv'
<1>1. ctl' = ctl /\ ctl[p].serviced /\ Ticks(p)
  BY DEF TickServiced
<1>2. ctl[p].pending = <<>>
  BY <1>1 DEF CtlInv, Handshake
<1>3. ControlTyped'
  BY <1>1, TurnPasses DEF CtlInv, ControlTyped
<1>4. Handshake'
  BY <1>1, <1>2, TurnPasses DEF CtlInv, Handshake, Engaged
<1> QED BY <1>3, <1>4 DEF CtlInv

(* A tick that leaves its cache c: free of further jobs, not yet served, and   *)
(* waiting for the bus only with its own job's block.                          *)
LEMMA CacheStep ==
  ASSUME CtlInv, NEW p \in Procs, Ticks(p), ~ctl[p].serviced,
         NEW c \in Ctl, ctl' = [ctl EXCEPT ![p] = c],
         c.pending = <<>>, ~c.serviced,
         c.busy => Engaged(p),
         c.haveBusRequest => c.busy /\ c.req.block = c.job.block
  PROVE  CtlInv'
<1>1. /\ ctl' \in [Procs -> Ctl] /\ ctl'[p] = c
      /\ \A q \in Procs : q # p => ctl'[q] = ctl[q]
  BY CtlUpdate DEF CtlInv
<1>2. ControlTyped'
  BY <1>1, TurnPasses DEF CtlInv, ControlTyped
<1>3. Handshake'
  <2>1. \A q, r \in Procs : (Engaged(q) /\ Engaged(r))' => q = r
    <3>1. \A q \in Procs : Engaged(q)' => Engaged(q)
      BY <1>1 DEF Engaged
    <3> QED BY <3>1 DEF CtlInv, Handshake
  <2>2. ASSUME NEW q \in Procs PROVE
         /\ Len(ctl'[q].pending) <= 1
         /\ ctl'[q].pending # <<>> => pc' = "caches" /\ turn' <= q /\ ~ctl'[q].busy
         /\ ctl'[q].serviced <=> bus'.inUse /\ bus'.current = q
         /\ ctl'[q].serviced => ctl'[q].haveBusRequest
         /\ ctl'[q].haveBusRequest =>
              /\ ctl'[q].busy
              /\ ctl'[q].req.block = ctl'[q].job.block
              /\ ctl'[q].serviced \/ pc' = "bus" \/ (pc' = "caches" /\ q < turn')
    <3>1. CASE q = p
      <4>1. Len(ctl'[q].pending) <= 1
        BY <1>1, <3>1
      <4>2. ctl'[q].serviced <=> bus'.inUse /\ bus'.current = q
        BY <1>1, <3>1, TurnPasses DEF CtlInv, Handshake
      <4> QED BY <1>1, <3>1, <4>1, <4>2, TurnPasses
    <3>2. CASE q # p
      BY <1>1, <3>2, TurnPasses DEF CtlInv, Handshake
    <3> QED BY <3>1, <3>2
  <2>3. bus'.inUse => bus'.current \in Procs
    BY TurnPasses DEF CtlInv, Handshake
  <2> QED BY <2>1, <2>2, <2>3 DEF Handshake
<1> QED BY <1>2, <1>3 DEF CtlInv

(* A cache whose turn it is does not wait for the bus.                         *)
LEMMA NotWaiting ==
  ASSUME CtlInv, NEW p \in Procs, Ticks(p), ~ctl[p].serviced
  PROVE  ~ctl[p].haveBusRequest
BY ProcsFacts DEF CtlInv, Handshake, Ticks

(* A cache with nothing to take goes on with its job, or ends it.              *)
LEMMA TickIdleStep ==
  ASSUME CtlInv, NEW p \in Procs, TickIdle(p)
  PROVE  CtlInv'
<1> DEFINE c == [ctl[p] EXCEPT !.busy = BusyStill(p)]
<1>1. /\ Ticks(p) /\ ~ctl[p].serviced
      /\ BusyStill(p) \/ ctl[p].pending = <<>>
      /\ ctl' = [ctl EXCEPT ![p] = c]
  BY DEF TickIdle
<1>2. BusyStill(p) \in BOOLEAN /\ (BusyStill(p) => ctl[p].busy)
  BY DEF BusyStill
<1>3. ctl[p].pending = <<>>
  BY <1>1, <1>2 DEF CtlInv, Handshake
<1>4. ctl[p] \in Ctl
  BY DEF CtlInv, ControlTyped
<1>5. /\ c \in Ctl /\ c.busy = BusyStill(p)
      /\ c.pending = ctl[p].pending /\ c.serviced = ctl[p].serviced
      /\ c.haveBusRequest = ctl[p].haveBusRequest
  BY <1>2, <1>4 DEF Ctl
<1>6. ~c.haveBusRequest
  BY <1>1, <1>5, NotWaiting
<1> HIDE DEF c
<1> QED BY <1>1, <1>2, <1>3, <1>5, <1>6, CacheStep DEF Engaged

(* The cache takes the only job there is.                                      *)
LEMMA TickHandlesStep ==
  ASSUME CtlInv, NEW p \in Procs, TickHandles(p)
  PROVE  CtlInv'
<1> DEFINE job   == Head(ctl[p].pending)
           s     == LineState(AfterJob(p)[SetOf(job.block)], job.block)
           taken == [ctl[p] EXCEPT !.pending = Tail(@), !.job = job, !.busy = FALSE]
<1>1. /\ Ticks(p) /\ ~ctl[p].serviced
      /\ ctl[p].pending # <<>>
  BY DEF TickHandles
<1>2. ctl[p] \in Ctl
  BY DEF CtlInv, ControlTyped
<1>3. job \in Job /\ Tail(ctl[p].pending) \in Seq(Job) /\ Tail(ctl[p].pending) = <<>>
  <2>1. ctl[p].pending \in Seq(Job) /\ Len(ctl[p].pending) <= 1
    BY <1>2 DEF Ctl, CtlInv, Handshake
  <2>2. job \in Job /\ Tail(ctl[p].pending) \in Seq(Job)
        /\ Len(Tail(ctl[p].pending)) = Len(ctl[p].pending) - 1
    BY <1>1, <2>1, HeadTailProperties
  <2>3. Len(ctl[p].pending) \in Nat /\ Len(Tail(ctl[p].pending)) \in Nat
    BY <2>1, <2>2, LenProperties
  <2>4. Len(Tail(ctl[p].pending)) = 0
    <3> DEFINE m == Len(ctl[p].pending)
               n == Len(Tail(ctl[p].pending))
    <3>1. m \in Nat /\ n \in Nat /\ m <= 1 /\ n = m - 1
      BY <2>1, <2>2, <2>3
    <3> HIDE DEF m, n
    <3>2. n = 0
      BY <3>1
    <3> QED BY <3>2 DEF n
  <2> QED BY <2>2, <2>4, EmptySeq
<1>4. /\ taken \in Ctl /\ taken.pending = <<>> /\ ~taken.busy /\ ~taken.serviced
      /\ ~taken.haveBusRequest /\ taken.job = job
  BY <1>1, <1>2, <1>3, NotWaiting DEF Ctl
<1>5. PICK c : /\ ctl' = [ctl EXCEPT ![p] = c]
               /\ \/ c = taken
                  \/ c = [taken EXCEPT !.busy = TRUE, !.haveBusRequest = FALSE,
                                       !.start = cycle, !.cost = HitCost]
                  \/ \E flush \in BOOLEAN : \E k \in RequestCosts(job.op, s, flush) :
                       /\ Decision(job.op, s) \in Commands
                       /\ c = [taken EXCEPT !.busy = TRUE, !.haveBusRequest = TRUE,
                                  !.cost = JobCost(p, job.op, k),
                                  !.req = [cmd   |-> Decision(job.op, s),
                                           block |-> job.block, cost |-> AsInt(k)]]
  BY DEF TickHandles, FlushesVictim, EvictLineModified
<1> HIDE DEF job, s, taken
<1>6. c \in Ctl /\ c.pending = <<>> /\ ~c.serviced
      /\ (c.haveBusRequest => c.busy /\ c.req.block = c.job.block)
  <2>1. CASE c = taken
    BY <1>4, <2>1
  <2>2. CASE c = [taken EXCEPT !.busy = TRUE, !.haveBusRequest = FALSE,
                               !.start = cycle, !.cost = HitCost]
    BY <1>4, <2>2, CostAssumption DEF Ctl, CtlInv, ControlTyped
  <2>3. ASSUME NEW flush \in BOOLEAN, NEW k \in RequestCosts(job.op, s, flush),
               Decision(job.op, s) \in Commands,
               c = [taken EXCEPT !.busy = TRUE, !.haveBusRequest = TRUE,
                                 !.cost = JobCost(p, job.op, k),
                                 !.req = [cmd   |-> Decision(job.op, s),
                                          block |-> job.block, cost |-> AsInt(k)]]
        PROVE  c \in Ctl /\ c.pending = <<>> /\ ~c.serviced
               /\ (c.haveBusRequest => c.busy /\ c.req.block = c.job.block)
    <3>1. k \in Nat /\ AsInt(k) \in Nat
      BY CostsTyped, AsIntTyped
    <3>2. JobCost(p, job.op, k) \in Nat
      BY <1>2, <3>1 DEF JobCost, Ctl
    <3>3. [cmd |-> Decision(job.op, s), block |-> job.block, cost |-> AsInt(k)] \in Req
      BY <1>3, <2>3, <3>1 DEF Req, Job
    <3> DEFINE r == [cmd |-> Decision(job.op, s), block |-> job.block, cost |-> AsInt(k)]
               j == JobCost(p, job.op, k)
    <3>4. /\ r \in Req /\ j \in Nat /\ r.block = job.block
          /\ c = [taken EXCEPT !.busy = TRUE, !.haveBusRequest = TRUE, !.cost = j, !.req = r]
      BY <2>3, <3>2, <3>3
    <3> HIDE DEF r, j
    <3> QED BY <1>4, <3>4 DEF Ctl
  <2> QED BY <1>5, <2>1, <2>2, <2>3
<1> QED BY <1>1, <1>5, <1>6, CacheStep DEF Engaged

-------------------------------------------------------------------------------
(* The steps of the bus manager                                                *)

(* When the bus manager's turn comes, no job waits to be taken, and the cache  *)
(* it serves or is about to serve is the only busy one.                        *)
LEMMA BusTurn ==
  ASSUME CtlInv, pc = "bus"
  PROVE  /\ \A q \in Procs : ctl[q].pending = <<>> /\ ctl[q] \in Ctl
         /\ \A q, r \in Procs : ctl[q].busy /\ ctl[r].busy => q = r
         /\ \A q \in Procs : ctl[q].haveBusRequest => ctl[q].busy
         /\ \A q \in Procs : ctl[q].serviced => ctl[q].haveBusRequest
         /\ \A q \in Procs : ctl[q].serviced <=> bus.inUse /\ bus.current = q
         /\ bus.inUse => bus.current \in Procs
BY DEF CtlInv, ControlTyped, Handshake, Engaged

(* What a bus step must leave in the one cache it changes.                     *)
LEMMA BusStep ==
  ASSUME CtlInv, pc = "bus", NEW p \in Procs,
         NEW c \in Ctl, ctl' = [ctl EXCEPT ![p] = c],
         ctl[p].busy, \A q \in Procs : q # p => ~ctl[q].haveBusRequest,
         c.pending = <<>>,
         c.serviced <=> bus'.inUse /\ bus'.current = p,
         c.serviced => c.haveBusRequest,
         c.haveBusRequest => c.busy /\ c.req.block = c.job.block,
         c.haveBusRequest => c.serviced \/ pc' = "bus",
         bus'.inUse => bus'.current = p,
         pc' \in {"loop", "bus"}, turn' = turn, cycle' = cycle, remaining' = remaining,
         bus' \in [inUse : BOOLEAN, current : Procs \cup {-1}, isShared : BOOLEAN, endCycle : Nat]
  PROVE  CtlInv'
<1>1. /\ ctl' \in [Procs -> Ctl] /\ ctl'[p] = c
      /\ \A q \in Procs : q # p => ctl'[q] = ctl[q]
  BY CtlUpdate DEF CtlInv
<1>2. ControlTyped'
  BY <1>1 DEF CtlInv, ControlTyped
<1>3. Handshake'
  <2>1. \A q, r \in Procs : (Engaged(q) /\ Engaged(r))' => q = r
    <3>1. \A q \in Procs : Engaged(q)' => q = p
      BY <1>1, BusTurn DEF Engaged
    <3> QED BY <3>1
  <2>2. ASSUME NEW q \in Procs PROVE
         /\ Len(ctl'[q].pending) <= 1
         /\ ctl'[q].pending = <<>>
         /\ ctl'[q].serviced <=> bus'.inUse /\ bus'.current = q
         /\ ctl'[q].serviced => ctl'[q].haveBusRequest
         /\ ctl'[q].haveBusRequest =>
              /\ ctl'[q].busy
              /\ ctl'[q].req.block = ctl'[q].job.block
              /\ ctl'[q].serviced \/ pc' = "bus"
    <3>1. CASE q = p
      BY <1>1, <3>1
    <3>2. CASE q # p
      <4>1. ctl'[q] = ctl[q] /\ ctl[q].pending = <<>>
        BY <1>1, <3>2, BusTurn
      <4>2. ~ctl[q].haveBusRequest /\ ~ctl[q].serviced
        BY <3>2, BusTurn
      <4>3. ~(bus'.inUse /\ bus'.current = q)
        BY <3>2
      <4> QED BY <4>1, <4>2, <4>3
    <3> QED BY <3>1, <3>2
  <2> QED BY <2>1, <2>2 DEF Handshake
<1> QED BY <1>2, <1>3 DEF CtlInv

(* The bus stays as it is: whoever waits for it is being served.               *)
LEMMA BusWaitsStep ==
  ASSUME CtlInv, BusWaits
  PROVE  CtlInv'
<1>1. /\ pc = "bus" /\ pc' = "loop" /\ bus.inUse
      /\ UNCHANGED <<turn, cycle, remaining, ctl, bus>>
  BY DEF BusWaits
<1>2. \A q \in Procs : ctl[q].haveBusRequest => ctl[q].serviced
  BY <1>1, BusTurn
<1>3. \A q \in Procs : ctl[q].pending = <<>>
  BY <1>1, BusTurn
<1>4. ControlTyped'
  BY <1>1 DEF CtlInv, ControlTyped
<1>5. Handshake'
  BY <1>1, <1>2, <1>3 DEF CtlInv, Handshake, Engaged
<1> QED BY <1>4, <1>5 DEF CtlInv

(* Nobody waits for the bus and nobody holds it.                               *)
LEMMA BusIdleStep ==
  ASSUME CtlInv, BusIdle
  PROVE  CtlInv'
<1>1. /\ pc = "bus" /\ pc' = "loop" /\ ~bus.inUse
      /\ bus' = [bus EXCEPT !.isShared = FALSE]
      /\ UNCHANGED <<turn, cycle, remaining, ctl>>
      /\ \A q \in Procs : ~ctl[q].haveBusRequest
  BY DEF BusIdle, Requesters
<1>2. \A q \in Procs : ctl[q].pending = <<>>
  BY <1>1, BusTurn
<1>3. /\ bus' \in [inUse : BOOLEAN, current : Procs \cup {-1}, isShared : BOOLEAN, endCycle : Nat]
      /\ bus'.inUse = bus.inUse
  BY <1>1 DEF CtlInv, ControlTyped
<1>4. ControlTyped'
  BY <1>1, <1>3 DEF CtlInv, ControlTyped
<1>5. Handshake'
  BY <1>1, <1>2, <1>3 DEF CtlInv, Handshake, Engaged
<1> QED BY <1>4, <1>5 DEF CtlInv

(* The end of a transaction releases the cache, or has it ask again at once.   *)
LEMMA BusFinishStep ==
  ASSUME CtlInv, BusFinish
  PROVE  CtlInv'
<1> DEFINE p     == bus.current
           again == Reissues(ctl[p].job.op, bus.isShared)
           r     == IF again THEN [cmd |-> "BusRdX", block |-> ctl[p].job.block, cost |-> CacheCost]
                    ELSE ctl[p].req
           k     == IF again THEN CacheCost ELSE ctl[p].cost
           c     == [ctl[p] EXCEPT !.haveBusRequest = again, !.busy = again, !.serviced = FALSE,
                                   !.start = cycle, !.cost = k, !.req = r]
<1>1. /\ pc = "bus" /\ pc' = pc /\ bus.inUse
      /\ ctl' = [ctl EXCEPT ![p] = c]
      /\ bus' = [bus EXCEPT !.inUse = FALSE, !.isShared = FALSE, !.current = -1]
      /\ turn' = turn /\ cycle' = cycle /\ remaining' = remaining
  <2>1. ctl' = [ctl EXCEPT ![p] = c]
    BY Zenon DEF BusFinish
  <2>2. /\ pc = "bus" /\ pc' = pc /\ bus.inUse
        /\ bus' = [bus EXCEPT !.inUse = FALSE, !.isShared = FALSE, !.current = -1]
        /\ turn' = turn /\ cycle' = cycle /\ remaining' = remaining
    BY DEF BusFinish
  <2> QED BY <2>1, <2>2
<1>2. /\ p \in Procs /\ ctl[p] \in Ctl /\ ctl[p].pending = <<>>
      /\ ctl[p].busy /\ ctl[p].haveBusRequest
      /\ \A q \in Procs : q # p => ~ctl[q].haveBusRequest
  BY <1>1, BusTurn
<1>3. again \in BOOLEAN /\ (again => ctl[p].job.op = "W")
  BY DEF Reissues
<1>4. r \in Req \cup {NoReq} /\ k \in Nat /\ cycle \in Nat
      /\ (again => r.block = ctl[p].job.block)
  <2>1. again => ctl[p].job \in Job
    BY <1>2, <1>3 DEF Ctl, NoJob
  <2> QED BY <1>2, <2>1, CostAssumption DEF Ctl, Job, Req, Commands, CtlInv, ControlTyped
<1> HIDE DEF again, r, k
<1>5. /\ c \in Ctl /\ c.pending = <<>> /\ ~c.serviced
      /\ (c.haveBusRequest => c.busy /\ c.req.block = c.job.block)
  BY <1>2, <1>3, <1>4 DEF Ctl
<1>6. /\ bus' \in [inUse : BOOLEAN, current : Procs \cup {-1}, isShared : BOOLEAN, endCycle : Nat]
      /\ ~bus'.inUse
  BY <1>1 DEF CtlInv, ControlTyped
<1> HIDE DEF p, c
<1> QED BY <1>1, <1>2, <1>5, <1>6, BusStep

(* The bus is granted to a cache that waits for it: the only one.              *)
LEMMA BusGrantStep ==
  ASSUME CtlInv, NEW p \in Procs, BusGrant(p)
  PROVE  CtlInv'
<1>1. /\ pc = "bus" /\ pc' = "loop" /\ ~bus.inUse /\ ctl[p].haveBusRequest
      /\ turn' = turn /\ cycle' = cycle /\ remaining' = remaining
  BY DEF BusGrant, Requesters
<1>2. PICK f \in SUBSET Procs, h \in SUBSET Procs, u \in SUBSET Procs, shared \in BOOLEAN :
        /\ ctl' = [ctl EXCEPT ![p] =
             [@ EXCEPT !.serviced = TRUE, !.start = cycle,
                       !.cost = GrantedCost(p, ctl[p].req.cost, f, h, u)]]
        /\ bus' = [inUse |-> TRUE, current |-> p, isShared |-> shared,
                   endCycle |-> GrantedEnd(ctl[p].req.cost, f, h, u)]
  <2> DEFINE i      == SetOf(ctl[p].req.block)
             tag    == WireTag(ctl[p].req.block)
             f      == {q \in Procs \ {p} : Flushes(Held(q, i, tag))}
             h      == {q \in Procs \ {p} : AnswersShared(Held(q, i, tag))}
             u      == {q \in Procs \ {p} : Supplies(Held(q, i, tag))}
             shared == \E q \in Procs \ {p} : MarksShared(ctl[p].req.cmd, Held(q, i, tag))
  <2>1. f \in SUBSET Procs /\ h \in SUBSET Procs /\ u \in SUBSET Procs /\ shared \in BOOLEAN
    OBVIOUS
  <2>2. /\ ctl' = [ctl EXCEPT ![p] =
             [@ EXCEPT !.serviced = TRUE, !.start = cycle,
                       !.cost = GrantedCost(p, ctl[p].req.cost, f, h, u)]]
        /\ bus' = [inUse |-> TRUE, current |-> p, isShared |-> shared,
                   endCycle |-> GrantedEnd(ctl[p].req.cost, f, h, u)]
    BY DEF BusGrant
  <2> HIDE DEF f, h, u, shared
  <2> QED BY <2>1, <2>2
<1>3. /\ ctl[p] \in Ctl /\ ctl[p].pending = <<>> /\ ctl[p].busy
      /\ ctl[p].req.cost \in Nat /\ cycle \in Nat
      /\ ctl[p].req.block = ctl[p].job.block
      /\ \A q \in Procs : q # p => ~ctl[q].haveBusRequest
  <2>1. /\ ctl[p] \in Ctl /\ ctl[p].pending = <<>> /\ ctl[p].busy
        /\ \A q \in Procs : q # p => ~ctl[q].haveBusRequest
    BY <1>1, BusTurn
  <2>2. ctl[p].req.cost \in Nat
    BY <2>1 DEF Ctl, Req, NoReq
  <2>3. ctl[p].req.block = ctl[p].job.block
    BY <1>1 DEF CtlInv, Handshake
  <2> QED BY <2>1, <2>2, <2>3 DEF CtlInv, ControlTyped
<1> DEFINE k == GrantedCost(p, ctl[p].req.cost, f, h, u)
           e == GrantedEnd(ctl[p].req.cost, f, h, u)
           c == [ctl[p] EXCEPT !.serviced = TRUE, !.start = cycle, !.cost = k]
<1>4. k \in Nat /\ e \in Nat
  BY <1>3, GrantedTyped DEF CtlInv
<1>5. ctl' = [ctl EXCEPT ![p] = c]
      /\ bus' = [inUse |-> TRUE, current |-> p, isShared |-> shared, endCycle |-> e]
  BY <1>2
<1> HIDE DEF k, e
<1>6. /\ c \in Ctl /\ c.pending = <<>> /\ c.serviced /\ c.haveBusRequest /\ c.busy
      /\ c.req.block = c.job.block
  BY <1>1, <1>3, <1>4 DEF Ctl
<1>7. /\ bus' \in [inUse : BOOLEAN, current : Procs \cup {-1}, isShared : BOOLEAN, endCycle : Nat]
      /\ bus'.inUse /\ bus'.current = p
  BY <1>4, <1>5
<1> HIDE DEF c
<1> QED BY <1>1, <1>3, <1>5, <1>6, <1>7, BusStep

-------------------------------------------------------------------------------
(* Every machine starts with nobody engaged.                                   *)
LEMMA InitCtlInv == Init => CtlInv
<1> SUFFICES ASSUME Init PROVE CtlInv
  OBVIOUS
<1>1. ControlTyped
  <2>1. [pending |-> <<>>, job |-> NoJob, busy |-> FALSE, haveBusRequest |-> FALSE,
         serviced |-> FALSE, start |-> 0, cost |-> 0, req |-> NoReq] \in Ctl
    BY EmptySeq DEF Ctl
  <2> QED BY <2>1, ProcsFacts DEF Init, ControlTyped
<1>2. \A p \in Procs : /\ ctl[p].pending = <<>> /\ ~ctl[p].busy
                      /\ ~ctl[p].haveBusRequest /\ ~ctl[p].serviced
  BY DEF Init
<1>3. ~bus.inUse
  BY DEF Init
<1>4. Handshake
  BY <1>2, <1>3, EmptySeq DEF Handshake, Engaged
<1> QED BY <1>1, <1>4 DEF CtlInv

(* Whatever step the machine takes, control stays typed and the handshake      *)
(* stands.                                                                     *)
LEMMA NextCtlInv == CtlInv /\ [Next]_vars => CtlInv'
<1> SUFFICES ASSUME CtlInv, [Next]_vars PROVE CtlInv'
  OBVIOUS
<1>1. CASE UNCHANGED vars
  BY <1>1 DEF vars, CtlInv, ControlTyped, Handshake, Engaged
<1>2. ASSUME NEW p \in Procs, NEW op \in TraceOps, NEW b \in Blocks, Dispatch(p, op, b)
      PROVE  CtlInv'
  BY <1>2, DispatchStep
<1>3. CASE Tick \/ Exit \/ Done
  BY <1>3, MainStep
<1>4. ASSUME NEW p \in Procs, TickServiced(p) \/ TickIdle(p) \/ TickHandles(p)
      PROVE  CtlInv'
  BY <1>4, TickServicedStep, TickIdleStep, TickHandlesStep
<1>5. CASE BusWaits \/ BusFinish \/ BusIdle
  BY <1>5, BusWaitsStep, BusFinishStep, BusIdleStep
<1>6. ASSUME NEW p \in Procs, BusGrant(p) PROVE CtlInv'
  BY <1>6, BusGrantStep
<1> QED BY <1>1, <1>2, <1>3, <1>4, <1>5, <1>6 DEF Next

(* Main, the caches and the bus manager always agree on who is being served,   *)
(* and no request ever waits where a stale deadline could end it.              *)
THEOREM HandshakeHolds == Spec => []Handshake
<1>1. CtlInv => Handshake
  BY DEF CtlInv
<1> QED BY InitCtlInv, NextCtlInv, <1>1, PTL DEF Spec

(* The control part of the type invariant, for any machine and trace.          *)
THEOREM ControlTypeCorrect == Spec => []ControlTyped
<1>1. CtlInv => ControlTyped
  BY DEF CtlInv
<1> QED BY InitCtlInv, NextCtlInv, <1>1, PTL DEF Spec
===============================================================================
