---------------------- MODULE SmpCacheRefinement_proofs ----------------------
(* For every machine and trace whose blocks fit the int of a bus request: each *)
(* step of the simulator is a step of Coherence or changes none of its state.  *)
(* What is proved of Coherence then holds of the simulator.                    *)
EXTENDS SmpCacheSets_proofs

(* Block numbers survive the trip over the bus.                                *)
NarrowTags == \A b \in Blocks : WireTag(b) = b

(* Whoever asks for the bus does it for a job of the trace.                    *)
RequestInv == \A p \in Procs : ctl[p].haveBusRequest => ctl[p].job \in Job

(* What holds of the machine in every state.                                   *)
MachineInv == SmpInv /\ RequestInv

-------------------------------------------------------------------------------
(* The tables of Coherence are the tables of the simulator                     *)

(* The abstract protocol decides by the same tables.                           *)
LEMMA TablesAgree ==
  /\ Abstract!Commands = Commands
  /\ Abstract!Ops = Ops
  /\ \A op, s : /\ Abstract!Decision(op, s) = Decision(op, s)
                /\ Abstract!RequestState(op, s) = RequestState(op, s)
  /\ \A cmd, s : /\ Abstract!SnoopState(cmd, s) = SnoopState(cmd, s)
                 /\ Abstract!MarksShared(cmd, s) <=> MarksShared(cmd, s)
  /\ \A op, shared, s : /\ Abstract!FillState(op, shared, s) = FillState(op, shared, s)
                        /\ Abstract!Reissues(op, shared) <=> Reissues(op, shared)
<1>1. Abstract!Commands = Commands /\ Abstract!Ops = Ops
  BY DEF Abstract!Commands, Commands, Abstract!Ops, Ops
<1>2. \A op, s : /\ Abstract!Decision(op, s) = Decision(op, s)
                 /\ Abstract!RequestState(op, s) = RequestState(op, s)
  BY Zenon DEF Abstract!Decision, Decision, Abstract!RequestState, RequestState,
         Abstract!ReadHitStates, ReadHitStates, Abstract!WriteHitStates, WriteHitStates
<1>3. \A cmd, s : /\ Abstract!SnoopState(cmd, s) = SnoopState(cmd, s)
                  /\ Abstract!MarksShared(cmd, s) <=> MarksShared(cmd, s)
  BY Zenon DEF Abstract!SnoopState, SnoopState, Abstract!BusRdState, BusRdState,
         Abstract!BusRdXState, BusRdXState, Abstract!MarksShared, MarksShared,
         Abstract!Flushes, Flushes, Abstract!AnswersShared, AnswersShared,
         Abstract!Supplies, Supplies, Abstract!RaisesShared, RaisesShared
<1>4. \A op, shared, s : /\ Abstract!FillState(op, shared, s) = FillState(op, shared, s)
                         /\ Abstract!Reissues(op, shared) <=> Reissues(op, shared)
  BY Zenon DEF Abstract!FillState, FillState, Abstract!WriteFill, WriteFill,
         Abstract!ReadFill, ReadFill, Abstract!Reissues, Reissues
<1> QED BY <1>1, <1>2, <1>3, <1>4

-------------------------------------------------------------------------------
(* The states a cache holds its blocks in                                      *)

StatesOf(sets) == [b \in Blocks |-> LineState(sets[SetOf(b)], b)]

(* The abstract state of a cache's lines.                                      *)
LEMMA AbstractLinesAre == AbstractLines = [p \in Procs |-> StatesOf(lines[p])]
BY DEF AbstractLines, StatesOf, Held

(* The set with its first line of a tag replaced by another of that tag.       *)
WithLine(set, tag, l) == [set EXCEPT ![FirstWay(set, tag)] = l]

(* That line decides the state of its tag, and of no other.                    *)
LEMMA WithLineStates ==
  ASSUME NEW set \in [Ways -> Line], NoShadow(set), NEW tag,
         \E w \in Ways : set[w].tag = tag,
         NEW l, l.tag = tag
  PROVE  /\ NoShadow(WithLine(set, tag, l))
         /\ LineState(WithLine(set, tag, l), tag) = l.state
         /\ \A t : t # tag => LineState(WithLine(set, tag, l), t) = LineState(set, t)
<1> DEFINE new == WithLine(set, tag, l)
<1>1. NoShadow(new)
  BY FirstWayMayChange DEF WithLine
<1>2. FirstWay(set, tag) \in Ways
  BY FirstWayFound
<1>3. /\ new[FirstWay(set, tag)] = l
      /\ \A w \in Ways \ {FirstWay(set, tag)} : new[w] = set[w]
  BY <1>2 DEF WithLine
<1>4. new[FirstWay(set, tag)].tag = tag
  BY <1>3
<1> HIDE DEF new
<1>5. /\ LineState(new, tag) = new[FirstWay(set, tag)].state
      /\ \A t : t # tag => LineState(new, t) = LineState(set, t)
  BY <1>1, <1>3, <1>4, FirstWayDecides
<1> QED BY <1>1, <1>3, <1>5 DEF new

(* A look-up changes no state, ...                                             *)
LEMMA TouchStates ==
  ASSUME NEW set \in [Ways -> Line], NoShadow(set), NEW tag, NEW now
  PROVE  /\ NoShadow(Touch(set, tag, now))
         /\ HasLine(set, tag) => HasLine(Touch(set, tag, now), tag)
         /\ \A t : LineState(Touch(set, tag, now), t) = LineState(set, t)
<1>1. CASE ~HasLine(set, tag)
  BY <1>1 DEF Touch
<1>2. CASE HasLine(set, tag)
  <2> DEFINE f == FirstWay(set, tag)
             l == [set[f] EXCEPT !.lastUsed = now]
  <2>1. f \in Ways /\ set[f].tag = tag /\ Valid(set[f])
    BY <1>2, LookupFindsValid, FirstWayFound DEF HasLine
  <2>2. l.tag = tag /\ l.state = set[f].state /\ Valid(l)
    BY <2>1 DEF Line, Valid
  <2>3. Touch(set, tag, now) = WithLine(set, tag, l)
    BY <1>2 DEF Touch, WithLine
  <2>4. LineState(set, tag) = l.state
    BY <1>2, <2>2 DEF LineState
  <2>5. \E w \in Ways : set[w].tag = tag
    BY <1>2 DEF HasLine
  <2>6. HasLine(WithLine(set, tag, l), tag)
    BY <2>1, <2>2 DEF WithLine, HasLine
  <2> HIDE DEF l, f
  <2>7. /\ NoShadow(WithLine(set, tag, l))
        /\ LineState(WithLine(set, tag, l), tag) = l.state
        /\ \A t : t # tag => LineState(WithLine(set, tag, l), t) = LineState(set, t)
    BY <2>2, <2>5, WithLineStates
  <2> QED BY <2>3, <2>4, <2>6, <2>7
<1> QED BY <1>1, <1>2

(* ... and setting a state that of one tag, if it is there.                    *)
LEMMA SetLineStateStates ==
  ASSUME NEW set \in [Ways -> Line], NoShadow(set), NEW tag, NEW s
  PROVE  \A t : LineState(SetLineState(set, tag, s), t) =
                  IF t = tag /\ HasLine(set, tag) THEN s ELSE LineState(set, t)
<1>1. CASE ~HasLine(set, tag)
  BY <1>1 DEF SetLineState
<1>2. CASE HasLine(set, tag)
  <2> DEFINE f == FirstWay(set, tag)
             l == [set[f] EXCEPT !.state = s]
  <2>1. f \in Ways /\ set[f].tag = tag
    BY <1>2, FirstWayFound DEF HasLine
  <2>2. l.tag = tag /\ l.state = s
    BY <2>1 DEF Line
  <2>3. SetLineState(set, tag, s) = WithLine(set, tag, l)
    BY <1>2 DEF SetLineState, WithLine
  <2>4. \E w \in Ways : set[w].tag = tag
    BY <1>2 DEF HasLine
  <2> HIDE DEF l, f
  <2>5. /\ LineState(WithLine(set, tag, l), tag) = l.state
        /\ \A t : t # tag => LineState(WithLine(set, tag, l), t) = LineState(set, t)
    BY <2>2, <2>4, WithLineStates
  <2> QED BY <1>2, <2>2, <2>3, <2>5
<1> QED BY <1>1, <1>2

(* A look-up followed by a new state, as handlers and snoopers do it.          *)
LEMMA TouchAndSet ==
  ASSUME NEW set \in [Ways -> Line], NoShadow(set), NEW tag, NEW now \in Nat, NEW s,
         ~HasLine(set, tag) => s = "invalid"
  PROVE  \A t : LineState(SetLineState(Touch(set, tag, now), tag, s), t) =
                  IF t = tag THEN s ELSE LineState(set, t)
<1> DEFINE touched == Touch(set, tag, now)
<1>1. CASE ~HasLine(set, tag)
  BY <1>1 DEF Touch, SetLineState, LineState
<1>2. CASE HasLine(set, tag)
  <2>1. /\ NoShadow(touched) /\ HasLine(touched, tag)
        /\ \A t : LineState(touched, t) = LineState(set, t)
    BY <1>2, TouchStates
  <2>2. touched \in [Ways -> Line]
    BY <1>2, FirstWayFound DEF Touch, HasLine, Line
  <2> HIDE DEF touched
  <2>3. \A t : LineState(SetLineState(touched, tag, s), t) =
                 IF t = tag THEN s ELSE LineState(touched, t)
    BY <2>1, <2>2, SetLineStateStates
  <2> QED BY <2>1, <2>3 DEF touched
<1> QED BY <1>1, <1>2

(* Every block has a set.                                                      *)
LEMMA SetOfInSets == \A b \in Blocks : SetOf(b) \in Sets
BY SetOfTyped, SizeAssumption

(* The touch of the last job's line changes no state.                          *)
LEMMA AfterJobStates ==
  ASSUME CtlInv, LinesInv, NEW p \in Procs
  PROVE  StatesOf(AfterJob(p)) = StatesOf(lines[p])
<1> DEFINE job == ctl[p].job
<1>1. SoundCache(lines[p], cycle) /\ job \in Job \cup {NoJob}
  BY DEF CtlInv, ControlTyped, LinesInv, Ctl
<1>2. CASE Expired(p) /\ job # NoJob
  <2>1. job.block \in Nat
    BY <1>1, <1>2, SizeAssumption DEF Job
  <2> DEFINE i   == SetOf(job.block)
             set == Touch(lines[p][i], job.block, cycle)
  <2>2. i \in Sets /\ lines[p] \in [Sets -> [Ways -> Line]]
    BY <1>1, <2>1, SetOfTyped DEF SoundCache
  <2>3. lines[p][i] \in [Ways -> Line] /\ NoShadow(lines[p][i])
    BY <1>1, <2>2 DEF SoundCache, SoundSet
  <2>4. \A t : LineState(set, t) = LineState(lines[p][i], t)
    BY <2>3, TouchStates
  <2>5. AfterJob(p) = [lines[p] EXCEPT ![i] = set]
    BY <1>2 DEF AfterJob
  <2> HIDE DEF i, set
  <2>6. \A j \in Sets : AfterJob(p)[j] = IF j = i THEN set ELSE lines[p][j]
    BY <2>2, <2>5
  <2>7. \A b \in Blocks : StatesOf(AfterJob(p))[b] = StatesOf(lines[p])[b]
    BY <2>4, <2>6, SetOfInSets DEF StatesOf
  <2> QED BY <2>7 DEF StatesOf
<1>3. CASE ~(Expired(p) /\ job # NoJob)
  BY <1>3 DEF AfterJob
<1> QED BY <1>2, <1>3

(* The lines of the machine when one cache changes.                            *)
LEMMA OneCacheStates ==
  ASSUME LinesInv, NEW p \in Procs, NEW sets, lines' = [lines EXCEPT ![p] = sets]
  PROVE  AbstractLines' = [AbstractLines EXCEPT ![p] = StatesOf(sets)]
<1>1. \A q \in Procs : lines'[q] = IF q = p THEN sets ELSE lines[q]
  BY DEF LinesInv
<1>2. AbstractLines' = [q \in Procs |-> StatesOf(lines'[q])]
  BY DEF AbstractLines, StatesOf, Held
<1> QED BY <1>1, <1>2, AbstractLinesAre

-------------------------------------------------------------------------------
(* The transaction                                                             *)

(* The transaction of cache p, of its control fields c and the shared flag.    *)
TxnIn(c, p, isShared) ==
  [stage |-> IF c.serviced THEN "granted" ELSE "requested",
   proc |-> p, op |-> c.job.op, block |-> c.req.block, cmd |-> c.req.cmd,
   shared |-> c.serviced /\ isShared]

TxnsOf(cs, isShared) ==
  {TxnIn(cs[p], p, isShared) : p \in {q \in Procs : cs[q].haveBusRequest}}

(* The abstract transactions are those of the control fields and the bus.      *)
LEMMA AbstractTxnsAre ==
  /\ AbstractTxns = TxnsOf(ctl, bus.isShared)
  /\ AbstractTxns' = TxnsOf(ctl', bus'.isShared)
BY DEF AbstractTxns, TxnsOf, TxnIn, Requesters

(* Without a request there is no transaction, ...                              *)
LEMMA NoTxns ==
  ASSUME NEW cs, NEW isShared, \A q \in Procs : ~cs[q].haveBusRequest
  PROVE  TxnsOf(cs, isShared) = {}
BY DEF TxnsOf

(* ... with one there is one, ...                                              *)
LEMMA OneTxn ==
  ASSUME NEW cs, NEW isShared, NEW p \in Procs, cs[p].haveBusRequest,
         \A q \in Procs : q # p => ~cs[q].haveBusRequest
  PROVE  TxnsOf(cs, isShared) = {TxnIn(cs[p], p, isShared)}
<1>1. {q \in Procs : cs[q].haveBusRequest} = {p}
  OBVIOUS
<1> QED BY <1>1 DEF TxnsOf

(* ... and while no request changes, neither does it.                          *)
LEMMA SameTxns ==
  ASSUME NEW cs, NEW ds, NEW isShared,
         \A q \in Procs : /\ ds[q].haveBusRequest = cs[q].haveBusRequest
                          /\ ds[q].serviced = cs[q].serviced
                          /\ ds[q].job = cs[q].job /\ ds[q].req = cs[q].req
  PROVE  TxnsOf(ds, isShared) = TxnsOf(cs, isShared)
BY DEF TxnsOf, TxnIn

-------------------------------------------------------------------------------
(* The steps that Coherence does not see                                       *)

(* Main, waiting and idle steps.                                               *)
LEMMA StillStep ==
  ASSUME UNCHANGED <<ctl, lines, bus>>
  PROVE  UNCHANGED <<AbstractLines, AbstractTxns>>
BY DEF AbstractLines, AbstractTxns, Held, Requesters

(* A job handed out is no step of the protocol, ...                            *)
LEMMA DispatchStutters ==
  ASSUME CtlInv, NEW p \in Procs, NEW op \in TraceOps, NEW b \in Blocks, Dispatch(p, op, b)
  PROVE  UNCHANGED <<AbstractLines, AbstractTxns>>
<1>1. \A q \in Procs : ~ctl[q].haveBusRequest
  BY DEF Dispatch, NoJobs, CtlInv, Handshake
<1>2. \A q \in Procs : ctl'[q].haveBusRequest = ctl[q].haveBusRequest
  <2> DEFINE n == Append(ctl[p].pending, [op |-> op, block |-> b])
             c == [ctl[p] EXCEPT !.pending = n]
  <2>1. ctl' = [ctl EXCEPT ![p] = c]
    BY DEF Dispatch
  <2>2. ctl \in [Procs -> Ctl]
    BY DEF CtlInv, ControlTyped
  <2> HIDE DEF n
  <2>3. c.haveBusRequest = ctl[p].haveBusRequest
    BY <2>2 DEF Ctl
  <2> HIDE DEF c
  <2> QED BY <2>1, <2>2, <2>3
<1>3. AbstractTxns = {} /\ AbstractTxns' = {}
  BY <1>1, <1>2, NoTxns, AbstractTxnsAre
<1>4. lines' = lines
  BY DEF Dispatch
<1> QED BY <1>3, <1>4 DEF AbstractLines, Held

(* ... nor is an idle tick, ...                                                *)
LEMMA TickIdleStutters ==
  ASSUME CtlInv, LinesInv, NEW p \in Procs, TickIdle(p)
  PROVE  UNCHANGED <<AbstractLines, AbstractTxns>>
<1>1. /\ ctl' = [ctl EXCEPT ![p].busy = BusyStill(p)]
      /\ lines' = [lines EXCEPT ![p] = AfterJob(p)]
      /\ bus' = bus
  BY DEF TickIdle, Ticks
<1>2. ctl \in [Procs -> Ctl]
  BY DEF CtlInv, ControlTyped
<1>3. \A q \in Procs : /\ ctl'[q].haveBusRequest = ctl[q].haveBusRequest
                       /\ ctl'[q].serviced = ctl[q].serviced
                       /\ ctl'[q].job = ctl[q].job /\ ctl'[q].req = ctl[q].req
  <2> DEFINE n == BusyStill(p)
             c == [ctl[p] EXCEPT !.busy = n]
  <2>1. ctl' = [ctl EXCEPT ![p] = c]
    BY <1>1
  <2> HIDE DEF n
  <2>2. /\ c.haveBusRequest = ctl[p].haveBusRequest /\ c.serviced = ctl[p].serviced
        /\ c.job = ctl[p].job /\ c.req = ctl[p].req
    BY <1>2 DEF Ctl
  <2> HIDE DEF c
  <2>3. \A q \in Procs : ctl'[q] = IF q = p THEN c ELSE ctl[q]
    BY <1>2, <2>1
  <2> QED BY <2>2, <2>3
<1>4. AbstractTxns' = AbstractTxns
  <2>1. TxnsOf(ctl', bus.isShared) = TxnsOf(ctl, bus.isShared)
    BY <1>3, SameTxns
  <2>2. bus'.isShared = bus.isShared
    BY <1>1
  <2> QED BY <2>1, <2>2, AbstractTxnsAre
<1>5. AbstractLines' = [AbstractLines EXCEPT ![p] = StatesOf(lines[p])]
  BY <1>1, OneCacheStates, AfterJobStates
<1>6. AbstractLines' = AbstractLines
  BY <1>5, AbstractLinesAre
<1> QED BY <1>4, <1>6

(* ... nor an idle bus.                                                        *)
LEMMA BusIdleStutters ==
  ASSUME CtlInv, BusIdle
  PROVE  UNCHANGED <<AbstractLines, AbstractTxns>>
<1>1. (\A q \in Procs : ~ctl[q].haveBusRequest) /\ ctl' = ctl /\ lines' = lines
  BY DEF BusIdle, Requesters
<1>2. AbstractTxns = {} /\ AbstractTxns' = {}
  BY <1>1, NoTxns, AbstractTxnsAre
<1> QED BY <1>1, <1>2 DEF AbstractLines, Held

-------------------------------------------------------------------------------
(* The steps of the protocol                                                   *)

(* Handling a job is Hit or Request, unless the job is dropped.                *)
LEMMA TickHandlesMaps ==
  ASSUME CtlInv, LinesInv, NEW p \in Procs, TickHandles(p)
  PROVE  [Abstract!Next]_(Abstract!vars)
<1> DEFINE job   == Head(ctl[p].pending)
           b     == job.block
           i     == SetOf(b)
           set   == AfterJob(p)[i]
           s     == LineState(set, b)
           new   == RequestState(job.op, s)
           after == SetLineState(Touch(set, b, cycle), b, new)
           sets  == [AfterJob(p) EXCEPT ![i] = after]
<1>1. /\ ~ctl[p].serviced /\ ~BusyStill(p) /\ ctl[p].pending # <<>> /\ pc = "caches"
      /\ p = turn /\ bus' = bus
  BY DEF TickHandles, Ticks
<1>2. /\ ctl[p] \in Ctl /\ ctl \in [Procs -> Ctl] /\ cycle \in Nat
      /\ SoundCache(AfterJob(p), cycle)
  BY AfterJobSound DEF CtlInv, ControlTyped
<1>3. job \in Job
  <2>1. ctl[p].pending \in Seq(Job) /\ ctl[p].pending # <<>>
    BY <1>1, <1>2 DEF Ctl
  <2> QED BY <2>1, HeadTailProperties
<1>4. b \in Blocks /\ job.op \in Ops /\ i \in Sets
  BY <1>3, SizeAssumption, SetOfTyped DEF Job
<1>5. \A q \in Procs : ~ctl[q].haveBusRequest
  BY <1>1 DEF CtlInv, Handshake, Engaged
<1>6. AbstractTxns = {}
  BY <1>5, NoTxns, AbstractTxnsAre
<1>7. AfterJob(p) \in [Sets -> [Ways -> Line]] /\ set \in [Ways -> Line] /\ NoShadow(set)
  BY <1>2, <1>4 DEF SoundCache, SoundSet
<1>8. s = AbstractLines[p][b]
  BY <1>4, AfterJobStates, AbstractLinesAre DEF StatesOf
<1>9. PICK c : /\ ctl' = [ctl EXCEPT ![p] = c]
               /\ \/ /\ Decision(job.op, s) = "drop"
                     /\ ~c.haveBusRequest
                     /\ lines' = [lines EXCEPT ![p] = AfterJob(p)]
                  \/ /\ Decision(job.op, s) = "hit"
                     /\ ~c.haveBusRequest
                     /\ lines' = [lines EXCEPT ![p] = sets]
                  \/ /\ Decision(job.op, s) \in Commands
                     /\ c.haveBusRequest /\ ~c.serviced /\ c.job = job
                     /\ c.req.cmd = Decision(job.op, s) /\ c.req.block = b
                     /\ lines' = [lines EXCEPT ![p] = sets]
  <2> DEFINE rest  == Tail(ctl[p].pending)
             taken == [ctl[p] EXCEPT !.pending = rest, !.job = job, !.busy = FALSE]
             hit   == [taken EXCEPT !.busy = TRUE, !.haveBusRequest = FALSE,
                                    !.start = cycle, !.cost = HitCost]
             Asked(k, r) == [taken EXCEPT !.busy = TRUE, !.haveBusRequest = TRUE,
                                          !.cost = k, !.req = r]
  <2>1. \/ /\ Decision(job.op, s) = "drop"
           /\ ctl' = [ctl EXCEPT ![p] = taken]
           /\ lines' = [lines EXCEPT ![p] = AfterJob(p)]
        \/ /\ Decision(job.op, s) = "hit"
           /\ ctl' = [ctl EXCEPT ![p] = hit]
           /\ lines' = [lines EXCEPT ![p] = sets]
        \/ /\ Decision(job.op, s) \in Commands
           /\ \E k, cost : ctl' = [ctl EXCEPT ![p] =
                Asked(k, [cmd |-> Decision(job.op, s), block |-> job.block, cost |-> cost])]
           /\ lines' = [lines EXCEPT ![p] = sets]
    BY DEF TickHandles
  <2> HIDE DEF job, rest, s, sets
  <2>2. ~taken.haveBusRequest
    BY <1>2, <1>4, <1>5 DEF Ctl
  <2>3. ~hit.haveBusRequest
    BY <1>2 DEF Ctl
  <2>4. \A k, r : /\ Asked(k, r).haveBusRequest /\ ~Asked(k, r).serviced
                  /\ Asked(k, r).job = job /\ Asked(k, r).req = r
    BY <1>1, <1>2 DEF Ctl
  <2> HIDE DEF taken, hit, Asked
  <2>5. CASE /\ Decision(job.op, s) \in Commands
             /\ \E k, cost : ctl' = [ctl EXCEPT ![p] =
                  Asked(k, [cmd |-> Decision(job.op, s), block |-> job.block, cost |-> cost])]
             /\ lines' = [lines EXCEPT ![p] = sets]
    <3>1. PICK k, cost : ctl' = [ctl EXCEPT ![p] =
              Asked(k, [cmd |-> Decision(job.op, s), block |-> job.block, cost |-> cost])]
      BY <2>5
    <3> DEFINE r == [cmd |-> Decision(job.op, s), block |-> job.block, cost |-> cost]
    <3>2. r.cmd = Decision(job.op, s) /\ r.block = b
      OBVIOUS
    <3>3. ctl' = [ctl EXCEPT ![p] = Asked(k, r)]
      BY <3>1
    <3> DEFINE a == Asked(k, r)
    <3>4. a.haveBusRequest /\ ~a.serviced /\ a.job = job /\ a.req = r
      BY <2>4
    <3> HIDE DEF r, a
    <3>5. ctl' = [ctl EXCEPT ![p] = a]
      BY <3>3 DEF a
    <3> QED BY <2>5, <3>2, <3>4, <3>5
  <2> QED BY <2>1, <2>2, <2>3, <2>5
<1> HIDE DEF job, set, after
<1>10. ASSUME lines' = [lines EXCEPT ![p] = sets]
       PROVE  AbstractLines' = [AbstractLines EXCEPT ![p][b] = new]
  <2>1. ~HasLine(set, b) => new = "invalid"
    BY DEF LineState, RequestState
  <2> HIDE DEF new
  <2>2. \A t : LineState(after, t) = IF t = b THEN new ELSE LineState(set, t)
    BY <1>2, <1>7, <2>1, TouchAndSet DEF after
  <2>3. \A d \in Blocks : StatesOf(sets)[d] =
          IF SetOf(d) = i THEN LineState(after, d) ELSE StatesOf(AfterJob(p))[d]
    <3>1. \A j \in Sets : sets[j] = IF j = i THEN after ELSE AfterJob(p)[j]
      BY <1>4, <1>7
    <3> HIDE DEF sets, i
    <3> QED BY <3>1, SetOfInSets DEF StatesOf
  <2>4. \A d \in Blocks : StatesOf(AfterJob(p))[d] = LineState(AfterJob(p)[SetOf(d)], d)
    BY DEF StatesOf
  <2> DEFINE result == StatesOf(sets)
  <2>5. \A d \in Blocks : result[d] = IF d = b THEN new ELSE StatesOf(lines[p])[d]
    BY <2>2, <2>3, <2>4, AfterJobStates DEF set
  <2>6. result = [d \in Blocks |-> result[d]]
    BY DEF StatesOf
  <2>7. AbstractLines' = [AbstractLines EXCEPT ![p] = result]
    BY <1>10, OneCacheStates
  <2> HIDE DEF result
  <2>8. result = [StatesOf(lines[p]) EXCEPT ![b] = new]
    BY <2>5, <2>6 DEF StatesOf
  <2>9. AbstractLines[p] = StatesOf(lines[p])
    BY AbstractLinesAre
  <2> QED BY <2>7, <2>8, <2>9
<1>11. \A q \in Procs : ctl'[q] = IF q = p THEN c ELSE ctl[q]
  BY <1>2, <1>9
<1>12. CASE Decision(job.op, s) = "drop"
  <2>1. \A q \in Procs : ~ctl'[q].haveBusRequest
    BY <1>5, <1>9, <1>11, <1>12 DEF Commands
  <2>2. AbstractTxns' = {}
    BY <2>1, NoTxns, AbstractTxnsAre
  <2>3. lines' = [lines EXCEPT ![p] = AfterJob(p)]
    BY <1>9, <1>12 DEF Commands
  <2>4. AbstractLines' = [AbstractLines EXCEPT ![p] = StatesOf(lines[p])]
    BY <2>3, OneCacheStates, AfterJobStates
  <2>5. AbstractLines' = AbstractLines
    BY <2>4, AbstractLinesAre
  <2> QED BY <1>6, <2>2, <2>5 DEF Abstract!vars
<1>13. CASE Decision(job.op, s) = "hit"
  <2>1. /\ \A q \in Procs : ~ctl'[q].haveBusRequest
        /\ lines' = [lines EXCEPT ![p] = sets]
    BY <1>5, <1>9, <1>11, <1>13 DEF Commands
  <2>2. AbstractTxns' = {}
    BY <2>1, NoTxns, AbstractTxnsAre
  <2>3. AbstractLines' = [AbstractLines EXCEPT ![p][b] = new]
    BY <1>10, <2>1
  <2>4. Abstract!Hit(p, job.op, b)
    BY <1>6, <1>8, <1>13, <2>2, <2>3, TablesAgree DEF Abstract!Hit
  <2> QED BY <1>4, <2>4, TablesAgree DEF Abstract!Next
<1>14. CASE Decision(job.op, s) \in Commands
  <2>1. /\ c.haveBusRequest /\ ~c.serviced /\ c.job = job
        /\ c.req.cmd = Decision(job.op, s) /\ c.req.block = b
        /\ lines' = [lines EXCEPT ![p] = sets]
    BY <1>9, <1>14 DEF Commands
  <2>2. ctl'[p] = c /\ \A q \in Procs : q # p => ~ctl'[q].haveBusRequest
    BY <1>5, <1>11
  <2>3. AbstractTxns' = {TxnIn(c, p, bus'.isShared)}
    BY <2>1, <2>2, OneTxn, AbstractTxnsAre
  <2>4. TxnIn(c, p, bus'.isShared) = Abstract!Requested(p, job.op, b, Decision(job.op, s))
    BY <2>1 DEF TxnIn, Abstract!Requested
  <2>5. AbstractLines' = [AbstractLines EXCEPT ![p][b] = new]
    BY <1>10, <2>1
  <2>6. Abstract!Request(p, job.op, b)
    BY <1>6, <1>8, <1>14, <2>3, <2>4, <2>5, TablesAgree DEF Abstract!Request
  <2> QED BY <1>4, <2>6, TablesAgree DEF Abstract!Next
<1> QED BY <1>9, <1>12, <1>13, <1>14

-------------------------------------------------------------------------------
(* Requests are for jobs of the trace                                          *)

(* A request that stands keeps its job.                                        *)
LEMMA RequestKept ==
  ASSUME RequestInv,
         \A q \in Procs : ctl'[q].haveBusRequest =>
                            ctl[q].haveBusRequest /\ ctl'[q].job = ctl[q].job
  PROVE  RequestInv'
BY DEF RequestInv

(* A job handed out leaves every request alone, ...                            *)
LEMMA DispatchRequest ==
  ASSUME CtlInv, RequestInv, NEW p \in Procs, NEW op \in TraceOps, NEW b \in Blocks,
         Dispatch(p, op, b)
  PROVE  RequestInv'
<1> DEFINE n == Append(ctl[p].pending, [op |-> op, block |-> b])
           c == [ctl[p] EXCEPT !.pending = n]
<1>1. ctl' = [ctl EXCEPT ![p] = c]
  BY DEF Dispatch
<1>2. ctl \in [Procs -> Ctl]
  BY DEF CtlInv, ControlTyped
<1> HIDE DEF n
<1>3. c.haveBusRequest = ctl[p].haveBusRequest /\ c.job = ctl[p].job
  BY <1>2 DEF Ctl
<1> HIDE DEF c
<1>4. \A q \in Procs : ctl'[q] = IF q = p THEN c ELSE ctl[q]
  BY <1>1, <1>2
<1> QED BY <1>3, <1>4, RequestKept

(* ... and so does an idle tick.                                               *)
LEMMA TickIdleRequest ==
  ASSUME CtlInv, RequestInv, NEW p \in Procs, TickIdle(p)
  PROVE  RequestInv'
<1> DEFINE n == BusyStill(p)
           c == [ctl[p] EXCEPT !.busy = n]
<1>1. ctl' = [ctl EXCEPT ![p] = c]
  BY DEF TickIdle
<1>2. ctl \in [Procs -> Ctl]
  BY DEF CtlInv, ControlTyped
<1> HIDE DEF n
<1>3. c.haveBusRequest = ctl[p].haveBusRequest /\ c.job = ctl[p].job
  BY <1>2 DEF Ctl
<1> HIDE DEF c
<1>4. \A q \in Procs : ctl'[q] = IF q = p THEN c ELSE ctl[q]
  BY <1>1, <1>2
<1> QED BY <1>3, <1>4, RequestKept

(* The request a cache makes is of its job.                                    *)
LEMMA TickHandlesRequest ==
  ASSUME CtlInv, RequestInv, NEW p \in Procs, TickHandles(p)
  PROVE  RequestInv'
<1> DEFINE job   == Head(ctl[p].pending)
           rest  == Tail(ctl[p].pending)
           taken == [ctl[p] EXCEPT !.pending = rest, !.job = job, !.busy = FALSE]
           hit   == [taken EXCEPT !.busy = TRUE, !.haveBusRequest = FALSE,
                                  !.start = cycle, !.cost = HitCost]
           Asked(k, r) == [taken EXCEPT !.busy = TRUE, !.haveBusRequest = TRUE,
                                        !.cost = k, !.req = r]
<1>1. \/ ctl' = [ctl EXCEPT ![p] = taken]
      \/ ctl' = [ctl EXCEPT ![p] = hit]
      \/ \E k, r : ctl' = [ctl EXCEPT ![p] = Asked(k, r)]
  BY DEF TickHandles
<1>2. ctl \in [Procs -> Ctl]
  BY DEF CtlInv, ControlTyped
<1>3. job \in Job
  <2>1. ctl[p].pending \in Seq(Job) /\ ctl[p].pending # <<>>
    BY <1>2 DEF TickHandles, Ctl
  <2> QED BY <2>1, HeadTailProperties
<1> HIDE DEF job, rest
<1>4. taken.job = job /\ hit.job = job /\ \A k, r : Asked(k, r).job = job
  BY <1>2 DEF Ctl
<1> HIDE DEF taken, hit, Asked
<1>5. PICK c : ctl' = [ctl EXCEPT ![p] = c] /\ c.job = job
  BY <1>1, <1>4
<1>6. \A q \in Procs : ctl'[q] = IF q = p THEN c ELSE ctl[q]
  BY <1>2, <1>5
<1> QED BY <1>3, <1>5, <1>6 DEF RequestInv

(* Dragon's second request is of the same job.                                 *)
LEMMA BusFinishRequest ==
  ASSUME CtlInv, RequestInv, BusFinish
  PROVE  RequestInv'
<1> DEFINE p     == bus.current
           again == Reissues(ctl[p].job.op, bus.isShared)
           r     == IF again THEN [cmd |-> "BusRdX", block |-> ctl[p].job.block, cost |-> CacheCost]
                    ELSE ctl[p].req
           k     == IF again THEN CacheCost ELSE ctl[p].cost
           c     == [ctl[p] EXCEPT !.haveBusRequest = again, !.busy = again, !.serviced = FALSE,
                                   !.start = cycle, !.cost = k, !.req = r]
<1>1. ctl' = [ctl EXCEPT ![p] = c]
  BY Zenon DEF BusFinish
<1>2. ctl \in [Procs -> Ctl] /\ p \in Procs /\ ctl[p].haveBusRequest
  BY BusTurn DEF BusFinish, CtlInv, ControlTyped
<1> HIDE DEF again, r, k, p
<1>3. c.job = ctl[p].job
  BY <1>2 DEF Ctl
<1> HIDE DEF c
<1>4. \A q \in Procs : ctl'[q] = IF q = p THEN c ELSE ctl[q]
  BY <1>1, <1>2
<1> QED BY <1>2, <1>3, <1>4, RequestKept

(* A grant leaves the request as it was made.                                  *)
LEMMA BusGrantRequest ==
  ASSUME CtlInv, RequestInv, NEW p \in Procs, BusGrant(p)
  PROVE  RequestInv'
<1>1. PICK k : ctl' = [ctl EXCEPT ![p] =
                         [ctl[p] EXCEPT !.serviced = TRUE, !.start = cycle, !.cost = k]]
  BY DEF BusGrant
<1> DEFINE c == [ctl[p] EXCEPT !.serviced = TRUE, !.start = cycle, !.cost = k]
<1>2. ctl \in [Procs -> Ctl] /\ ctl[p].haveBusRequest
  BY DEF BusGrant, Requesters, CtlInv, ControlTyped
<1>3. c.job = ctl[p].job
  BY <1>2 DEF Ctl
<1>4. \A q \in Procs : ctl'[q] = IF q = p THEN c ELSE ctl[q]
  BY <1>1, <1>2
<1> HIDE DEF c
<1> QED BY <1>2, <1>3, <1>4, RequestKept

(* So every step keeps requests those of their jobs.                           *)
LEMMA NextRequest ==
  ASSUME CtlInv, RequestInv, [Next]_vars
  PROVE  RequestInv'
<1>1. CASE UNCHANGED ctl
  BY <1>1 DEF RequestInv
<1>2. ASSUME NEW p \in Procs, NEW op \in TraceOps, NEW b \in Blocks, Dispatch(p, op, b)
      PROVE  RequestInv'
  BY <1>2, DispatchRequest
<1>3. CASE Tick \/ Exit \/ Done \/ BusWaits \/ BusIdle
  BY <1>1, <1>3 DEF Tick, Exit, Done, BusWaits, BusIdle, vars
<1>4. ASSUME NEW p \in Procs, TickServiced(p) \/ TickIdle(p) \/ TickHandles(p)
      PROVE  RequestInv'
  BY <1>1, <1>4, TickIdleRequest, TickHandlesRequest DEF TickServiced
<1>5. CASE BusFinish
  BY <1>5, BusFinishRequest
<1>6. ASSUME NEW p \in Procs, BusGrant(p) PROVE RequestInv'
  BY <1>6, BusGrantRequest
<1> QED BY <1>1, <1>2, <1>3, <1>4, <1>5, <1>6 DEF Next, vars

-------------------------------------------------------------------------------
(* The steps of the bus manager                                                *)

(* What a snooper's set becomes decides only the state of the request's block. *)
LEMMA SnoopedStates ==
  ASSUME NarrowTags, LinesInv, cycle \in Nat, NEW q \in Procs, NEW b \in Blocks, NEW cmd,
         NEW sets,
         sets = [lines[q] EXCEPT ![SetOf(b)] =
                   SetLineState(Touch(@, b, cycle), b, SnoopState(cmd, Held(q, SetOf(b), b)))]
  PROVE  \A d \in Blocks : StatesOf(sets)[d] =
           IF d = b THEN SnoopState(cmd, AbstractLines[q][b]) ELSE AbstractLines[q][d]
<1> DEFINE i     == SetOf(b)
           old   == lines[q][i]
           s     == LineState(old, b)
           new   == SnoopState(cmd, s)
           after == SetLineState(Touch(old, b, cycle), b, new)
<1>1. i \in Sets /\ lines[q] \in [Sets -> [Ways -> Line]]
  BY SetOfInSets DEF LinesInv
<1>2. old \in [Ways -> Line] /\ NoShadow(old)
  BY <1>1 DEF LinesInv, SoundCache, SoundSet
<1>3. ~HasLine(old, b) => new = "invalid"
  BY ProtocolAssumption DEF LineState, SnoopState, BusRdState, BusRdXState
<1>4. sets = [lines[q] EXCEPT ![i] = after]
  BY DEF Held
<1> HIDE DEF new, old
<1>5. \A t : LineState(after, t) = IF t = b THEN new ELSE LineState(old, t)
  BY <1>2, <1>3, TouchAndSet
<1> HIDE DEF after
<1>6. \A j \in Sets : sets[j] = IF j = i THEN after ELSE lines[q][j]
  BY <1>1, <1>4
<1> HIDE DEF i
<1>7. \A d \in Blocks : StatesOf(sets)[d] = IF SetOf(d) = i THEN LineState(after, d)
                                             ELSE LineState(lines[q][SetOf(d)], d)
  BY <1>6, SetOfInSets DEF StatesOf
<1>8. \A d \in Blocks : AbstractLines[q][d] = LineState(lines[q][SetOf(d)], d)
  BY DEF AbstractLines, Held
<1>9. \A d \in Blocks : StatesOf(sets)[d] = IF d = b THEN new ELSE AbstractLines[q][d]
  BY <1>5, <1>7, <1>8 DEF i, old
<1> QED BY <1>8, <1>9 DEF new, old, i

(* The broadcast is Grant.                                                     *)
LEMMA BusGrantMaps ==
  ASSUME NarrowTags, CtlInv, LinesInv, RequestInv, NEW p \in Procs, BusGrant(p)
  PROVE  [Abstract!Next]_(Abstract!vars)
<1> DEFINE b   == ctl[p].req.block
           cmd == ctl[p].req.cmd
           i   == SetOf(b)
           marked == \E q \in Procs \ {p} : MarksShared(cmd, AbstractLines[q][b])
           Snooped(q) == [lines[q] EXCEPT ![i] =
                            SetLineState(Touch(@, b, cycle), b, SnoopState(cmd, Held(q, i, b)))]
<1>1. /\ pc = "bus" /\ ~bus.inUse /\ ctl[p].haveBusRequest
      /\ ctl \in [Procs -> Ctl] /\ cycle \in Nat
  BY DEF BusGrant, Requesters, CtlInv, ControlTyped
<1>2. /\ ~ctl[p].serviced /\ \A q \in Procs : q # p => ~ctl[q].haveBusRequest
  BY <1>1, BusTurn
<1>3. b \in Blocks /\ WireTag(b) = b
  <2>1. ctl[p].job \in Job /\ b = ctl[p].job.block
    BY <1>1 DEF RequestInv, CtlInv, Handshake
  <2> QED BY <2>1 DEF Job, NarrowTags
<1>4. lines' = [q \in Procs |-> IF q = p THEN lines[p] ELSE Snooped(q)]
  BY <1>3 DEF BusGrant
<1>5. bus'.isShared = marked
  <2>1. bus'.isShared = \E q \in Procs \ {p} : MarksShared(cmd, Held(q, i, b))
    BY <1>3 DEF BusGrant
  <2>2. \A q \in Procs : Held(q, i, b) = AbstractLines[q][b]
    BY <1>3 DEF AbstractLines
  <2> QED BY <2>1, <2>2
<1>6. PICK c : /\ c.haveBusRequest /\ c.serviced /\ c.job = ctl[p].job /\ c.req = ctl[p].req
               /\ ctl' = [ctl EXCEPT ![p] = c]
  <2>1. PICK k : ctl' = [ctl EXCEPT ![p] =
                           [ctl[p] EXCEPT !.serviced = TRUE, !.start = cycle, !.cost = k]]
    BY DEF BusGrant
  <2> DEFINE d == [ctl[p] EXCEPT !.serviced = TRUE, !.start = cycle, !.cost = k]
  <2>2. d.haveBusRequest /\ d.serviced /\ d.job = ctl[p].job /\ d.req = ctl[p].req
    BY <1>1 DEF Ctl
  <2> QED BY <2>1, <2>2
<1>7. \A q \in Procs : ctl'[q] = IF q = p THEN c ELSE ctl[q]
  BY <1>1, <1>6
<1>8. AbstractTxns = {TxnIn(ctl[p], p, bus.isShared)}
  BY <1>1, <1>2, OneTxn, AbstractTxnsAre
<1>9. AbstractTxns' = {TxnIn(c, p, bus'.isShared)}
  <2>1. ctl'[p] = c /\ \A q \in Procs : q # p => ~ctl'[q].haveBusRequest
    BY <1>2, <1>7
  <2>2. c.haveBusRequest
    BY <1>6
  <2> QED BY <2>1, <2>2, OneTxn, AbstractTxnsAre
<1> DEFINE t == TxnIn(ctl[p], p, bus.isShared)
           u == TxnIn(c, p, bus'.isShared)
<1>10. /\ t.stage = "requested" /\ t.proc = p /\ t.block = b /\ t.cmd = cmd
       /\ u = [t EXCEPT !.stage = "granted", !.shared = marked]
  <2>1. marked \in BOOLEAN
    OBVIOUS
  <2> HIDE DEF marked
  <2>2. t = [stage |-> "requested", proc |-> p, op |-> ctl[p].job.op, block |-> b,
             cmd |-> cmd, shared |-> FALSE]
    BY <1>2 DEF TxnIn
  <2>3. u = [stage |-> "granted", proc |-> p, op |-> ctl[p].job.op, block |-> b,
             cmd |-> cmd, shared |-> marked]
    BY <1>5, <1>6, <2>1 DEF TxnIn
  <2> DEFINE o == ctl[p].job.op
  <2> HIDE DEF t, u, b, cmd, o
  <2>4. t = [stage |-> "requested", proc |-> p, op |-> o, block |-> b, cmd |-> cmd,
             shared |-> FALSE]
    BY <2>2 DEF o
  <2> DEFINE v == [t EXCEPT !.stage = "granted", !.shared = marked]
  <2>5. t.stage = "requested" /\ t.proc = p /\ t.block = b /\ t.cmd = cmd
    BY <2>4
  <2>6. v = [x \in {"stage", "proc", "op", "block", "cmd", "shared"} |-> v[x]]
    BY <2>4
  <2>7. /\ v.stage = "granted" /\ v.proc = p /\ v.op = o
        /\ v.block = b /\ v.cmd = cmd /\ v.shared = marked
    BY <2>4
  <2>8. u = [stage |-> "granted", proc |-> p, op |-> o, block |-> b, cmd |-> cmd,
             shared |-> marked]
    BY <2>3 DEF o
  <2> HIDE DEF v
  <2>9. u = v
    BY <2>6, <2>7, <2>8
  <2> QED BY <2>5, <2>9 DEF v
<1> HIDE DEF marked
<1>11. AbstractLines' = [q \in Procs |-> [d \in Blocks |->
         IF q # p /\ d = b THEN SnoopState(cmd, AbstractLines[q][d]) ELSE AbstractLines[q][d]]]
  <2>1. AbstractLines' = [q \in Procs |-> StatesOf(lines'[q])]
    BY DEF AbstractLines, StatesOf, Held
  <2>2. ASSUME NEW q \in Procs, NEW d \in Blocks
        PROVE  StatesOf(lines'[q])[d] = IF q # p /\ d = b
                 THEN SnoopState(cmd, AbstractLines[q][d]) ELSE AbstractLines[q][d]
    <3>1. CASE q = p
      <4>1. lines'[q] = lines[q]
        BY <1>4, <3>1
      <4> QED BY <3>1, <4>1, AbstractLinesAre DEF StatesOf
    <3>2. CASE q # p
      <4> DEFINE sets == Snooped(q)
      <4>1. lines'[q] = sets
        BY <1>4, <3>2
      <4>2. \A e \in Blocks : StatesOf(sets)[e] =
              IF e = b THEN SnoopState(cmd, AbstractLines[q][b]) ELSE AbstractLines[q][e]
        BY <1>1, <1>3, SnoopedStates
      <4> HIDE DEF sets
      <4> QED BY <3>2, <4>1, <4>2
    <3> QED BY <3>1, <3>2
  <2>3. \A q \in Procs : StatesOf(lines'[q]) = [d \in Blocks |->
          IF q # p /\ d = b THEN SnoopState(cmd, AbstractLines[q][d]) ELSE AbstractLines[q][d]]
    BY <2>2 DEF StatesOf
  <2> QED BY <2>1, <2>3
<1>12. Abstract!Grant(t)
  <2>1. marked = \E q \in Procs \ {t.proc} : Abstract!MarksShared(t.cmd, AbstractLines[q][t.block])
    BY <1>10, TablesAgree DEF marked
  <2>2. AbstractLines' = [q \in Procs |-> [d \in Blocks |->
          IF q # t.proc /\ d = t.block THEN Abstract!SnoopState(t.cmd, AbstractLines[q][d])
          ELSE AbstractLines[q][d]]]
    BY <1>10, <1>11, TablesAgree
  <2>3. AbstractTxns' = (AbstractTxns \ {t}) \cup {[t EXCEPT !.stage = "granted", !.shared = marked]}
    BY <1>8, <1>9, <1>10
  <2> HIDE DEF t
  <2> QED BY <1>10, <2>1, <2>2, <2>3 DEF Abstract!Grant
<1> QED BY <1>8, <1>12 DEF Abstract!Next

(* A set that has made room for a block, unless it held it.                    *)
Ready(old, b, now) == IF ~HasLine(old, b) THEN ReplaceLine(old, b, now) ELSE old

(* The state of the block is what it was; at most one other is forgotten.      *)
LEMMA ReadyStates ==
  ASSUME NEW b \in Nat, NEW now \in Nat, NEW old, SoundSet(old, SetOf(b), now),
         NEW set, set = Ready(old, b, now)
  PROVE  /\ set \in [Ways -> Line] /\ NoShadow(set)
         /\ \E w \in Ways : set[w].tag = b
         /\ set[FirstWay(set, b)].state = LineState(old, b)
         /\ HasLine(old, b) => set = old
         /\ ~HasLine(old, b) => \E gone : Forgets(set, old, gone)
<1>1. CASE HasLine(old, b)
  <2>1. set = old /\ set \in [Ways -> Line] /\ NoShadow(set)
    BY <1>1 DEF Ready, SoundSet
  <2>2. \E w \in Ways : set[w].tag = b
    BY <1>1, <2>1 DEF HasLine
  <2>3. set[FirstWay(set, b)].state = LineState(old, b)
    BY <1>1, <2>1 DEF LineState
  <2> QED BY <1>1, <2>1, <2>2, <2>3
<1>2. CASE ~HasLine(old, b)
  <2>1. set = ReplaceLine(old, b, now)
    BY <1>2 DEF Ready
  <2>2. SoundSet(set, SetOf(b), now) /\ \E w \in Ways : set[w].tag = b
    BY <1>2, <2>1, InstallSound
  <2>3. old \in [Ways -> Line] /\ NoShadow(old) /\ Timed(old)
    BY DEF SoundSet, Timed, Line
  <2>4. PICK gone : Forgets(set, old, gone)
    BY <1>2, <2>1, <2>3, InstallForgetsOne
  <2>5. LineState(old, b) = "invalid" /\ LineState(set, b) = "invalid"
    BY <1>2, <2>4 DEF LineState, Forgets
  <2>6. set \in [Ways -> Line] /\ NoShadow(set)
    BY <2>2 DEF SoundSet
  <2>7. FirstWay(set, b) \in Ways /\ set[FirstWay(set, b)].tag = b
    BY <2>2, FirstWayFound
  <2>8. ~Valid(set[FirstWay(set, b)])
    <3>1. HasLine(set, b) => Valid(set[FirstWay(set, b)])
      BY <2>6, LookupFindsValid
    <3>2. ~HasLine(set, b)
      BY <2>5, <3>1 DEF LineState, Valid
    <3> QED BY <2>7, <3>2 DEF HasLine
  <2> QED BY <1>2, <2>2, <2>4, <2>5, <2>6, <2>8 DEF Valid
<1> QED BY <1>1, <1>2

(* A set that holds b in state s and may have lost another block to it.        *)
Fills(new, old, b, s, gone) ==
  \A t : LineState(new, t) =
    IF t = b THEN s
    ELSE IF ~HasLine(old, b) /\ t = gone THEN "invalid" ELSE LineState(old, t)

(* The requester's set at the end: its block in the new state, and perhaps one *)
(* other block gone.                                                           *)
LEMMA FilledStates ==
  ASSUME NEW b \in Nat, NEW now \in Nat, NEW old, SoundSet(old, SetOf(b), now),
         NEW set, set = Ready(old, b, now), NEW s, NEW new,
         new = [set EXCEPT ![FirstWay(set, b)].state = s, ![FirstWay(set, b)].lastUsed = now]
  PROVE  \E gone : Fills(new, old, b, s, gone)
<1> DEFINE w == FirstWay(set, b)
           l == [set[w] EXCEPT !.state = s, !.lastUsed = now]
<1>1. /\ set \in [Ways -> Line] /\ NoShadow(set)
      /\ \E v \in Ways : set[v].tag = b
  BY ReadyStates
<1>2. PICK gone : IF HasLine(old, b) THEN set = old ELSE Forgets(set, old, gone)
  BY ReadyStates
<1>3. w \in Ways /\ set[w].tag = b
  BY <1>1, FirstWayFound
<1>4. l.tag = b /\ l.state = s
  BY <1>1, <1>3 DEF Line
<1>5. new = WithLine(set, b, l)
  BY <1>1, <1>3 DEF WithLine
<1> HIDE DEF l, w
<1>6. /\ LineState(WithLine(set, b, l), b) = l.state
      /\ \A t : t # b => LineState(WithLine(set, b, l), t) = LineState(set, t)
  BY <1>1, <1>4, WithLineStates
<1>7. Fills(new, old, b, s, gone)
  BY <1>2, <1>4, <1>5, <1>6 DEF Fills, Forgets
<1> QED BY <1>7

(* The lines of the machine at the end of a transaction are those that Complete*)
(* leaves, for some victims.                                                   *)
Completed(p, op, b, shared, victims) ==
  [d \in Blocks |-> IF d = b THEN FillState(op, shared, AbstractLines[p][d])
                    ELSE IF d \in victims THEN "invalid" ELSE AbstractLines[p][d]]

(* The end of a transaction fills the line, and may lose others of its set.    *)
LEMMA BusFinishLinesMap ==
  ASSUME CtlInv, LinesInv, BusFinish, NEW p \in Procs, p = bus.current,
         NEW b \in Blocks, b = ctl[p].job.block, NEW op, op = ctl[p].job.op
  PROVE  \E victims \in Abstract!Victims :
           /\ victims # {} => AbstractLines[p][b] = "invalid"
           /\ AbstractLines' = [AbstractLines EXCEPT ![p] =
                                  Completed(p, op, b, bus.isShared, victims)]
<1> DEFINE i     == SetOf(b)
           old   == lines[p][i]
           set   == Ready(old, b, cycle)
           w     == FirstWay(set, b)
           s     == FillState(op, bus.isShared, set[w].state)
           new   == [set EXCEPT ![w].state = s, ![w].lastUsed = cycle]
           sets  == [lines[p] EXCEPT ![i] = new]
<1>1. /\ b \in Nat /\ i \in Sets /\ cycle \in Nat /\ SoundSet(old, SetOf(b), cycle)
      /\ lines[p] \in [Sets -> [Ways -> Line]]
  BY SizeAssumption, SetOfInSets DEF CtlInv, ControlTyped, LinesInv, SoundCache
<1>2. lines' = [lines EXCEPT ![p][i] = new]
  BY NeverFull DEF BusFinish, Ready
<1>3. lines' = [lines EXCEPT ![p] = sets]
  BY <1>2 DEF LinesInv
<1>4. set[w].state = LineState(old, b)
  <2> HIDE DEF old, set
  <2>1. set = Ready(old, b, cycle)
    BY DEF set
  <2> QED BY <1>1, <2>1, ReadyStates
<1>5. PICK gone : Fills(new, old, b, s, gone)
  <2>1. set = Ready(old, b, cycle)
    OBVIOUS
  <2>2. new = [set EXCEPT ![FirstWay(set, b)].state = s, ![FirstWay(set, b)].lastUsed = cycle]
    OBVIOUS
  <2> HIDE DEF old, set, s, new
  <2> QED BY <1>1, <2>1, <2>2, FilledStates
<1>6. s = FillState(op, bus.isShared, LineState(old, b))
  BY <1>4
<1> HIDE DEF new, set, s
<1>7. \A j \in Sets : sets[j] = IF j = i THEN new ELSE lines[p][j]
  BY <1>1
<1> HIDE DEF sets
<1>8. AbstractLines' = [AbstractLines EXCEPT ![p] = StatesOf(sets)]
  BY <1>3, OneCacheStates
<1>9. \A d \in Blocks : AbstractLines[p][d] = LineState(lines[p][SetOf(d)], d)
  BY DEF AbstractLines, Held
<1>10. \A d \in Blocks : StatesOf(sets)[d] = IF SetOf(d) = i THEN LineState(new, d)
                                              ELSE AbstractLines[p][d]
  BY <1>7, <1>9, SetOfInSets DEF StatesOf
<1> DEFINE victims == {v \in Blocks : v = gone /\ SetOf(v) = i /\ ~HasLine(old, b)}
<1>11. victims \in Abstract!Victims
  BY DEF Abstract!Victims
<1>12. victims # {} => AbstractLines[p][b] = "invalid"
  BY <1>9 DEF LineState
<1>13. \A d \in Blocks : StatesOf(sets)[d] =
         IF d = b THEN FillState(op, bus.isShared, AbstractLines[p][d])
         ELSE IF d \in victims THEN "invalid" ELSE AbstractLines[p][d]
  <2> SUFFICES ASSUME NEW d \in Blocks
               PROVE  StatesOf(sets)[d] =
                        IF d = b THEN FillState(op, bus.isShared, AbstractLines[p][d])
                        ELSE IF d \in victims THEN "invalid" ELSE AbstractLines[p][d]
    OBVIOUS
  <2>1. CASE d = b
    <3>1. AbstractLines[p][d] = LineState(old, b) /\ StatesOf(sets)[d] = LineState(new, b)
      BY <1>9, <1>10, <2>1
    <3>2. LineState(new, b) = s
      BY <1>5 DEF Fills
    <3> QED BY <1>6, <2>1, <3>1, <3>2
  <2>2. CASE d # b /\ SetOf(d) = i
    <3>1. AbstractLines[p][d] = LineState(old, d) /\ StatesOf(sets)[d] = LineState(new, d)
      BY <1>9, <1>10, <2>2
    <3>2. LineState(new, d) = IF ~HasLine(old, b) /\ d = gone THEN "invalid"
                              ELSE LineState(old, d)
      BY <1>5, <2>2 DEF Fills
    <3>3. d \in victims <=> ~HasLine(old, b) /\ d = gone
      BY <2>2
    <3> HIDE DEF victims
    <3> QED BY <2>2, <3>1, <3>2, <3>3
  <2>3. CASE SetOf(d) # i
    <3>1. StatesOf(sets)[d] = AbstractLines[p][d] /\ d \notin victims /\ d # b
      BY <1>10, <2>3
    <3> HIDE DEF victims
    <3> QED BY <3>1
  <2> QED BY <2>1, <2>2, <2>3
<1> HIDE DEF victims, old, i
<1>14. StatesOf(sets) = Completed(p, op, b, bus.isShared, victims)
  BY <1>13 DEF StatesOf, Completed
<1> QED BY <1>8, <1>11, <1>12, <1>14

(* The end of a transaction is Complete.                                       *)
LEMMA BusFinishMaps ==
  ASSUME CtlInv, LinesInv, RequestInv, BusFinish
  PROVE  [Abstract!Next]_(Abstract!vars)
<1> DEFINE p      == bus.current
           op     == ctl[p].job.op
           b      == ctl[p].job.block
           shared == bus.isShared
           again  == Reissues(op, shared)
           r      == IF again THEN [cmd |-> "BusRdX", block |-> b, cost |-> CacheCost]
                     ELSE ctl[p].req
           k      == IF again THEN CacheCost ELSE ctl[p].cost
           d      == [ctl[p] EXCEPT !.haveBusRequest = again, !.busy = again, !.serviced = FALSE,
                                    !.start = cycle, !.cost = k, !.req = r]
           t      == TxnIn(ctl[p], p, shared)
<1>1. /\ pc = "bus" /\ p \in Procs /\ ctl \in [Procs -> Ctl] /\ shared \in BOOLEAN
      /\ ctl[p].haveBusRequest /\ ctl[p].serviced
      /\ \A q \in Procs : q # p => ~ctl[q].haveBusRequest
  BY BusTurn DEF BusFinish, CtlInv, ControlTyped
<1>2. b \in Blocks /\ ctl[p].req.block = b
  BY <1>1 DEF RequestInv, CtlInv, Handshake, Job
<1>3. ctl' = [ctl EXCEPT ![p] = d]
  BY Zenon DEF BusFinish
<1>4. again => r.cmd = "BusRdX" /\ r.block = b
  OBVIOUS
<1>5. again \in BOOLEAN
  BY DEF Reissues
<1> HIDE DEF p, again, r, k
<1>6. PICK c : /\ c.haveBusRequest <=> again
               /\ ~c.serviced /\ c.job = ctl[p].job /\ c.req = r
               /\ ctl' = [ctl EXCEPT ![p] = c]
  <2>1. /\ d.haveBusRequest = again
        /\ ~d.serviced /\ d.job = ctl[p].job /\ d.req = r
    BY <1>1 DEF Ctl
  <2> HIDE DEF d
  <2> QED BY <1>3, <2>1
<1>7. \A q \in Procs : ctl'[q] = IF q = p THEN c ELSE ctl[q]
  BY <1>1, <1>6
<1>8. ctl'[p] = c /\ \A q \in Procs : q # p => ~ctl'[q].haveBusRequest
  BY <1>1, <1>7
<1>9. AbstractTxns = {t}
  BY <1>1, OneTxn, AbstractTxnsAre
<1>10. AbstractTxns' = IF again THEN {Abstract!Requested(p, op, b, "BusRdX")} ELSE {}
  <2>1. CASE again
    <3>1. c.haveBusRequest /\ ~c.serviced /\ c.job = ctl[p].job /\ c.req = r
      BY <1>6, <2>1
    <3>2. AbstractTxns' = {TxnIn(c, p, bus'.isShared)}
      <4>1. p \in Procs /\ c.haveBusRequest
        BY <1>1, <3>1
      <4> QED BY <1>8, <4>1, OneTxn, AbstractTxnsAre
    <3>3. TxnIn(c, p, bus'.isShared) = Abstract!Requested(p, op, b, "BusRdX")
      BY <1>4, <2>1, <3>1 DEF TxnIn, Abstract!Requested
    <3> QED BY <2>1, <3>2, <3>3
  <2>2. CASE ~again
    <3>1. \A q \in Procs : ~ctl'[q].haveBusRequest
      BY <1>6, <1>8, <2>2
    <3> QED BY <2>2, <3>1, NoTxns, AbstractTxnsAre
  <2> QED BY <2>1, <2>2
<1>11. /\ t.stage = "granted" /\ t.proc = p /\ t.op = op /\ t.block = b
       /\ t.shared = shared
  BY <1>1, <1>2 DEF TxnIn
<1>12. PICK victims \in Abstract!Victims :
         /\ victims # {} => AbstractLines[p][b] = "invalid"
         /\ AbstractLines' = [AbstractLines EXCEPT ![p] = Completed(p, op, b, shared, victims)]
  BY <1>1, <1>2, BusFinishLinesMap DEF p
<1> HIDE DEF t, op, b, shared
<1>13. Abstract!Complete(t, victims)
  <2>1. AbstractLines' = [AbstractLines EXCEPT ![t.proc] = [e \in Blocks |->
          IF e = t.block THEN Abstract!FillState(t.op, t.shared, AbstractLines[t.proc][e])
          ELSE IF e \in victims THEN "invalid" ELSE AbstractLines[t.proc][e]]]
    BY <1>11, <1>12, TablesAgree DEF Completed
  <2>2. AbstractTxns' = (AbstractTxns \ {t}) \cup
          (IF Abstract!Reissues(t.op, t.shared)
           THEN {Abstract!Requested(t.proc, t.op, t.block, "BusRdX")} ELSE {})
    BY <1>9, <1>10, <1>11, TablesAgree DEF again
  <2> QED BY <1>11, <1>12, <2>1, <2>2 DEF Abstract!Complete
<1> QED BY <1>9, <1>13 DEF Abstract!Next

-------------------------------------------------------------------------------
(* The refinement                                                              *)

(* All caches start empty and no request stands.                               *)
LEMMA InitMaps == Init => Abstract!Init
<1> SUFFICES ASSUME Init PROVE Abstract!Init
  OBVIOUS
<1>1. \A q \in Procs : ~ctl[q].haveBusRequest
  BY DEF Init
<1>2. AbstractTxns = {}
  BY <1>1, NoTxns, AbstractTxnsAre
<1>3. \A p \in Procs, b \in Blocks : Held(p, SetOf(b), b) = "invalid"
  BY SetOfInSets DEF Init, Held, LineState, HasLine, EmptySet, Valid
<1>4. AbstractLines = [p \in Procs |-> [b \in Blocks |-> "invalid"]]
  BY <1>3 DEF AbstractLines
<1> QED BY <1>2, <1>4 DEF Abstract!Init

(* Every step of the machine is one of the protocol, or none.                  *)
LEMMA NextMaps ==
  ASSUME NarrowTags, MachineInv, [Next]_vars
  PROVE  [Abstract!Next]_(Abstract!vars)
<1> USE DEF MachineInv, SmpInv
<1>1. CASE UNCHANGED vars \/ Tick \/ Exit \/ Done \/ BusWaits
  <2>1. UNCHANGED <<ctl, lines, bus>>
    BY <1>1 DEF vars, Tick, Exit, Done, BusWaits
  <2> QED BY <2>1, StillStep DEF Abstract!vars
<1>2. ASSUME NEW p \in Procs, NEW op \in TraceOps, NEW b \in Blocks, Dispatch(p, op, b)
      PROVE  [Abstract!Next]_(Abstract!vars)
  BY <1>2, DispatchStutters DEF Abstract!vars
<1>3. ASSUME NEW p \in Procs, TickServiced(p) PROVE [Abstract!Next]_(Abstract!vars)
  BY <1>3, StillStep DEF TickServiced, Ticks, Abstract!vars
<1>4. ASSUME NEW p \in Procs, TickIdle(p) PROVE [Abstract!Next]_(Abstract!vars)
  BY <1>4, TickIdleStutters DEF Abstract!vars
<1>5. ASSUME NEW p \in Procs, TickHandles(p) PROVE [Abstract!Next]_(Abstract!vars)
  BY <1>5, TickHandlesMaps
<1>6. CASE BusIdle
  BY <1>6, BusIdleStutters DEF Abstract!vars
<1>7. CASE BusFinish
  BY <1>7, BusFinishMaps
<1>8. ASSUME NEW p \in Procs, BusGrant(p) PROVE [Abstract!Next]_(Abstract!vars)
  BY <1>8, BusGrantMaps
<1> QED BY <1>1, <1>2, <1>3, <1>4, <1>5, <1>6, <1>7, <1>8 DEF Next

(* The simulator implements the protocol: its ways, its clock, its replacement *)
(* and its bus arbitration do nothing that Coherence does not allow.           *)
THEOREM Refinement == ASSUME NarrowTags PROVE Spec => ImplementsCoherence
<1>1. Init => MachineInv
  BY InitSmpInv DEF MachineInv, Init, RequestInv
<1>2. MachineInv /\ [Next]_vars => MachineInv'
  BY NextSmpInv, NextRequest DEF MachineInv, SmpInv
<1>3. MachineInv /\ [Next]_vars => [Abstract!Next]_(Abstract!vars)
  BY NextMaps DEF MachineInv
<1> QED BY <1>1, <1>2, <1>3, InitMaps, PTL DEF Spec, ImplementsCoherence, Abstract!Spec

-------------------------------------------------------------------------------
(* What this carries over from the protocol to the simulator                   *)

Proved == INSTANCE Coherence_proofs WITH st <- AbstractLines, txns <- AbstractTxns

(* The protocol that was proved about is the one that is implemented.          *)
LEMMA SameProtocol ==
  /\ Abstract!Init <=> Proved!Init
  /\ [Abstract!Next]_(Abstract!vars) <=> [Proved!Next]_(Proved!vars)
  /\ Abstract!SingleOwner <=> Proved!SingleOwner
  /\ Abstract!ExclusiveMeansAlone <=> Proved!ExclusiveMeansAlone
<1>1. Abstract!Init <=> Proved!Init
  BY DEF Abstract!Init, Proved!Init
<1>2. [Abstract!Next]_(Abstract!vars) <=> [Proved!Next]_(Proved!vars)
  BY Zenon DEF Abstract!Next, Proved!Next, Abstract!vars, Proved!vars,
     Abstract!Hit, Proved!Hit, Abstract!Request, Proved!Request,
     Abstract!Grant, Proved!Grant, Abstract!Complete, Proved!Complete,
     Abstract!Requested, Proved!Requested, Abstract!Victims, Proved!Victims,
     Abstract!Ops, Proved!Ops, Abstract!Commands, Proved!Commands,
     Abstract!Decision, Proved!Decision, Abstract!RequestState, Proved!RequestState,
     Abstract!ReadHitStates, Proved!ReadHitStates,
     Abstract!WriteHitStates, Proved!WriteHitStates,
     Abstract!SnoopState, Proved!SnoopState, Abstract!BusRdState, Proved!BusRdState,
     Abstract!BusRdXState, Proved!BusRdXState, Abstract!MarksShared, Proved!MarksShared,
     Abstract!Flushes, Proved!Flushes, Abstract!AnswersShared, Proved!AnswersShared,
     Abstract!Supplies, Proved!Supplies, Abstract!RaisesShared, Proved!RaisesShared,
     Abstract!FillState, Proved!FillState, Abstract!WriteFill, Proved!WriteFill,
     Abstract!ReadFill, Proved!ReadFill, Abstract!Reissues, Proved!Reissues
<1>3. Abstract!SingleOwner <=> Proved!SingleOwner
  BY Zenon DEF Abstract!SingleOwner, Proved!SingleOwner, Abstract!OwnerStates,
     Proved!OwnerStates, Abstract!Upgrading, Proved!Upgrading
<1>4. Abstract!ExclusiveMeansAlone <=> Proved!ExclusiveMeansAlone
  BY Zenon DEF Abstract!ExclusiveMeansAlone, Proved!ExclusiveMeansAlone,
     Abstract!AloneStates, Proved!AloneStates, Abstract!Upgrading, Proved!Upgrading
<1> QED BY <1>1, <1>2, <1>3, <1>4

(* In the simulator no two caches ever own a block, under any protocol, ...    *)
THEOREM OneOwnerInSimulator == ASSUME NarrowTags PROVE Spec => []Abstract!SingleOwner
<1>1. Proved!Spec => []Proved!SingleOwner
  BY Proved!SingleOwnership, ProtocolAssumption
<1>2. Spec => Abstract!Spec
  BY Refinement DEF ImplementsCoherence
<1> QED BY <1>1, <1>2, SameProtocol, PTL DEF Abstract!Spec, Proved!Spec

(* ... and under MSI, MESI and Dragon a line that a cache writes without the   *)
(* bus is in no other cache.                                                   *)
THEOREM OneWriterInSimulator ==
  ASSUME NarrowTags, Protocol # "MOESI"
  PROVE  Spec => []Abstract!ExclusiveMeansAlone
<1>1. Proved!Spec => []Proved!ExclusiveMeansAlone
  BY Proved!SingleWriter, ProtocolAssumption
<1>2. Spec => Abstract!Spec
  BY Refinement DEF ImplementsCoherence
<1> QED BY <1>1, <1>2, SameProtocol, PTL DEF Abstract!Spec, Proved!Spec

(* Under Dragon the branches of handleSnoopDRAGON that "can never happen" do   *)
(* not, in the lines of the simulator's caches.                                *)
THEOREM UpdateIsAloneInSimulator ==
  ASSUME NarrowTags, Protocol = "DRAGON"
  PROVE  Spec => []Abstract!UpdateFindsNoExclusive
<1>1. Proved!Spec => []Proved!UpdateFindsNoExclusive
  BY Proved!DragonComments, ProtocolAssumption
<1>2. Spec => Abstract!Spec
  BY Refinement DEF ImplementsCoherence
<1>3. Abstract!UpdateFindsNoExclusive <=> Proved!UpdateFindsNoExclusive
  BY Zenon DEF Abstract!UpdateFindsNoExclusive, Proved!UpdateFindsNoExclusive,
     Abstract!AloneStates, Proved!AloneStates
<1> QED BY <1>1, <1>2, <1>3, SameProtocol, PTL DEF Abstract!Spec, Proved!Spec

(* No broadcast makes the simulator's caches lose the only dirty copy of a     *)
(* block: it is handed on, flushed or about to be written.                     *)
THEOREM DirtyDataKeptInSimulator ==
  ASSUME NarrowTags PROVE Spec => Abstract!DirtyDataHandedOn
<1>1. Proved!Spec => Proved!DirtyDataHandedOn
  BY Proved!DirtyDataSurvives, ProtocolAssumption
<1>2. Spec => Abstract!Spec
  BY Refinement DEF ImplementsCoherence
<1>3. [\A t \in AbstractTxns : (t.stage = "requested" /\ Abstract!Dirty(t.block)) =>
         \/ Abstract!Dirty(t.block)'
         \/ \E q \in Procs \ {t.proc} : Abstract!Flushes(AbstractLines[q][t.block])
         \/ t.cmd = "BusRdX"]_(Abstract!vars)
      <=>
      [\A t \in AbstractTxns : (t.stage = "requested" /\ Proved!Dirty(t.block)) =>
         \/ Proved!Dirty(t.block)'
         \/ \E q \in Procs \ {t.proc} : Proved!Flushes(AbstractLines[q][t.block])
         \/ t.cmd = "BusRdX"]_(Proved!vars)
  BY Zenon DEF Abstract!Dirty, Proved!Dirty, Abstract!Flushes, Proved!Flushes,
     Abstract!DirtyStates, Proved!DirtyStates, Abstract!vars, Proved!vars
<1> QED BY <1>1, <1>2, <1>3, SameProtocol, PTL
        DEF Abstract!Spec, Proved!Spec, Abstract!DirtyDataHandedOn, Proved!DirtyDataHandedOn

(* When the bus manager ends a transaction, busJobDone has left the requester  *)
(* the line its job was for; not under MESI, where a lone write stays invalid. *)
THEOREM JobsHoldInSimulator ==
  ASSUME NarrowTags, Protocol # "MESI" PROVE Spec => Abstract!CompletedJobHolds
<1>1. Proved!Spec => Proved!CompletedJobHolds
  BY Proved!JobsHold, ProtocolAssumption
<1>2. Spec => Abstract!Spec
  BY Refinement DEF ImplementsCoherence
<1>3. [\A t \in AbstractTxns : (t.stage = "granted" /\ AbstractTxns' = {}) =>
         AbstractLines'[t.proc][t.block] \in
           IF t.op = "R" THEN Abstract!ReadHitStates ELSE Abstract!DirtyStates]_(Abstract!vars)
      <=>
      [\A t \in AbstractTxns : (t.stage = "granted" /\ AbstractTxns' = {}) =>
         AbstractLines'[t.proc][t.block] \in
           IF t.op = "R" THEN Proved!ReadHitStates ELSE Proved!DirtyStates]_(Proved!vars)
  BY Zenon DEF Abstract!ReadHitStates, Proved!ReadHitStates,
     Abstract!DirtyStates, Proved!DirtyStates, Abstract!vars, Proved!vars
<1> QED BY <1>1, <1>2, <1>3, SameProtocol, PTL
        DEF Abstract!Spec, Proved!Spec, Abstract!CompletedJobHolds, Proved!CompletedJobHolds
===============================================================================
