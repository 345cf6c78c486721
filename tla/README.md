# Cache-Simulator: specifications, model checks and proofs

The repository is a trace-driven simulator of a shared-memory multiprocessor
(C++, about 4,600 lines at the top of `src/`).  It replays a trace of reads and
writes on N private caches kept coherent over one atomic bus under MSI, MESI,
Dragon or MOESI, counts events, and times them with a simulated clock.  This
directory specifies its behaviour in TLA+, checks it with TLC and proves the
coherence properties with TLAPS.

The simulator is those 4,600 lines.  The other five thousand files of `src/` are
the Intel Pin kit that recorded the traces, with its generated HTML and
JavaScript documentation, and a few sample programs; there is nothing of the
simulator's behaviour in them, and the models do not refer to them.

## 1. Inventory

| component | code | state | operations |
|---|---|---|---|
| main loop | `CacheController.cpp` | queue of outstanding jobs, the clock | one cycle: advance the clock; if no cache is busy, hand the next job to its processor's cache; tick every cache by index; tick the bus manager |
| cache | `Cache.cpp` | pending jobs, current job, `busy`, `haveBusRequest`, `busRequestBeingServiced`, `startServiceCycle`, `jobCycleCost`, `busRequest`, the sets | `tick`, `handleRequest`, `snoopBusRequest`, `busJobDone`, `getBusRequest`, `updateEndCycleTime`, `newEndCycleTime` |
| cache set, line | `CacheSet.cpp`, `CacheLine.cpp` | per way: tag, state, last use | `hasLine`, `getLine`, `getLRULine`, `replaceLine`, `isFull`, `evictLRULine`, `evictLineModified` |
| bus manager | `AtomicBusManager.cpp`, `BusRequest.cpp` | `inUse`, `currentCache`, `endCycle`, `isShared`, the request | `tick`: finish a transaction whose time is up, choose the next requester, broadcast its request, time it |
| statistics | `CacheStats.cpp` | twenty counters per cache | incremented by all of the above |
| configuration | `CacheConstants.cpp` | protocol, costs, geometry, the clock | the constructor (sizes, logarithms, mask), getters, `tick` |
| start-up | `CacheController.cpp` (lines 109-213), `CacheJob.cpp` | the variables `readWrite`, `address`, `threadId` that `sscanf` fills; the queue | read the command line, open the trace, turn each of its lines into a job |
| not part of the simulator proper | `CacheManager.cpp`, `pin/`, `programs/`, `scripts/`, `test/`, `traces/` | | a second main that the Makefile does not build; the vendored tracing tool; sample programs and inputs |

Interaction is by direct calls in one thread.  `main` calls each cache's `tick`
and then the bus manager's; the bus manager calls `getBusRequest` and
`busJobDone` of the requester and `snoopBusRequest` of every other cache.  A
memory access is therefore spread over several cycles and calls: the requester
changes its own line when it asks, the others theirs when the bus is granted,
the requester its line again when the transaction ends.

What is hard here is not parallelism but that spreading: the window between
an upgrade and its broadcast; a Dragon write that asks for the bus a second time
from inside the bus manager's tick; deadlines compared with a clock before they
have been set; an end of transaction moved by unsigned arithmetic; stale tags in
invalid ways; counters advanced at different moments of one access; replacement
that takes owners away at any time, in an order that other processors' snoops
disturb.  Before the loop, the hazards are of boundaries: truncated logarithms
and divisions, and conversions that fail half-way and leave the line before's
values behind.  `PROJECT.json` lists these hazards at their lines.

What makes each part correct:

* protocols - single writer, single owner, no dirty data lost by a broadcast, a
  finished transaction gives the requester what it asked for;
* cache, bus and main - one job under way, requester and bus manager agree who is
  being served, no stale deadline is ever acted on, the bus is held for a
  sensible time, every trace ends;
* set - look-up returns the line that was found; a line lives in its own set;
  the line replaced is the least recently used one;
* statistics - every access is counted once (under Dragon, every write, and every
  miss has its requests); every counter counts what its comment says; flushes,
  write-backs and memory transfers add up;
* configuration and start-up - every address has a set that exists and every
  block one tag; the accesses of the file, and no others, are served, and leave
  the lines in the states that the traces' comments expect.

## 2. Modules

| module | models |
|---|---|
| `CoherenceProtocols` | the four protocols as tables: requester, snooper, fill |
| `Coherence` | abstract specification: the state each cache holds each block in, and the outstanding bus transaction (requested, granted, completed) |
| `CoherenceProtocols_proofs`, `Coherence_proofs` | TLAPS proofs about the tables and about `Coherence` |
| `CacheSet` | one set: ways, look-up, LRU replacement |
| `CacheStats` | which counters each handler advances |
| `SmpCache` | the simulator: main, caches, sets, bus manager, timing, statistics; it implements `Coherence` |
| `LruCaches` | abstract specification of replacement: each set an order of blocks, by their last use |
| `SmpCacheLru` | the mapping under which `SmpCache` implements `LruCaches` |
| `Startup` | the constructor of `CacheConstants`, `decode_address`, and the reading of the trace file into the queue |
| `Simulator` | the whole program: `Startup`, then `SmpCache` fed from the queue |
| `SmpCache_proofs`, `SmpCacheSets_proofs` | TLAPS proofs about `SmpCache`: its control; look-up and replacement in one set, its caches and counters |
| `SmpCacheRefinement_proofs` | TLAPS proof that `SmpCache` implements `Coherence` |
| `SmpCacheCounts_proofs` | TLAPS proofs about the counters and the time the bus is held |
| `SmpCacheLru_proofs` | TLAPS proof that `SmpCache` implements `LruCaches` |
| `Simulator_proofs` | TLAPS proofs about the whole program: queue, geometry, and what carries over from `SmpCache` |
| `MC_Coherence`, `MC_SmpCache`, `MC_Simulator` | instances for TLC, and the repository's claims that the code does not keep |

`Coherence` and `CacheStats` extend `CoherenceProtocols`; `SmpCache` extends
`CacheSet` and `CacheStats` and instantiates `Coherence` under the refinement
mapping at its end; `SmpCacheLru` extends `SmpCache` with the instance of
`LruCaches`; `Simulator` extends `SmpCacheLru` and instantiates `Startup`.

**State.** `pc` and `turn` say which call of main's loop comes next; `cycle` is
the clock; `remaining` the number of jobs left (the jobs are chosen when they
are handed out, so all traces are covered); `ctl[p]` holds the control fields of
cache p (`serviced` is `busRequestBeingServiced`, `start` and `cost` are
`startServiceCycle` and `jobCycleCost`); `lines[p][i]` is set i of cache p; `bus`
holds the bus manager's fields; `stats` the counters.

**Actions.** `Dispatch`, `Tick`, `Exit`: the head of main's loop.  `TickServiced`,
`TickIdle`, `TickHandles`: `Cache::tick`, by its early returns.  `BusWaits`,
`BusFinish`, `BusIdle`, `BusGrant`: `AtomicBusManager::tick`; `BusFinish` leaves
`pc` at the bus, so that the same call goes on to `BusGrant` or `BusIdle`, as in
the code.  Since one thread runs everything no other action can come between.

**Start-up.** `Startup`'s `phase` follows `main` up to its loop: `Usage` (no
arguments), `Misconfigure` (a division by zero, or no sets at all), `Configure`,
`Open`, one `ReadLine` per line of the file, `Ready`.  A line is an access, a
comment or empty; `Scanned` says which of `main`'s three variables a line's
`sscanf` changes, and every line makes a job of all three.  The format is chosen
by the eighth character of the file's name.  In `Simulator`, `HandOut` is the
`Dispatch` of `SmpCache` with the job at the head of the queue in place of an
arbitrary one, `Run` is every other step of `SmpCache`, and `HandOutNowhere` is
the job of a thread without a cache, after which nothing is claimed.

**Replacement.** `LruCaches` knows no clock and no ways.  A set is an order of the
blocks it holds, as a relation: `<<x, y>>` says that x was used no earlier than y.
A use moves a block to the front; a fill of a full set drops the last.  What counts as
a use is the code's business, and wider than one expects: every snoop of a block
that is held, and the repeated touch of the last job's line (`Refresh`) for as
long as the cache has no other job.  `UsedAfter` orders lines with equal stamps:
a cache's own tick comes before the snoop of the same cycle.

**Data.** An address is its block number (the byte offset is shifted out at once
and never used).  Names and printing are left out, and of a trace file's text
everything but what decides the conversions.  A line keeps the fields that are
read back: tag, state, last use.  Widths that matter are kept: a `BusRequest`
keeps tag and cost in an int, which is sign-extended when it meets a 64-bit word
again (`AsInt`); the clock arithmetic is unsigned (`Word`).  The address in bytes,
which no code reads back from the request, is left out.

**Undefined behaviour.** MOESI's `getTotalMemoryCost` returns an uninitialised
word; it is any of `UninitCosts`.  The cache's `jobCycleCost` is that word, the
request's cost is its int: the two differ when the word does not fit.
`evictLineModified` may run off its end; its
result is then any Boolean (the branch is unreachable, see 4).

## 3. Runs

`coh_dragon`, `coh_moesi`: `Coherence` on three caches and two blocks, under the
two protocols whose owners and sharers coexist (MSI and MESI are covered by the
proofs and by the `smp_*` runs).  Three
caches are a requester, an owner and a sharer, two blocks a block and the one
that replaces it; every property speaks of at most two caches and one block, and
a third cache is what makes the MOESI counterexample.  The state spaces are
finite without any bound.

`smp_*`: the simulator, one run per protocol, all traces of at most
`TraceLength` jobs.

| run | N | sets x ways | blocks | jobs | why |
|---|---|---|---|---|---|
| `smp_msi` | 2 | 1 x 2 | 0, 1, 2 | 4 | more blocks than ways: replacement, stale tags, and block 0, whose tag equals the empty lines' |
| `smp_mesi` | 2 | 3 x 1 | 0, 1, 2 | 4 | three sets, of which a mask of 1 reaches two: blocks 0 and 2 collide; both timing corrections |
| `smp_dragon` | 3 | 1 x 1 | 1, 2 | 3 | a sharer, an owner and a writer; jobs that are neither read nor write |
| `smp_moesi` | 3 | 1 x 1 | 1, 2 | 3 | owner, sharer, requester; 0, 1 (a hit's), 4 and 13 (the int -3) for the uninitialised word |

The costs are 1, 2 and 3 in place of 2, 60 and 90; only their order and
`MemCost < 2 * CacheCost` matter (`CostAssumption`, which the real costs satisfy
too).  `IntModulus` is 8, so blocks below 4 fit an int and block 5 does not;
`WordModulus` 1000 exceeds every time reached, as 2^64 does, and shows a
subtraction that goes below zero.

In `smp_moesi` `WordModulus` is 40, so that the wraps are reached and lived through.
The word 13 makes a request of cost -3, that is 37, which the bus manager adds to the
clock (`AtomicBusManager.cpp:106`).  From cycle 3 on the sum wraps and the transaction
is over in the next cycle; before, or when the owner's answer carries a wrapped sum back
below zero (line 212; cycle 3 in the run), the bus is held until the clock has come that
far: 40 cycles in the run, 2^64 in the code.  So `Termination` says of MOESI that nothing
but time is lost; in practice such a run does not end.

`program` (79,684 states): `Simulator` from the command line to the end, MSI, two
processors with one set of three ways.  Its command lines are of three kinds.
Configurations of at most 20 bytes, associativity 0 to 3 and line size 0 to 5,
under every protocol number: all quotients, remainders and truncated logarithms
that differ in kind.  Files of at most three lines (two for the unusual names
and orders) over reads and writes of both processors, an access of a thread
without a cache, comments and empty lines: a failed conversion's effect shows
within two lines, and in a third it would show again.  And scripts: the accesses
of `traces/MSItestcomments.trace`, with what its comments expect after each, and
24 sequences in which processor 0 fills its set, processor 1 touches it from
outside, and processor 0 then replaces.

Properties: `ExclusiveMeansAlone`, `SingleOwner`, `UpdateFindsNoExclusive`,
`CompletedJobHolds`, `DirtyDataHandedOn`, `TransactionsEnd` of `Coherence`;
`Handshake`, `SetsSound`, `BusHoldBounded`, `AccessesCounted` (the invalidation
protocols), `DragonRequestsCounted` (Dragon), `BusRdXCounted`, `MemoryUsesCounted`,
`Termination`, `ImplementsCoherence`, `ImplementsLru` of the simulator; `GeometrySound`, `JobsAreTheAccesses`, `EveryAccessServed`,
`CommentsHold` of the program; `TypeOK` once for `Coherence` (`coh_dragon`) and once
for `SmpCache` (`smp_msi`).  Each has a comment with its meaning.  A protocol's run
lists the properties that protocol is meant to have and that say something about it
(MSI has no owner apart from its writer, so `SingleOwner` is not repeated there).

**Fairness.** `SmpCache` assumes weak fairness of its next-state relation: main's
loop runs on until it returns.  `Coherence` assumes weak fairness of the progress
of an outstanding transaction: the bus manager runs in every cycle.

**Deadlock** is checked in every run: the program's end is the explicit
self-loop `Done`.

## 4. Disagreements between the code and what it says

Each is a run that TLC must find violated; `PROJECT.json` quotes the line.

* `moesi_exclusive` - MOESI installs an exclusive line beside sharers.  Three reads of
  one block by three processors are enough: the first leaves it exclusive, the second
  makes both copies shared, and since a sharer does not answer, the third becomes
  exclusive again.  It may then write without the bus while the sharers keep the old
  value.
* `mesi_lone_write` - a MESI write miss that nobody shares leaves the line invalid.
* `dirty_eviction` - `isFull` is never true (`||` for `&&`), so dirty lines are
  overwritten with no write-back counted; all eviction code is dead.
* `mesi_busrdx` - MESI counts as BusRdX only those that meet a modified line.
* `wide_tags` - a block number that does not fit an int is never found by a snoop.

Others were met and have no run.  A read miss keeps the previous job's cost
(`JobCost`), so the requester's own deadline may come before the bus manager's,
contrary to the comment at `AtomicBusManager.cpp:127`; `Handshake` is what keeps
that harmless.  MOESI's uninitialised cost can end a transaction no later
than it starts, or keep the bus for ever in practice (section 3); `smp_moesi` shows
that the protocol and the handshake do not depend on it.  Dragon counts no read hit
(`Cache.cpp:793-809`), so its reads do not add up
as the other protocols' do; `DragonRequestsCounted` is what its counters keep.
MOESI never advances `numReadMisses`, which `printStats` prints as the number of read
misses, and its number of memory transactions is printed uninitialised.  MESI counts the memory use of an unshared read twice, in the
bus manager (`AtomicBusManager.cpp:224`) and in `busJobDone`, and MOESI counts one
for a write even when another cache supplied the line; so `MemoryUsesCounted` is
claimed of MSI only.  `main` has no name for MOESI and prints "Error"
(`CacheController.cpp:171`).  `CacheConstants.h:24` names the constructor's
parameters in another order than its definition; the call follows the
definition.  `setNumBytesBits` (`CacheConstants.cpp:580`) takes the logarithm of
the variable it sets, but like the other setters it has no caller.  In a file
whose format has the thread first, a comment or empty line repeats the access
before it; in a file whose name does not fit its format no access is
recognised, with no message.  `JobsAreTheAccesses` and `EveryAccessServed` say what is
served in every file, these included: each line stands for the access that `sscanf`
last heard (`StandsFor`).  Some traces (`false_sharing`, `raytrace`) name processors
that a machine started with fewer does not have.

Two consequences shape the passing runs: `CompletedJobHolds` is not claimed of
MESI, nor `ExclusiveMeansAlone` of MOESI, and `BusHoldBounded` not of MOESI.

## 5. Proofs

`Coherence_proofs` proves, for any set of caches and blocks:

* `SingleOwnership`: `Spec => []SingleOwner`, under all four protocols;
* `SingleWriter`: `Spec => []ExclusiveMeansAlone`, protocol not MOESI;
* `TypeCorrect`, `DragonComments` (Dragon), `DirtyDataSurvives`, and `JobsHold`
  (not MESI) for the properties of those names in section 2.

The only assumption is `ProtocolAssumption`.  The invariant `IndInv` adds to these
properties what an outstanding transaction may rely on: `RequesterWaits` (a
requester of BusRd holds the block invalid, of a Dragon update shared-dirty) and
`OthersHaveSnooped` (after the broadcast no other cache holds the block in a
state that the fill would contradict).  Without them `Complete` could install a
second owner.  There is one lemma per action (`HitStep`, `RequestStep`,
`GrantStep`, `CompleteStep`); `TablesTyped` says that the tables stay in the
protocol's states.

`SmpCache_proofs` proves `HandshakeHolds`: `Spec => []Handshake`, for any number
of processors, geometry, trace and costs.  `CtlInv`, the typing of the control
fields together with `Handshake`, is inductive as it stands: whoever waits for
the bus when a cache's turn comes is being served or has a lower index, and when
the bus manager's turn comes the cache it serves, or is about to serve, is the
only busy one.  There is one lemma per action; what a cache's tick may leave in
its control fields is stated once in `CacheStep`, what the bus manager may in
`BusStep`.  `SmpCacheSets_proofs` first shows that look-up and replacement pick a way
of the set, and that `NoShadow` survives both an install (`InstallKeepsNoShadow`) and
any change of the first way of a tag (`FirstWayMayChange`).  Then it joins the two:
with `SoundSet`, what a set must be at a given time, and one lemma per
action that changes a cache, `SmpInv` is inductive, and

* `SetsStaySound`: `Spec => []SetsSound`;
* `MachineTyped`: `Spec => []TypeOK`

follow.  They need `SizeAssumption`, `CostAssumption`, `WidthAssumption` (the fixed
costs fit an int, an int is shorter than a word, and what is not initialised is a
word), `AssocAssumption` (a set has a way) and `ProtocolAssumption`.
`NeverFull` proves that the eviction branch of `busJobDone` is dead for every
number of ways.  They also need `MaskAssumption`: that the mask is the largest
one-less-than-a-power-of-two below the number of sets, which `EveryGeometrySound`
proves of the constructor.

`SmpCacheRefinement_proofs` proves `Refinement`: `Spec => ImplementsCoherence`, for
any machine and trace, under one more assumption, `NarrowTags`: every block number
survives the int of a bus request.  Without it the statement is false
(`wide_tags`).  The argument:

* the invariant is `MachineInv`: `SmpInv` with `RequestInv`, that whoever asks for the
  bus does so for a job of the trace;
* a set determines the states of its blocks (`LineState`).  A look-up changes none
  of them (`TouchStates`), a look-up followed by a new state only that of its tag
  (`TouchAndSet`), and an install for a missing tag costs at most one other
  (`InstallForgetsOne`): the victim of `Complete`.  All three rest on `NoShadow`;
* at most one request stands (`Handshake`), so the set of transactions has at most
  one element (`NoTxns`, `OneTxn`);
* `TickHandles` is `Hit`, `Request` or, for a job that is neither read nor write, a
  stutter; `BusGrant` is `Grant`; `BusFinish` is `Complete`; all others stutter.

`OneOwnerInSimulator`, `OneWriterInSimulator`, `UpdateIsAloneInSimulator`,
`DirtyDataKeptInSimulator` and `JobsHoldInSimulator` carry the theorems of
`Coherence_proofs` over to the lines in the simulator's ways; `SameProtocol` says
that the instance of `Coherence` that is implemented is the one that was proved
about.

`SmpCacheCounts_proofs` proves what the counters say.  A counter is advanced in
several places and at several moments, so none of the three statements is inductive;
each is strengthened by what is still under way:

* `InvalidationCountsEveryAccess`: `Spec => []AccessesCounted`, not Dragon, and
  `BusRdXCountedUnderMSI`: `Spec => []BusRdXCounted` (of MSI; `mesi_busrdx` shows that
  it is false of MESI).  `AccountInv` adds to `SmpInv` the balance of every cache's
  counters with its misses and writes in flight (`CountsInv`), and `RequestFits`: the
  request that stands is that of its cache's job, BusRdX for a write and only for a
  write except in Dragon, at one of the costs `handleRequest` gives; so `busJobDone`
  counts the access that `handleRequest` left open.  `TickHandlesTakes` says once what
  a job taken changes;
* `DragonRequestsStayCounted`: `Spec => []DragonRequestsCounted` for Dragon.  `AsksInv`
  adds to `AccountInv` that a Dragon write whose first request stands may still ask once
  more, and one whose update stands may not (`UpdateEnds`: the bus manager's shared flag
  has been taken down, so `busJobDone` asks no third time);
* `MemoryUsesCountedUnderMSI`: `Spec => []MemoryUsesCounted` for MSI, a sum over all
  caches.  `MemoryInv` equates the sums and counts the transaction under way, if
  any (`MemoryBalance`).  `SumAdds`, `SumOfOne` and `SumOfEach` say of the sum of a
  function what its recursive definition does not show: that sums add, and what one
  term, or one more in every term, changes;
* `BusHoldStaysBounded`: `Spec => [](ClockFits(cycle) => BusHoldBounded)`, not MOESI,
  `NarrowTags`.  `ClockFits` leaves room for two memory accesses before the clock's last
  value (2^64 in the code); beyond it the statement is false, since the sum of
  clock and cost wraps.  The end is put off once for each cache that flushes;
  `OneFlusher` is why that is at most once: one cache owns the block (`SingleOwner`,
  carried over from `Coherence`).  What MESI then takes off, unsigned, is less than
  any request costs, because `MemCost < 2 * CacheCost` (`GrantedEndBounded`).

`SmpCacheLru_proofs` proves `LruRefinement`: `Spec => ImplementsLru`, for any machine
and trace and every protocol, again under `NarrowTags` (a request whose tag is not
that of its block is a use of another block).  The code keeps no order, only a time
stamp per line, and the stamps of a set need not differ.  The argument:

* the invariant is `MachineInv` with `TimesInv`.  `CacheTimes`: two lines of a set
  carry the same time only if one is that of the cache's last job, and only while
  the job is under way or once its time is up; a cache that has had no job has no
  line.  `Aged`: before its tick, and while the bus serves it, a cache has used no
  line in this cycle.  `UsedNow`: outside a job of its own, the only line a cache
  has used in this cycle is the one the finished job touches.  Together they say
  who won when two stamps are equal, which is what `UsedAfter` reads off;
* a set's stamps are an order (`TimeOrder`) of its tags.  `GoneOrder`, `PlaceOrder`: a
  way that changes is taken out of the order, and is in front if its stamp is the
  latest; `UsedOrder`, `DroppedOrder`, `InstalledOrder` are the cases the code has;
  `RoomIs`: `getLRULine` takes a way that holds no block, or the last in the order
  (`LastIs`; `TagsCounted` says that a set is full when it holds `Assoc` tags);
* without ties the order does not depend on who decides them (`UntiedOrder`), and a
  touch of the last job's line removes the tie (`TouchedSet`); so a cache's new job
  may take over the deciding from its old one;
* `TickIdle` is `Refresh` or a stutter, `TickHandles` is `Access`, `BusGrant` is
  `Broadcast`, `BusFinish` is `Fill`; all others stutter.  There is one lemma per
  action for each, and one for what it makes of `TimesInv`.

`Simulator_proofs` proves, for every command line and file that
`CommandLineAssumption` admits (natural numbers as arguments; lines of the three
kinds; a machine below that knows the blocks the file leads to):

* `ProgramRunsTheMachine`: what the program does to the machine are steps of
  `SmpCache`, from its initial state.  Its invariant `StartInv` types the variables of
  start-up, relates queue, position and `remaining`, and keeps the geometry that
  of the arguments.  The theorems above are therefore about the program too:
  `ProgramIsSafe`, `ProgramRefines` and `ProgramImplementsLru` state it for the
  handshake, the sets, the counts, and the two refinements;
* `TheQueueIsTheFile`: `ProgramSpec => []JobsAreTheAccesses`, for every file, by
  `QueueMatches`: not only the queue's jobs but `main`'s three variables, too, are those
  of the access last heard, or make a job that is dropped.  `LineMakesItsJob` is the
  argument about the conversions of `sscanf`.  `WhereEveryLineIsHeard` says what this
  comes to in the usual files: each access stands for itself and no other line for one;
* `EveryLineServed`: `ProgramSpec => []EveryAccessServed`.  `GivenIsFile` says that at
  every moment the reads and writes a cache has counted, with the one it has been
  given and not taken, are those for which the lines handed out stand; a transaction
  may have taken any number of steps in between;
* `EveryGeometrySound`: `ProgramSpec => []GeometrySound`, for every size, associativity
  and line size.  `Log2Is` and `TagMaskIs` are about the truncated logarithm and the mask
  made of it, `DivNext` says where a quotient changes, `MaskedIs` that masking with
  2^b - 1 is the remainder by 2^b (through `BitsDetermine`: numbers with the same
  bits are equal), `SetsFit` that the truncated quotients fit the cache.

Model-checked only:

* liveness (`TransactionsEnd`, `Termination`): fairness is out of the prover's reach;
* `CommentsHold`: it speaks of the states that particular scripts lead to;
* `BusHoldBounded` without the bound on the clock: the run's clock stays below it.

## 6. Not modelled

Printing and formatting; the second main; Pin, the sample programs and scripts.
Operations without a caller: the setters of `CacheConstants`, `queuesEmpty`, and
of `CacheSet` `evictLine`, `evictLineShared`, `evictLineInvalid`, `allLinesFull` and
`getLRU`.  What happens after an out-of-range index, a division by zero or the
logarithm of zero: the model ends there (`HandOutNowhere`, `Misconfigure`).  The
characters of a line other than those the conversions stop at.  The comment scripts of
the MESI and MOESI traces are not part of a run: a run fixes one protocol.

## 7. Plan

1. (done) `CoherenceProtocols`, `Coherence`, `CacheSet`, `CacheStats`, `SmpCache`; the
   proofs of coherence, handshake and sets.
2. (done) `Startup`: geometry, decoding of addresses, reading of the trace.
3. (done) `LruCaches` and the refinement of replacement, snoops included.
4. (done) `Simulator`: the program end to end, with the comments of a trace file.
5. (done) The proof that `SmpCache` implements `Coherence`, and what it carries
   over.
6. (done) Proofs of the counters, the bus's deadline, the queue and the geometry, and
   of the whole program.
7. (done) The proof that replacement is least-recently-used.

What is left to TLC stays there: liveness, and the comments of particular traces.
