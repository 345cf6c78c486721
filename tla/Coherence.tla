------------------------------- MODULE Coherence -------------------------------
(* What the simulator's caches promise each other, without its clock, its      *)
(* ways, or its counters: the state each cache holds every block in, and the   *)
(* bus transaction in progress.  A transaction is requested by a cache's       *)
(* handler, granted (broadcast to every other cache) by the bus manager, and   *)
(* completed by the bus manager some cycles later.  SmpCache implements this   *)
(* specification.                                                              *)
EXTENDS CoherenceProtocols

CONSTANTS Procs,         \* the caches, one per processor
          Blocks         \* the block numbers that the trace touches

VARIABLES st,            \* st[p][b]: the state in which cache p holds block b
          txns           \* the outstanding bus transactions

vars == <<st, txns>>

Txn == [stage : {"requested", "granted"}, proc : Procs, op : {"R", "W"},
        block : Blocks, cmd : Commands, shared : BOOLEAN]

Requested(p, op, b, cmd) ==
  [stage |-> "requested", proc |-> p, op |-> op, block |-> b, cmd |-> cmd,
   shared |-> FALSE]

Init == /\ st = [p \in Procs |-> [b \in Blocks |-> "invalid"]]
        /\ txns = {}

-------------------------------------------------------------------------------
(* A job the cache serves alone.  Like every job it starts only while no bus   *)
(* transaction is outstanding: main hands out a job when no cache is busy.     *)
Hit(p, op, b) ==
  /\ txns = {}
  /\ Decision(op, st[p][b]) = "hit"
  /\ st' = [st EXCEPT ![p][b] = RequestState(op, st[p][b])]
  /\ UNCHANGED txns

(* A job that needs the bus.                                                   *)
Request(p, op, b) ==
  /\ txns = {}
  /\ Decision(op, st[p][b]) \in Commands
  /\ st' = [st EXCEPT ![p][b] = RequestState(op, st[p][b])]
  /\ txns' = {Requested(p, op, b, Decision(op, st[p][b]))}

(* The bus manager broadcasts the request: every other cache snoops it.        *)
Grant(t) ==
  /\ t.stage = "requested"
  /\ st' = [q \in Procs |-> [b \in Blocks |->
              IF q # t.proc /\ b = t.block THEN SnoopState(t.cmd, st[q][b])
              ELSE st[q][b]]]
  /\ txns' = (txns \ {t}) \cup
       {[t EXCEPT !.stage = "granted",
                  !.shared = \E q \in Procs \ {t.proc} : MarksShared(t.cmd, st[q][t.block])]}

(* The bus job is done: the requester stores the line in its final state.      *)
(* Installing a line it did not have may silently drop any set of other        *)
(* blocks: a set has room for Assoc lines, and which one goes is the business  *)
(* of CacheSet.                                                                *)
Complete(t, victims) ==
  /\ t.stage = "granted"
  /\ victims # {} => st[t.proc][t.block] = "invalid"
  /\ st' = [st EXCEPT ![t.proc] = [b \in Blocks |->
              IF b = t.block THEN FillState(t.op, t.shared, st[t.proc][b])
              ELSE IF b \in victims THEN "invalid" ELSE st[t.proc][b]]]
  /\ txns' = (txns \ {t}) \cup
       (IF Reissues(t.op, t.shared)
        THEN {Requested(t.proc, t.op, t.block, "BusRdX")} ELSE {})

(* A set loses at most one line to the one it takes in.                        *)
Victims == {{}} \cup {{b} : b \in Blocks}

Next ==
  \/ \E p \in Procs, op \in Ops, b \in Blocks : Hit(p, op, b) \/ Request(p, op, b)
  \/ \E t \in txns : Grant(t) \/ \E victims \in Victims : Complete(t, victims)

Spec == Init /\ [][Next]_vars

(* The bus manager runs every cycle, so a transaction does not stay put.       *)
Fairness == WF_vars(\E t \in txns : Grant(t) \/ \E victims \in Victims : Complete(t, victims))

FairSpec == Spec /\ Fairness

-------------------------------------------------------------------------------
(* Properties                                                                  *)

(* Type correctness: each line stays in the states of the configured protocol, *)
(* and at most one transaction is outstanding.                                 *)
TypeOK == /\ st \in [Procs -> [Blocks -> ProtocolStates]]
          /\ txns \subseteq Txn
          /\ \A t, u \in txns : t = u

AloneStates == {"modified", "exclusive"}
OwnerStates == {"modified", "exclusive", "owned", "sharedDirty"}
DirtyStates == {"modified", "owned", "sharedDirty"}

(* Between a write's request and its broadcast the writer already holds the    *)
(* line in its new state and the others have not heard of it.                  *)
Upgrading(p, b) ==
  \E t \in txns : t.stage = "requested" /\ t.cmd = "BusRdX" /\ t.proc = p /\ t.block = b

(* Single writer: outside an upgrade's window, a cache that holds a block      *)
(* modified or exclusive, and so writes it without the bus (handleWriteModified*)
(* and handleWriteExclusive), is the only one to hold it at all.  True of MSI, *)
(* MESI and Dragon; MOESI breaks it (busJobDone's read branch).                *)
ExclusiveMeansAlone ==
  \A p, q \in Procs, b \in Blocks :
    (p # q /\ st[p][b] \in AloneStates /\ ~Upgrading(p, b)) => st[q][b] = "invalid"

(* Single owner: under every protocol at most one cache answers for a block,   *)
(* holding it modified, exclusive, owned or shared-dirty, so that one cache    *)
(* supplies it and one copy is the dirty one.                                  *)
SingleOwner ==
  \A p, q \in Procs, b \in Blocks :
    (p # q /\ st[p][b] \in OwnerStates /\ st[q][b] \in OwnerStates)
      => Upgrading(p, b) \/ Upgrading(q, b)

(* The two "Can never happen" comments of handleSnoopDRAGON: a snooped update  *)
(* (BusRdX) finds no other cache holding the block modified or exclusive.      *)
UpdateFindsNoExclusive ==
  \A t \in txns : \A q \in Procs \ {t.proc} :
    t.stage = "requested" /\ t.cmd = "BusRdX" => st[q][t.block] \notin AloneStates

(* What a finished job is for: when a transaction ends without a second one,   *)
(* a reader can repeat its job as a hit and a writer holds the line dirty.     *)
(* MESI breaks it for a write that no other cache shares.                      *)
CompletedJobHolds ==
  [][\A t \in txns : (t.stage = "granted" /\ txns' = {}) =>
       st'[t.proc][t.block] \in IF t.op = "R" THEN ReadHitStates ELSE DirtyStates]_vars

Dirty(b) == \E p \in Procs : st[p][b] \in DirtyStates

(* A broadcast does not lose the only up-to-date copy: a block held dirty is   *)
(* still held dirty afterwards, unless its holder has flushed it or the        *)
(* requester is about to write it.                                             *)
DirtyDataHandedOn ==
  [][\A t \in txns : (t.stage = "requested" /\ Dirty(t.block)) =>
       \/ Dirty(t.block)'
       \/ \E q \in Procs \ {t.proc} : Flushes(st[q][t.block])
       \/ t.cmd = "BusRdX"]_vars

(* Every transaction ends, a Dragon write's update included: its second        *)
(* request does not ask for a third.                                           *)
TransactionsEnd == (txns # {}) ~> (txns = {})

-------------------------------------------------------------------------------
(* The inductive strengthening: what a transaction in progress may rely on.    *)

(* Which jobs issue which command, and the state the requester waits in.       *)
RequesterWaits ==
  \A t \in txns :
    LET s == st[t.proc][t.block] IN
    /\ t.op = "R" => t.cmd = "BusRd"
    /\ t.cmd = "BusRd" => s = "invalid" /\ (t.op = "W" => Protocol = "DRAGON")
    /\ t.cmd = "BusRdX" /\ Protocol = "DRAGON" => s = "sharedDirty" /\ ~t.shared

(* What the broadcast has left in the other caches.                            *)
OthersHaveSnooped ==
  \A t \in txns : \A q \in Procs \ {t.proc} :
    LET s == st[q][t.block] IN
    t.stage = "granted" =>
      /\ t.cmd = "BusRd" =>
           /\ s \notin AloneStates
           /\ ~t.shared => s \notin OwnerStates
           /\ ~t.shared /\ Protocol \in {"MESI", "DRAGON"} => s = "invalid"
      /\ t.cmd = "BusRdX" =>
           s = "invalid" \/ (Protocol = "DRAGON" /\ s = "sharedClean")

IndInv == /\ TypeOK
          /\ SingleOwner
          /\ Protocol # "MOESI" => ExclusiveMeansAlone
          /\ Protocol = "DRAGON" => UpdateFindsNoExclusive
          /\ RequesterWaits
          /\ OthersHaveSnooped
===============================================================================
