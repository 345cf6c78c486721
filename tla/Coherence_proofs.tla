--------------------------- MODULE Coherence_proofs ---------------------------
(* For every number of caches and blocks: the type invariant, the single owner *)
(* under all four protocols, and the single writer under MSI, MESI and Dragon. *)
EXTENDS Coherence, CoherenceProtocols_proofs, TLAPS

-------------------------------------------------------------------------------
(* Each action preserves the inductive invariant                               *)

(* A hit changes the requester's line only, and a write hit was made by the    *)
(* line's only owner.                                                          *)
LEMMA HitStep ==
  ASSUME IndInv, NEW p \in Procs, NEW op \in Ops, NEW b \in Blocks, Hit(p, op, b)
  PROVE  IndInv'
<1> DEFINE s == st[p][b]
<1>1. /\ txns = {} /\ txns' = {}
      /\ st' = [st EXCEPT ![p][b] = RequestState(op, s)]
      /\ st \in [Procs -> [Blocks -> ProtocolStates]]
      /\ s \in ProtocolStates
  BY DEF IndInv, TypeOK, Hit
<1>2. /\ RequestState(op, s) \in ProtocolStates
      /\ \/ RequestState(op, s) = s
         \/ s \in AloneStates /\ RequestState(op, s) = "modified"
  <2>1. Decision(op, s) = "hit"
    BY DEF Hit
  <2>2. RequestState(op, s) \in ProtocolStates
    BY <1>1, <2>1, TablesTyped
  <2>3. op = "W" => s \in AloneStates /\ RequestState(op, s) = "modified"
    BY <2>1 DEF Decision, WriteHitStates, AloneStates, RequestState
  <2>4. op # "W" => RequestState(op, s) = s
    BY DEF RequestState
  <2> QED BY <2>2, <2>3, <2>4
<1>3. /\ st'[p][b] = RequestState(op, s)
      /\ \A q \in Procs, c \in Blocks : (q # p \/ c # b) => st'[q][c] = st[q][c]
  BY <1>1
<1>4. TypeOK'
  BY <1>1, <1>2 DEF TypeOK
<1>5. SingleOwner'
  BY <1>1, <1>2, <1>3 DEF IndInv, SingleOwner, Upgrading, AloneStates, OwnerStates
<1>6. Protocol # "MOESI" => ExclusiveMeansAlone'
  <2> SUFFICES ASSUME Protocol # "MOESI" PROVE ExclusiveMeansAlone'
    OBVIOUS
  <2>1. ExclusiveMeansAlone
    BY DEF IndInv
  <2>2. \A x, y \in Procs, c \in Blocks :
          (x # y /\ st[x][c] \in AloneStates) => st[y][c] = "invalid"
    BY <1>1, <2>1 DEF ExclusiveMeansAlone, Upgrading
  <2>3. RequestState(op, s) \in AloneStates => s \in AloneStates
    BY <1>2
  <2>4. s = "invalid" => RequestState(op, s) = "invalid"
    BY DEF RequestState
  <2>5. \A x, y \in Procs, c \in Blocks :
          (x # y /\ st'[x][c] \in AloneStates) => st'[y][c] = "invalid"
    BY <1>3, <2>2, <2>3, <2>4
  <2> QED BY <2>5 DEF ExclusiveMeansAlone
<1>7. UpdateFindsNoExclusive' /\ RequesterWaits' /\ OthersHaveSnooped'
  BY <1>1 DEF UpdateFindsNoExclusive, RequesterWaits, OthersHaveSnooped
<1> QED BY <1>4, <1>5, <1>6, <1>7 DEF IndInv

(* A request: a read, or a Dragon write miss, leaves the (invalid) line alone; *)
(* any other write upgrades a line it may share with others, and is in its     *)
(* upgrade window from then on.                                                *)
LEMMA RequestStep ==
  ASSUME IndInv, NEW p \in Procs, NEW op \in Ops, NEW b \in Blocks, Request(p, op, b)
  PROVE  IndInv'
<1> DEFINE s   == st[p][b]
           cmd == Decision(op, s)
           t   == Requested(p, op, b, cmd)
<1>1. /\ txns = {} /\ txns' = {t}
      /\ st' = [st EXCEPT ![p][b] = RequestState(op, s)]
      /\ st \in [Procs -> [Blocks -> ProtocolStates]]
      /\ s \in ProtocolStates
      /\ cmd \in {"BusRd", "BusRdX"}
  BY DEF IndInv, TypeOK, Request, Commands
<1>2. /\ t.stage = "requested" /\ t.proc = p /\ t.block = b /\ t.cmd = cmd /\ t.op = op
      /\ t.shared = FALSE
  BY DEF Requested
<1>3. op \in {"R", "W"} /\ (op = "R" => cmd = "BusRd")
  BY <1>1 DEF Decision, Ops
<1>4. cmd = "BusRd" => s = "invalid" /\ (op = "W" => Protocol = "DRAGON")
  BY <1>1, <1>3, ProtocolAssumption
  DEF Decision, ReadHitStates, WriteHitStates, ProtocolStates
<1>5. cmd = "BusRdX" /\ Protocol = "DRAGON" =>
        s \in {"sharedClean", "sharedDirty"} /\ RequestState(op, s) = "sharedDirty"
  BY <1>1, <1>3 DEF Decision, RequestState
<1>6. s = "invalid" => RequestState(op, s) = "invalid"
  BY DEF RequestState
<1>7. /\ st'[p][b] = RequestState(op, s)
      /\ \A q \in Procs, c \in Blocks : (q # p \/ c # b) => st'[q][c] = st[q][c]
  BY <1>1
<1>8. \A q \in Procs, c \in Blocks : Upgrading(q, c)' <=> (cmd = "BusRdX" /\ q = p /\ c = b)
  BY <1>1, <1>2 DEF Upgrading
<1>9. TypeOK'
  <2>1. RequestState(op, s) \in ProtocolStates
    BY <1>1, TablesTyped DEF Commands
  <2>2. t \in Txn
    BY <1>1, <1>3 DEF Requested, Txn, Commands
  <2> QED BY <1>1, <2>1, <2>2 DEF TypeOK
<1>10. SingleOwner'
  <2>1. \A x, y \in Procs, c \in Blocks :
          (x # y /\ st[x][c] \in OwnerStates) => st[y][c] \notin OwnerStates
    BY <1>1 DEF IndInv, SingleOwner, Upgrading
  <2> QED BY <2>1, <1>1, <1>4, <1>6, <1>7, <1>8 DEF SingleOwner, OwnerStates
<1>11. Protocol # "MOESI" => ExclusiveMeansAlone'
  <2> SUFFICES ASSUME Protocol # "MOESI" PROVE ExclusiveMeansAlone'
    OBVIOUS
  <2>1. \A x, y \in Procs, c \in Blocks :
          (x # y /\ st[x][c] \in AloneStates) => st[y][c] = "invalid"
    BY <1>1 DEF IndInv, ExclusiveMeansAlone, Upgrading
  <2> QED BY <2>1, <1>1, <1>4, <1>6, <1>7, <1>8 DEF ExclusiveMeansAlone, AloneStates
<1>12. Protocol = "DRAGON" => UpdateFindsNoExclusive'
  <2> SUFFICES ASSUME Protocol = "DRAGON" PROVE UpdateFindsNoExclusive'
    OBVIOUS
  <2>1. \A x, y \in Procs, c \in Blocks :
          (x # y /\ st[x][c] \in AloneStates) => st[y][c] = "invalid"
    BY <1>1 DEF IndInv, ExclusiveMeansAlone, Upgrading
  <2> QED BY <2>1, <1>1, <1>2, <1>5, <1>7 DEF UpdateFindsNoExclusive
<1>13. RequesterWaits'
  BY <1>1, <1>2, <1>3, <1>4, <1>5, <1>6, <1>7 DEF RequesterWaits
<1>14. OthersHaveSnooped'
  BY <1>1, <1>2 DEF OthersHaveSnooped
<1> QED BY <1>9, <1>10, <1>11, <1>12, <1>13, <1>14 DEF IndInv

(* The broadcast: the other caches leave the block as the command demands.     *)
LEMMA GrantStep ==
  ASSUME IndInv, NEW t \in txns, Grant(t)
  PROVE  IndInv'
<1> DEFINE p      == t.proc
           b      == t.block
           shared == \E q \in Procs \ {p} : MarksShared(t.cmd, st[q][b])
           u      == [t EXCEPT !.stage = "granted", !.shared = shared]
<1>1. /\ t \in Txn /\ txns = {t} /\ txns' = {u}
      /\ t.stage = "requested"
      /\ st \in [Procs -> [Blocks -> ProtocolStates]]
      /\ st' = [q \in Procs |-> [c \in Blocks |->
                  IF q # p /\ c = b THEN SnoopState(t.cmd, st[q][c]) ELSE st[q][c]]]
  BY DEF IndInv, TypeOK, Grant
<1>2. /\ p \in Procs /\ b \in Blocks /\ t.cmd \in Commands /\ t.op \in {"R", "W"}
  BY <1>1 DEF Txn
<1>3. /\ u \in Txn /\ u.stage = "granted" /\ u.proc = p /\ u.block = b /\ u.cmd = t.cmd
      /\ u.op = t.op /\ u.shared = shared
  BY <1>1 DEF Txn
<1>20. u.shared <=> \E q \in Procs \ {p} : MarksShared(t.cmd, st[q][b])
  BY <1>3
<1> HIDE DEF u, shared
<1>4. \A q \in Procs, c \in Blocks :
        /\ st[q][c] \in ProtocolStates
        /\ q # p /\ c = b => st'[q][c] = SnoopState(t.cmd, st[q][c])
        /\ q = p \/ c # b => st'[q][c] = st[q][c]
  BY <1>1
<1>5. \A q \in Procs, c \in Blocks : ~Upgrading(q, c)'
  BY <1>1, <1>3 DEF Upgrading
<1>6. \A q \in Procs, c \in Blocks : Upgrading(q, c) <=> (t.cmd = "BusRdX" /\ q = p /\ c = b)
  BY <1>1 DEF Upgrading
<1>7. TypeOK'
  <2>1. \A s \in ProtocolStates : SnoopState(t.cmd, s) \in ProtocolStates
    BY <1>2, TablesTyped
  <2>2. st' \in [Procs -> [Blocks -> ProtocolStates]]
    BY <1>1, <2>1
  <2> QED BY <1>1, <1>3, <2>2 DEF TypeOK
<1>8. /\ t.op = "R" => t.cmd = "BusRd"
      /\ t.cmd = "BusRd" => st[p][b] = "invalid" /\ (t.op = "W" => Protocol = "DRAGON")
      /\ t.cmd = "BusRdX" /\ Protocol = "DRAGON" => st[p][b] = "sharedDirty"
  BY <1>1 DEF IndInv, RequesterWaits
<1>9. t.cmd = "BusRdX" /\ Protocol = "DRAGON" =>
        /\ ~u.shared
        /\ \A q \in Procs \ {p} : st[q][b] \notin AloneStates
  BY <1>1, <1>20 DEF IndInv, UpdateFindsNoExclusive, MarksShared, RaisesShared, Flushes,
              AnswersShared, Supplies
<1>10. RequesterWaits'
  BY <1>1, <1>2, <1>3, <1>4, <1>8, <1>9 DEF RequesterWaits
<1>11. UpdateFindsNoExclusive'
  BY <1>1, <1>3 DEF UpdateFindsNoExclusive
<1>12. OthersHaveSnooped'
  <2> SUFFICES ASSUME NEW q \in Procs \ {p}
               PROVE  LET s == st'[q][b] IN
                      /\ t.cmd = "BusRd" =>
                           /\ s \notin AloneStates
                           /\ ~u.shared => s \notin OwnerStates
                           /\ ~u.shared /\ Protocol \in {"MESI", "DRAGON"} => s = "invalid"
                      /\ t.cmd = "BusRdX" =>
                           s = "invalid" \/ (Protocol = "DRAGON" /\ s = "sharedClean")
    BY <1>1, <1>3 DEF OthersHaveSnooped
  <2>1. /\ st[q][b] \in ProtocolStates
        /\ st'[q][b] = SnoopState(t.cmd, st[q][b])
        /\ MarksShared(t.cmd, st[q][b]) => u.shared
    BY <1>2, <1>4, <1>20
  <2>2. CASE t.cmd = "BusRd"
    BY <2>1, <2>2, ProtocolAssumption
    DEF SnoopState, BusRdState, MarksShared, Flushes, AnswersShared, Supplies,
        RaisesShared, AloneStates, OwnerStates, ProtocolStates
  <2>3. CASE t.cmd = "BusRdX"
    BY <2>1, <2>3, <1>9, ProtocolAssumption
    DEF SnoopState, BusRdXState, AloneStates, ProtocolStates
  <2> QED BY <2>2, <2>3, <1>2 DEF Commands
<1>13. \A q \in Procs \ {p} : st'[q][b] \in OwnerStates =>
         t.cmd = "BusRd" /\ st[q][b] \in OwnerStates
  <2> SUFFICES ASSUME NEW q \in Procs \ {p}, st'[q][b] \in OwnerStates
               PROVE  t.cmd = "BusRd" /\ st[q][b] \in OwnerStates
    OBVIOUS
  <2>1. /\ st[q][b] \in ProtocolStates
        /\ st'[q][b] = SnoopState(t.cmd, st[q][b])
    BY <1>2, <1>4
  <2>2. t.cmd = "BusRd"
    BY <1>1, <1>2, <1>3, <1>12 DEF OthersHaveSnooped, OwnerStates, Commands
  <2>3. st[q][b] \in OwnerStates
    BY <2>1, <2>2, ProtocolAssumption DEF SnoopState, BusRdState, OwnerStates, ProtocolStates
  <2> QED BY <2>2, <2>3
<1>14. SingleOwner'
  BY <1>2, <1>4, <1>6, <1>8, <1>13 DEF IndInv, SingleOwner, OwnerStates
<1>15. Protocol # "MOESI" => ExclusiveMeansAlone'
  <2> SUFFICES ASSUME Protocol # "MOESI",
                      NEW x \in Procs, NEW y \in Procs, NEW c \in Blocks,
                      x # y, st'[x][c] \in AloneStates
               PROVE  st'[y][c] = "invalid"
    BY DEF ExclusiveMeansAlone
  <2>1. CASE c # b
    BY <2>1, <1>4, <1>6 DEF IndInv, ExclusiveMeansAlone
  <2>2. CASE c = b
    <3>1. x = p
      BY <2>2, <1>1, <1>2, <1>3, <1>12 DEF OthersHaveSnooped, AloneStates, Commands
    <3>2. t.cmd = "BusRdX" /\ Protocol # "DRAGON"
      BY <2>2, <3>1, <1>2, <1>4, <1>8 DEF AloneStates, Commands
    <3> QED BY <2>2, <3>1, <3>2, <1>1, <1>3, <1>12 DEF OthersHaveSnooped
  <2> QED BY <2>1, <2>2
<1> QED BY <1>7, <1>10, <1>11, <1>12, <1>14, <1>15 DEF IndInv

(* The end of the bus job: the requester stores its line, dropping the victims *)
(* to make room; a Dragon write of a shared line asks for the bus again.       *)
LEMMA CompleteStep ==
  ASSUME IndInv, NEW t \in txns, NEW victims \in Victims, Complete(t, victims)
  PROVE  IndInv'
<1> DEFINE p    == t.proc
           b    == t.block
           s    == st[p][b]
           fill == FillState(t.op, t.shared, s)
           u    == Requested(p, t.op, b, "BusRdX")
<1>1. /\ t \in Txn /\ txns = {t}
      /\ t.stage = "granted"
      /\ txns' = IF Reissues(t.op, t.shared) THEN {u} ELSE {}
      /\ st \in [Procs -> [Blocks -> ProtocolStates]]
      /\ st' = [st EXCEPT ![p] = [c \in Blocks |->
                  IF c = b THEN FillState(t.op, t.shared, st[p][c])
                  ELSE IF c \in victims THEN "invalid" ELSE st[p][c]]]
  BY DEF IndInv, TypeOK, Complete
<1>2. /\ p \in Procs /\ b \in Blocks /\ t.cmd \in {"BusRd", "BusRdX"}
      /\ t.op \in {"R", "W"} /\ t.shared \in BOOLEAN
      /\ s \in ProtocolStates
  BY <1>1 DEF Txn, Commands
<1>3. /\ st'[p][b] = fill
      /\ \A c \in Blocks : c # b => st'[p][c] \in {"invalid", st[p][c]}
      /\ \A q \in Procs, c \in Blocks : q # p => st'[q][c] = st[q][c]
  BY <1>1, <1>2
<1>4. /\ u.stage = "requested" /\ u.proc = p /\ u.block = b /\ u.cmd = "BusRdX"
      /\ u.op = t.op /\ u.shared = FALSE
  BY DEF Requested
<1>5. /\ t.op = "R" => t.cmd = "BusRd"
      /\ t.cmd = "BusRd" => s = "invalid" /\ (t.op = "W" => Protocol = "DRAGON")
      /\ t.cmd = "BusRdX" /\ Protocol = "DRAGON" => s = "sharedDirty" /\ ~t.shared
  BY <1>1 DEF IndInv, RequesterWaits
<1>6. \A q \in Procs \ {p} :
        /\ t.cmd = "BusRd" =>
             /\ st[q][b] \notin AloneStates
             /\ ~t.shared => st[q][b] \notin OwnerStates
             /\ ~t.shared /\ Protocol \in {"MESI", "DRAGON"} => st[q][b] = "invalid"
        /\ t.cmd = "BusRdX" =>
             st[q][b] = "invalid" \/ (Protocol = "DRAGON" /\ st[q][b] = "sharedClean")
  BY <1>1 DEF IndInv, OthersHaveSnooped
<1>7. \A q \in Procs, c \in Blocks : ~Upgrading(q, c)
  BY <1>1 DEF Upgrading
<1>8. \A q \in Procs, c \in Blocks :
        Upgrading(q, c)' <=> Reissues(t.op, t.shared) /\ q = p /\ c = b
  BY <1>1, <1>4 DEF Upgrading
<1>9. TypeOK'
  <2>1. fill \in ProtocolStates /\ "invalid" \in ProtocolStates
    BY <1>2, TablesTyped
  <2>2. u \in Txn
    BY <1>2 DEF Txn, Requested, Commands
  <2>3. st' \in [Procs -> [Blocks -> ProtocolStates]]
    BY <1>1, <1>2, <2>1
  <2> QED BY <1>1, <2>2, <2>3 DEF TypeOK
<1>10. Reissues(t.op, t.shared) => Protocol = "DRAGON" /\ fill = "sharedDirty" /\ t.cmd = "BusRd"
  BY <1>2, <1>5 DEF Reissues, FillState, WriteFill
<1>11. RequesterWaits'
  BY <1>1, <1>3, <1>4, <1>10 DEF RequesterWaits, Reissues
<1>12. UpdateFindsNoExclusive'
  BY <1>1, <1>2, <1>3, <1>4, <1>6, <1>10 DEF UpdateFindsNoExclusive
<1>13. OthersHaveSnooped'
  BY <1>1, <1>4 DEF OthersHaveSnooped
<1>14. fill \in OwnerStates =>
         \/ Reissues(t.op, t.shared)
         \/ \A q \in Procs \ {p} : st[q][b] \notin OwnerStates
  <2>1. CASE t.op = "R"
    BY <2>1, <1>2, <1>5, <1>6, ProtocolAssumption DEF FillState, ReadFill, OwnerStates
  <2>2. CASE t.op = "W" /\ t.cmd = "BusRd"
    BY <2>2, <1>2, <1>5, <1>6 DEF Reissues
  <2>3. CASE t.op = "W" /\ t.cmd = "BusRdX"
    BY <2>3, <1>6 DEF OwnerStates
  <2> QED BY <2>1, <2>2, <2>3, <1>2
<1>15. SingleOwner'
  BY <1>2, <1>3, <1>7, <1>8, <1>14 DEF IndInv, SingleOwner, OwnerStates
<1>16. ASSUME Protocol # "MOESI"
       PROVE  /\ fill \in AloneStates => \A q \in Procs \ {p} : st[q][b] = "invalid"
              /\ \A q \in Procs \ {p} : st[q][b] \in AloneStates => fill = "invalid"
  <2>1. CASE t.op = "R"
    BY <2>1, <1>2, <1>5, <1>6, <1>16, ProtocolAssumption DEF FillState, ReadFill, AloneStates
  <2>2. CASE t.op = "W" /\ t.cmd = "BusRd"
    BY <2>2, <1>2, <1>5, <1>6 DEF FillState, WriteFill, AloneStates
  <2>3. CASE t.op = "W" /\ t.cmd = "BusRdX"
    BY <2>3, <1>2, <1>5, <1>6 DEF FillState, WriteFill, AloneStates
  <2> QED BY <2>1, <2>2, <2>3, <1>2
<1>17. Protocol # "MOESI" => ExclusiveMeansAlone'
  <2> SUFFICES ASSUME Protocol # "MOESI",
                      NEW x \in Procs, NEW y \in Procs, NEW c \in Blocks,
                      x # y, st'[x][c] \in AloneStates
               PROVE  st'[y][c] = "invalid"
    BY DEF ExclusiveMeansAlone
  <2>1. \A v, w \in Procs, d \in Blocks :
          (v # w /\ st[v][d] \in AloneStates) => st[w][d] = "invalid"
    BY <1>7 DEF IndInv, ExclusiveMeansAlone
  <2>2. CASE c # b
    BY <2>1, <2>2, <1>2, <1>3 DEF AloneStates
  <2>3. CASE c = b
    BY <2>1, <2>3, <1>2, <1>3, <1>16
  <2> QED BY <2>2, <2>3
<1> QED BY <1>9, <1>11, <1>12, <1>13, <1>15, <1>17 DEF IndInv

-------------------------------------------------------------------------------
(* The theorems                                                                *)

(* No cache holds anything and the bus is free: the invariant starts true.     *)
LEMMA InitIndInv == Init => IndInv
<1> SUFFICES ASSUME Init PROVE IndInv
  OBVIOUS
<1>1. txns = {} /\ \A p \in Procs, b \in Blocks : st[p][b] = "invalid"
  BY DEF Init
<1>2. TypeOK
  BY ProtocolAssumption DEF Init, TypeOK, ProtocolStates
<1> QED BY <1>1, <1>2
  DEF IndInv, SingleOwner, ExclusiveMeansAlone, UpdateFindsNoExclusive, RequesterWaits,
      OthersHaveSnooped, AloneStates, OwnerStates

(* Every step of the protocol, whichever cache takes it, keeps IndInv.         *)
LEMMA NextIndInv == IndInv /\ [Next]_vars => IndInv'
<1> SUFFICES ASSUME IndInv, [Next]_vars PROVE IndInv'
  OBVIOUS
<1>1. CASE UNCHANGED vars
  BY <1>1 DEF vars, IndInv, TypeOK, SingleOwner, ExclusiveMeansAlone,
     UpdateFindsNoExclusive, RequesterWaits, OthersHaveSnooped, Upgrading
<1>2. ASSUME NEW p \in Procs, NEW op \in Ops, NEW b \in Blocks, Hit(p, op, b)
      PROVE  IndInv'
  BY <1>2, HitStep
<1>3. ASSUME NEW p \in Procs, NEW op \in Ops, NEW b \in Blocks, Request(p, op, b)
      PROVE  IndInv'
  BY <1>3, RequestStep
<1>4. ASSUME NEW t \in txns, Grant(t) PROVE IndInv'
  BY <1>4, GrantStep
<1>5. ASSUME NEW t \in txns, NEW victims \in Victims, Complete(t, victims) PROVE IndInv'
  BY <1>5, CompleteStep
<1> QED BY <1>1, <1>2, <1>3, <1>4, <1>5 DEF Next

(* The strengthened invariant holds in every reachable state.                  *)
THEOREM Invariance == Spec => []IndInv
BY InitIndInv, NextIndInv, PTL DEF Spec

(* The types, for any caches and blocks.                                       *)
THEOREM TypeCorrect == Spec => []TypeOK
<1>1. IndInv => TypeOK
  BY DEF IndInv
<1> QED BY Invariance, <1>1, PTL

(* Under each of the four protocols no two caches ever own the same block.     *)
THEOREM SingleOwnership == Spec => []SingleOwner
<1>1. IndInv => SingleOwner
  BY DEF IndInv
<1> QED BY Invariance, <1>1, PTL

(* Under MSI, MESI and Dragon a modified or exclusive copy is the only copy.   *)
THEOREM SingleWriter ==
  ASSUME Protocol # "MOESI"
  PROVE  Spec => []ExclusiveMeansAlone
<1>1. IndInv => ExclusiveMeansAlone
  BY DEF IndInv
<1> QED BY Invariance, <1>1, PTL

(* What handleSnoopDRAGON's comments say can never happen never does.          *)
THEOREM DragonComments ==
  ASSUME Protocol = "DRAGON"
  PROVE  Spec => []UpdateFindsNoExclusive
<1>1. IndInv => UpdateFindsNoExclusive
  BY DEF IndInv
<1> QED BY Invariance, <1>1, PTL

(* While a transaction is outstanding the only step is its own.                *)
LEMMA OneTransaction ==
  ASSUME TypeOK, [Next]_vars, NEW t \in txns
  PROVE  \/ UNCHANGED vars
         \/ Grant(t)
         \/ \E victims \in Victims : Complete(t, victims)
BY DEF TypeOK, Next, Hit, Request

(* No protocol's broadcast loses the only dirty copy of a block.               *)
THEOREM DirtyDataSurvives == Spec => DirtyDataHandedOn
<1>1. ASSUME IndInv, [Next]_vars
      PROVE  [\A t \in txns : (t.stage = "requested" /\ Dirty(t.block)) =>
                \/ Dirty(t.block)'
                \/ \E q \in Procs \ {t.proc} : Flushes(st[q][t.block])
                \/ t.cmd = "BusRdX"]_vars
  <2> SUFFICES ASSUME NEW t \in txns, t.stage = "requested", Dirty(t.block), ~UNCHANGED vars,
                      t.cmd # "BusRdX"
               PROVE  \/ Dirty(t.block)'
                      \/ \E q \in Procs \ {t.proc} : Flushes(st[q][t.block])
    OBVIOUS
  <2>1. Grant(t)
    BY <1>1, OneTransaction DEF IndInv, Complete
  <2>2. /\ t.cmd = "BusRd" /\ t.proc \in Procs /\ t.block \in Blocks
        /\ st \in [Procs -> [Blocks -> ProtocolStates]]
    BY <1>1 DEF IndInv, TypeOK, Txn, Commands
  <2>3. PICK q \in Procs : st[q][t.block] \in DirtyStates
    BY DEF Dirty
  <2>4. CASE q = t.proc
    <3>1. st'[q][t.block] = st[q][t.block]
      BY <2>1, <2>2, <2>4 DEF Grant
    <3> QED BY <2>3, <3>1 DEF Dirty
  <2>5. CASE q # t.proc
    <3>1. st'[q][t.block] = BusRdState(st[q][t.block]) /\ st[q][t.block] \in ProtocolStates
      BY <2>1, <2>2, <2>5 DEF Grant, SnoopState
    <3>2. Flushes(st[q][t.block]) \/ BusRdState(st[q][t.block]) \in DirtyStates
      BY <2>3, <3>1, ProtocolAssumption DEF Flushes, BusRdState, DirtyStates, ProtocolStates
    <3> QED BY <2>5, <3>1, <3>2 DEF Dirty
  <2> QED BY <2>4, <2>5
<1> QED BY <1>1, Invariance, PTL DEF Spec, DirtyDataHandedOn

(* Under MSI, Dragon and MOESI a finished job has what it asked for.           *)
THEOREM JobsHold ==
  ASSUME Protocol # "MESI"
  PROVE  Spec => CompletedJobHolds
<1>1. ASSUME IndInv, [Next]_vars
      PROVE  [\A t \in txns : (t.stage = "granted" /\ txns' = {}) =>
                st'[t.proc][t.block] \in IF t.op = "R" THEN ReadHitStates ELSE DirtyStates]_vars
  <2> SUFFICES ASSUME NEW t \in txns, t.stage = "granted", txns' = {}
               PROVE  st'[t.proc][t.block] \in IF t.op = "R" THEN ReadHitStates ELSE DirtyStates
    OBVIOUS
  <2>1. PICK victims \in Victims : Complete(t, victims)
    BY <1>1, OneTransaction DEF IndInv, Grant, vars
  <2>2. /\ t.proc \in Procs /\ t.block \in Blocks
        /\ t.op \in {"R", "W"} /\ t.cmd \in {"BusRd", "BusRdX"}
        /\ st \in [Procs -> [Blocks -> ProtocolStates]]
    BY <1>1 DEF IndInv, TypeOK, Txn, Commands
  <2>3. st'[t.proc][t.block] = FillState(t.op, t.shared, st[t.proc][t.block])
    BY <2>1, <2>2 DEF Complete
  <2>4. /\ t.cmd = "BusRd" => st[t.proc][t.block] = "invalid"
        /\ t.cmd = "BusRdX" /\ Protocol = "DRAGON" => st[t.proc][t.block] = "sharedDirty"
    BY <1>1, <2>2 DEF IndInv, RequesterWaits
  <2>5. CASE t.op = "R"
    BY <2>3, <2>5, ProtocolAssumption DEF FillState, ReadFill, ReadHitStates
  <2>6. CASE t.op = "W"
    BY <2>2, <2>3, <2>4, <2>6, ProtocolAssumption DEF FillState, WriteFill, DirtyStates
  <2> QED BY <2>2, <2>5, <2>6
<1> QED BY <1>1, Invariance, PTL DEF Spec, CompletedJobHolds
===============================================================================
