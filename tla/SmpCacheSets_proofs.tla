------------------------- MODULE SmpCacheSets_proofs -------------------------
(* For every machine, trace and cost: the caches keep the representation       *)
(* invariant of their sets, and the whole machine stays typed.                 *)
EXTENDS SmpCache_proofs, CoherenceProtocols_proofs, WellFoundedInduction

-------------------------------------------------------------------------------
(* One set, for any number of ways: look-up and replacement pick a way, and    *)
(* every operation keeps NoShadow, so that getLine returns the very line that  *)
(* hasLine has seen.                                                           *)

(* A set whose last uses are times.                                            *)
Timed(set) == \A w \in Ways : set[w].lastUsed \in Nat

(* A set of times has an earliest ...                                          *)
LEMMA LeastNat ==
  ASSUME NEW T \in SUBSET Nat, T # {}
  PROVE  \E m \in T : \A n \in T : m <= n
<1> DEFINE R == OpToRel(<, Nat)
<1>1. IsWellFoundedOn(R, Nat)
  BY NatLessThanWellFounded
<1>2. \A x, y \in Nat : x < y => <<x, y>> \in R
  BY DEF OpToRel
<1> HIDE DEF R
<1>3. PICK m \in T : \A n \in T : <<n, m>> \notin R
  BY <1>1, WFMin
<1>4. \A n \in T : ~(n < m)
  BY <1>2, <1>3
<1> QED BY <1>4

(* ... and a set of ways a first.                                              *)
LEMMA LeastWay ==
  ASSUME NEW T \in SUBSET Ways, T # {}
  PROVE  \E w \in T : \A v \in T : w <= v
BY LeastNat DEF Ways

(* getLine: the first way that carries the tag, if any does.                   *)
LEMMA FirstWayFound ==
  ASSUME NEW set, NEW tag, \E w \in Ways : set[w].tag = tag
  PROVE  /\ FirstWay(set, tag) \in Ways
         /\ set[FirstWay(set, tag)].tag = tag
         /\ \A v \in Ways : set[v].tag = tag => FirstWay(set, tag) <= v
<1> DEFINE T == {w \in Ways : set[w].tag = tag}
<1>1. \E w \in T : \A v \in T : w <= v
  BY LeastWay
<1>2. \E w \in Ways : set[w].tag = tag /\ \A v \in Ways : set[v].tag = tag => w <= v
  BY <1>1
<1> QED BY <1>2 DEF FirstWay

(* The least recently used way is one of the set, and no other is older.       *)
LEMMA OldestFound ==
  ASSUME NEW set, Timed(set)
  PROVE  /\ OldestWay(set) \in Ways
         /\ \A v \in Ways : set[OldestWay(set)].lastUsed <= set[v].lastUsed
<1> DEFINE Tms == {set[w].lastUsed : w \in Ways}
<1>1. Tms \in SUBSET Nat /\ Tms # {}
  BY AssocAssumption DEF Timed, Ways
<1>2. PICK m \in Tms : \A n \in Tms : m <= n
  BY <1>1, LeastNat
<1> DEFINE T == {w \in Ways : set[w].lastUsed = m}
<1>3. T \in SUBSET Ways /\ T # {}
  BY <1>2
<1>4. PICK w \in T : \A v \in T : w <= v
  BY <1>3, LeastWay
<1>5. \A v \in Ways : m <= set[v].lastUsed /\ set[v].lastUsed \in Nat /\ m \in Nat
  BY <1>1, <1>2 DEF Timed
<1> DEFINE Older(x) == \A v \in Ways :
             \/ set[x].lastUsed < set[v].lastUsed
             \/ set[x].lastUsed = set[v].lastUsed /\ x <= v
<1>6. w \in Ways /\ Older(w)
  BY <1>4, <1>5
<1> HIDE DEF T, Tms, Older
<1>7. OldestWay(set) = CHOOSE x \in Ways : Older(x)
  BY DEF OldestWay, Older
<1>8. OldestWay(set) \in Ways /\ Older(OldestWay(set))
  BY <1>6, <1>7
<1> QED BY <1>5, <1>8 DEF Older

(* getLRULine returns a way of the set, and an invalid one if there is any.    *)
LEMMA VictimFound ==
  ASSUME NEW set, Timed(set)
  PROVE  /\ OldestWay(set) \in Ways
         /\ GetLRULine(set) \in Ways
         /\ InvalidWays(set) # {} => GetLRULine(set) \in InvalidWays(set)
<1>1. OldestWay(set) \in Ways
  BY OldestFound
<1>2. InvalidWays(set) # {} => FirstInvalidWay(set) \in InvalidWays(set)
  BY LeastWay DEF FirstInvalidWay, InvalidWays
<1> QED BY <1>1, <1>2 DEF GetLRULine, InvalidWays

-------------------------------------------------------------------------------
(* A line seen by hasLine is the line returned by getLine.                     *)
LEMMA LookupFindsValid ==
  ASSUME NEW set, NEW tag, NoShadow(set), HasLine(set, tag)
  PROVE  FirstWay(set, tag) \in Ways /\ Valid(set[FirstWay(set, tag)])
<1>1. PICK w \in Ways : set[w].tag = tag /\ Valid(set[w])
  BY DEF HasLine
<1>2. /\ FirstWay(set, tag) \in Ways
      /\ set[FirstWay(set, tag)].tag = tag
      /\ FirstWay(set, tag) <= w
  BY <1>1, FirstWayFound
<1>3. ~(FirstWay(set, tag) < w)
  BY <1>1, <1>2 DEF NoShadow
<1>4. FirstWay(set, tag) = w
  BY <1>2, <1>3 DEF Ways
<1> QED BY <1>1, <1>2, <1>4

(* Whatever becomes of the first way that carries a tag, it hides no line.     *)
LEMMA FirstWayMayChange ==
  ASSUME NEW A, NEW set \in [Ways -> A], NEW tag, NoShadow(set),
         \E w \in Ways : set[w].tag = tag,
         NEW l, l.tag = tag
  PROVE  NoShadow([set EXCEPT ![FirstWay(set, tag)] = l])
<1> DEFINE f == FirstWay(set, tag)
           new == [set EXCEPT ![f] = l]
<1>1. /\ f \in Ways /\ set[f].tag = tag
      /\ \A v \in Ways : set[v].tag = tag => f <= v
  BY FirstWayFound
<1> HIDE DEF f
<1>2. \A w \in Ways : new[w] = IF w = f THEN l ELSE set[w]
  BY <1>1
<1>3. \A w \in Ways : new[w].tag = set[w].tag
  BY <1>1, <1>2
<1>4. ASSUME NEW w \in Ways, NEW v \in Ways, v < w, Valid(new[w]), new[v].tag = new[w].tag
      PROVE  FALSE
  <2>1. CASE w = f
    BY <1>1, <1>3, <1>4, <2>1 DEF Ways
  <2>2. CASE w # f
    BY <1>2, <1>3, <1>4, <2>2 DEF NoShadow
  <2> QED BY <2>1, <2>2
<1> HIDE DEF new
<1>5. NoShadow(new)
  BY <1>4 DEF NoShadow
<1> QED BY <1>5 DEF new, f

(* A line may be installed wherever its tag is not already held.               *)
LEMMA InstallKeepsNoShadow ==
  ASSUME NEW A, NEW set \in [Ways -> A], NEW tag, NEW now,
         Timed(set), NoShadow(set), ~HasLine(set, tag)
  PROVE  NoShadow(ReplaceLine(set, tag, now))
<1> DEFINE k == GetLRULine(set)
           l == [tag |-> tag, state |-> "invalid", lastUsed |-> now]
           new == [set EXCEPT ![k] = l]
<1>1. k \in Ways
  BY VictimFound
<1>2. l.tag = tag /\ ~Valid(l)
  BY DEF Valid
<1> HIDE DEF k, l
<1>3. \A w \in Ways : new[w] = IF w = k THEN l ELSE set[w]
  BY <1>1
<1> HIDE DEF new
<1>4. NoShadow(new)
  BY <1>2, <1>3 DEF NoShadow, HasLine
<1> QED BY <1>4 DEF new, k, l, ReplaceLine
-------------------------------------------------------------------------------
(* What lineInState sees of a tag when a way changes.                          *)

(* The state of a valid line is the state in which the set holds its tag.      *)
LEMMA LineStateIs ==
  ASSUME NEW set, NoShadow(set), NEW w \in Ways, Valid(set[w])
  PROVE  LineState(set, set[w].tag) = set[w].state
<1> DEFINE f == FirstWay(set, set[w].tag)
<1>1. HasLine(set, set[w].tag)
  BY DEF HasLine
<1>2. f \in Ways /\ set[f].tag = set[w].tag /\ f <= w
  BY FirstWayFound
<1> HIDE DEF f
<1>3. ~(f < w)
  BY <1>2 DEF NoShadow
<1>4. f = w
  BY <1>2, <1>3 DEF Ways
<1> QED BY <1>1, <1>4 DEF LineState, f

(* A way that holds a tag neither before nor after a change does not matter.   *)
LEMMA OtherWaysDecide ==
  ASSUME NEW set, NEW new, NoShadow(set), NoShadow(new), NEW tag,
         NEW k \in Ways, \A w \in Ways \ {k} : new[w] = set[w],
         ~(Valid(set[k]) /\ set[k].tag = tag), ~(Valid(new[k]) /\ new[k].tag = tag)
  PROVE  /\ HasLine(new, tag) <=> HasLine(set, tag)
         /\ LineState(new, tag) = LineState(set, tag)
<1>1. HasLine(new, tag) <=> HasLine(set, tag)
  BY DEF HasLine
<1>2. CASE HasLine(set, tag)
  <2>1. PICK w \in Ways : set[w].tag = tag /\ Valid(set[w])
    BY <1>2 DEF HasLine
  <2>2. new[w] = set[w]
    BY <2>1
  <2>3. LineState(set, set[w].tag) = set[w].state
    BY <2>1, LineStateIs
  <2>4. LineState(new, new[w].tag) = new[w].state
    BY <2>1, <2>2, LineStateIs
  <2> QED BY <1>1, <2>1, <2>2, <2>3, <2>4
<1>3. CASE ~HasLine(set, tag)
  BY <1>1, <1>3 DEF LineState
<1> QED BY <1>1, <1>2, <1>3

(* The first way with a tag decides the state of that tag, and of no other.    *)
LEMMA FirstWayDecides ==
  ASSUME NEW set, NEW new, NEW tag, NoShadow(set), NoShadow(new),
         \E w \in Ways : set[w].tag = tag,
         new[FirstWay(set, tag)].tag = tag,
         \A w \in Ways \ {FirstWay(set, tag)} : new[w] = set[w]
  PROVE  /\ LineState(new, tag) = new[FirstWay(set, tag)].state
         /\ \A t : t # tag => LineState(new, t) = LineState(set, t)
<1> DEFINE f == FirstWay(set, tag)
           l == new[f]
<1>1. /\ f \in Ways /\ set[f].tag = tag
      /\ \A v \in Ways : set[v].tag = tag => f <= v
  BY FirstWayFound
<1>2. NoShadow(new) /\ l.tag = tag
  OBVIOUS
<1>3. new[f] = l /\ \A w \in Ways \ {f} : new[w] = set[w]
  OBVIOUS
<1> HIDE DEF f, l
<1>4. LineState(new, tag) = l.state
  <2>1. CASE Valid(l)
    <3>1. LineState(new, new[f].tag) = new[f].state
      BY <1>1, <1>2, <1>3, <2>1, LineStateIs
    <3> QED BY <1>2, <1>3, <3>1
  <2>2. CASE ~Valid(l)
    <3>1. \A w \in Ways : new[w].tag = tag => ~Valid(new[w])
      <4> SUFFICES ASSUME NEW w \in Ways, new[w].tag = tag, Valid(new[w]) PROVE FALSE
        OBVIOUS
      <4>1. w # f /\ set[w] = new[w]
        BY <1>3, <2>2
      <4>2. f < w
        BY <1>1, <4>1 DEF Ways
      <4> QED BY <1>1, <4>1, <4>2 DEF NoShadow
    <3> QED BY <2>2, <3>1 DEF LineState, HasLine, Valid
  <2> QED BY <2>1, <2>2
<1>5. \A t : t # tag => LineState(new, t) = LineState(set, t)
  BY <1>1, <1>2, <1>3, OtherWaysDecide
<1> QED BY <1>4, <1>5 DEF l, f

(* A set that differs from an earlier one in holding one tag no more.          *)
Forgets(new, set, gone) ==
  \A t : LineState(new, t) = IF t = gone THEN "invalid" ELSE LineState(set, t)

(* A line installed for a missing tag costs the set at most one other tag.     *)
LEMMA InstallForgetsOne ==
  ASSUME NEW A, NEW set \in [Ways -> A], NEW tag, NEW now,
         Timed(set), NoShadow(set), ~HasLine(set, tag),
         NEW new, new = ReplaceLine(set, tag, now)
  PROVE  \E gone : Forgets(new, set, gone)
<1> DEFINE k == GetLRULine(set)
           l == [tag |-> tag, state |-> "invalid", lastUsed |-> now]
<1>1. k \in Ways /\ NoShadow(new)
  BY VictimFound, InstallKeepsNoShadow
<1>2. ~Valid(l)
  BY DEF Valid
<1>3. new = [set EXCEPT ![k] = l]
  BY DEF ReplaceLine
<1> HIDE DEF k, l
<1>4. new[k] = l /\ \A w \in Ways \ {k} : new[w] = set[w]
  BY <1>1, <1>3
<1>5. \A t : ~(Valid(set[k]) /\ set[k].tag = t) => LineState(new, t) = LineState(set, t)
  BY <1>1, <1>2, <1>4, OtherWaysDecide
<1>6. CASE Valid(set[k])
  <2>1. ~HasLine(new, set[k].tag)
    <3> SUFFICES ASSUME NEW w \in Ways, new[w].tag = set[k].tag, Valid(new[w]) PROVE FALSE
      BY DEF HasLine
    <3>1. w # k /\ new[w] = set[w]
      BY <1>2, <1>4
    <3>2. w < k \/ k < w
      BY <1>1, <3>1 DEF Ways
    <3> QED BY <1>1, <1>6, <3>1, <3>2 DEF NoShadow
  <2>2. \A t : LineState(new, t) = IF t = set[k].tag THEN "invalid" ELSE LineState(set, t)
    BY <1>5, <2>1 DEF LineState
  <2> QED BY <2>2 DEF Forgets
<1>7. CASE ~Valid(set[k])
  <2>1. \A t : LineState(new, t) = LineState(set, t)
    BY <1>5, <1>7
  <2>2. LineState(set, tag) = "invalid"
    BY DEF LineState
  <2>3. \A t : LineState(new, t) = IF t = tag THEN "invalid" ELSE LineState(set, t)
    BY <2>1, <2>2
  <2> QED BY <2>3 DEF Forgets
<1> QED BY <1>6, <1>7

-------------------------------------------------------------------------------
(* The invariant of the caches                                                 *)

(* A set, the i-th, that is as it should be at time now.                       *)
SoundSet(set, i, now) ==
  /\ set \in [Ways -> Line]
  /\ NoShadow(set)
  /\ \A w \in Ways : /\ Valid(set[w]) => SetOf(set[w].tag) = i
                     /\ set[w].lastUsed <= now

(* A cache all of whose sets are.                                              *)
SoundCache(sets, now) ==
  /\ sets \in [Sets -> [Ways -> Line]]
  /\ \A i \in Sets : SoundSet(sets[i], i, now)

(* Every cache is sound now, and every counter a number.                       *)
LinesInv ==
  /\ lines \in [Procs -> [Sets -> [Ways -> Line]]]
  /\ \A p \in Procs : SoundCache(lines[p], cycle)

StatsTyped == stats \in [Procs -> [Counters -> Nat]]

(* The inductive invariant of the machine.                                     *)
SmpInv == CtlInv /\ LinesInv /\ StatsTyped

-------------------------------------------------------------------------------
(* One set                                                                     *)

(* The set of a block exists, and so does that of any line.                    *)
LEMMA SetOfTyped == \A b \in Nat : SetOf(b) \in Sets
BY SizeAssumption, MaskAssumption DEF SetOf, Sets

(* The state in which a set holds a tag is one of the protocol's.              *)
LEMMA LineStateTyped ==
  ASSUME NEW set \in [Ways -> Line], NEW tag
  PROVE  LineState(set, tag) \in ProtocolStates
<1>1. CASE HasLine(set, tag)
  <2>1. FirstWay(set, tag) \in Ways
    BY <1>1, FirstWayFound DEF HasLine
  <2> QED BY <1>1, <2>1 DEF LineState, Line
<1>2. CASE ~HasLine(set, tag)
  BY <1>2, ProtocolAssumption DEF LineState, ProtocolStates
<1> QED BY <1>1, <1>2

(* The first way that carries a tag may become any line with that tag, if the  *)
(* tag belongs to the set.                                                     *)
LEMMA FirstWaySound ==
  ASSUME NEW set, NEW i, NEW now \in Nat, SoundSet(set, i, now), NEW tag,
         \E w \in Ways : set[w].tag = tag,
         NEW l \in Line, l.tag = tag, l.lastUsed <= now, Valid(l) => SetOf(tag) = i
  PROVE  SoundSet([set EXCEPT ![FirstWay(set, tag)] = l], i, now)
<1> DEFINE f   == FirstWay(set, tag)
           new == [set EXCEPT ![f] = l]
<1>1. f \in Ways /\ set \in [Ways -> Line] /\ NoShadow(set)
  BY FirstWayFound DEF SoundSet
<1>2. NoShadow(new)
  BY <1>1, FirstWayMayChange
<1> HIDE DEF f
<1>3. new \in [Ways -> Line] /\ \A w \in Ways : new[w] = IF w = f THEN l ELSE set[w]
  BY <1>1
<1> HIDE DEF new
<1>4. SoundSet(new, i, now)
  BY <1>2, <1>3 DEF SoundSet
<1> QED BY <1>4 DEF f, new

(* A line that is touched was valid, so its tag belongs to the set.            *)
LEMMA TouchSound ==
  ASSUME NEW set, NEW i, NEW now \in Nat, SoundSet(set, i, now), NEW tag
  PROVE  SoundSet(Touch(set, tag, now), i, now)
<1>1. CASE ~HasLine(set, tag)
  BY <1>1 DEF Touch
<1>2. CASE HasLine(set, tag)
  <2> DEFINE f == FirstWay(set, tag)
             l == [set[f] EXCEPT !.lastUsed = now]
  <2>1. f \in Ways /\ Valid(set[f]) /\ set[f].tag = tag
    BY <1>2, LookupFindsValid, FirstWayFound DEF SoundSet, HasLine
  <2>2. set[f] \in Line /\ SetOf(tag) = i
    BY <2>1 DEF SoundSet
  <2>3. l \in Line /\ l.tag = tag /\ l.lastUsed <= now
    BY <2>1, <2>2 DEF Line
  <2>4. Touch(set, tag, now) = [set EXCEPT ![f] = l]
    BY <1>2 DEF Touch
  <2> HIDE DEF f, l
  <2>5. SoundSet([set EXCEPT ![FirstWay(set, tag)] = l], i, now)
    BY <2>1, <2>2, <2>3, FirstWaySound DEF f
  <2> QED BY <2>4, <2>5 DEF f
<1> QED BY <1>1, <1>2

(* The same for a line whose state is set.                                     *)
LEMMA SetLineStateSound ==
  ASSUME NEW set, NEW i, NEW now \in Nat, SoundSet(set, i, now), NEW tag,
         NEW s \in ProtocolStates
  PROVE  SoundSet(SetLineState(set, tag, s), i, now)
<1>1. CASE ~HasLine(set, tag)
  BY <1>1 DEF SetLineState
<1>2. CASE HasLine(set, tag)
  <2> DEFINE f == FirstWay(set, tag)
             l == [set[f] EXCEPT !.state = s]
  <2>1. f \in Ways /\ Valid(set[f]) /\ set[f].tag = tag
    BY <1>2, LookupFindsValid, FirstWayFound DEF SoundSet, HasLine
  <2>2. set[f] \in Line /\ SetOf(tag) = i /\ set[f].lastUsed <= now
    BY <2>1 DEF SoundSet
  <2>3. l \in Line /\ l.tag = tag /\ l.lastUsed <= now
    BY <2>1, <2>2 DEF Line
  <2>4. SetLineState(set, tag, s) = [set EXCEPT ![f] = l]
    BY <1>2 DEF SetLineState
  <2> HIDE DEF f, l
  <2>5. SoundSet([set EXCEPT ![FirstWay(set, tag)] = l], i, now)
    BY <2>1, <2>2, <2>3, FirstWaySound DEF f
  <2> QED BY <2>4, <2>5 DEF f
<1> QED BY <1>1, <1>2

(* A missing line may be installed in the set its tag belongs to; then some    *)
(* way carries the tag.                                                        *)
LEMMA InstallSound ==
  ASSUME NEW set, NEW tag \in Nat, NEW now \in Nat, SoundSet(set, SetOf(tag), now),
         ~HasLine(set, tag)
  PROVE  /\ SoundSet(ReplaceLine(set, tag, now), SetOf(tag), now)
         /\ \E w \in Ways : ReplaceLine(set, tag, now)[w].tag = tag
<1> DEFINE k   == GetLRULine(set)
           l   == [tag |-> tag, state |-> "invalid", lastUsed |-> now]
           new == [set EXCEPT ![k] = l]
<1>1. set \in [Ways -> Line] /\ NoShadow(set) /\ Timed(set)
  BY DEF SoundSet, Timed, Line
<1>2. k \in Ways /\ NoShadow(ReplaceLine(set, tag, now))
  BY <1>1, VictimFound, InstallKeepsNoShadow
<1>3. l \in Line /\ l.tag = tag /\ l.lastUsed = now /\ ~Valid(l)
  BY ProtocolAssumption DEF Line, Valid, ProtocolStates
<1>4. ReplaceLine(set, tag, now) = new
  BY DEF ReplaceLine
<1> HIDE DEF k, l
<1>5. new \in [Ways -> Line] /\ \A w \in Ways : new[w] = IF w = k THEN l ELSE set[w]
  BY <1>1, <1>2, <1>3
<1> HIDE DEF new
<1>6. SoundSet(new, SetOf(tag), now)
  BY <1>2, <1>3, <1>4, <1>5 DEF SoundSet
<1> QED BY <1>2, <1>3, <1>4, <1>5, <1>6

(* The || in isFull makes every set not full.                                  *)
LEMMA NeverFull == \A set : ~IsFull(set)
BY AssocAssumption DEF IsFull, Ways

-------------------------------------------------------------------------------
(* One cache                                                                   *)

(* A cache stays sound when one of its sets becomes another sound set, ...     *)
LEMMA OneSetChanges ==
  ASSUME NEW sets, NEW now, SoundCache(sets, now),
         NEW i \in Sets, NEW set, SoundSet(set, i, now)
  PROVE  SoundCache([sets EXCEPT ![i] = set], now)
<1>1. set \in [Ways -> Line] /\ sets \in [Sets -> [Ways -> Line]]
  BY DEF SoundSet, SoundCache
<1>2. [sets EXCEPT ![i] = set] \in [Sets -> [Ways -> Line]]
  BY <1>1
<1>3. \A j \in Sets : [sets EXCEPT ![i] = set][j] = IF j = i THEN set ELSE sets[j]
  BY <1>1
<1> QED BY <1>2, <1>3 DEF SoundCache

(* ... and as time passes.                                                     *)
LEMMA CacheAges ==
  ASSUME NEW sets, NEW now \in Nat, SoundCache(sets, now)
  PROVE  SoundCache(sets, now + 1)
<1>1. \A i \in Sets, w \in Ways : sets[i][w].lastUsed \in Nat /\ sets[i][w].lastUsed <= now
  BY DEF SoundCache, SoundSet, Line
<1>2. \A i \in Sets, w \in Ways : sets[i][w].lastUsed <= now + 1
  BY <1>1
<1> QED BY <1>2 DEF SoundCache, SoundSet

(* The machine stays sound when one cache becomes another sound one.           *)
LEMMA OneCacheChanges ==
  ASSUME LinesInv, NEW p \in Procs, NEW sets, SoundCache(sets, cycle),
         lines' = [lines EXCEPT ![p] = sets], cycle' = cycle
  PROVE  LinesInv'
<1>1. sets \in [Sets -> [Ways -> Line]]
  BY DEF SoundCache
<1>2. lines' \in [Procs -> [Sets -> [Ways -> Line]]]
  BY <1>1 DEF LinesInv
<1>3. \A q \in Procs : lines'[q] = IF q = p THEN sets ELSE lines[q]
  BY DEF LinesInv
<1>4. \A q \in Procs : SoundCache(lines'[q], cycle)
  BY <1>3 DEF LinesInv
<1> QED BY <1>2, <1>4 DEF LinesInv

(* A cache that makes its last job's line the most recently used is sound.     *)
LEMMA AfterJobSound ==
  ASSUME CtlInv, LinesInv, NEW p \in Procs
  PROVE  SoundCache(AfterJob(p), cycle)
<1> DEFINE job == ctl[p].job
<1>1. cycle \in Nat /\ SoundCache(lines[p], cycle) /\ job \in Job \cup {NoJob}
  BY DEF CtlInv, ControlTyped, LinesInv, Ctl
<1>2. CASE Expired(p) /\ job # NoJob
  <2>1. job.block \in Nat
    BY <1>1, <1>2, SizeAssumption DEF Job
  <2> DEFINE i   == SetOf(job.block)
             set == Touch(lines[p][i], job.block, cycle)
  <2>2. i \in Sets
    BY <2>1, SetOfTyped
  <2>3. SoundSet(lines[p][i], i, cycle)
    BY <1>1, <2>2 DEF SoundCache
  <2>4. SoundSet(set, i, cycle)
    BY <1>1, <2>3, TouchSound
  <2>5. AfterJob(p) = [lines[p] EXCEPT ![i] = set]
    BY <1>2 DEF AfterJob
  <2> HIDE DEF i, set
  <2> QED BY <1>1, <2>2, <2>4, <2>5, OneSetChanges
<1>3. CASE ~(Expired(p) /\ job # NoJob)
  BY <1>1, <1>3 DEF AfterJob
<1> QED BY <1>2, <1>3

-------------------------------------------------------------------------------
(* Each step keeps the caches sound                                            *)

(* Main only moves the clock, and only forward.                                *)
LEMMA MainLines ==
  ASSUME CtlInv, LinesInv, lines' = lines, cycle' = cycle \/ cycle' = cycle + 1
  PROVE  LinesInv'
<1>1. cycle \in Nat
  BY DEF CtlInv, ControlTyped
<1>2. \A p \in Procs : SoundCache(lines[p], cycle) /\ SoundCache(lines[p], cycle + 1)
  BY <1>1, CacheAges DEF LinesInv
<1> QED BY <1>2 DEF LinesInv

(* Handling a job looks its line up and, for a write, upgrades it.             *)
LEMMA TickHandlesLines ==
  ASSUME CtlInv, LinesInv, NEW p \in Procs, TickHandles(p)
  PROVE  LinesInv'
<1> DEFINE job   == Head(ctl[p].pending)
           i     == SetOf(job.block)
           set   == AfterJob(p)[i]
           s     == LineState(set, job.block)
           after == SetLineState(Touch(set, job.block, cycle), job.block, RequestState(job.op, s))
<1>1. cycle' = cycle /\ cycle \in Nat /\ SoundCache(AfterJob(p), cycle)
  BY AfterJobSound DEF TickHandles, Ticks, CtlInv, ControlTyped
<1>2. job \in Job
  <2>1. ctl[p].pending \in Seq(Job) /\ ctl[p].pending # <<>>
    BY DEF TickHandles, CtlInv, ControlTyped, Ctl
  <2> QED BY <2>1, HeadTailProperties
<1>3. job.block \in Nat /\ job.op \in Ops /\ i \in Sets
  BY <1>2, SizeAssumption, SetOfTyped DEF Job
<1>4. \/ lines' = [lines EXCEPT ![p] = AfterJob(p)]
      \/ /\ Decision(job.op, s) \in Commands \cup {"hit"}
         /\ lines' = [lines EXCEPT ![p] = [AfterJob(p) EXCEPT ![i] = after]]
  BY DEF TickHandles
<1> HIDE DEF job
<1>5. CASE lines' = [lines EXCEPT ![p] = AfterJob(p)]
  BY <1>1, <1>5, OneCacheChanges
<1>6. CASE /\ Decision(job.op, s) \in Commands \cup {"hit"}
           /\ lines' = [lines EXCEPT ![p] = [AfterJob(p) EXCEPT ![i] = after]]
  <2>1. SoundSet(set, i, cycle)
    BY <1>1, <1>3 DEF SoundCache
  <2>2. s \in ProtocolStates
    BY <2>1, LineStateTyped DEF SoundSet
  <2>3. RequestState(job.op, s) \in ProtocolStates
    BY <1>3, <1>6, <2>2, TablesTyped
  <2>4. SoundSet(Touch(set, job.block, cycle), i, cycle)
    BY <1>1, <2>1, TouchSound
  <2> HIDE DEF s, set, i
  <2>5. SoundSet(after, i, cycle)
    BY <1>1, <2>3, <2>4, SetLineStateSound
  <2> HIDE DEF after
  <2>6. SoundCache([AfterJob(p) EXCEPT ![i] = after], cycle)
    BY <1>1, <1>3, <2>5, OneSetChanges
  <2> QED BY <1>1, <1>6, <2>6, OneCacheChanges
<1> QED BY <1>4, <1>5, <1>6

(* The end of a transaction installs its line, unless it is there, and gives   *)
(* it its state.                                                               *)
LEMMA BusFinishLines ==
  ASSUME CtlInv, LinesInv, BusFinish
  PROVE  LinesInv'
<1> DEFINE p     == bus.current
           op    == ctl[p].job.op
           block == ctl[p].job.block
           i     == SetOf(block)
           old   == lines[p][i]
           set   == IF ~HasLine(old, block) THEN ReplaceLine(old, block, cycle) ELSE old
           w     == FirstWay(set, block)
           state == FillState(op, bus.isShared, set[w].state)
           l     == [set[w] EXCEPT !.state = state, !.lastUsed = cycle]
<1>1. /\ p \in Procs /\ cycle \in Nat /\ cycle' = cycle
      /\ block \in Nat /\ i \in Sets
  <2>1. p \in Procs /\ ctl[p].job \in Job \cup {NoJob} /\ cycle \in Nat /\ cycle' = cycle
    BY DEF BusFinish, CtlInv, ControlTyped, Handshake, Ctl
  <2>2. block \in Nat
    <3> DEFINE job == ctl[p].job
    <3>1. CASE job \in Job
      BY <3>1, SizeAssumption DEF Job
    <3>2. CASE job = NoJob
      BY <3>2 DEF NoJob
    <3> QED BY <2>1, <3>1, <3>2
  <2> QED BY <2>1, <2>2, SetOfTyped
<1>2. SoundCache(lines[p], cycle) /\ SoundSet(old, i, cycle)
  BY <1>1 DEF LinesInv, SoundCache
<1>3. SoundSet(set, i, cycle) /\ \E v \in Ways : set[v].tag = block
  <2>1. CASE HasLine(old, block)
    BY <1>2, <2>1 DEF HasLine
  <2>2. CASE ~HasLine(old, block)
    <3>1. set = ReplaceLine(old, block, cycle) /\ SetOf(block) = i
      BY <2>2
    <3> HIDE DEF set, old, i, block
    <3> QED BY <1>1, <1>2, <2>2, <3>1, InstallSound
  <2> QED BY <2>1, <2>2
<1>4. lines' = [lines EXCEPT ![p][i] = [set EXCEPT ![w].state = state, ![w].lastUsed = cycle]]
  BY NeverFull DEF BusFinish
<1> HIDE DEF set, old, block, op
<1>5. w \in Ways /\ set[w] \in Line /\ set[w].tag = block
  BY <1>3, FirstWayFound DEF SoundSet
<1>6. state \in ProtocolStates
  BY <1>5, TablesTyped DEF Line
<1> HIDE DEF state
<1>7. l \in Line /\ l.tag = block /\ l.lastUsed = cycle
  BY <1>1, <1>5, <1>6 DEF Line
<1>8. SoundSet([set EXCEPT ![w] = l], i, cycle)
  <2>1. SetOf(block) = i
    OBVIOUS
  <2> HIDE DEF l, i
  <2> QED BY <1>1, <1>3, <1>7, <2>1, FirstWaySound
<1>9. [set EXCEPT ![w].state = state, ![w].lastUsed = cycle] = [set EXCEPT ![w] = l]
  BY <1>3, <1>5 DEF SoundSet
<1> HIDE DEF l, w, i, p
<1>10. SoundCache([lines[p] EXCEPT ![i] = [set EXCEPT ![w] = l]], cycle)
  BY <1>1, <1>2, <1>8, OneSetChanges
<1>11. lines' = [lines EXCEPT ![p] = [lines[p] EXCEPT ![i] = [set EXCEPT ![w] = l]]]
  BY <1>1, <1>4, <1>9 DEF LinesInv
<1> QED BY <1>1, <1>10, <1>11, OneCacheChanges

(* A broadcast touches and changes the one line it finds in each other cache.  *)
LEMMA BusGrantLines ==
  ASSUME CtlInv, LinesInv, NEW p \in Procs, BusGrant(p)
  PROVE  LinesInv'
<1> DEFINE req == ctl[p].req
           i   == SetOf(req.block)
           tag == WireTag(req.block)
           Snooped(q) == SetLineState(Touch(lines[q][i], tag, cycle), tag,
                                      SnoopState(req.cmd, Held(q, i, tag)))
<1>1. /\ req \in Req \cup {NoReq} /\ cycle \in Nat /\ cycle' = cycle
      /\ lines' = [q \in Procs |-> IF q = p THEN lines[p]
                                   ELSE [lines[q] EXCEPT ![i] = Snooped(q)]]
  BY DEF BusGrant, CtlInv, ControlTyped, Ctl
<1>2. i \in Sets
  <2>1. req \in Req \cup {NoReq}
    BY <1>1
  <2> HIDE DEF req
  <2>2. CASE req \in Req
    <3>1. req.block \in Blocks
      BY <2>2 DEF Req
    <3> QED BY <3>1, SizeAssumption, SetOfTyped
  <2>3. CASE req = NoReq
    BY <2>3, SetOfTyped DEF NoReq
  <2> QED BY <2>1, <2>2, <2>3
<1> HIDE DEF i, tag, req
<1>3. \A q \in Procs : SoundCache([lines[q] EXCEPT ![i] = Snooped(q)], cycle)
  <2> SUFFICES ASSUME NEW q \in Procs
               PROVE  SoundCache([lines[q] EXCEPT ![i] = Snooped(q)], cycle)
    OBVIOUS
  <2>1. SoundCache(lines[q], cycle) /\ SoundSet(lines[q][i], i, cycle)
    BY <1>2 DEF LinesInv, SoundCache
  <2>2. Held(q, i, tag) \in ProtocolStates
    BY <2>1, LineStateTyped DEF Held, SoundSet
  <2>3. SnoopState(req.cmd, Held(q, i, tag)) \in ProtocolStates
    BY <2>2, TablesTyped
  <2>4. SoundSet(Touch(lines[q][i], tag, cycle), i, cycle)
    BY <1>1, <2>1, TouchSound
  <2>5. SoundSet(Snooped(q), i, cycle)
    BY <1>1, <2>3, <2>4, SetLineStateSound
  <2> QED BY <1>2, <2>1, <2>5, OneSetChanges
<1> HIDE DEF Snooped
<1>4. \A q \in Procs : SoundCache(lines'[q], cycle)
  BY <1>1, <1>3 DEF LinesInv
<1>5. lines' \in [Procs -> [Sets -> [Ways -> Line]]]
  BY <1>1, <1>4 DEF SoundCache
<1> QED BY <1>1, <1>4, <1>5 DEF LinesInv

(* Whatever step the machine takes, the caches stay sound.                     *)
LEMMA NextLines ==
  ASSUME CtlInv, LinesInv, [Next]_vars
  PROVE  LinesInv'
<1>1. CASE UNCHANGED vars
  BY <1>1, MainLines DEF vars
<1>2. ASSUME NEW p \in Procs, NEW op \in TraceOps, NEW b \in Blocks, Dispatch(p, op, b)
      PROVE  LinesInv'
  BY <1>2, MainLines DEF Dispatch, StartTicks
<1>3. CASE Tick \/ Exit \/ Done
  BY <1>3, MainLines DEF Tick, StartTicks, Exit, Done, vars
<1>4. ASSUME NEW p \in Procs, TickServiced(p) PROVE LinesInv'
  BY <1>4, MainLines DEF TickServiced, Ticks
<1>5. ASSUME NEW p \in Procs, TickIdle(p) PROVE LinesInv'
  BY <1>5, AfterJobSound, OneCacheChanges DEF TickIdle, Ticks
<1>6. ASSUME NEW p \in Procs, TickHandles(p) PROVE LinesInv'
  BY <1>6, TickHandlesLines
<1>7. CASE BusWaits \/ BusIdle
  BY <1>7, MainLines DEF BusWaits, BusIdle
<1>8. CASE BusFinish
  BY <1>8, BusFinishLines
<1>9. ASSUME NEW p \in Procs, BusGrant(p) PROVE LinesInv'
  BY <1>9, BusGrantLines
<1> QED BY <1>1, <1>2, <1>3, <1>4, <1>5, <1>6, <1>7, <1>8, <1>9 DEF Next

-------------------------------------------------------------------------------
(* The counters                                                                *)

(* Adding one to some counters, or a number to a few, leaves counters.         *)
LEMMA BumpTyped ==
  ASSUME NEW counts \in [Counters -> Nat], NEW added
  PROVE  Bump(counts, added) \in [Counters -> Nat]
BY DEF Bump

(* What the bus manager adds for the requester are numbers of caches.          *)
LEMMA GrantedCountsTyped ==
  ASSUME NEW counts \in [Counters -> Nat], NEW cmd,
         NEW f \in SUBSET Procs, NEW h \in SUBSET Procs
  PROVE  GrantedCounts(counts, cmd, f, h) \in [Counters -> Nat]
<1>1. Cardinality(f) \in Nat
  BY ProcsFacts
<1> DEFINE memory == IF Protocol = "MESI" /\ h = {} THEN 1 ELSE 0
           readX  == IF Protocol = "MESI" /\ cmd = "BusRdX" THEN Cardinality(f) ELSE 0
<1>2. memory \in Nat /\ readX \in Nat
  BY <1>1
<1>3. GrantedCounts(counts, cmd, f, h) =
        [counts EXCEPT !.numBusRequests = counts.numBusRequests + 1,
                       !.numMainMemoryUses = counts.numMainMemoryUses + Cardinality(f) + memory,
                       !.numBusReadX = counts.numBusReadX + readX]
  BY DEF GrantedCounts, Counters
<1> HIDE DEF memory, readX
<1>4. /\ counts.numBusRequests + 1 \in Nat
      /\ counts.numMainMemoryUses + Cardinality(f) + memory \in Nat
      /\ counts.numBusReadX + readX \in Nat
  BY <1>1, <1>2 DEF Counters
<1> QED BY <1>3, <1>4

(* Whatever step the machine takes, the counters stay natural numbers.         *)
LEMMA NextStats ==
  ASSUME StatsTyped, CtlInv, [Next]_vars
  PROVE  StatsTyped'
<1>1. ASSUME NEW p \in Procs, NEW added, stats' = [stats EXCEPT ![p] = Bump(@, added)]
      PROVE  StatsTyped'
  <2>1. Bump(stats[p], added) \in [Counters -> Nat]
    BY BumpTyped DEF StatsTyped
  <2> QED BY <1>1, <2>1 DEF StatsTyped
<1>2. CASE UNCHANGED stats
  BY <1>2 DEF StatsTyped
<1>3. ASSUME NEW p \in Procs, TickHandles(p) PROVE StatsTyped'
  <2>1. UNCHANGED stats \/ \E added : stats' = [stats EXCEPT ![p] = Bump(@, added)]
    BY <1>3 DEF TickHandles
  <2> QED BY <1>1, <1>2, <2>1
<1>4. CASE BusFinish
  <2>1. \E added : stats' = [stats EXCEPT ![bus.current] = Bump(@, added)]
    BY <1>4 DEF BusFinish
  <2>2. bus.current \in Procs
    BY <1>4 DEF BusFinish, CtlInv, Handshake
  <2> QED BY <1>1, <2>1, <2>2
<1>5. ASSUME NEW p \in Procs, BusGrant(p) PROVE StatsTyped'
  <2> DEFINE i        == SetOf(ctl[p].req.block)
             tag      == WireTag(ctl[p].req.block)
             f        == {q \in Procs \ {p} : Flushes(Held(q, i, tag))}
             h        == {q \in Procs \ {p} : AnswersShared(Held(q, i, tag))}
             Added(q) == SnoopCounts(ctl[p].req.cmd, Held(q, i, tag)) \cup
                         FlushCounts(ctl[p].req.cmd, Held(q, i, tag))
             granted  == GrantedCounts(stats[p], ctl[p].req.cmd, f, h)
  <2>1. stats' = [q \in Procs |-> IF q = p THEN granted ELSE Bump(stats[q], Added(q))]
    BY <1>5 DEF BusGrant
  <2>2. f \in SUBSET Procs /\ h \in SUBSET Procs
    OBVIOUS
  <2> HIDE DEF i, tag, f, h, Added
  <2>3. granted \in [Counters -> Nat]
    BY <2>2, GrantedCountsTyped DEF StatsTyped
  <2> HIDE DEF granted
  <2>4. \A q \in Procs : Bump(stats[q], Added(q)) \in [Counters -> Nat]
    BY BumpTyped DEF StatsTyped
  <2> QED BY <2>1, <2>3, <2>4 DEF StatsTyped
<1>6. ASSUME NEW p \in Procs, TickServiced(p) \/ TickIdle(p) PROVE UNCHANGED stats
  BY <1>6 DEF TickServiced, TickIdle
<1>7. ASSUME \/ UNCHANGED vars \/ Tick \/ Exit \/ Done \/ BusWaits \/ BusIdle
             \/ \E p \in Procs, op \in TraceOps, b \in Blocks : Dispatch(p, op, b)
      PROVE  UNCHANGED stats
  BY <1>7 DEF vars, Tick, Exit, Done, BusWaits, BusIdle, Dispatch
<1> QED BY <1>2, <1>3, <1>4, <1>5, <1>6, <1>7 DEF Next

-------------------------------------------------------------------------------
(* The theorems                                                                *)

(* Empty sets are sound, and nothing has been counted.                         *)
LEMMA InitSmpInv == Init => SmpInv
<1> SUFFICES ASSUME Init PROVE SmpInv
  OBVIOUS
<1>1. CtlInv
  BY InitCtlInv
<1>2. EmptySet \in [Ways -> Line] /\ \A w \in Ways : ~Valid(EmptySet[w]) /\ EmptySet[w].lastUsed = 0
  BY ProtocolAssumption DEF EmptySet, Line, ProtocolStates, Valid
<1>3. \A i \in Sets : SoundSet(EmptySet, i, 0)
  BY <1>2 DEF SoundSet, NoShadow
<1>4. SoundCache([i \in Sets |-> EmptySet], 0)
  BY <1>2, <1>3 DEF SoundCache
<1>5. LinesInv
  BY <1>4 DEF Init, LinesInv, SoundCache
<1>6. StatsTyped
  BY DEF Init, StatsTyped, ZeroCounters
<1> QED BY <1>1, <1>5, <1>6 DEF SmpInv

(* Control, caches and counters together are kept by every step.               *)
LEMMA NextSmpInv == SmpInv /\ [Next]_vars => SmpInv'
BY NextCtlInv, NextLines, NextStats DEF SmpInv

(* For any number of processors, sets, ways and blocks: a look-up returns the  *)
(* line that was found, valid lines lie in the set of their tag, and no line   *)
(* was used in the future.                                                     *)
THEOREM SetsStaySound == Spec => []SetsSound
<1>1. SmpInv => SetsSound
  BY DEF SmpInv, LinesInv, SoundCache, SoundSet, SetsSound
<1> QED BY InitSmpInv, NextSmpInv, <1>1, PTL DEF Spec

(* The whole machine stays typed, whatever the uninitialised costs are.        *)
THEOREM MachineTyped == Spec => []TypeOK
<1>1. SmpInv => TypeOK
  BY DEF SmpInv, CtlInv, LinesInv, StatsTyped, TypeOK
<1> QED BY InitSmpInv, NextSmpInv, <1>1, PTL DEF Spec
===============================================================================
