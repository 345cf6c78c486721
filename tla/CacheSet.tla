------------------------------- MODULE CacheSet -------------------------------
(* One set of one cache (src/CacheSet.cpp): Assoc ways, searched by tag and    *)
(* replaced least-recently-used.  A set is a function from ways to lines, a    *)
(* line the fields of CacheLine that are ever read back.  Every operation is   *)
(* an operator from a set to a value or to the set it leaves.                  *)
EXTENDS Naturals

CONSTANT Assoc           \* CacheConstants::getNumLinesInSet()

ASSUME AssocAssumption == Assoc \in Nat \ {0}

Ways == 1..Assoc

Valid(line) == line.state # "invalid"            \* CacheLine::getLineValid

(* The constructor: every way holds an invalid line of tag 0, never used.      *)
EmptySet == [w \in Ways |-> [tag |-> 0, state |-> "invalid", lastUsed |-> 0]]

-------------------------------------------------------------------------------
(* Look-up                                                                     *)

\* Faulty: the loop stops short of the last way.
HasLine_AllButLast(set, tag) ==
  \E w \in 1..(Assoc - 1) : set[w].tag = tag /\ Valid(set[w])

(* hasLine and lineValid: some way holds the tag in a valid state.             *)
HasLine(set, tag) == \E w \in Ways : set[w].tag = tag /\ Valid(set[w])

(* getLine returns the first way carrying the tag, whatever its state.         *)
FirstWay(set, tag) ==
  CHOOSE w \in Ways : /\ set[w].tag = tag
                      /\ \A v \in Ways : set[v].tag = tag => w <= v

(* What Cache::lineInState compares with: the state of the line getLine finds, *)
(* asked for only when hasLine holds.                                          *)
LineState(set, tag) ==
  IF HasLine(set, tag) THEN set[FirstWay(set, tag)].state ELSE "invalid"

\* Faulty: a look-up leaves no trace.
Touch_Never(set, tag, now) == set

(* getLine's side effect, behind the hasLine guard all its callers but one     *)
(* put before it: the line becomes the most recently used.                     *)
Touch(set, tag, now) ==
  IF HasLine(set, tag) THEN [set EXCEPT ![FirstWay(set, tag)].lastUsed = now] ELSE set

(* Cache::setLineState: hasLine, getLine, setState.                            *)
SetLineState(set, tag, state) ==
  IF HasLine(set, tag) THEN [set EXCEPT ![FirstWay(set, tag)].state = state] ELSE set

-------------------------------------------------------------------------------
(* Replacement                                                                 *)

InvalidWays(set) == {w \in Ways : ~Valid(set[w])}

FirstInvalidWay(set) ==
  CHOOSE w \in InvalidWays(set) : \A v \in InvalidWays(set) : w <= v

\* Faulty: the comparison is the wrong way round.
OldestWay_Newest(set) ==
  CHOOSE w \in Ways : \A v \in Ways : \/ set[w].lastUsed > set[v].lastUsed
                                      \/ set[w].lastUsed = set[v].lastUsed /\ w <= v

(* The loops look for a strictly smaller lastUsedCycle, so the first of equals *)
(* wins.                                                                       *)
OldestWay(set) ==
  CHOOSE w \in Ways : \A v \in Ways : \/ set[w].lastUsed < set[v].lastUsed
                                      \/ set[w].lastUsed = set[v].lastUsed /\ w <= v

(* getLRULine: the first invalid way, else the least recently used one.        *)
GetLRULine(set) ==
  IF InvalidWays(set) # {} THEN FirstInvalidWay(set) ELSE OldestWay(set)

(* replaceLine: the victim is overwritten in place.                            *)
ReplaceLine(set, tag, now) ==
  [set EXCEPT ![GetLRULine(set)] = [tag |-> tag, state |-> "invalid", lastUsed |-> now]]

(* isFull.  The test joins its two inequalities with || where && was meant, so *)
(* the first way always answers "not full".                                    *)
IsFull(set) ==
  \A w \in Ways : ~(set[w].state # "modified" \/ set[w].state # "sharedDirty")

(* evictLRULine: invalidates the oldest way and keeps its tag.                 *)
EvictLRULine(set) == [set EXCEPT ![OldestWay(set)].state = "invalid"]

(* evictLineModified: the oldest way is dirty.  Otherwise the function runs    *)
(* off its end, and the caller reads an arbitrary value.                       *)
EvictLineModified(set) ==
  IF set[OldestWay(set)].state \in {"modified", "sharedDirty"} THEN {TRUE} ELSE BOOLEAN

-------------------------------------------------------------------------------
(* The set's representation invariant: no way before a valid line carries that *)
(* line's tag.  It is what makes getLine return the line hasLine has found.    *)
NoShadow(set) ==
  \A w, v \in Ways : (v < w /\ Valid(set[w])) => set[v].tag # set[w].tag
===============================================================================
