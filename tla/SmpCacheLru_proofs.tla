--------------------------- MODULE SmpCacheLru_proofs ---------------------------
(* For any number of processors, sets, ways and blocks, the simulator          *)
(* implements LruCaches.  The time stamps of a set are an order of its blocks  *)
(* as long as two lines carry the same time only if one of them is that of the *)
(* cache's last job; TimesInv says when they may, and every step of the        *)
(* machine keeps it.                                                           *)
EXTENDS SmpCacheLru, SmpCacheRefinement_proofs

-------------------------------------------------------------------------------
(* Orders made of times                                                        *)

(* Members of D in the order of their times f.  Of two with the same time the  *)
(* one called j is the later if late holds, and the earlier otherwise.         *)
TimeOrder(D, f, j, late) ==
  {x \in D \X D : \/ x[1] = x[2]
                  \/ f[x[1]] > f[x[2]]
                  \/ f[x[1]] = f[x[2]] /\ j = (IF late THEN x[1] ELSE x[2])}

NoTies(D, f) == \A x, y \in D : x # y => f[x] # f[y]

(* Two ways of deciding between equal times make no difference to D.           *)
Agree(D, f, j, late, k, later) == (k = j /\ later = late) \/ NoTies(D, f)

(* t comes after all of D.                                                     *)
Latest(D, g, t, j, late) ==
  \A x \in D : g[x] < g[t] \/ (g[x] = g[t] /\ j = IF late THEN t ELSE x)

(* What it relates, ...                                                        *)
LEMMA TimeOrderHas ==
  ASSUME NEW D, NEW f, NEW j, NEW late, NEW x, NEW y
  PROVE  <<x, y>> \in TimeOrder(D, f, j, late) <=>
           /\ x \in D /\ y \in D
           /\ \/ x = y
              \/ f[x] > f[y]
              \/ f[x] = f[y] /\ j = (IF late THEN x ELSE y)
BY DEF TimeOrder

(* Two relations on a set are the same if they relate the same members.        *)
LEMMA SameRelation ==
  ASSUME NEW D, NEW R \in SUBSET (D \X D), NEW S \in SUBSET (D \X D),
         \A x, y \in D : <<x, y>> \in R <=> <<x, y>> \in S
  PROVE  R = S
<1>1. \A z \in D \X D : \E x, y \in D : z = <<x, y>>
  OBVIOUS
<1> QED BY <1>1

(* A time order is a relation on its blocks, ...                               *)
LEMMA TimeOrderOn ==
  ASSUME NEW D, NEW f, NEW j, NEW late
  PROVE  TimeOrder(D, f, j, late) \in SUBSET (D \X D)
BY DEF TimeOrder

(* ... which are what LruCaches calls its members, ...                         *)
LEMMA MembersIs ==
  ASSUME NEW D, NEW f, NEW j, NEW late
  PROVE  Lru!Members(TimeOrder(D, f, j, late)) = D
<1>1. \A x \in D : <<x, x>> \in TimeOrder(D, f, j, late) /\ <<x, x>>[1] = x
  BY TimeOrderHas
<1>2. \A z \in TimeOrder(D, f, j, late) : z[1] \in D
  BY TimeOrderOn
<1> QED BY <1>1, <1>2 DEF Lru!Members

(* (what is left when b is taken out of an order)                              *)
LEMMA WithoutHas ==
  ASSUME NEW R, NEW b, NEW x, NEW y
  PROVE  <<x, y>> \in Lru!Without(R, b) <=> <<x, y>> \in R /\ x # b /\ y # b
BY DEF Lru!Without

(* ... and is one of the other blocks when one is taken out.                   *)
LEMMA WithoutIs ==
  ASSUME NEW D, NEW f, NEW j, NEW late, NEW b
  PROVE  Lru!Without(TimeOrder(D, f, j, late), b) = TimeOrder(D \ {b}, f, j, late)
<1> DEFINE R == Lru!Without(TimeOrder(D, f, j, late), b)
           S == TimeOrder(D \ {b}, f, j, late)
<1>1. R \in SUBSET (D \X D) /\ S \in SUBSET (D \X D)
  BY TimeOrderOn DEF Lru!Without
<1>2. \A x, y \in D : <<x, y>> \in R <=> <<x, y>> \in S
  <2> SUFFICES ASSUME NEW x \in D, NEW y \in D
               PROVE  <<x, y>> \in R <=> <<x, y>> \in S
    OBVIOUS
  <2>1. <<x, y>> \in R <=> <<x, y>> \in TimeOrder(D, f, j, late) /\ x # b /\ y # b
    BY WithoutHas
  <2> QED BY <2>1, TimeOrderHas
<1> HIDE DEF R, S
<1>3. R = S
  BY <1>1, <1>2, SameRelation
<1> QED BY <1>3 DEF R, S

(* The order does not depend on who is j unless two have the same time.        *)
LEMMA SameOrder ==
  ASSUME NEW D, NEW f, NEW g, \A x \in D : g[x] = f[x],
         NEW j, NEW late, NEW k, NEW later, Agree(D, f, j, late, k, later)
  PROVE  TimeOrder(D, g, k, later) = TimeOrder(D, f, j, late)
<1> DEFINE R == TimeOrder(D, g, k, later)
           S == TimeOrder(D, f, j, late)
<1>1. \A x, y \in D : <<x, y>> \in R <=> <<x, y>> \in S
  <2> SUFFICES ASSUME NEW x \in D, NEW y \in D
               PROVE  <<x, y>> \in R <=> <<x, y>> \in S
    OBVIOUS
  <2>1. g[x] = f[x] /\ g[y] = f[y]
    OBVIOUS
  <2>2. x # y /\ f[x] = f[y] => k = j /\ later = late
    BY DEF Agree, NoTies
  <2> QED BY <2>1, <2>2, TimeOrderHas
<1>2. R \in SUBSET (D \X D) /\ S \in SUBSET (D \X D)
  BY TimeOrderOn
<1> HIDE DEF R, S
<1>3. R = S
  BY <1>1, <1>2, SameRelation
<1> QED BY <1>3 DEF R, S

(* Whoever has the latest time is at the front.                                *)
LEMMA InFrontIs ==
  ASSUME NEW D, NEW t, NEW f, NEW g, \A x \in D \ {t} : g[x] = f[x],
         g[t] \in Nat, \A x \in D \ {t} : g[x] \in Nat,
         NEW j, NEW late, NEW k, NEW later,
         Latest(D \ {t}, g, t, k, later), Agree(D \ {t}, f, j, late, k, later)
  PROVE  TimeOrder(D \cup {t}, g, k, later) = Lru!InFront(TimeOrder(D, f, j, late), t)
<1> DEFINE E == D \cup {t}
           rest == TimeOrder(D \ {t}, f, j, late)
           R == TimeOrder(E, g, k, later)
           S == rest \cup {<<t, y>> : y \in (D \ {t}) \cup {t}}
<1>1. Lru!InFront(TimeOrder(D, f, j, late), t) = S
  <2>1. Lru!Without(TimeOrder(D, f, j, late), t) = rest /\ Lru!Members(rest) = D \ {t}
    BY WithoutIs, MembersIs
  <2> HIDE DEF rest
  <2> QED BY <2>1, Zenon DEF Lru!InFront
<1>2. R \in SUBSET (E \X E) /\ rest \in SUBSET ((D \ {t}) \X (D \ {t}))
  BY TimeOrderOn
<1>3. \A x, y \in D \ {t} : <<x, y>> \in R <=> <<x, y>> \in rest
  <2> SUFFICES ASSUME NEW x \in D \ {t}, NEW y \in D \ {t}
               PROVE  <<x, y>> \in R <=> <<x, y>> \in rest
    OBVIOUS
  <2>1. g[x] = f[x] /\ g[y] = f[y]
    OBVIOUS
  <2>2. x # y /\ f[x] = f[y] => k = j /\ later = late
    BY DEF Agree, NoTies
  <2> QED BY <2>1, <2>2, TimeOrderHas
<1>4. \A y \in E : <<t, y>> \in R
  BY TimeOrderHas DEF Latest
<1>5. \A x \in D \ {t} : <<x, t>> \notin R
  BY TimeOrderHas DEF Latest
<1> HIDE DEF R, rest
<1>6. S \in SUBSET (E \X E)
  BY <1>2
<1>7. \A x, y \in E : <<x, y>> \in R <=> <<x, y>> \in S
  <2>1. \A x, y : <<x, y>> \in {<<t, z>> : z \in (D \ {t}) \cup {t}} <=> x = t /\ y \in E
    OBVIOUS
  <2> QED BY <1>2, <1>3, <1>4, <1>5, <2>1
<1> HIDE DEF S, E
<1>8. R = S
  BY <1>2, <1>6, <1>7, SameRelation
<1> QED BY <1>1, <1>8 DEF R, E

(* Without ties the last is the one whose time is the earliest.                *)
LEMMA LastIs ==
  ASSUME NEW D, NEW f, NoTies(D, f), NEW j, NEW late,
         \A x \in D : f[x] \in Nat, NEW v \in D, \A x \in D : f[v] <= f[x]
  PROVE  Lru!Last(TimeOrder(D, f, j, late)) = v
<1> DEFINE R == TimeOrder(D, f, j, late)
           IsLast(x) == \A y \in D : <<y, x>> \in R
<1>1. Lru!Members(R) = D
  BY MembersIs
<1>2. IsLast(v)
  <2> SUFFICES ASSUME NEW y \in D PROVE <<y, v>> \in R
    OBVIOUS
  <2>1. y = v \/ f[y] # f[v]
    BY DEF NoTies
  <2>2. y = v \/ f[y] > f[v]
    BY <2>1
  <2> QED BY <2>2, TimeOrderHas
<1>3. ASSUME NEW x \in D, <<v, x>> \in R PROVE x = v
  <2>1. x = v \/ f[x] # f[v]
    BY DEF NoTies
  <2>2. ~(f[v] > f[x])
    OBVIOUS
  <2> QED BY <1>3, <2>1, <2>2, TimeOrderHas
<1> HIDE DEF R
<1>4. (CHOOSE x \in D : IsLast(x)) = v
  BY <1>2, <1>3
<1>5. Lru!Last(R) = CHOOSE x \in D : IsLast(x)
  BY <1>1, Zenon DEF Lru!Last
<1> QED BY <1>4, <1>5 DEF R

-------------------------------------------------------------------------------
(* The order of one set                                                        *)

Times(set) == [b \in HeldTags(set) |-> LineOf(set, b).lastUsed]

SetOrder(set, j, late) == TimeOrder(HeldTags(set), Times(set), j, late)

(* The valid lines are those that getLine finds.                               *)
LEMMA LookUps ==
  ASSUME NEW set \in [Ways -> Line], NoShadow(set)
  PROVE  /\ \A b : b \in HeldTags(set) <=> HasLine(set, b)
         /\ \A b \in HeldTags(set) :
              /\ FirstWay(set, b) \in Ways /\ Valid(LineOf(set, b))
              /\ LineOf(set, b).tag = b /\ Times(set)[b] = LineOf(set, b).lastUsed
              /\ Times(set)[b] \in Nat
         /\ \A w \in Ways : Valid(set[w]) =>
              /\ set[w].tag \in HeldTags(set) /\ FirstWay(set, set[w].tag) = w
              /\ Times(set)[set[w].tag] = set[w].lastUsed
<1>1. \A b : b \in HeldTags(set) <=> HasLine(set, b)
  BY DEF HeldTags, HasLine
<1>2. ASSUME NEW b \in HeldTags(set)
      PROVE  /\ FirstWay(set, b) \in Ways /\ Valid(LineOf(set, b))
             /\ LineOf(set, b).tag = b /\ Times(set)[b] = LineOf(set, b).lastUsed
             /\ Times(set)[b] \in Nat
  <2>1. FirstWay(set, b) \in Ways /\ Valid(set[FirstWay(set, b)])
    BY <1>1, LookupFindsValid
  <2>2. set[FirstWay(set, b)].tag = b
    BY <1>1, FirstWayFound DEF HasLine
  <2>3. set[FirstWay(set, b)].lastUsed \in Nat
    BY <2>1 DEF Line
  <2> QED BY <2>1, <2>2, <2>3 DEF LineOf, Times
<1>3. ASSUME NEW w \in Ways, Valid(set[w])
      PROVE  /\ set[w].tag \in HeldTags(set) /\ FirstWay(set, set[w].tag) = w
             /\ Times(set)[set[w].tag] = set[w].lastUsed
  <2> DEFINE b == set[w].tag
             f == FirstWay(set, b)
  <2>1. b \in HeldTags(set)
    BY <1>3 DEF HeldTags
  <2>2. f \in Ways /\ set[f].tag = b /\ f <= w
    BY FirstWayFound
  <2>3. ~(f < w)
    BY <1>3, <2>2 DEF NoShadow
  <2>4. f = w
    BY <2>2, <2>3 DEF Ways
  <2> HIDE DEF b
  <2>5. Times(set)[b] = set[f].lastUsed
    BY <1>2, <2>1 DEF LineOf
  <2> QED BY <2>1, <2>4, <2>5 DEF b
<1> QED BY <1>1, <1>2, <1>3

(* The order into which the machine's sets are mapped.                         *)
LEMMA RecencyIs ==
  ASSUME NEW c, NEW set \in [Ways -> Line], NoShadow(set)
  PROVE  Recency(c, set) = SetOrder(set, c.job.block, c.busy)
<1> DEFINE D == HeldTags(set)
           R == Recency(c, set)
           S == SetOrder(set, c.job.block, c.busy)
<1>1. R \in SUBSET (D \X D) /\ S \in SUBSET (D \X D)
  BY TimeOrderOn DEF Recency, SetOrder
<1>2. ASSUME NEW x \in D, NEW y \in D PROVE <<x, y>> \in R <=> <<x, y>> \in S
  <2>1. <<x, y>> \in R <=> x = y \/ UsedAfter(c, LineOf(set, x), LineOf(set, y))
    BY DEF Recency
  <2>2. /\ LineOf(set, x).tag = x /\ Times(set)[x] = LineOf(set, x).lastUsed
        /\ LineOf(set, y).tag = y /\ Times(set)[y] = LineOf(set, y).lastUsed
    BY LookUps
  <2>3. <<x, y>> \in S <=> \/ x = y
                           \/ Times(set)[x] > Times(set)[y]
                           \/ /\ Times(set)[x] = Times(set)[y]
                              /\ c.job.block = (IF c.busy THEN x ELSE y)
    BY TimeOrderHas DEF SetOrder
  <2> QED BY <2>1, <2>2, <2>3 DEF UsedAfter
<1> HIDE DEF R, S, D
<1>3. R = S
  BY <1>1, <1>2, SameRelation
<1> QED BY <1>3 DEF R, S

(* One way changes.                                                            *)
Changes(set, new, k) ==
  /\ set \in [Ways -> Line] /\ NoShadow(set)
  /\ new \in [Ways -> Line] /\ NoShadow(new)
  /\ k \in Ways /\ \A w \in Ways \ {k} : new[w] = set[w]

(* What is left of a set's tags, and of its order, when a way is given up.     *)
Rest(set, k) == IF Valid(set[k]) THEN HeldTags(set) \ {set[k].tag} ELSE HeldTags(set)

(* The tags that are left are those of the other ways, at their old times.     *)
LEMMA RestIs ==
  ASSUME NEW set, NEW new, NEW k, Changes(set, new, k)
  PROVE  /\ \A b : b \in Rest(set, k) <=> \E w \in Ways \ {k} : Valid(set[w]) /\ set[w].tag = b
         /\ \A b \in Rest(set, k) : b \in HeldTags(new) /\ Times(new)[b] = Times(set)[b]
         /\ \A b \in Rest(set, k) : Times(set)[b] \in Nat
         /\ HeldTags(new) = Rest(set, k) \cup (IF Valid(new[k]) THEN {new[k].tag} ELSE {})
         /\ Valid(new[k]) => new[k].tag \notin Rest(set, k)
<1> USE DEF Changes
<1>1. \A b : b \in Rest(set, k) <=> \E w \in Ways \ {k} : Valid(set[w]) /\ set[w].tag = b
  <2>1. ASSUME NEW w \in Ways \ {k}, Valid(set[w]), Valid(set[k]) PROVE set[w].tag # set[k].tag
    BY <2>1, LookUps
  <2> QED BY <2>1 DEF Rest, HeldTags
<1>2. ASSUME NEW b \in Rest(set, k)
      PROVE  /\ b \in HeldTags(new) /\ Times(new)[b] = Times(set)[b]
             /\ Times(set)[b] \in Nat
             /\ Valid(new[k]) => new[k].tag # b
  <2>1. PICK w \in Ways \ {k} : Valid(set[w]) /\ set[w].tag = b
    BY <1>1
  <2>2. new[w] = set[w]
    OBVIOUS
  <2>3. Times(set)[b] = set[w].lastUsed /\ set[w].lastUsed \in Nat
    BY <2>1, LookUps DEF Line
  <2>4. Times(new)[b] = new[w].lastUsed /\ b \in HeldTags(new) /\ FirstWay(new, b) = w
    BY <2>1, <2>2, LookUps
  <2>5. Valid(new[k]) => FirstWay(new, new[k].tag) = k
    BY LookUps
  <2> QED BY <2>2, <2>3, <2>4, <2>5
<1>3. HeldTags(new) = Rest(set, k) \cup (IF Valid(new[k]) THEN {new[k].tag} ELSE {})
  <2>1. ASSUME NEW b \in HeldTags(new)
        PROVE  b \in Rest(set, k) \cup (IF Valid(new[k]) THEN {new[k].tag} ELSE {})
    <3>1. PICK w \in Ways : Valid(new[w]) /\ new[w].tag = b
      BY DEF HeldTags
    <3> QED BY <1>1, <3>1
  <2>2. Valid(new[k]) => new[k].tag \in HeldTags(new)
    BY DEF HeldTags
  <2> QED BY <1>2, <2>1, <2>2
<1> QED BY <1>1, <1>2, <1>3

(* The order of a set that gives up a way.                                     *)
Freed(set, k, order) == IF Valid(set[k]) THEN Lru!Without(order, set[k].tag) ELSE order

(* The order that is left is that of the tags that are left.                   *)
LEMMA FreedIs ==
  ASSUME NEW set, NEW k, NEW j, NEW late
  PROVE  TimeOrder(Rest(set, k), Times(set), j, late) = Freed(set, k, SetOrder(set, j, late))
BY WithoutIs DEF Rest, Freed, SetOrder

(* A way is given up: the other blocks keep their order, ...                   *)
LEMMA GoneOrder ==
  ASSUME NEW set, NEW new, NEW k, Changes(set, new, k), ~Valid(new[k]),
         NEW j, NEW late, NEW j2, NEW late2,
         Agree(Rest(set, k), Times(set), j, late, j2, late2)
  PROVE  SetOrder(new, j2, late2) = Freed(set, k, SetOrder(set, j, late))
<1>1. HeldTags(new) = Rest(set, k) /\ \A b \in Rest(set, k) : Times(new)[b] = Times(set)[b]
  <2>1. HeldTags(new) = Rest(set, k) \cup {}
    BY RestIs
  <2>2. \A b \in Rest(set, k) : Times(new)[b] = Times(set)[b]
    BY RestIs
  <2> QED BY <2>1, <2>2
<1>2. TimeOrder(Rest(set, k), Times(new), j2, late2) = TimeOrder(Rest(set, k), Times(set), j, late)
  BY <1>1, SameOrder
<1> QED BY <1>1, <1>2, FreedIs DEF SetOrder

(* ... or taken by a line used now: its block goes to the front.               *)
LEMMA PlaceOrder ==
  ASSUME NEW set, NEW new, NEW k, Changes(set, new, k), Valid(new[k]),
         NEW j, NEW late, NEW j2, NEW late2,
         Agree(Rest(set, k), Times(set), j, late, j2, late2),
         Latest(Rest(set, k), Times(new), new[k].tag, j2, late2)
  PROVE  SetOrder(new, j2, late2) = Lru!InFront(Freed(set, k, SetOrder(set, j, late)), new[k].tag)
<1> DEFINE t == new[k].tag
           D == Rest(set, k)
           f == Times(set)
           g == Times(new)
<1>1. /\ HeldTags(new) = D \cup {t} /\ t \notin D
      /\ \A b \in D : g[b] = f[b] /\ g[b] \in Nat
  BY RestIs
<1>2. g[t] \in Nat
  BY LookUps DEF Changes
<1>3. D \ {t} = D
  BY <1>1
<1> HIDE DEF t, D, f, g
<1>4. Agree(D \ {t}, f, j, late, j2, late2) /\ Latest(D \ {t}, g, t, j2, late2)
  BY <1>3 DEF t, D, f, g
<1>5. \A b \in D \ {t} : g[b] = f[b]
  BY <1>1
<1>6. \A b \in D \ {t} : g[b] \in Nat
  BY <1>1
<1>7. TimeOrder(D \cup {t}, g, j2, late2) = Lru!InFront(TimeOrder(D, f, j, late), t)
  BY <1>2, <1>4, <1>5, <1>6, InFrontIs
<1> QED BY <1>1, <1>7, FreedIs DEF SetOrder, D, f, g, t

(* The same, with the condition put on the ways.                               *)
LEMMA StampedLast ==
  ASSUME NEW set, NEW new, NEW k, Changes(set, new, k), Valid(new[k]), NEW j, NEW late,
         \A w \in Ways \ {k} : Valid(set[w]) =>
           \/ set[w].lastUsed < new[k].lastUsed
           \/ set[w].lastUsed = new[k].lastUsed /\ j = (IF late THEN new[k].tag ELSE set[w].tag)
  PROVE  Latest(Rest(set, k), Times(new), new[k].tag, j, late)
<1> SUFFICES ASSUME NEW b \in Rest(set, k)
             PROVE  \/ Times(new)[b] < Times(new)[new[k].tag]
                    \/ /\ Times(new)[b] = Times(new)[new[k].tag]
                       /\ j = (IF late THEN new[k].tag ELSE b)
  BY DEF Latest
<1>1. PICK w \in Ways \ {k} : Valid(set[w]) /\ set[w].tag = b
  BY RestIs
<1>2. Times(new)[b] = Times(set)[b] /\ Times(set)[b] = set[w].lastUsed
  BY <1>1, RestIs, LookUps DEF Changes
<1>3. Times(new)[new[k].tag] = new[k].lastUsed
  BY LookUps DEF Changes
<1> QED BY <1>1, <1>2, <1>3

(* Lines of equal time: only with the line of b, or none at all.               *)
TiedBy(set, b) ==
  \A w, v \in Ways :
    (w # v /\ Valid(set[w]) /\ Valid(set[v]) /\ set[w].lastUsed = set[v].lastUsed)
      => set[w].tag = b \/ set[v].tag = b

Untied(set) ==
  \A w, v \in Ways :
    (w # v /\ Valid(set[w]) /\ Valid(set[v])) => set[w].lastUsed # set[v].lastUsed

Proper(set) == set \in [Ways -> Line] /\ NoShadow(set)

(* Without equal times there is but one order, ...                             *)
LEMMA NoTiesLeft ==
  ASSUME NEW set, Proper(set), NEW D \in SUBSET HeldTags(set),
         \A w, v \in Ways :
           (w # v /\ Valid(set[w]) /\ Valid(set[v]) /\ set[w].tag \in D /\ set[v].tag \in D)
             => set[w].lastUsed # set[v].lastUsed
  PROVE  NoTies(D, Times(set))
<1> SUFFICES ASSUME NEW x \in D, NEW y \in D, x # y PROVE Times(set)[x] # Times(set)[y]
  BY DEF NoTies
<1>1. /\ FirstWay(set, x) \in Ways /\ Valid(set[FirstWay(set, x)]) /\ set[FirstWay(set, x)].tag = x
      /\ Times(set)[x] = set[FirstWay(set, x)].lastUsed
  BY LookUps DEF Proper, LineOf
<1>2. /\ FirstWay(set, y) \in Ways /\ Valid(set[FirstWay(set, y)]) /\ set[FirstWay(set, y)].tag = y
      /\ Times(set)[y] = set[FirstWay(set, y)].lastUsed
  BY LookUps DEF Proper, LineOf
<1> QED BY <1>1, <1>2

(* A set without ties has no two blocks of the same time, ...                  *)
LEMMA UntiedNoTies ==
  ASSUME NEW set, Proper(set), Untied(set), NEW D \in SUBSET HeldTags(set)
  PROVE  NoTies(D, Times(set))
BY NoTiesLeft DEF Untied

(* ... so that its order does not depend on how ties are decided, ...          *)
LEMMA UntiedOrder ==
  ASSUME NEW set, Proper(set), Untied(set), NEW j, NEW late, NEW j2, NEW late2
  PROVE  SetOrder(set, j2, late2) = SetOrder(set, j, late)
<1>1. Agree(HeldTags(set), Times(set), j, late, j2, late2)
  BY UntiedNoTies DEF Agree
<1> QED BY <1>1, SameOrder DEF SetOrder

(* ... and none is left when the line of the tie goes.                         *)
LEMMA TiedNoTies ==
  ASSUME NEW set, Proper(set), NEW b, TiedBy(set, b)
  PROVE  /\ ~HasLine(set, b) => Untied(set)
         /\ HasLine(set, b) => NoTies(Rest(set, FirstWay(set, b)), Times(set))
<1>1. ~HasLine(set, b) => Untied(set)
  BY DEF TiedBy, Untied, HasLine
<1>2. ASSUME HasLine(set, b) PROVE NoTies(Rest(set, FirstWay(set, b)), Times(set))
  <2>1. Rest(set, FirstWay(set, b)) = HeldTags(set) \ {b}
    <3>1. b \in HeldTags(set)
      BY <1>2, LookUps DEF Proper
    <3>2. Valid(set[FirstWay(set, b)]) /\ set[FirstWay(set, b)].tag = b
      BY <3>1, LookUps DEF Proper, LineOf
    <3> QED BY <3>2 DEF Rest
  <2>2. NoTies(HeldTags(set) \ {b}, Times(set))
    BY NoTiesLeft DEF TiedBy
  <2> QED BY <2>1, <2>2
<1> QED BY <1>1, <1>2

(* A block that is not there.                                                  *)
LEMMA NotThere ==
  ASSUME NEW set, Proper(set), NEW b, ~HasLine(set, b), NEW j, NEW late
  PROVE  /\ Lru!Used(SetOrder(set, j, late), b) = SetOrder(set, j, late)
         /\ Lru!Without(SetOrder(set, j, late), b) = SetOrder(set, j, late)
<1>1. b \notin HeldTags(set)
  BY LookUps DEF Proper
<1>2. Lru!Members(SetOrder(set, j, late)) = HeldTags(set)
  BY MembersIs DEF SetOrder
<1>3. HeldTags(set) \ {b} = HeldTags(set)
  BY <1>1
<1>4. Lru!Without(SetOrder(set, j, late), b) = SetOrder(set, j, late)
  BY <1>3, WithoutIs DEF SetOrder
<1> QED BY <1>1, <1>2, <1>4 DEF Lru!Used

(* A block that is put in front is taken out first.                            *)
LEMMA InFrontAgain ==
  ASSUME NEW order, NEW b
  PROVE  Lru!InFront(Lru!Without(order, b), b) = Lru!InFront(order, b)
<1>1. Lru!Without(Lru!Without(order, b), b) = Lru!Without(order, b)
  BY DEF Lru!Without
<1> QED BY <1>1 DEF Lru!InFront

(* A block that is: found in its way, it is given up or used.                  *)
LEMMA ThereIs ==
  ASSUME NEW set, Proper(set), NEW b, HasLine(set, b), NEW j, NEW late
  PROVE  /\ FirstWay(set, b) \in Ways
         /\ Valid(set[FirstWay(set, b)]) /\ set[FirstWay(set, b)].tag = b
         /\ b \in Lru!Members(SetOrder(set, j, late))
         /\ Freed(set, FirstWay(set, b), SetOrder(set, j, late)) = Lru!Without(SetOrder(set, j, late), b)
<1>1. b \in HeldTags(set)
  BY LookUps DEF Proper
<1>2. /\ FirstWay(set, b) \in Ways
      /\ Valid(set[FirstWay(set, b)]) /\ set[FirstWay(set, b)].tag = b
  BY <1>1, LookUps DEF Proper, LineOf
<1>3. Lru!Members(SetOrder(set, j, late)) = HeldTags(set)
  BY MembersIs DEF SetOrder
<1> QED BY <1>1, <1>2, <1>3 DEF Freed

(* The line found for a block becomes invalid: the block is given up, ...      *)
LEMMA DroppedOrder ==
  ASSUME NEW set, NEW new, NEW b, HasLine(set, b),
         Changes(set, new, FirstWay(set, b)), ~Valid(new[FirstWay(set, b)]), NEW j, NEW late
  PROVE  SetOrder(new, j, late) = Lru!Without(SetOrder(set, j, late), b)
<1>1. Proper(set)
  BY DEF Changes, Proper
<1>2. Agree(Rest(set, FirstWay(set, b)), Times(set), j, late, j, late)
  BY DEF Agree
<1>3. SetOrder(new, j, late) = Freed(set, FirstWay(set, b), SetOrder(set, j, late))
  BY <1>2, GoneOrder
<1> QED BY <1>1, <1>3, ThereIs

(* ... or it is stamped after all others: the block is used.                   *)
LEMMA UsedOrder ==
  ASSUME NEW set, NEW new, NEW b, HasLine(set, b),
         Changes(set, new, FirstWay(set, b)),
         Valid(new[FirstWay(set, b)]), new[FirstWay(set, b)].tag = b,
         NEW j, NEW late, NEW j2, NEW late2,
         (j2 = j /\ late2 = late) \/ TiedBy(set, b),
         Latest(Rest(set, FirstWay(set, b)), Times(new), b, j2, late2)
  PROVE  SetOrder(new, j2, late2) = Lru!Used(SetOrder(set, j, late), b)
<1> DEFINE k == FirstWay(set, b)
           order == SetOrder(set, j, late)
<1>1. Proper(set)
  BY DEF Changes, Proper
<1>2. Agree(Rest(set, k), Times(set), j, late, j2, late2)
  BY <1>1, TiedNoTies DEF Agree
<1>3. k \in Ways /\ Freed(set, k, order) = Lru!Without(order, b) /\ b \in Lru!Members(order)
  BY <1>1, ThereIs
<1> HIDE DEF k
<1>4. SetOrder(new, j2, late2) = Lru!InFront(Freed(set, k, order), new[k].tag)
  BY <1>2, PlaceOrder DEF k
<1>5. SetOrder(new, j2, late2) = Lru!InFront(Lru!Without(order, b), b)
  BY <1>3, <1>4 DEF k
<1> QED BY <1>3, <1>5, InFrontAgain DEF Lru!Used

(* LruCaches counts blocks as the simulator does.                              *)
LEMMA SameCardinality == \A S : Lru!Cardinality(S) = Cardinality(S)
BY Zenon DEF Lru!Cardinality, Cardinality, Lru!IsFiniteSet, IsFiniteSet

(* As many blocks as valid ways.                                               *)
LEMMA TagsCounted ==
  ASSUME NEW set, Proper(set)
  PROVE  Cardinality(HeldTags(set)) < Assoc <=> InvalidWays(set) # {}
<1> DEFINE V == {w \in Ways : Valid(set[w])}
           f == [w \in V |-> set[w].tag]
<1>1. IsFiniteSet(Ways) /\ Cardinality(Ways) = Assoc /\ Assoc \in Nat
  BY FS_Interval, AssocAssumption DEF Ways
<1>2. IsFiniteSet(V) /\ Cardinality(V) <= Assoc /\ (Cardinality(V) = Assoc => V = Ways)
  BY <1>1, FS_Subset
<1>3. f \in Bijection(V, HeldTags(set))
  <2>1. f \in [V -> HeldTags(set)]
    BY DEF HeldTags
  <2>2. \A w, v \in V : f[w] = f[v] => w = v
    BY LookUps DEF Proper
  <2>3. \A b \in HeldTags(set) : \E w \in V : f[w] = b
    BY DEF HeldTags
  <2> HIDE DEF f, V
  <2> QED BY <2>1, <2>2, <2>3 DEF Bijection, Injection, Surjection, IsInjective
<1>4. Cardinality(HeldTags(set)) = Cardinality(V)
  BY <1>2, <1>3, FS_Bijection DEF ExistsBijection
<1>5. V = Ways <=> InvalidWays(set) = {}
  BY DEF InvalidWays
<1>6. Cardinality(V) \in Nat
  BY <1>2, FS_CardinalityType
<1> HIDE DEF V, f
<1>7. V = Ways => Cardinality(V) = Assoc
  BY <1>1
<1>8. Cardinality(V) < Assoc <=> V # Ways
  BY <1>1, <1>2, <1>6, <1>7
<1> QED BY <1>4, <1>5, <1>8

(* getLRULine makes the room that the order asks for.                          *)
LEMMA RoomIs ==
  ASSUME NEW set, Proper(set), Untied(set), NEW b, ~HasLine(set, b), NEW j, NEW late
  PROVE  Freed(set, GetLRULine(set), SetOrder(set, j, late)) = Lru!RoomFor(SetOrder(set, j, late), b)
<1> DEFINE order == SetOrder(set, j, late)
           k == GetLRULine(set)
<1>1. Lru!Members(order) = HeldTags(set) /\ b \notin HeldTags(set)
  BY MembersIs, LookUps DEF SetOrder, Proper
<1>2. Timed(set)
  BY DEF Timed, Proper, Line
<1> HIDE DEF order
<1>3. CASE InvalidWays(set) # {}
  <2>1. ~Valid(set[k])
    BY <1>2, <1>3, VictimFound DEF InvalidWays
  <2>2. Lru!RoomFor(order, b) = order
    BY <1>1, <1>3, TagsCounted, SameCardinality DEF Lru!RoomFor
  <2> QED BY <2>1, <2>2 DEF Freed, order
<1>4. CASE InvalidWays(set) = {}
  <2>1. /\ k \in Ways /\ Valid(set[k])
        /\ \A w \in Ways : set[k].lastUsed <= set[w].lastUsed
    BY <1>2, <1>4, OldestFound DEF GetLRULine, InvalidWays
  <2> DEFINE v == set[k].tag
  <2>2. /\ v \in HeldTags(set) /\ Times(set)[v] = set[k].lastUsed
        /\ \A x \in HeldTags(set) : Times(set)[x] \in Nat
    BY <2>1, LookUps DEF Proper
  <2>3. \A x \in HeldTags(set) : Times(set)[v] <= Times(set)[x]
    <3> SUFFICES ASSUME NEW x \in HeldTags(set) PROVE Times(set)[v] <= Times(set)[x]
      OBVIOUS
    <3>1. FirstWay(set, x) \in Ways /\ Times(set)[x] = set[FirstWay(set, x)].lastUsed
      BY LookUps DEF Proper, LineOf
    <3> QED BY <2>1, <2>2, <3>1
  <2>4. NoTies(HeldTags(set), Times(set))
    BY UntiedNoTies
  <2> HIDE DEF v
  <2>5. Lru!Last(order) = v
    BY <2>2, <2>3, <2>4, LastIs DEF order, SetOrder
  <2>6. Lru!RoomFor(order, b) = Lru!Without(order, v)
    BY <1>1, <1>4, <2>5, TagsCounted, SameCardinality DEF Lru!RoomFor
  <2> QED BY <2>1, <2>6 DEF Freed, order, v
<1> QED BY <1>3, <1>4

(* A line that is installed takes the victim's place, ...                      *)
LEMMA InstalledOrder ==
  ASSUME NEW set, NEW new, NEW b, ~HasLine(set, b), Untied(set),
         NEW k, k = GetLRULine(set), Changes(set, new, k), new[k].tag = b,
         NEW j, NEW late, NEW j2, NEW late2,
         \A w \in Ways : set[w].lastUsed < new[k].lastUsed
  PROVE  SetOrder(new, j2, late2) =
           IF Valid(new[k]) THEN Lru!Filled(SetOrder(set, j, late), b)
           ELSE Lru!RoomFor(SetOrder(set, j, late), b)
<1>1. Proper(set)
  BY DEF Changes, Proper
<1>2. Freed(set, k, SetOrder(set, j, late)) = Lru!RoomFor(SetOrder(set, j, late), b)
  BY <1>1, RoomIs
<1>3. Agree(Rest(set, k), Times(set), j, late, j2, late2)
  <2>1. Rest(set, k) \in SUBSET HeldTags(set)
    BY DEF Rest
  <2> QED BY <1>1, <2>1, UntiedNoTies DEF Agree
<1>4. CASE Valid(new[k])
  <2>1. Latest(Rest(set, k), Times(new), new[k].tag, j2, late2)
    BY <1>4, StampedLast
  <2>2. SetOrder(new, j2, late2) = Lru!InFront(Freed(set, k, SetOrder(set, j, late)), b)
    BY <1>3, <1>4, <2>1, PlaceOrder
  <2> QED BY <1>2, <1>4, <2>2 DEF Lru!Filled
<1>5. CASE ~Valid(new[k])
  BY <1>2, <1>3, <1>5, GoneOrder
<1> QED BY <1>4, <1>5

(* ... and one that is there is used.                                          *)
LEMMA RefilledOrder ==
  ASSUME NEW set, Proper(set), NEW b, HasLine(set, b), NEW j, NEW late
  PROVE  Lru!Used(SetOrder(set, j, late), b) = Lru!Filled(SetOrder(set, j, late), b)
BY ThereIs DEF Lru!Used, Lru!Filled, Lru!RoomFor

-------------------------------------------------------------------------------
(* One cache                                                                   *)

Orders(sets, c) == [i \in Sets |-> SetOrder(sets[i], c.job.block, c.busy)]

(* The abstract state is made of the orders of all sets.                       *)
LEMMA RecenciesAre ==
  /\ LinesInv => Recencies = [p \in Procs |-> Orders(lines[p], ctl[p])]
  /\ LinesInv' => Recencies' = [p \in Procs |-> Orders(lines'[p], ctl'[p])]
<1>1. ASSUME LinesInv PROVE Recencies = [p \in Procs |-> Orders(lines[p], ctl[p])]
  <2>1. \A p \in Procs, i \in Sets : lines[p][i] \in [Ways -> Line] /\ NoShadow(lines[p][i])
    BY <1>1 DEF LinesInv, SoundCache, SoundSet
  <2>2. \A p \in Procs, i \in Sets :
          Recency(ctl[p], lines[p][i]) = SetOrder(lines[p][i], ctl[p].job.block, ctl[p].busy)
    BY <2>1, RecencyIs
  <2> QED BY <2>2 DEF Recencies, Orders
<1>2. ASSUME LinesInv' PROVE Recencies' = [p \in Procs |-> Orders(lines'[p], ctl'[p])]
  <2>1. \A p \in Procs, i \in Sets : lines'[p][i] \in [Ways -> Line] /\ NoShadow(lines'[p][i])
    BY <1>2 DEF LinesInv, SoundCache, SoundSet
  <2>2. \A p \in Procs, i \in Sets :
          Recency(ctl'[p], lines'[p][i]) = SetOrder(lines'[p][i], ctl'[p].job.block, ctl'[p].busy)
    BY <2>1, RecencyIs
  <2> QED BY <2>2 DEF Recencies, Orders
<1> QED BY <1>1, <1>2

(* What LruCaches sees of the control fields.                                  *)
SeenAlike(c, d) ==
  /\ d.job = c.job /\ d.busy = c.busy
  /\ d.serviced = c.serviced /\ d.haveBusRequest = c.haveBusRequest

(* One cache takes a step.                                                     *)
LEMMA OneCacheOrders ==
  ASSUME LinesInv, LinesInv', NEW p \in Procs,
         \A q \in Procs \ {p} : lines'[q] = lines[q] /\ SeenAlike(ctl[q], ctl'[q])
  PROVE  /\ Recencies' = [Recencies EXCEPT ![p] = Orders(lines'[p], ctl'[p])]
         /\ LastJobs' = [LastJobs EXCEPT ![p] = ctl'[p].job]
         /\ BusStages' = [BusStages EXCEPT ![p] = Stage(ctl'[p])]
         /\ Recencies[p] = Orders(lines[p], ctl[p])
         /\ LastJobs[p] = ctl[p].job /\ BusStages[p] = Stage(ctl[p])
<1>1. \A q \in Procs \ {p} : /\ Orders(lines'[q], ctl'[q]) = Orders(lines[q], ctl[q])
                             /\ ctl'[q].job = ctl[q].job
                             /\ Stage(ctl'[q]) = Stage(ctl[q])
  BY DEF SeenAlike, Orders, Stage
<1>2. /\ Recencies = [q \in Procs |-> Orders(lines[q], ctl[q])]
      /\ Recencies' = [q \in Procs |-> Orders(lines'[q], ctl'[q])]
  BY RecenciesAre
<1>3. Recencies' = [Recencies EXCEPT ![p] = Orders(lines'[p], ctl'[p])]
  BY <1>1, <1>2
<1>4. LastJobs' = [LastJobs EXCEPT ![p] = ctl'[p].job]
  BY <1>1 DEF LastJobs
<1>5. BusStages' = [BusStages EXCEPT ![p] = Stage(ctl'[p])]
  BY <1>1 DEF BusStages
<1> QED BY <1>2, <1>3, <1>4, <1>5 DEF LastJobs, BusStages

(* None takes one that LruCaches sees.                                         *)
LEMMA NoCacheOrders ==
  ASSUME LinesInv, LinesInv',
         \A q \in Procs : lines'[q] = lines[q] /\ SeenAlike(ctl[q], ctl'[q])
  PROVE  UNCHANGED <<Recencies, LastJobs, BusStages>>
<1>1. \A q \in Procs : /\ Orders(lines'[q], ctl'[q]) = Orders(lines[q], ctl[q])
                       /\ ctl'[q].job = ctl[q].job
                       /\ Stage(ctl'[q]) = Stage(ctl[q])
  BY DEF SeenAlike, Orders, Stage
<1>2. Recencies' = Recencies
  BY <1>1, RecenciesAre
<1> QED BY <1>1, <1>2 DEF LastJobs, BusStages

-------------------------------------------------------------------------------
(* The times                                                                   *)

(* All uses were before now.                                                   *)
Older(sets, now) == \A i \in Sets, w \in Ways : sets[i][w].lastUsed < now

OnlyTied(sets, b) == \A i \in Sets : TiedBy(sets[i], b)
NoneTied(sets) == \A i \in Sets : Untied(sets[i])

(* Before its tick, and while it is served, a cache has used no line in this   *)
(* cycle.                                                                      *)
Aged ==
  \A p \in Procs :
    \/ pc = "caches" /\ turn <= p
    \/ pc \in {"caches", "bus"} /\ ctl[p].serviced
    => Older(lines[p], cycle)

(* A cache that has had no job has no line.  Two lines have the same time only *)
(* if one is that of the last job, and the job is under way or its time is up. *)
CacheTimes(p) ==
  /\ ctl[p].job = NoJob => \A i \in Sets, w \in Ways : ~Valid(lines[p][i][w])
  /\ OnlyTied(lines[p], ctl[p].job.block)
  /\ ctl[p].busy \/ Expired(p) \/ NoneTied(lines[p])

(* A line used in this very cycle is one that a finished job has touched, or   *)
(* its cache is busy.                                                          *)
UsedNow(p) ==
  \A i \in Sets, w \in Ways :
    Valid(lines[p][i][w]) /\ lines[p][i][w].lastUsed = cycle =>
      ctl[p].busy \/ (lines[p][i][w].tag = ctl[p].job.block /\ Expired(p))

(* The machine is serving a job.                                               *)
Serving == pc \in {"caches", "bus"} /\ \E p \in Procs : Engaged(p)

(* The part of the inductive invariant that is about the times of the lines.   *)
TimesInv ==
  /\ Aged
  /\ \A p \in Procs : CacheTimes(p)
  /\ Serving => \A p \in Procs : UsedNow(p)

-------------------------------------------------------------------------------
(* The touch of the last job's line                                            *)

(* A touch of a line older than now.                                           *)
LEMMA TouchIs ==
  ASSUME NEW set, NEW i, NEW now \in Nat, SoundSet(set, i, now), NEW b, NEW new,
         new = Touch(set, b, now)
  PROVE  /\ ~HasLine(set, b) => new = set
         /\ HasLine(set, b) =>
              LET k == FirstWay(set, b) IN
              /\ Changes(set, new, k)
              /\ Valid(new[k]) /\ new[k].tag = b /\ new[k].lastUsed = now
<1>1. ~HasLine(set, b) => new = set
  BY DEF Touch
<1>2. ASSUME HasLine(set, b)
      PROVE  LET k == FirstWay(set, b) IN
             /\ Changes(set, new, k)
             /\ Valid(new[k]) /\ new[k].tag = b /\ new[k].lastUsed = now
  <2> DEFINE k == FirstWay(set, b)
  <2>1. k \in Ways /\ Valid(set[k]) /\ set[k].tag = b
    BY <1>2, LookupFindsValid, FirstWayFound DEF SoundSet, HasLine
  <2>2. SoundSet(new, i, now)
    BY TouchSound
  <2>3. new = [set EXCEPT ![k].lastUsed = now]
    BY <1>2 DEF Touch
  <2> HIDE DEF k
  <2>4. set \in [Ways -> Line] /\ set[k] \in Line
    BY <2>1 DEF SoundSet
  <2>5. \A w \in Ways \ {k} : new[w] = set[w]
    BY <2>3, <2>4
  <2>6. Valid(new[k]) /\ new[k].tag = b /\ new[k].lastUsed = now
    BY <2>1, <2>3, <2>4 DEF Valid, Line
  <2> QED BY <2>1, <2>2, <2>4, <2>5, <2>6 DEF Changes, SoundSet, k
<1> QED BY <1>1, <1>2

(* It leaves the set without ties, its block the only one used now.            *)
LEMMA TouchedSet ==
  ASSUME NEW set, NEW i, NEW now \in Nat, SoundSet(set, i, now), NEW b, TiedBy(set, b),
         \A w \in Ways : set[w].lastUsed < now,
         NEW new, new = Touch(set, b, now)
  PROVE  /\ Untied(new)
         /\ \A w \in Ways : Valid(new[w]) /\ new[w].lastUsed = now => new[w].tag = b
         /\ \A late, j2, late2 :
              SetOrder(new, j2, late2) = Lru!Used(SetOrder(set, b, late), b)
<1>0. Proper(set)
  BY DEF SoundSet, Proper
<1>1. CASE ~HasLine(set, b)
  <2>1. new = set
    BY <1>1, TouchIs
  <2>2. Untied(set)
    BY <1>0, <1>1, TiedNoTies
  <2>3. \A w \in Ways : new[w].lastUsed # now
    <3> SUFFICES ASSUME NEW w \in Ways PROVE new[w].lastUsed # now
      OBVIOUS
    <3>1. set[w].lastUsed < now /\ set[w].lastUsed \in Nat
      BY DEF SoundSet, Line
    <3> QED BY <2>1, <3>1
  <2>4. ASSUME NEW late, NEW j2, NEW late2
        PROVE  SetOrder(new, j2, late2) = Lru!Used(SetOrder(set, b, late), b)
    BY <1>0, <1>1, <2>1, <2>2, NotThere, UntiedOrder
  <2> QED BY <2>1, <2>2, <2>3, <2>4
<1>2. CASE HasLine(set, b)
  <2> DEFINE k == FirstWay(set, b)
  <2>1. /\ Changes(set, new, k) /\ k \in Ways
        /\ Valid(new[k]) /\ new[k].tag = b /\ new[k].lastUsed = now
    BY <1>2, TouchIs DEF Changes
  <2>2. Valid(set[k]) /\ set[k].tag = b
    BY <1>0, <1>2, ThereIs
  <2> HIDE DEF k
  <2>3. \A w \in Ways \ {k} : /\ new[w] = set[w] /\ set[w].lastUsed < now
                              /\ set[w].lastUsed \in Nat
    BY <2>1 DEF Changes, SoundSet, Line
  <2>4. \A w \in Ways \ {k} : Valid(set[w]) => set[w].tag # b
    BY <1>0, <2>1, <2>2, LookUps DEF Proper
  <2>5. Untied(new)
    <3> SUFFICES ASSUME NEW w \in Ways, NEW v \in Ways, w # v, Valid(new[w]), Valid(new[v]),
                        new[w].lastUsed = new[v].lastUsed
                 PROVE  FALSE
      BY DEF Untied
    <3>1. w # k /\ v # k
      BY <2>1, <2>3
    <3> QED BY <2>3, <2>4, <3>1 DEF TiedBy
  <2>6. \A w \in Ways : Valid(new[w]) /\ new[w].lastUsed = now => new[w].tag = b
    BY <2>1, <2>3
  <2>7. ASSUME NEW late, NEW j2, NEW late2
        PROVE  SetOrder(new, j2, late2) = Lru!Used(SetOrder(set, b, late), b)
    <3>1. Latest(Rest(set, k), Times(new), b, j2, late2)
      BY <2>1, <2>3, StampedLast
    <3> QED BY <1>2, <2>1, <3>1, UsedOrder DEF k
  <2> QED BY <2>5, <2>6, <2>7
<1> QED BY <1>1, <1>2

(* A block is only found in its own set.                                       *)
LEMMA OwnSet ==
  ASSUME NEW set, NEW i, NEW now, SoundSet(set, i, now), NEW b, SetOf(b) # i
  PROVE  ~HasLine(set, b)
BY DEF HasLine, SoundSet

(* The sets in which the block of a job is not to be found.                    *)
LEMMA OtherSets ==
  ASSUME NEW sets, NEW now, SoundCache(sets, now), NEW b, OnlyTied(sets, b),
         NEW i \in Sets, i # SetOf(b)
  PROVE  Proper(sets[i]) /\ Untied(sets[i])
<1>1. SoundSet(sets[i], i, now) /\ TiedBy(sets[i], b)
  BY DEF SoundCache, OnlyTied
<1>2. Proper(sets[i]) /\ ~HasLine(sets[i], b)
  BY <1>1, OwnSet DEF SoundSet, Proper
<1> QED BY <1>1, <1>2, TiedNoTies

(* The last job of a cache is one of the trace, and its block has a set.       *)
LEMMA LastJobTyped ==
  ASSUME CtlInv, NEW p \in Procs, ctl[p].job # NoJob
  PROVE  /\ ctl[p].job \in Job /\ ctl[p].job.block \in Nat /\ ctl[p].job.block \in Blocks
         /\ SetOf(ctl[p].job.block) \in Sets
<1>1. ctl[p].job \in Job
  BY DEF CtlInv, ControlTyped, Ctl
<1>2. ctl[p].job.block \in Nat /\ ctl[p].job.block \in Blocks
  BY <1>1, SizeAssumption DEF Job
<1> QED BY <1>1, <1>2, SetOfTyped

(* The touch leaves no ties and is what LruCaches calls a refresh.             *)
LEMMA AfterJobIs ==
  ASSUME CtlInv, LinesInv, TimesInv, NEW p \in Procs, Ticks(p), ~BusyStill(p)
  PROVE  /\ NoneTied(AfterJob(p))
         /\ \A i \in Sets, w \in Ways :
              Valid(AfterJob(p)[i][w]) /\ AfterJob(p)[i][w].lastUsed = cycle =>
                AfterJob(p)[i][w].tag = ctl[p].job.block /\ Expired(p)
         /\ \A c : Orders(AfterJob(p), c) =
                     IF Expired(p) THEN Lru!Refreshed(p) ELSE Recencies[p]
<1> DEFINE sets == lines[p]
           b == ctl[p].job.block
           late == ctl[p].busy
           new == AfterJob(p)
<1>1. /\ SoundCache(sets, cycle) /\ SoundCache(new, cycle) /\ cycle \in Nat
      /\ \A i \in Sets : Proper(sets[i])
  BY AfterJobSound DEF LinesInv, CtlInv, ControlTyped, SoundCache, SoundSet, Proper
<1>2. Older(sets, cycle) /\ OnlyTied(sets, b)
  BY DEF TimesInv, Aged, CacheTimes, Ticks, CtlInv, ControlTyped, Procs
<1>3. /\ Recencies[p] = Orders(sets, ctl[p]) /\ LastJobs[p] = ctl[p].job
  BY RecenciesAre DEF LastJobs
<1>4. \A i \in Sets, w \in Ways : sets[i][w].lastUsed \in Nat /\ sets[i][w].lastUsed # cycle
  <2> SUFFICES ASSUME NEW i \in Sets, NEW w \in Ways
               PROVE  sets[i][w].lastUsed \in Nat /\ sets[i][w].lastUsed # cycle
    OBVIOUS
  <2>1. sets[i][w].lastUsed \in Nat /\ sets[i][w].lastUsed < cycle
    BY <1>1, <1>2 DEF Older, SoundCache, Line
  <2> QED BY <1>1, <2>1
<1>5. ASSUME new = sets, NoneTied(sets), Expired(p) => Lru!Refreshed(p) = Recencies[p]
      PROVE  /\ NoneTied(new)
             /\ \A i \in Sets, w \in Ways :
                  Valid(new[i][w]) /\ new[i][w].lastUsed = cycle =>
                    new[i][w].tag = b /\ Expired(p)
             /\ \A c : Orders(new, c) = IF Expired(p) THEN Lru!Refreshed(p) ELSE Recencies[p]
  <2>1. ASSUME NEW c PROVE Orders(sets, c) = Orders(sets, ctl[p])
    BY <1>1, <1>5, UntiedOrder DEF Orders, NoneTied
  <2> QED BY <1>3, <1>4, <1>5, <2>1
<1>6. CASE ~Expired(p)
  <2>1. new = sets
    BY <1>6 DEF AfterJob
  <2>2. NoneTied(sets)
    BY <1>6 DEF TimesInv, CacheTimes, BusyStill
  <2> QED BY <1>5, <1>6, <2>1, <2>2
<1>7. CASE Expired(p) /\ ctl[p].job = NoJob
  <2>1. new = sets
    BY <1>7 DEF AfterJob
  <2>2. NoneTied(sets)
    BY <1>7 DEF TimesInv, CacheTimes, NoneTied, Untied
  <2>3. Lru!Refreshed(p) = Recencies[p]
    BY <1>3, <1>7 DEF Lru!Refreshed
  <2> QED BY <1>5, <2>1, <2>2, <2>3
<1>8. CASE Expired(p) /\ ctl[p].job # NoJob
  <2> DEFINE i0 == SetOf(b)
             touched == Touch(sets[i0], b, cycle)
  <2>1. i0 \in Sets
    BY <1>8, LastJobTyped
  <2>2. new = [sets EXCEPT ![i0] = touched]
    BY <1>8 DEF AfterJob
  <2> HIDE DEF touched, new
  <2>3. \A i \in Sets : new[i] = IF i = i0 THEN touched ELSE sets[i]
    BY <1>1, <2>1, <2>2 DEF SoundCache
  <2>4. /\ Untied(touched)
        /\ \A w \in Ways : Valid(touched[w]) /\ touched[w].lastUsed = cycle => touched[w].tag = b
        /\ \A j2, late2 : SetOrder(touched, j2, late2) = Lru!Used(SetOrder(sets[i0], b, late), b)
    <3>1. SoundSet(sets[i0], i0, cycle) /\ TiedBy(sets[i0], b)
      BY <1>1, <1>2, <2>1 DEF SoundCache, OnlyTied
    <3>2. \A w \in Ways : sets[i0][w].lastUsed < cycle
      BY <1>2, <2>1 DEF Older
    <3> HIDE DEF i0, b, late, sets
    <3> QED BY <1>1, <3>1, <3>2, TouchedSet DEF touched
  <2>5. \A i \in Sets : i # i0 => Proper(sets[i]) /\ Untied(sets[i])
    BY <1>1, <1>2, OtherSets
  <2>6. NoneTied(new)
    BY <2>3, <2>4, <2>5 DEF NoneTied
  <2>7. \A i \in Sets, w \in Ways :
          Valid(new[i][w]) /\ new[i][w].lastUsed = cycle => new[i][w].tag = b
    BY <1>4, <2>3, <2>4
  <2>8. ASSUME NEW c PROVE Orders(new, c) = Lru!Refreshed(p)
    <3> DEFINE old == Orders(sets, ctl[p])
    <3>1. Lru!Refreshed(p) = [old EXCEPT ![i0] = Lru!Used(old[i0], b)]
      BY <1>3, <1>8 DEF Lru!Refreshed, Lru!UsedIn
    <3>2. old[i0] = SetOrder(sets[i0], b, late)
      BY <2>1 DEF Orders
    <3>3. \A i \in Sets : old[i] = SetOrder(sets[i], b, late)
      BY DEF Orders
    <3>4. DOMAIN old = Sets /\ old = [i \in Sets |-> old[i]]
      BY DEF Orders
    <3> HIDE DEF old, late, b, i0, sets
    <3>5. \A i \in Sets : i # i0 => SetOrder(new[i], c.job.block, c.busy) = old[i]
      BY <2>3, <2>5, <3>3, UntiedOrder
    <3>6. SetOrder(new[i0], c.job.block, c.busy) = Lru!Used(old[i0], b)
      BY <2>1, <2>3, <2>4, <3>2
    <3> QED BY <3>1, <3>4, <3>5, <3>6 DEF Orders
  <2> QED BY <1>8, <2>6, <2>7, <2>8 DEF new
<1> QED BY <1>6, <1>7, <1>8

-------------------------------------------------------------------------------
(* What the steps make of a set                                                *)

(* A line is touched and given a state.                                        *)
LEMMA TouchAndSetIs ==
  ASSUME NEW set, NEW i, NEW now \in Nat, SoundSet(set, i, now), NEW b, HasLine(set, b),
         NEW s \in ProtocolStates, NEW new, new = SetLineState(Touch(set, b, now), b, s),
         NEW k, k = FirstWay(set, b)
  PROVE  /\ Changes(set, new, k)
         /\ new[k].tag = b /\ new[k].state = s /\ new[k].lastUsed = now
<1> DEFINE t == Touch(set, b, now)
<1>1. Changes(set, t, k) /\ Valid(t[k]) /\ t[k].tag = b /\ t[k].lastUsed = now
  BY TouchIs
<1>2. SoundSet(t, i, now)
  BY TouchSound
<1> HIDE DEF t
<1>3. HasLine(t, b) /\ FirstWay(t, b) = k
  BY <1>1, LookUps DEF Changes, HasLine
<1>4. new = [t EXCEPT ![k].state = s]
  BY <1>3 DEF SetLineState, t
<1>5. NoShadow(new) /\ new \in [Ways -> Line]
  <2>1. SoundSet(SetLineState(t, b, s), i, now)
    BY <1>2, SetLineStateSound
  <2> QED BY <2>1 DEF SoundSet, t
<1>6. k \in Ways /\ t \in [Ways -> Line] /\ t[k] \in Line
  BY <1>1 DEF Changes
<1>7. \A w \in Ways \ {k} : new[w] = set[w]
  BY <1>1, <1>4, <1>6 DEF Changes
<1>8. new[k].tag = b /\ new[k].state = s /\ new[k].lastUsed = now
  BY <1>1, <1>4, <1>6 DEF Line
<1> QED BY <1>1, <1>5, <1>7, <1>8 DEF Changes

(* ... or is not there, and nothing happens.                                   *)
LEMMA NotTouched ==
  ASSUME NEW set, NEW now, NEW b, ~HasLine(set, b), NEW s
  PROVE  SetLineState(Touch(set, b, now), b, s) = set
BY DEF Touch, SetLineState

(* (A name, so that lemmas can be applied to a busy cache's field.)            *)
IsTrue(late) == late = TRUE

(* The set of a job that is taken: its line is used now, after any other.      *)
LEMMA HandledSet ==
  ASSUME NEW set, NEW i, NEW now \in Nat, SoundSet(set, i, now), Untied(set), NEW b,
         NEW s \in ProtocolStates, HasLine(set, b) => s # "invalid",
         NEW new, new = SetLineState(Touch(set, b, now), b, s), NEW busy, IsTrue(busy)
  PROVE  /\ TiedBy(new, b)
         /\ \A j, late : SetOrder(new, b, busy) = Lru!Used(SetOrder(set, j, late), b)
<1>0. Proper(set)
  BY DEF SoundSet, Proper
<1>1. CASE ~HasLine(set, b)
  <2>1. new = set
    BY <1>1, NotTouched
  <2>2. TiedBy(new, b)
    BY <2>1 DEF TiedBy, Untied
  <2>3. ASSUME NEW j, NEW late
        PROVE  SetOrder(new, b, busy) = Lru!Used(SetOrder(set, j, late), b)
    <3>1. Lru!Used(SetOrder(set, j, late), b) = SetOrder(set, j, late)
      BY <1>0, <1>1, NotThere
    <3>2. SetOrder(set, b, busy) = SetOrder(set, j, late)
      BY <1>0, UntiedOrder
    <3> QED BY <2>1, <3>1, <3>2
  <2> QED BY <2>2, <2>3
<1>2. CASE HasLine(set, b)
  <2> DEFINE k == FirstWay(set, b)
  <2>1. /\ Changes(set, new, k) /\ k \in Ways
        /\ new[k].tag = b /\ Valid(new[k]) /\ new[k].lastUsed = now
    BY <1>2, TouchAndSetIs DEF Changes, Valid
  <2> HIDE DEF k
  <2>2. TiedBy(new, b)
    <3>1. \A w \in Ways \ {k} : new[w] = set[w]
      BY <2>1 DEF Changes
    <3> QED BY <2>1, <3>1 DEF TiedBy, Untied
  <2>3. Latest(Rest(set, k), Times(new), b, b, busy)
    <3>1. \A w \in Ways \ {k} : set[w].lastUsed < now \/ set[w].lastUsed = now
      <4>1. \A w \in Ways : set[w].lastUsed <= now /\ set[w].lastUsed \in Nat
        BY DEF SoundSet, Line
      <4> QED BY <4>1
    <3>2. Latest(Rest(set, k), Times(new), new[k].tag, b, busy)
      <4> HIDE DEF k
      <4>1. \A w \in Ways \ {k} : Valid(set[w]) =>
              \/ set[w].lastUsed < new[k].lastUsed
              \/ /\ set[w].lastUsed = new[k].lastUsed
                 /\ b = (IF busy THEN new[k].tag ELSE set[w].tag)
        BY <2>1, <3>1 DEF IsTrue
      <4> QED BY <2>1, <4>1, StampedLast
    <3> QED BY <2>1, <3>2
  <2>4. TiedBy(set, b)
    BY DEF TiedBy, Untied
  <2>5. ASSUME NEW j, NEW late, NEW late2, Latest(Rest(set, k), Times(new), b, b, late2)
        PROVE  SetOrder(new, b, late2) = Lru!Used(SetOrder(set, j, late), b)
    BY <1>2, <2>1, <2>4, <2>5, UsedOrder DEF k
  <2>6. \A j, late : SetOrder(new, b, busy) = Lru!Used(SetOrder(set, j, late), b)
    BY <2>3, <2>5
  <2> QED BY <2>2, <2>6
<1> QED BY <1>1, <1>2

(* The set of a snooped block: the line is used after that of the last job     *)
(* (called j), or given up.                                                    *)
LEMMA SnoopedSet ==
  ASSUME NEW set, NEW i, NEW now \in Nat, SoundSet(set, i, now), NEW b,
         NEW s \in ProtocolStates,
         NEW new, new = SetLineState(Touch(set, b, now), b, s),
         NEW busy \in BOOLEAN, ~busy, NEW j, TiedBy(set, j),
         \A w \in Ways : Valid(set[w]) /\ set[w].lastUsed = now => set[w].tag = j
  PROVE  /\ TiedBy(new, j)
         /\ SetOrder(new, j, busy) =
              IF HasLine(set, b) /\ s = "invalid" THEN Lru!Without(SetOrder(set, j, busy), b)
              ELSE Lru!Used(SetOrder(set, j, busy), b)
         /\ (Untied(set) /\ \A w \in Ways : Valid(set[w]) => set[w].lastUsed # now)
              => Untied(new)
<1>0. Proper(set)
  BY DEF SoundSet, Proper
<1>1. CASE ~HasLine(set, b)
  <2>1. new = set
    BY <1>1, NotTouched
  <2>2. Lru!Used(SetOrder(set, j, busy), b) = SetOrder(set, j, busy)
    BY <1>0, <1>1, NotThere
  <2> QED BY <1>1, <2>1, <2>2
<1>2. CASE HasLine(set, b)
  <2> DEFINE k == FirstWay(set, b)
  <2>1. /\ Changes(set, new, k) /\ k \in Ways
        /\ new[k].tag = b /\ new[k].lastUsed = now /\ (Valid(new[k]) <=> s # "invalid")
    BY <1>2, TouchAndSetIs DEF Changes, Valid
  <2> HIDE DEF k
  <2>2. \A w \in Ways \ {k} : /\ new[w] = set[w] /\ set[w].lastUsed <= now
                              /\ set[w].lastUsed \in Nat
    BY <2>1 DEF Changes, SoundSet, Line
  <2>3. TiedBy(new, j)
    BY <2>1, <2>2 DEF TiedBy
  <2>4. (Untied(set) /\ \A w \in Ways : Valid(set[w]) => set[w].lastUsed # now) => Untied(new)
    BY <2>1, <2>2 DEF Untied
  <2>5. CASE s = "invalid"
    <3>1. SetOrder(new, j, busy) = Lru!Without(SetOrder(set, j, busy), b)
      BY <1>2, <2>1, <2>5, DroppedOrder DEF k
    <3> QED BY <1>2, <2>3, <2>4, <2>5, <3>1
  <2>6. CASE s # "invalid"
    <3>1. Latest(Rest(set, k), Times(new), b, j, busy)
      <4>1. \A w \in Ways \ {k} : Valid(set[w]) =>
              \/ set[w].lastUsed < new[k].lastUsed
              \/ /\ set[w].lastUsed = new[k].lastUsed
                 /\ j = (IF busy THEN new[k].tag ELSE set[w].tag)
        BY <2>1, <2>2
      <4>2. Latest(Rest(set, k), Times(new), new[k].tag, j, busy)
        BY <2>1, <2>6, <4>1, StampedLast
      <4> QED BY <2>1, <4>2
    <3>2. SetOrder(new, j, busy) = Lru!Used(SetOrder(set, j, busy), b)
      BY <1>2, <2>1, <2>6, <3>1, UsedOrder DEF k
    <3> QED BY <2>3, <2>4, <2>6, <3>2
  <2> QED BY <2>5, <2>6
<1> QED BY <1>1, <1>2

(* Where a line is installed: a way of its own.                                *)
LEMMA InstalledWay ==
  ASSUME NEW set, Proper(set), NEW b, ~HasLine(set, b), NEW now
  PROVE  FirstWay(ReplaceLine(set, b, now), b) = GetLRULine(set) /\ GetLRULine(set) \in Ways
<1> DEFINE k == GetLRULine(set)
           l == [tag |-> b, state |-> "invalid", lastUsed |-> now]
           new == ReplaceLine(set, b, now)
           f == FirstWay(new, b)
<1>1. Timed(set)
  BY DEF Proper, Timed, Line
<1>2. k \in Ways
  BY <1>1, VictimFound
<1>3. \A v \in Ways : v < k => Valid(set[v])
  <2>1. CASE InvalidWays(set) # {}
    <3> DEFINE T == InvalidWays(set)
    <3>1. T \in SUBSET Ways /\ T # {}
      BY <2>1 DEF InvalidWays
    <3>2. \E w \in T : \A v \in T : w <= v
      BY <3>1, LeastWay
    <3>3. FirstInvalidWay(set) \in T /\ \A v \in T : FirstInvalidWay(set) <= v
      BY <3>2 DEF FirstInvalidWay
    <3>4. k = FirstInvalidWay(set)
      BY <2>1 DEF GetLRULine
    <3> HIDE DEF k
    <3> QED BY <1>2, <3>3, <3>4 DEF InvalidWays, Ways
  <2>2. CASE InvalidWays(set) = {}
    BY <2>2 DEF InvalidWays
  <2> QED BY <2>1, <2>2
<1>4. new = [set EXCEPT ![k] = l] /\ l.tag = b
  BY DEF ReplaceLine
<1> HIDE DEF k, l, new
<1>5. new[k].tag = b /\ \A v \in Ways \ {k} : new[v] = set[v]
  BY <1>2, <1>4 DEF Proper
<1>6. f \in Ways /\ new[f].tag = b /\ f <= k
  BY <1>2, <1>5, FirstWayFound
<1>7. ~(f < k)
  BY <1>3, <1>5, <1>6 DEF HasLine, Ways
<1>8. f = k
  BY <1>2, <1>6, <1>7 DEF Ways
<1> QED BY <1>2, <1>8 DEF k, new

(* Where the block of a transaction that ends is put.                          *)
LEMMA FilledWay ==
  ASSUME NEW b \in Nat, NEW now \in Nat, NEW old, SoundSet(old, SetOf(b), now),
         NEW s, NEW set, set = Ready(old, b, now), NEW k, k = FirstWay(set, b), NEW new,
         \A w \in Ways \ {k} : new[w] = set[w],
         new[k].tag = set[k].tag, new[k].state = s, new[k].lastUsed = now,
         SoundSet(new, SetOf(b), now)
  PROVE  /\ Changes(old, new, k)
         /\ new[k].tag = b /\ new[k].lastUsed = now /\ new[k].state = s
         /\ k = IF HasLine(old, b) THEN FirstWay(old, b) ELSE GetLRULine(old)
<1>0. Proper(old)
  BY DEF SoundSet, Proper
<1>1. set \in [Ways -> Line] /\ k \in Ways /\ set[k].tag = b
  <2>1. set \in [Ways -> Line] /\ \E w \in Ways : set[w].tag = b
    BY ReadyStates
  <2> QED BY <2>1, FirstWayFound
<1>2. /\ k = IF HasLine(old, b) THEN FirstWay(old, b) ELSE GetLRULine(old)
      /\ \A w \in Ways \ {k} : set[w] = old[w]
  <2>1. CASE HasLine(old, b)
    BY <2>1 DEF Ready
  <2>2. CASE ~HasLine(old, b)
    <3>1. set = ReplaceLine(old, b, now)
      BY <2>2 DEF Ready
    <3>2. k = GetLRULine(old)
      BY <1>0, <2>2, <3>1, InstalledWay
    <3> QED BY <1>0, <2>2, <3>1, <3>2 DEF ReplaceLine, Proper
  <2> QED BY <2>1, <2>2
<1>3. /\ new[k].tag = b /\ new[k].lastUsed = now /\ new[k].state = s
      /\ \A w \in Ways \ {k} : new[w] = old[w]
  BY <1>1, <1>2
<1> QED BY <1>1, <1>2, <1>3 DEF Changes, SoundSet

(* The set of the requester: its block is filled in, valid or not.             *)
LEMMA FilledSet ==
  ASSUME NEW old, NEW i, NEW now \in Nat, SoundSet(old, i, now), NEW b, TiedBy(old, b),
         \A w \in Ways : old[w].lastUsed < now,
         NEW k, k = IF HasLine(old, b) THEN FirstWay(old, b) ELSE GetLRULine(old),
         NEW new, Changes(old, new, k), new[k].tag = b, new[k].lastUsed = now,
         HasLine(old, b) => Valid(new[k])
  PROVE  /\ Untied(new)
         /\ \A j, late, j2, late2 :
              SetOrder(new, j2, late2) =
                IF Valid(new[k]) THEN Lru!Filled(SetOrder(old, j, late), b)
                ELSE Lru!RoomFor(SetOrder(old, j, late), b)
<1>0. Proper(old)
  BY DEF SoundSet, Proper
<1>1. /\ k \in Ways /\ \A w \in Ways \ {k} : new[w] = old[w]
      /\ \A w \in Ways : old[w].lastUsed \in Nat
  BY DEF Changes, SoundSet, Line
<1>2. ASSUME NEW w \in Ways, NEW v \in Ways, w # v, new[w].lastUsed = new[v].lastUsed
      PROVE  w # k /\ v # k
  BY <1>1, <1>2
<1>3. CASE HasLine(old, b)
  <2>1. k = FirstWay(old, b)
    BY <1>3
  <2>2. Valid(old[k]) /\ old[k].tag = b
    BY <1>0, <1>3, <2>1, ThereIs
  <2>3. \A w \in Ways \ {k} : Valid(old[w]) => old[w].tag # b
    BY <1>0, <1>1, <2>2, LookUps DEF Proper
  <2>4. Untied(new)
    BY <1>1, <1>2, <2>3 DEF TiedBy, Untied
  <2>5. ASSUME NEW j, NEW late, NEW j2, NEW late2
        PROVE  SetOrder(new, j2, late2) = Lru!Filled(SetOrder(old, j, late), b)
    <3>1. Latest(Rest(old, k), Times(new), b, j2, late2)
      <4>1. \A w \in Ways \ {k} : old[w].lastUsed < new[k].lastUsed
        OBVIOUS
      <4> QED BY <1>3, <4>1, StampedLast
    <3>2. SetOrder(new, j2, late2) = Lru!Used(SetOrder(old, j, late), b)
      BY <1>3, <2>1, <3>1, UsedOrder
    <3>3. Lru!Used(SetOrder(old, j, late), b) = Lru!Filled(SetOrder(old, j, late), b)
      BY <1>0, <1>3, RefilledOrder
    <3> QED BY <3>2, <3>3
  <2> QED BY <1>3, <2>4, <2>5
<1>4. CASE ~HasLine(old, b)
  <2>1. k = GetLRULine(old)
    BY <1>4
  <2>2. Untied(old)
    BY <1>0, <1>4, TiedNoTies
  <2>3. Untied(new)
    BY <1>1, <1>2, <2>2 DEF Untied
  <2>4. \A w \in Ways : old[w].lastUsed < new[k].lastUsed
    OBVIOUS
  <2>5. ASSUME NEW j, NEW late, NEW j2, NEW late2
        PROVE  SetOrder(new, j2, late2) =
                 IF Valid(new[k]) THEN Lru!Filled(SetOrder(old, j, late), b)
                 ELSE Lru!RoomFor(SetOrder(old, j, late), b)
    BY <1>4, <2>1, <2>2, <2>4, InstalledOrder
  <2> QED BY <2>3, <2>5
<1> QED BY <1>3, <1>4

-------------------------------------------------------------------------------
(* What the steps of the caches make of the control fields                     *)

(* A cache goes on with its job, or ends it.                                   *)
LEMMA IdleCache ==
  ASSUME CtlInv, NEW p \in Procs, TickIdle(p)
  PROVE  /\ Ticks(p) /\ ~ctl[p].serviced /\ ~ctl[p].haveBusRequest
         /\ \A q \in Procs \ {p} : ctl'[q] = ctl[q]
         /\ ctl'[p].busy = BusyStill(p) /\ ctl'[p].job = ctl[p].job
         /\ ctl'[p].serviced = ctl[p].serviced
         /\ ctl'[p].haveBusRequest = ctl[p].haveBusRequest
         /\ ctl'[p].start = ctl[p].start /\ ctl'[p].cost = ctl[p].cost
         /\ ctl'[p].pending = ctl[p].pending
<1>1. Ticks(p) /\ ~ctl[p].serviced /\ ctl' = [ctl EXCEPT ![p].busy = BusyStill(p)]
  BY DEF TickIdle
<1>2. ctl \in [Procs -> Ctl]
  BY DEF CtlInv, ControlTyped
<1> DEFINE n == BusyStill(p)
           c == [ctl[p] EXCEPT !.busy = n]
<1>3. ctl' = [ctl EXCEPT ![p] = c]
  BY <1>1
<1> HIDE DEF n
<1>4. /\ c.busy = n /\ c.job = ctl[p].job
      /\ c.serviced = ctl[p].serviced /\ c.haveBusRequest = ctl[p].haveBusRequest
      /\ c.start = ctl[p].start /\ c.cost = ctl[p].cost /\ c.pending = ctl[p].pending
  BY <1>2 DEF Ctl
<1> HIDE DEF c
<1>5. ctl'[p] = c /\ \A q \in Procs \ {p} : ctl'[q] = ctl[q]
  BY <1>2, <1>3
<1> QED BY <1>1, <1>4, <1>5, NotWaiting DEF n

(* A cache takes its job: it drops it, ...                                     *)
Drops(p, job) ==
  /\ job.op \notin {"R", "W"} /\ ~ctl'[p].busy
  /\ ctl'[p].start = ctl[p].start /\ ctl'[p].cost = ctl[p].cost
  /\ lines' = [lines EXCEPT ![p] = AfterJob(p)]

(* ... or uses its line.                                                       *)
Uses(p, job) ==
  LET i     == SetOf(job.block)
      set   == AfterJob(p)[i]
      s     == RequestState(job.op, LineState(set, job.block))
      after == SetLineState(Touch(set, job.block, cycle), job.block, s)
  IN /\ job.op \in {"R", "W"} /\ ctl'[p].busy = TRUE
     /\ lines' = [lines EXCEPT ![p] = [AfterJob(p) EXCEPT ![i] = after]]

(* ... or uses its block: a hit, or a request to the bus.                      *)
LEMMA HandlingCache ==
  ASSUME CtlInv, NEW p \in Procs, TickHandles(p), NEW job, job = Head(ctl[p].pending)
  PROVE  /\ Ticks(p) /\ ~BusyStill(p) /\ Engaged(p)
         /\ ~ctl[p].busy /\ ~ctl[p].serviced /\ ~ctl[p].haveBusRequest
         /\ job \in Job
         /\ \A q \in Procs \ {p} : ctl'[q] = ctl[q]
         /\ ctl'[p].job = job /\ ~ctl'[p].serviced /\ ctl'[p].pending = <<>>
         /\ Drops(p, job) \/ Uses(p, job)
<1>1. /\ Ticks(p) /\ ~ctl[p].serviced /\ ~BusyStill(p) /\ ctl[p].pending # <<>>
  BY DEF TickHandles
<1>2. ctl[p] \in Ctl /\ ctl \in [Procs -> Ctl] /\ ~ctl[p].haveBusRequest /\ ~ctl[p].busy
  BY <1>1, NotWaiting DEF CtlInv, ControlTyped, Handshake
<1>3. job \in Job
  <2>1. ctl[p].pending \in Seq(Job) /\ ctl[p].pending # <<>>
    BY <1>1, <1>2 DEF Ctl
  <2> QED BY <2>1, HeadTailProperties
<1>4. ctl'[p].pending = <<>>
  <2>1. CtlInv'
    BY TickHandlesStep
  <2>2. ctl'[p].pending # <<>> => pc' = "caches" /\ turn' <= p
    BY <2>1 DEF CtlInv, Handshake
  <2>3. pc' = "bus" \/ p < turn'
    BY <1>1, TurnPasses
  <2>4. p \in Int /\ turn' \in Int
    BY <2>1, ProcsFacts DEF CtlInv, ControlTyped, Procs
  <2>5. ~(pc' = "caches" /\ turn' <= p)
    BY <2>3, <2>4
  <2> QED BY <2>2, <2>5
<1> DEFINE b     == job.block
           i     == SetOf(b)
           set   == AfterJob(p)[i]
           s     == LineState(set, b)
           after == SetLineState(Touch(set, b, cycle), b, RequestState(job.op, s))
           sets  == [AfterJob(p) EXCEPT ![i] = after]
           rest  == Tail(ctl[p].pending)
           taken == [ctl[p] EXCEPT !.pending = rest, !.job = job, !.busy = FALSE]
           hit   == [taken EXCEPT !.busy = TRUE, !.haveBusRequest = FALSE,
                                  !.start = cycle, !.cost = HitCost]
           Asked(k, r) == [taken EXCEPT !.busy = TRUE, !.haveBusRequest = TRUE,
                                        !.cost = k, !.req = r]
<1>5. \/ /\ Decision(job.op, s) = "drop"
         /\ ctl' = [ctl EXCEPT ![p] = taken]
         /\ lines' = [lines EXCEPT ![p] = AfterJob(p)]
      \/ /\ Decision(job.op, s) = "hit"
         /\ ctl' = [ctl EXCEPT ![p] = hit]
         /\ lines' = [lines EXCEPT ![p] = sets]
      \/ /\ Decision(job.op, s) \in Commands
         /\ \E k, r : ctl' = [ctl EXCEPT ![p] = Asked(k, r)]
         /\ lines' = [lines EXCEPT ![p] = sets]
  BY DEF TickHandles
<1>6. Decision(job.op, s) = "drop" <=> job.op \notin {"R", "W"}
  BY DEF Decision
<1>7. Uses(p, job) <=> /\ job.op \in {"R", "W"} /\ ctl'[p].busy = TRUE
                       /\ lines' = [lines EXCEPT ![p] = sets]
  BY DEF Uses
<1> HIDE DEF rest, s, sets
<1>8. /\ taken.job = job /\ ~taken.serviced /\ ~taken.busy
      /\ taken.start = ctl[p].start /\ taken.cost = ctl[p].cost
      /\ hit.job = job /\ ~hit.serviced /\ hit.busy = TRUE
      /\ \A k, r : Asked(k, r).job = job /\ ~Asked(k, r).serviced /\ Asked(k, r).busy = TRUE
  BY <1>1, <1>2 DEF Ctl
<1> HIDE DEF taken, hit, Asked
<1>9. \A d : ctl' = [ctl EXCEPT ![p] = d] =>
               ctl'[p] = d /\ \A q \in Procs \ {p} : ctl'[q] = ctl[q]
  BY <1>2
<1>10. CASE Decision(job.op, s) = "drop"
  <2>1. ctl' = [ctl EXCEPT ![p] = taken] /\ lines' = [lines EXCEPT ![p] = AfterJob(p)]
    BY <1>5, <1>10 DEF Commands
  <2> QED BY <1>1, <1>2, <1>3, <1>4, <1>6, <1>8, <1>9, <1>10, <2>1 DEF Drops, Engaged
<1>11. CASE Decision(job.op, s) # "drop"
  <2>1. PICK d : /\ ctl' = [ctl EXCEPT ![p] = d]
                 /\ d.job = job /\ ~d.serviced /\ d.busy = TRUE
    BY <1>5, <1>8, <1>11
  <2>2. lines' = [lines EXCEPT ![p] = sets]
    BY <1>5, <1>11
  <2> QED BY <1>1, <1>2, <1>3, <1>4, <1>6, <1>7, <1>9, <1>11, <2>1, <2>2 DEF Engaged
<1> QED BY <1>10, <1>11

-------------------------------------------------------------------------------
(* The steps of the caches                                                     *)

(* While the machine serves a job, only one cache's times change in a step.    *)
LEMMA OneCacheTimes ==
  ASSUME TimesInv, NEW p \in Procs, cycle' = cycle,
         pc \in {"caches", "bus"}, pc' \in {"caches", "bus"},
         \A q \in Procs \ {p} : /\ lines'[q] = lines[q] /\ ctl'[q] = ctl[q]
                                /\ pc' = "caches" /\ turn' <= q => pc = "caches" /\ turn <= q,
         ~(pc' = "caches" /\ turn' <= p), ~ctl'[p].serviced,
         Engaged(p)' => Engaged(p),
         CacheTimes(p)', Serving' => UsedNow(p)'
  PROVE  TimesInv'
<1>1. \A q \in Procs \ {p} : Expired(q)' <=> Expired(q)
  BY DEF Expired
<1>2. ASSUME NEW q \in Procs \ {p} PROVE CacheTimes(q)'
  <2>1. CacheTimes(q)
    BY DEF TimesInv
  <2> QED BY <1>1, <2>1 DEF CacheTimes, OnlyTied, NoneTied
<1>3. Serving' => Serving
  BY DEF Serving, Engaged
<1>4. ASSUME Serving', NEW q \in Procs \ {p} PROVE UsedNow(q)'
  <2>1. UsedNow(q)
    BY <1>3, <1>4 DEF TimesInv
  <2> QED BY <1>1, <2>1 DEF UsedNow
<1>5. Aged'
  <2>1. Aged
    BY DEF TimesInv
  <2>2. \A q \in Procs \ {p} : Older(lines'[q], cycle') <=> Older(lines[q], cycle)
    OBVIOUS
  <2> QED BY <2>1, <2>2 DEF Aged
<1>6. \A q \in Procs : CacheTimes(q)'
  BY <1>2
<1>7. Serving' => \A q \in Procs : UsedNow(q)'
  BY <1>4
<1> QED BY <1>5, <1>6, <1>7 DEF TimesInv

(* The turns of the caches.                                                    *)
LEMMA TurnsPass ==
  ASSUME CtlInv, NEW p \in Procs, Ticks(p)
  PROVE  /\ cycle' = cycle /\ pc = "caches" /\ pc' \in {"caches", "bus"}
         /\ \A q \in Procs \ {p} : pc' = "caches" /\ turn' <= q => pc = "caches" /\ turn <= q
         /\ ~(pc' = "caches" /\ turn' <= p)
<1>1. turn' \in Procs /\ turn \in Procs
  BY TurnPasses DEF CtlInv, ControlTyped
<1>2. \A q \in Procs : q \in Int
  BY DEF Procs
<1>3. ~(pc' = "caches" /\ turn' <= p)
  BY <1>1, <1>2, TurnPasses
<1>4. ASSUME NEW q \in Procs \ {p}, pc' = "caches", turn' <= q PROVE turn <= q
  <2>1. q < turn => q < turn'
    BY <1>4, TurnPasses
  <2> QED BY <1>1, <1>2, <1>4, <2>1
<1> QED BY <1>3, <1>4, TurnPasses

(* A cache that idles only refreshes its last block.                           *)
LEMMA TickIdleOrders ==
  ASSUME CtlInv, LinesInv, LinesInv', TimesInv, NEW p \in Procs, TickIdle(p)
  PROVE  [Lru!Next]_(Lru!vars) /\ TimesInv'
<1>1. /\ Ticks(p) /\ ~ctl[p].serviced /\ ~ctl[p].haveBusRequest
      /\ \A q \in Procs \ {p} : ctl'[q] = ctl[q]
      /\ ctl'[p].busy = BusyStill(p) /\ ctl'[p].job = ctl[p].job
      /\ ctl'[p].serviced = ctl[p].serviced /\ ctl'[p].haveBusRequest = ctl[p].haveBusRequest
      /\ ctl'[p].start = ctl[p].start /\ ctl'[p].cost = ctl[p].cost
      /\ ctl'[p].pending = ctl[p].pending
  BY IdleCache
<1>2. /\ lines'[p] = AfterJob(p)
      /\ \A q \in Procs \ {p} : lines'[q] = lines[q]
  <2>1. lines' = [lines EXCEPT ![p] = AfterJob(p)]
    BY DEF TickIdle
  <2> QED BY <2>1 DEF LinesInv
<1>3. Engaged(p)' => Engaged(p)
  BY <1>1 DEF Engaged, BusyStill
<1>4. Expired(p)' <=> Expired(p)
  BY <1>1, TurnsPass DEF Expired
<1>5. CacheTimes(p)
  BY DEF TimesInv
<1>6. CASE BusyStill(p)
  <2>1. ctl[p].busy /\ lines'[p] = lines[p]
    BY <1>2, <1>6 DEF BusyStill, AfterJob
  <2>2. ctl'[p].busy /\ (ctl[p].busy = TRUE => ctl'[p].busy = ctl[p].busy)
    BY <1>1, <1>6 DEF BusyStill
  <2>3. CacheTimes(p)' /\ UsedNow(p)'
    BY <1>1, <1>5, <2>1, <2>2 DEF CacheTimes, UsedNow, OnlyTied
  <2>4. TimesInv'
    BY <1>1, <1>2, <1>3, <2>3, TurnsPass, OneCacheTimes
  <2>5. ctl'[p].busy = ctl[p].busy
    <3>1. ctl[p].busy = TRUE
      BY <2>1 DEF CtlInv, ControlTyped, Ctl
    <3> QED BY <2>2, <3>1
  <2>6. UNCHANGED <<Recencies, LastJobs, BusStages>>
    <3>1. \A q \in Procs : lines'[q] = lines[q] /\ SeenAlike(ctl[q], ctl'[q])
      BY <1>1, <1>2, <2>1, <2>5 DEF SeenAlike
    <3> QED BY <3>1, NoCacheOrders
  <2> QED BY <2>4, <2>6 DEF Lru!vars
<1>7. CASE ~BusyStill(p)
  <2>1. /\ NoneTied(AfterJob(p))
        /\ \A i \in Sets, w \in Ways :
             Valid(AfterJob(p)[i][w]) /\ AfterJob(p)[i][w].lastUsed = cycle =>
               AfterJob(p)[i][w].tag = ctl[p].job.block /\ Expired(p)
        /\ \A c : Orders(AfterJob(p), c) =
                    IF Expired(p) THEN Lru!Refreshed(p) ELSE Recencies[p]
    BY <1>1, <1>7, AfterJobIs
  <2>2. UsedNow(p)'
    BY <1>1, <1>2, <1>4, <2>1, TurnsPass DEF UsedNow
  <2>3. CacheTimes(p)'
    <3>1. NoneTied(lines'[p]) /\ OnlyTied(lines'[p], ctl'[p].job.block)
      BY <1>2, <2>1 DEF NoneTied, OnlyTied, Untied, TiedBy
    <3>2. ASSUME ctl'[p].job = NoJob PROVE \A i \in Sets, w \in Ways : ~Valid(lines'[p][i][w])
      <4>1. lines'[p] = lines[p]
        BY <1>1, <1>2, <3>2 DEF AfterJob
      <4> QED BY <1>1, <1>5, <3>2, <4>1 DEF CacheTimes
    <3> QED BY <3>1, <3>2 DEF CacheTimes
  <2>4. TimesInv'
    BY <1>1, <1>2, <1>3, <2>2, <2>3, TurnsPass, OneCacheTimes
  <2>5. /\ Recencies' = [Recencies EXCEPT ![p] = Orders(lines'[p], ctl'[p])]
        /\ LastJobs' = [LastJobs EXCEPT ![p] = ctl'[p].job]
        /\ BusStages' = [BusStages EXCEPT ![p] = Stage(ctl'[p])]
        /\ LastJobs[p] = ctl[p].job /\ BusStages[p] = Stage(ctl[p])
    <3>1. \A q \in Procs \ {p} : lines'[q] = lines[q] /\ SeenAlike(ctl[q], ctl'[q])
      BY <1>1, <1>2 DEF SeenAlike
    <3> QED BY <3>1, OneCacheOrders
  <2>6. LastJobs' = LastJobs
    BY <1>1, <2>5 DEF LastJobs
  <2>7. BusStages' = BusStages /\ BusStages[p] = "none"
    BY <1>1, <2>5 DEF BusStages, Stage
  <2>8. Orders(lines'[p], ctl'[p]) = IF Expired(p) THEN Lru!Refreshed(p) ELSE Recencies[p]
    BY <1>2, <2>1
  <2>9. CASE Expired(p)
    <3>1. Lru!Refresh(p)
      BY <2>5, <2>6, <2>7, <2>8, <2>9 DEF Lru!Refresh
    <3> QED BY <2>4, <3>1 DEF Lru!Next
  <2>10. CASE ~Expired(p)
    <3>1. Recencies' = Recencies
      BY <2>5, <2>8, <2>10 DEF Recencies
    <3> QED BY <2>4, <2>6, <2>7, <3>1 DEF Lru!vars
  <2> QED BY <2>9, <2>10
<1> QED BY <1>6, <1>7

(* A cache that takes a job has refreshed its last block, and uses its new one.*)
LEMMA TickHandlesOrders ==
  ASSUME CtlInv, LinesInv, LinesInv', TimesInv, NEW p \in Procs, TickHandles(p)
  PROVE  [Lru!Next]_(Lru!vars) /\ TimesInv'
<1> DEFINE job    == Head(ctl[p].pending)
           b      == job.block
           i0     == SetOf(b)
           new    == AfterJob(p)
           before == IF Expired(p) THEN Lru!Refreshed(p) ELSE Recencies[p]
<1>1. /\ Ticks(p) /\ ~BusyStill(p) /\ Engaged(p)
      /\ ~ctl[p].busy /\ ~ctl[p].serviced /\ ~ctl[p].haveBusRequest
      /\ job \in Job
      /\ \A q \in Procs \ {p} : ctl'[q] = ctl[q]
      /\ ctl'[p].job = job /\ ~ctl'[p].serviced /\ ctl'[p].pending = <<>>
      /\ Drops(p, job) \/ Uses(p, job)
  BY HandlingCache
<1> HIDE DEF job
<1>2. /\ NoneTied(new) /\ \A c : Orders(new, c) = before
  BY <1>1, AfterJobIs
<1>3. SoundCache(new, cycle) /\ cycle \in Nat /\ b \in Nat /\ i0 \in Sets /\ job # NoJob
  <2>1. job.block \in Nat /\ job.op \in Ops
    BY <1>1, SizeAssumption DEF Job
  <2>2. job # NoJob
    BY <2>1 DEF NoJob, Ops
  <2> QED BY <2>1, <2>2, SetOfTyped, AfterJobSound DEF CtlInv, ControlTyped
<1>4. /\ \A q \in Procs \ {p} : lines'[q] = lines[q]
      /\ Drops(p, job) => lines'[p] = new
      /\ Uses(p, job) =>
           lines'[p] = [new EXCEPT ![i0] =
             SetLineState(Touch(new[i0], b, cycle), b,
                          RequestState(job.op, LineState(new[i0], b)))]
  BY <1>1 DEF Drops, Uses, LinesInv
<1>5. /\ Recencies' = [Recencies EXCEPT ![p] = Orders(lines'[p], ctl'[p])]
      /\ LastJobs' = [LastJobs EXCEPT ![p] = job]
      /\ BusStages' = [BusStages EXCEPT ![p] = Stage(ctl'[p])]
      /\ BusStages[p] = Stage(ctl[p])
  <2>1. \A q \in Procs \ {p} : lines'[q] = lines[q] /\ SeenAlike(ctl[q], ctl'[q])
    BY <1>1, <1>4 DEF SeenAlike
  <2> QED BY <1>1, <2>1, OneCacheOrders
<1>6. Stage(ctl'[p]) \in {"none", "waiting"} /\ BusStages[p] = "none"
  BY <1>1, <1>5 DEF Stage
<1> HIDE DEF before
<1>7. ASSUME Orders(lines'[p], ctl'[p]) = IF job.op \in {"R", "W"} THEN Lru!UsedIn(before, b)
                                          ELSE before
      PROVE  [Lru!Next]_(Lru!vars)
  <2>1. before \in {Recencies[p], Lru!Refreshed(p)}
    BY DEF before
  <2>2. Lru!Access(p, job)
    BY <1>5, <1>6, <1>7, <2>1 DEF Lru!Access
  <2> QED BY <1>1, <2>2 DEF Lru!Next
<1>8. ASSUME CacheTimes(p)', ctl'[p].busy \/ ~Serving' PROVE TimesInv'
  <2>1. Serving' => UsedNow(p)'
    BY <1>8 DEF UsedNow
  <2> QED BY <1>1, <1>4, <1>8, <2>1, TurnsPass, OneCacheTimes
<1>9. CASE Drops(p, job)
  <2>1. lines'[p] = new /\ job.op \notin {"R", "W"} /\ ~ctl'[p].busy
    BY <1>4, <1>9 DEF Drops
  <2>2. Orders(lines'[p], ctl'[p]) = before
    BY <1>2, <2>1
  <2>3. CacheTimes(p)'
    BY <1>1, <1>2, <1>3, <2>1 DEF CacheTimes, NoneTied, OnlyTied, Untied, TiedBy
  <2>4. ~Serving'
    <3>1. \A q \in Procs \ {p} : ~Engaged(q)
      BY <1>1 DEF CtlInv, Handshake
    <3> QED BY <1>1, <2>1, <3>1 DEF Serving, Engaged
  <2> QED BY <1>7, <1>8, <2>1, <2>2, <2>3, <2>4
<1>10. CASE Uses(p, job)
  <2> DEFINE set   == new[i0]
             s     == RequestState(job.op, LineState(set, b))
             after == SetLineState(Touch(set, b, cycle), b, s)
  <2>1. /\ lines'[p] = [new EXCEPT ![i0] = after]
        /\ job.op \in {"R", "W"} /\ ctl'[p].busy = TRUE
    BY <1>4, <1>10 DEF Uses
  <2>2. SoundSet(set, i0, cycle) /\ Untied(set)
    BY <1>2, <1>3 DEF SoundCache, NoneTied
  <2>3. s \in ProtocolStates /\ (HasLine(set, b) => s # "invalid")
    <3>1. LineState(set, b) \in ProtocolStates
      BY <2>2, LineStateTyped DEF SoundSet
    <3>2. HasLine(set, b) => LineState(set, b) # "invalid"
      BY <2>2, LookupFindsValid DEF LineState, SoundSet, Valid
    <3> DEFINE t == LineState(set, b)
    <3> HIDE DEF t
    <3>3. RequestState(job.op, t) \in ProtocolStates
      <4>1. Decision(job.op, t) \in Commands \cup {"hit"}
        BY <2>1 DEF Decision, Commands
      <4> QED BY <1>1, <3>1, <4>1, TablesTyped DEF t, Job
    <3>4. t # "invalid" => RequestState(job.op, t) # "invalid"
      BY DEF RequestState
    <3> QED BY <3>2, <3>3, <3>4 DEF t
  <2> HIDE DEF s, set
  <2>4. /\ TiedBy(after, b)
        /\ \A j, late : SetOrder(after, b, ctl'[p].busy) = Lru!Used(SetOrder(set, j, late), b)
    <3> DEFINE busy == ctl'[p].busy
    <3>1. IsTrue(busy)
      BY <2>1 DEF IsTrue
    <3> HIDE DEF busy, i0, b
    <3>2. TiedBy(after, b) /\ \A j, late : SetOrder(after, b, busy) = Lru!Used(SetOrder(set, j, late), b)
      BY <1>3, <2>2, <2>3, <3>1, HandledSet
    <3> QED BY <3>2 DEF busy
  <2> HIDE DEF after
  <2>5. \A i \in Sets : lines'[p][i] = IF i = i0 THEN after ELSE new[i]
    BY <1>3, <2>1 DEF SoundCache
  <2> HIDE DEF i0, new
  <2>6. CacheTimes(p)'
    <3>1. OnlyTied(lines'[p], b)
      BY <1>2, <2>4, <2>5 DEF OnlyTied, NoneTied, Untied, TiedBy
    <3> QED BY <1>1, <1>3, <2>1, <3>1 DEF CacheTimes
  <2>7. Orders(lines'[p], ctl'[p]) = Lru!UsedIn(before, b)
    <3> DEFINE j    == ctl'[p].job.block
               late == ctl'[p].busy
    <3>1. \A i \in Sets : before[i] = SetOrder(new[i], j, late)
      <4>1. before = Orders(new, ctl'[p])
        BY <1>2
      <4> QED BY <4>1 DEF Orders
    <3>2. before = [i \in Sets |-> before[i]]
      <4>1. before = Orders(new, ctl'[p])
        BY <1>2
      <4> QED BY <4>1 DEF Orders
    <3>3. j = b
      BY <1>1
    <3> HIDE DEF j, late
    <3>4. SetOrder(after, j, late) = Lru!Used(before[i0], b)
      BY <1>3, <2>4, <3>1, <3>3 DEF set, late
    <3>5. \A i \in Sets : SetOrder(lines'[p][i], j, late) =
                            IF i = i0 THEN Lru!Used(before[i0], b) ELSE before[i]
      BY <2>5, <3>1, <3>4
    <3>6. Orders(lines'[p], ctl'[p]) = [i \in Sets |-> SetOrder(lines'[p][i], j, late)]
      BY DEF Orders, j, late
    <3>7. Lru!UsedIn(before, b) = [before EXCEPT ![i0] = Lru!Used(before[i0], b)]
      BY DEF Lru!UsedIn, i0
    <3> QED BY <3>2, <3>5, <3>6, <3>7
  <2> QED BY <1>7, <1>8, <2>1, <2>6, <2>7
<1> QED BY <1>1, <1>9, <1>10

-------------------------------------------------------------------------------
(* The steps of the bus manager                                                *)

(* The end of a transaction, seen from its requester.                          *)
LEMMA FinishedCache ==
  ASSUME CtlInv, RequestInv, BusFinish, NEW p, p = bus.current
  PROVE  /\ p \in Procs /\ pc = "bus" /\ pc' = "bus" /\ cycle' = cycle /\ turn' = turn
         /\ ctl[p].serviced /\ Engaged(p) /\ ctl[p].job \in Job
         /\ \A q \in Procs \ {p} : ctl'[q] = ctl[q]
         /\ ctl'[p].job = ctl[p].job /\ ~ctl'[p].serviced
         /\ ctl'[p].pending = <<>>
         /\ ctl'[p].busy <=> Reissues(ctl[p].job.op, bus.isShared)
<1> DEFINE op     == ctl[p].job.op
           b      == ctl[p].job.block
           shared == bus.isShared
           again  == Reissues(op, shared)
           r      == IF again THEN [cmd |-> "BusRdX", block |-> b, cost |-> CacheCost]
                     ELSE ctl[p].req
           k      == IF again THEN CacheCost ELSE ctl[p].cost
           d      == [ctl[p] EXCEPT !.haveBusRequest = again, !.busy = again, !.serviced = FALSE,
                                    !.start = cycle, !.cost = k, !.req = r]
<1>1. /\ pc = "bus" /\ pc' = "bus" /\ cycle' = cycle /\ turn' = turn
      /\ bus.inUse
  BY DEF BusFinish
<1>2. p \in Procs /\ ctl \in [Procs -> Ctl] /\ ctl[p].haveBusRequest /\ ctl[p].serviced
      /\ ctl[p].busy /\ ctl[p].pending = <<>>
  BY <1>1, BusTurn DEF CtlInv, ControlTyped
<1>3. ctl' = [ctl EXCEPT ![p] = d]
  BY Zenon DEF BusFinish
<1>4. again \in BOOLEAN
  BY DEF Reissues
<1> HIDE DEF again, r, k
<1>5. /\ d.busy = again /\ ~d.serviced /\ d.job = ctl[p].job /\ d.pending = ctl[p].pending
  BY <1>2 DEF Ctl
<1> HIDE DEF d
<1>6. ctl'[p] = d /\ \A q \in Procs \ {p} : ctl'[q] = ctl[q]
  BY <1>2, <1>3
<1>7. ctl[p].job \in Job
  BY <1>2 DEF RequestInv
<1>8. ctl'[p].busy <=> again
  BY <1>4, <1>5, <1>6
<1> QED BY <1>1, <1>2, <1>5, <1>6, <1>7, <1>8 DEF Engaged, again

(* A set is filled with a block, or only given room for it.                    *)
FilledWith(old, new, b) ==
  \A j, late, j2, late2 :
    SetOrder(new, j2, late2) = Lru!Filled(SetOrder(old, j, late), b)

GivenRoomFor(old, new, b) ==
  \A j, late, j2, late2 :
    SetOrder(new, j2, late2) = Lru!RoomFor(SetOrder(old, j, late), b)

(* The set of the requester is filled, or only given room for the block, ...   *)
LEMMA FinishedSet ==
  ASSUME CtlInv, LinesInv, LinesInv', RequestInv, TimesInv, BusFinish, NEW p, p = bus.current,
         NEW b, b = ctl[p].job.block, NEW i0, i0 = SetOf(b), NEW new, new = lines'[p][i0]
  PROVE  /\ i0 \in Sets
         /\ lines'[p] \in [Sets -> [Ways -> Line]]
         /\ \A i \in Sets \ {i0} : lines'[p][i] = lines[p][i]
         /\ \A q \in Procs \ {p} : lines'[q] = lines[q]
         /\ Untied(new)
         /\ \/ FilledWith(lines[p][i0], new, b)
            \/ Protocol = "MESI" /\ GivenRoomFor(lines[p][i0], new, b)
<1> DEFINE old == lines[p][i0]
           set == Ready(old, b, cycle)
           k   == FirstWay(set, b)
           op  == ctl[p].job.op
           s   == FillState(op, bus.isShared, set[k].state)
           end == [set EXCEPT ![k].state = s, ![k].lastUsed = cycle]
<1>1. /\ p \in Procs /\ pc = "bus" /\ cycle' = cycle /\ ctl[p].serviced /\ ctl[p].job \in Job
  BY FinishedCache
<1>2. b \in Blocks /\ b \in Nat /\ i0 \in Sets /\ cycle \in Nat
  BY <1>1, SizeAssumption, SetOfInSets DEF Job, CtlInv, ControlTyped
<1>3. /\ SoundCache(lines[p], cycle) /\ SoundSet(old, i0, cycle)
      /\ Older(lines[p], cycle) /\ OnlyTied(lines[p], b)
  BY <1>1, <1>2 DEF LinesInv, SoundCache, TimesInv, Aged, CacheTimes
<1>4. lines' = [lines EXCEPT ![p][i0] = end]
  BY NeverFull DEF BusFinish, Ready
<1> HIDE DEF end
<1>5. /\ new = end /\ lines'[p] \in [Sets -> [Ways -> Line]]
      /\ \A i \in Sets \ {i0} : lines'[p][i] = lines[p][i]
      /\ \A q \in Procs \ {p} : lines'[q] = lines[q]
  BY <1>1, <1>2, <1>4 DEF LinesInv
<1>6. SoundSet(new, i0, cycle)
  BY <1>1, <1>2 DEF LinesInv, SoundCache
<1>7. set[k].state = LineState(old, b)
  <2> HIDE DEF old, set
  <2>1. set = Ready(old, b, cycle)
    BY DEF set
  <2> QED BY <1>2, <1>3, <2>1, ReadyStates
<1>8. /\ HasLine(old, b) => s # "invalid"
      /\ s = "invalid" => Protocol = "MESI"
  <2>1. HasLine(old, b) => LineState(old, b) # "invalid"
    BY <1>3, LookupFindsValid DEF LineState, SoundSet, Valid
  <2>2. LineState(old, b) \in ProtocolStates
    BY <1>3, LineStateTyped DEF SoundSet
  <2> DEFINE t == LineState(old, b)
  <2> HIDE DEF t, op
  <2>3. /\ t # "invalid" => FillState(op, bus.isShared, t) # "invalid"
        /\ FillState(op, bus.isShared, t) = "invalid" => Protocol = "MESI"
    BY ProtocolAssumption DEF FillState, WriteFill, ReadFill
  <2> QED BY <1>7, <2>1, <2>3 DEF t
<1> HIDE DEF s
<1>9. /\ Changes(old, new, k)
      /\ new[k].tag = b /\ new[k].lastUsed = cycle /\ new[k].state = s
      /\ k = IF HasLine(old, b) THEN FirstWay(old, b) ELSE GetLRULine(old)
  <2>1. set = Ready(old, b, cycle) /\ k = FirstWay(set, b)
    OBVIOUS
  <2>2. new = [set EXCEPT ![k].state = s, ![k].lastUsed = cycle]
    BY <1>5 DEF end
  <2> HIDE DEF old, set
  <2>5. set \in [Ways -> Line] /\ k \in Ways
    <3>1. set \in [Ways -> Line] /\ \E w \in Ways : set[w].tag = b
      BY <1>2, <1>3, <2>1, ReadyStates
    <3> QED BY <3>1, FirstWayFound
  <2> HIDE DEF k
  <2>6. /\ \A w \in Ways \ {k} : new[w] = set[w]
        /\ new[k].tag = set[k].tag /\ new[k].state = s /\ new[k].lastUsed = cycle
    BY <2>2, <2>5 DEF Line
  <2>3. SoundSet(old, SetOf(b), cycle) /\ SoundSet(new, SetOf(b), cycle)
    BY <1>3, <1>6
  <2>4. b \in Nat /\ cycle \in Nat
    BY <1>2
  <2> QED BY ONLY <2>1, <2>3, <2>4, <2>6, FilledWay
<1>10. (\A w \in Ways : old[w].lastUsed < cycle) /\ TiedBy(old, b)
  BY <1>2, <1>3 DEF Older, OnlyTied
<1> HIDE DEF old, k
<1>11. Valid(new[k]) <=> s # "invalid"
  BY <1>9 DEF Valid
<1>12. /\ Untied(new)
       /\ \A j, late, j2, late2 :
            SetOrder(new, j2, late2) =
              IF Valid(new[k]) THEN Lru!Filled(SetOrder(old, j, late), b)
              ELSE Lru!RoomFor(SetOrder(old, j, late), b)
  <2>1. HasLine(old, b) => Valid(new[k])
    BY <1>8, <1>11
  <2>2. cycle \in Nat /\ SoundSet(old, i0, cycle)
    BY <1>2, <1>3
  <2> QED BY ONLY <1>9, <1>10, <2>1, <2>2, FilledSet
<1>13. CASE Valid(new[k])
  <2>1. FilledWith(old, new, b)
    BY <1>12, <1>13 DEF FilledWith
  <2> QED BY <1>2, <1>5, <1>12, <2>1 DEF old
<1>14. CASE ~Valid(new[k])
  <2>1. Protocol = "MESI"
    BY <1>8, <1>11, <1>14
  <2>2. GivenRoomFor(old, new, b)
    BY <1>12, <1>14 DEF GivenRoomFor
  <2> QED BY <1>2, <1>5, <1>12, <2>1, <2>2 DEF old
<1> QED BY <1>13, <1>14

(* ... its other sets keep their orders.                                       *)
LEMMA BusFinishOrders ==
  ASSUME CtlInv, LinesInv, LinesInv', RequestInv, TimesInv, BusFinish
  PROVE  [Lru!Next]_(Lru!vars) /\ TimesInv'
<1> SUFFICES ASSUME NEW p, p = bus.current, NEW b, b = ctl[p].job.block,
                    NEW i0, i0 = SetOf(b), NEW new, new = lines'[p][i0]
             PROVE  [Lru!Next]_(Lru!vars) /\ TimesInv'
  OBVIOUS
<1> DEFINE j    == ctl[p].job.block
           late == ctl[p].busy
<1>1. /\ p \in Procs /\ pc = "bus" /\ pc' = "bus" /\ cycle' = cycle /\ turn' = turn
      /\ ctl[p].serviced /\ Engaged(p) /\ ctl[p].job \in Job
      /\ \A q \in Procs \ {p} : ctl'[q] = ctl[q]
      /\ ctl'[p].job = ctl[p].job /\ ~ctl'[p].serviced /\ ctl'[p].pending = <<>>
      /\ ctl'[p].busy <=> Reissues(ctl[p].job.op, bus.isShared)
  BY FinishedCache
<1>2. /\ i0 \in Sets /\ lines'[p] \in [Sets -> [Ways -> Line]]
      /\ \A i \in Sets \ {i0} : lines'[p][i] = lines[p][i]
      /\ \A q \in Procs \ {p} : lines'[q] = lines[q]
      /\ Untied(new)
      /\ \/ FilledWith(lines[p][i0], new, b)
         \/ Protocol = "MESI" /\ GivenRoomFor(lines[p][i0], new, b)
  BY FinishedSet
<1>3. \A i \in Sets \ {i0} : Proper(lines[p][i]) /\ Untied(lines[p][i])
  <2>1. SoundCache(lines[p], cycle) /\ OnlyTied(lines[p], b)
    BY <1>1 DEF LinesInv, TimesInv, CacheTimes
  <2> QED BY <2>1, OtherSets
<1>4. TimesInv'
  <2>1. NoneTied(lines'[p])
    BY <1>2, <1>3 DEF NoneTied
  <2>2. CacheTimes(p)'
    <3>1. ctl'[p].job # NoJob
      BY <1>1 DEF NoJob, Job, Ops
    <3>2. OnlyTied(lines'[p], ctl'[p].job.block)
      BY <2>1 DEF NoneTied, OnlyTied, Untied, TiedBy
    <3> QED BY <2>1, <3>1, <3>2 DEF CacheTimes
  <2>3. Serving' => UsedNow(p)'
    <3>1. \A q \in Procs \ {p} : ~Engaged(q)
      BY <1>1 DEF CtlInv, Handshake
    <3>2. Serving' => ctl'[p].busy
      BY <1>1, <3>1 DEF Serving, Engaged
    <3>3. ctl'[p].busy => UsedNow(p)'
      BY DEF UsedNow
    <3> QED BY <3>2, <3>3
  <2>4. \A q \in Procs \ {p} : lines'[q] = lines[q] /\ ctl'[q] = ctl[q]
    BY <1>1, <1>2
  <2>5. /\ pc \in {"caches", "bus"} /\ pc' \in {"caches", "bus"}
        /\ ~(pc' = "caches" /\ turn' <= p) /\ (Engaged(p)' => Engaged(p))
        /\ \A q \in Procs \ {p} : pc' = "caches" /\ turn' <= q => pc = "caches" /\ turn <= q
    BY <1>1
  <2> QED BY <1>1, <2>2, <2>3, <2>4, <2>5, OneCacheTimes
<1>5. /\ Recencies' = [Recencies EXCEPT ![p] = Orders(lines'[p], ctl'[p])]
      /\ LastJobs' = LastJobs
      /\ BusStages' = [BusStages EXCEPT ![p] = Stage(ctl'[p])]
      /\ BusStages[p] = "served" /\ Stage(ctl'[p]) \in {"none", "waiting"}
      /\ Recencies[p] = Orders(lines[p], ctl[p]) /\ LastJobs[p].block = b
  <2>1. \A q \in Procs \ {p} : lines'[q] = lines[q] /\ SeenAlike(ctl[q], ctl'[q])
    BY <1>1, <1>2 DEF SeenAlike
  <2>2. /\ Recencies' = [Recencies EXCEPT ![p] = Orders(lines'[p], ctl'[p])]
        /\ LastJobs' = [LastJobs EXCEPT ![p] = ctl'[p].job]
        /\ BusStages' = [BusStages EXCEPT ![p] = Stage(ctl'[p])]
        /\ Recencies[p] = Orders(lines[p], ctl[p])
        /\ LastJobs[p] = ctl[p].job /\ BusStages[p] = Stage(ctl[p])
    BY <1>1, <2>1, OneCacheOrders
  <2>3. LastJobs' = LastJobs
    BY <1>1, <2>2 DEF LastJobs
  <2> QED BY <1>1, <2>2, <2>3 DEF Stage
<1> DEFINE o == Recencies[p]
<1>6. /\ \A i \in Sets : o[i] = SetOrder(lines[p][i], j, late)
      /\ o = [i \in Sets |-> o[i]]
  <2>1. o = Orders(lines[p], ctl[p])
    BY <1>5
  <2> HIDE DEF o
  <2> QED BY <2>1 DEF Orders
<1>7. \A i \in Sets \ {i0} : Orders(lines'[p], ctl'[p])[i] = o[i]
  <2> SUFFICES ASSUME NEW i \in Sets \ {i0} PROVE Orders(lines'[p], ctl'[p])[i] = o[i]
    OBVIOUS
  <2>1. Orders(lines'[p], ctl'[p])[i] = SetOrder(lines[p][i], ctl'[p].job.block, ctl'[p].busy)
    BY <1>2 DEF Orders
  <2>2. SetOrder(lines[p][i], ctl'[p].job.block, ctl'[p].busy) = SetOrder(lines[p][i], j, late)
    BY <1>3, UntiedOrder
  <2> QED BY <1>6, <2>1, <2>2
<1>8. Orders(lines'[p], ctl'[p])[i0] = SetOrder(new, ctl'[p].job.block, ctl'[p].busy)
  BY <1>2 DEF Orders
<1> DEFINE result == Orders(lines'[p], ctl'[p])
<1>9. \A x : result[i0] = x => result = [o EXCEPT ![i0] = x]
  <2>1. result = [i \in Sets |-> result[i]]
    BY DEF Orders
  <2> HIDE DEF result, o
  <2> QED BY <1>2, <1>6, <1>7, <2>1 DEF result
<1> HIDE DEF result, o
<1>10. \/ result[i0] = Lru!Filled(o[i0], b)
       \/ Protocol = "MESI" /\ result[i0] = Lru!RoomFor(o[i0], b)
  <2>1. o[i0] = SetOrder(lines[p][i0], j, late)
    BY <1>2, <1>6
  <2>2. result[i0] = SetOrder(new, ctl'[p].job.block, ctl'[p].busy)
    BY <1>8 DEF result
  <2> DEFINE old == lines[p][i0]
             j2 == ctl'[p].job.block
             late2 == ctl'[p].busy
  <2>3. o[i0] = SetOrder(old, j, late) /\ result[i0] = SetOrder(new, j2, late2)
    BY <2>1, <2>2
  <2>4. FilledWith(old, new, b) \/ (Protocol = "MESI" /\ GivenRoomFor(old, new, b))
    BY <1>2
  <2> HIDE DEF j, late, old, j2, late2
  <2>5. FilledWith(old, new, b) => result[i0] = Lru!Filled(o[i0], b)
    BY <2>3 DEF FilledWith
  <2>6. GivenRoomFor(old, new, b) => result[i0] = Lru!RoomFor(o[i0], b)
    BY <2>3 DEF GivenRoomFor
  <2> QED BY <2>4, <2>5, <2>6
<1>11. Lru!Fill(p)
  <2>1. \A x : result = [o EXCEPT ![i0] = x] =>
                 Recencies' = [Recencies EXCEPT ![p][i0] = x]
    BY <1>5 DEF result, o
  <2>2. \/ Recencies' = [Recencies EXCEPT ![p][i0] = Lru!Filled(o[i0], b)]
        \/ Protocol = "MESI" /\ Recencies' = [Recencies EXCEPT ![p][i0] = Lru!RoomFor(o[i0], b)]
    BY <1>9, <1>10, <2>1
  <2>3. \/ Recencies' = [Recencies EXCEPT ![p][SetOf(b)] = Lru!Filled(@, b)]
        \/ /\ ~(Protocol # "MESI")
           /\ Recencies' = [Recencies EXCEPT ![p][SetOf(b)] = Lru!RoomFor(@, b)]
    BY <2>2 DEF o
  <2> QED BY <1>5, <2>3 DEF Lru!Fill
<1> QED BY <1>1, <1>4, <1>11 DEF Lru!Next

(* A snooper gives up the block, or uses it.                                   *)
GivesUp(q, b, s) == HasLine(lines[q][SetOf(b)], b) /\ s = "invalid"

GivenUp(old, b) == [old EXCEPT ![SetOf(b)] = Lru!Without(@, b)]

(* What a broadcast makes of a snooping cache.                                 *)
LEMMA SnoopedCache ==
  ASSUME CtlInv, LinesInv, TimesInv, Serving, NEW q \in Procs, ~ctl[q].busy,
         NEW b \in Blocks, NEW i0, i0 = SetOf(b), NEW cmd, NEW s,
         s = SnoopState(cmd, LineState(lines[q][i0], b)), NEW sets,
         \A i \in Sets : sets[i] = IF i = i0 THEN SetLineState(Touch(lines[q][i0], b, cycle), b, s)
                                  ELSE lines[q][i]
  PROVE  /\ ctl[q].job = NoJob => \A i \in Sets, w \in Ways : ~Valid(sets[i][w])
         /\ OnlyTied(sets, ctl[q].job.block)
         /\ Expired(q) \/ NoneTied(sets)
         /\ GivesUp(q, b, s) => Orders(sets, ctl[q]) = GivenUp(Recencies[q], b)
         /\ ~GivesUp(q, b, s) => Orders(sets, ctl[q]) = Lru!UsedIn(Recencies[q], b)
<1> DEFINE old  == lines[q][i0]
           new  == SetLineState(Touch(old, b, cycle), b, s)
           j    == ctl[q].job.block
           busy == ctl[q].busy
           now  == cycle
<1>1. /\ i0 \in Sets /\ now \in Nat /\ b \in Nat /\ busy \in BOOLEAN
      /\ SoundCache(lines[q], cycle) /\ SoundSet(old, i0, now)
  BY SetOfInSets, SizeAssumption DEF LinesInv, SoundCache, CtlInv, ControlTyped, Ctl
<1>2. CacheTimes(q) /\ UsedNow(q)
  BY DEF TimesInv
<1>3. s \in ProtocolStates
  BY <1>1, LineStateTyped, TablesTyped DEF SoundSet
<1>4. TiedBy(old, j) /\ \A w \in Ways : Valid(old[w]) /\ old[w].lastUsed = now => old[w].tag = j
  BY <1>1, <1>2 DEF CacheTimes, OnlyTied, UsedNow
<1>5. /\ TiedBy(new, j)
      /\ SetOrder(new, j, busy) =
           IF HasLine(old, b) /\ s = "invalid" THEN Lru!Without(SetOrder(old, j, busy), b)
           ELSE Lru!Used(SetOrder(old, j, busy), b)
      /\ (Untied(old) /\ \A w \in Ways : Valid(old[w]) => old[w].lastUsed # now) => Untied(new)
  <2> DEFINE after == new
  <2>1. after = SetLineState(Touch(old, b, now), b, s)
    OBVIOUS
  <2> HIDE DEF after, old, j, busy, now
  <2>2. ~busy
    BY DEF busy
  <2>3. /\ TiedBy(after, j)
        /\ SetOrder(after, j, busy) =
             IF HasLine(old, b) /\ s = "invalid" THEN Lru!Without(SetOrder(old, j, busy), b)
             ELSE Lru!Used(SetOrder(old, j, busy), b)
        /\ (Untied(old) /\ \A w \in Ways : Valid(old[w]) => old[w].lastUsed # now) => Untied(after)
    BY ONLY <1>1, <1>3, <1>4, <2>1, <2>2, SnoopedSet
  <2> QED BY <2>3 DEF after, now
<1>7. \A i \in Sets : sets[i] = IF i = i0 THEN new ELSE lines[q][i]
  OBVIOUS
<1> HIDE DEF new
<1>8. ASSUME ctl[q].job = NoJob PROVE \A i \in Sets, w \in Ways : ~Valid(sets[i][w])
  <2>1. \A i \in Sets, w \in Ways : ~Valid(lines[q][i][w])
    BY <1>2, <1>8 DEF CacheTimes
  <2>2. ~HasLine(old, b)
    BY <1>1, <2>1 DEF HasLine
  <2>3. new = old
    BY <2>2, NotTouched DEF new
  <2> QED BY <1>7, <2>1, <2>3
<1>9. OnlyTied(sets, j)
  BY <1>2, <1>5, <1>7 DEF OnlyTied, CacheTimes
<1>10. ASSUME ~Expired(q) PROVE NoneTied(sets)
  <2>1. NoneTied(lines[q])
    BY <1>2, <1>10 DEF CacheTimes
  <2>2. \A w \in Ways : Valid(old[w]) => old[w].lastUsed # now
    BY <1>1, <1>2, <1>10 DEF UsedNow
  <2>3. Untied(new)
    BY <1>1, <1>5, <2>1, <2>2 DEF NoneTied
  <2> QED BY <1>7, <2>1, <2>3 DEF NoneTied
<1>11. /\ GivesUp(q, b, s) => Orders(sets, ctl[q]) = GivenUp(Recencies[q], b)
       /\ ~GivesUp(q, b, s) => Orders(sets, ctl[q]) = Lru!UsedIn(Recencies[q], b)
  <2> DEFINE o == Recencies[q]
             result == Orders(sets, ctl[q])
  <2>1. o = Orders(lines[q], ctl[q])
    BY RecenciesAre
  <2>2. o = [i \in Sets |-> o[i]] /\ \A i \in Sets : o[i] = SetOrder(lines[q][i], j, busy)
    BY <2>1 DEF Orders
  <2>3. /\ result = [i \in Sets |-> result[i]]
        /\ \A i \in Sets : result[i] = SetOrder(sets[i], j, busy)
    BY DEF Orders
  <2> HIDE DEF o, result, old, j, busy, now
  <2>4. o[i0] = SetOrder(old, j, busy)
    BY <1>1, <2>2 DEF old
  <2>5. \A x : result[i0] = x => result = [o EXCEPT ![i0] = x]
    BY <1>1, <1>7, <2>2, <2>3
  <2>6. result[i0] = SetOrder(new, j, busy)
    BY <1>1, <1>7, <2>3
  <2>9. GivesUp(q, b, s) <=> HasLine(old, b) /\ s = "invalid"
    BY DEF GivesUp, old
  <2>7. CASE GivesUp(q, b, s)
    <3>1. result[i0] = Lru!Without(o[i0], b)
      BY <1>5, <2>4, <2>6, <2>7, <2>9
    <3> QED BY <2>5, <2>7, <3>1 DEF o, result, GivenUp
  <2>8. CASE ~GivesUp(q, b, s)
    <3>1. result[i0] = Lru!Used(o[i0], b)
      BY <1>5, <2>4, <2>6, <2>8, <2>9
    <3> QED BY <2>5, <2>8, <3>1 DEF o, result, Lru!UsedIn
  <2> QED BY <2>7, <2>8
<1> QED BY <1>8, <1>9, <1>10, <1>11

(* What it makes of the control fields.                                        *)
LEMMA GrantedCache ==
  ASSUME NarrowTags, CtlInv, LinesInv, RequestInv, NEW p \in Procs, BusGrant(p)
  PROVE  /\ pc = "bus" /\ pc' = "loop" /\ cycle' = cycle /\ turn' = turn
         /\ ctl[p].busy /\ ~ctl[p].serviced /\ ctl[p].haveBusRequest
         /\ \A q \in Procs \ {p} : ctl'[q] = ctl[q] /\ ~ctl[q].busy /\ ~ctl[q].serviced
         /\ ctl'[p].job = ctl[p].job /\ ctl'[p].busy = ctl[p].busy /\ ctl'[p].serviced
         /\ ctl[p].job \in Job /\ ctl[p].req.block = ctl[p].job.block
         /\ lines'[p] = lines[p]
         /\ \A q \in Procs \ {p} :
              lines'[q] = [lines[q] EXCEPT ![SetOf(ctl[p].job.block)] =
                SetLineState(Touch(@, ctl[p].job.block, cycle), ctl[p].job.block,
                  SnoopState(ctl[p].req.cmd,
                    LineState(lines[q][SetOf(ctl[p].job.block)], ctl[p].job.block)))]
<1>1. /\ pc = "bus" /\ ~bus.inUse /\ ctl[p].haveBusRequest /\ pc' = "loop"
      /\ cycle' = cycle /\ turn' = turn /\ ctl \in [Procs -> Ctl]
  BY DEF BusGrant, Requesters, CtlInv, ControlTyped
<1>2. /\ ctl[p].busy /\ ~ctl[p].serviced
      /\ \A q \in Procs \ {p} : ~ctl[q].busy /\ ~ctl[q].serviced
  BY <1>1, BusTurn
<1>3. ctl[p].job \in Job /\ ctl[p].req.block = ctl[p].job.block
  BY <1>1 DEF RequestInv, CtlInv, Handshake
<1>4. WireTag(ctl[p].job.block) = ctl[p].job.block
  BY <1>3 DEF Job, NarrowTags
<1>5. lines' = [q \in Procs |->
        IF q = p THEN lines[p]
        ELSE [lines[q] EXCEPT ![SetOf(ctl[p].job.block)] =
               SetLineState(Touch(@, ctl[p].job.block, cycle), ctl[p].job.block,
                 SnoopState(ctl[p].req.cmd,
                   LineState(lines[q][SetOf(ctl[p].job.block)], ctl[p].job.block)))]]
  BY <1>3, <1>4 DEF BusGrant, Held
<1>6. PICK k : ctl' = [ctl EXCEPT ![p] =
                         [ctl[p] EXCEPT !.serviced = TRUE, !.start = cycle, !.cost = k]]
  BY DEF BusGrant
<1> DEFINE d == [ctl[p] EXCEPT !.serviced = TRUE, !.start = cycle, !.cost = k]
<1>7. d.job = ctl[p].job /\ d.busy = ctl[p].busy /\ d.serviced
  BY <1>1 DEF Ctl
<1>8. ctl'[p] = d /\ \A q \in Procs \ {p} : ctl'[q] = ctl[q]
  BY <1>1, <1>6
<1> HIDE DEF d
<1> QED BY <1>1, <1>2, <1>3, <1>5, <1>7, <1>8

(* The broadcast: the other caches use the block, or give it up.               *)
LEMMA BusGrantOrders ==
  ASSUME NarrowTags, CtlInv, LinesInv, LinesInv', RequestInv, TimesInv,
         NEW p \in Procs, BusGrant(p)
  PROVE  [Lru!Next]_(Lru!vars) /\ TimesInv'
<1> SUFFICES ASSUME NEW b, b = ctl[p].job.block, NEW i0, i0 = SetOf(b), NEW cmd, cmd = ctl[p].req.cmd
             PROVE  [Lru!Next]_(Lru!vars) /\ TimesInv'
  OBVIOUS
<1> DEFINE S(q) == SnoopState(cmd, LineState(lines[q][i0], b))
<1>1. /\ pc = "bus" /\ pc' = "loop" /\ cycle' = cycle
      /\ ctl[p].busy /\ ~ctl[p].serviced /\ ctl[p].haveBusRequest
      /\ \A q \in Procs \ {p} : ctl'[q] = ctl[q] /\ ~ctl[q].busy /\ ~ctl[q].serviced
      /\ ctl'[p].job = ctl[p].job /\ ctl'[p].busy = ctl[p].busy /\ ctl'[p].serviced
      /\ ctl[p].job \in Job
      /\ lines'[p] = lines[p]
      /\ \A q \in Procs \ {p} :
           lines'[q] = [lines[q] EXCEPT ![i0] = SetLineState(Touch(@, b, cycle), b, S(q))]
  BY GrantedCache
<1>2. Serving /\ b \in Blocks
  BY <1>1 DEF Serving, Engaged, Job
<1>3. ASSUME NEW q \in Procs \ {p}
      PROVE  /\ CacheTimes(q)'
             /\ GivesUp(q, b, S(q)) => Orders(lines'[q], ctl'[q]) = GivenUp(Recencies[q], b)
             /\ ~GivesUp(q, b, S(q)) => Orders(lines'[q], ctl'[q]) = Lru!UsedIn(Recencies[q], b)
  <2> DEFINE sets == lines'[q]
             s    == S(q)
  <2>1. ctl'[q] = ctl[q] /\ ~ctl[q].busy
    BY <1>1
  <2>2. \A i \in Sets : sets[i] = IF i = i0 THEN SetLineState(Touch(lines[q][i0], b, cycle), b, s)
                                 ELSE lines[q][i]
    BY <1>1 DEF LinesInv, SoundCache
  <2>3. s = SnoopState(cmd, LineState(lines[q][i0], b))
    OBVIOUS
  <2> HIDE DEF sets, s
  <2>4. /\ ctl[q].job = NoJob => \A i \in Sets, w \in Ways : ~Valid(sets[i][w])
        /\ OnlyTied(sets, ctl[q].job.block)
        /\ Expired(q) \/ NoneTied(sets)
        /\ GivesUp(q, b, s) => Orders(sets, ctl[q]) = GivenUp(Recencies[q], b)
        /\ ~GivesUp(q, b, s) => Orders(sets, ctl[q]) = Lru!UsedIn(Recencies[q], b)
    <3>1. q \in Procs /\ ~ctl[q].busy /\ b \in Blocks /\ i0 = SetOf(b)
      BY <1>2, <2>1
    <3> QED BY ONLY CtlInv, LinesInv, TimesInv, <1>2, <2>2, <2>3, <3>1, SnoopedCache
  <2>5. Expired(q)' <=> Expired(q)
    BY <1>1, <2>1 DEF Expired
  <2>6. CacheTimes(q)'
    BY <2>1, <2>4, <2>5 DEF CacheTimes, sets
  <2>7. /\ GivesUp(q, b, S(q)) => Orders(lines'[q], ctl'[q]) = GivenUp(Recencies[q], b)
        /\ ~GivesUp(q, b, S(q)) => Orders(lines'[q], ctl'[q]) = Lru!UsedIn(Recencies[q], b)
    BY <2>1, <2>4 DEF sets, s
  <2> QED BY <2>6, <2>7
<1> HIDE DEF S
<1>4. CacheTimes(p)'
  BY <1>1 DEF TimesInv, CacheTimes
<1>5. TimesInv'
  <2>1. ~Serving' /\ Aged'
    BY <1>1 DEF Serving, Aged
  <2>2. \A q \in Procs : CacheTimes(q)'
    BY <1>3, <1>4
  <2> QED BY <2>1, <2>2 DEF TimesInv
<1>6. Recencies' = [q \in Procs |->
        IF q = p THEN Recencies[q]
        ELSE IF GivesUp(q, b, S(q)) THEN GivenUp(Recencies[q], b)
        ELSE Lru!UsedIn(Recencies[q], b)]
  <2>1. Recencies' = [q \in Procs |-> Orders(lines'[q], ctl'[q])]
    BY RecenciesAre
  <2>2. Orders(lines'[p], ctl'[p]) = Recencies[p]
    <3>1. Recencies[p] = Orders(lines[p], ctl[p])
      BY RecenciesAre
    <3> QED BY <1>1, <3>1 DEF Orders
  <2> QED BY <1>3, <2>1, <2>2
<1> DEFINE taken == {q \in Procs \ {p} : GivesUp(q, b, S(q))}
<1>7. Recencies' = [q \in Procs |->
        IF q = p THEN Recencies[q]
        ELSE IF q \in taken THEN GivenUp(Recencies[q], b)
        ELSE Lru!UsedIn(Recencies[q], b)]
  <2>1. \A q \in Procs : q # p => (q \in taken <=> GivesUp(q, b, S(q)))
    OBVIOUS
  <2> HIDE DEF taken
  <2> QED BY <1>6, <2>1
<1>8. taken \in SUBSET (Procs \ {p})
  OBVIOUS
<1>9. LastJobs' = LastJobs /\ LastJobs[p].block = b
  <2>1. \A q \in Procs : ctl'[q].job = ctl[q].job
    BY <1>1
  <2> QED BY <2>1 DEF LastJobs
<1>10. BusStages[p] = "waiting" /\ BusStages' = [BusStages EXCEPT ![p] = "served"]
  BY <1>1 DEF BusStages, Stage
<1> HIDE DEF taken
<1>11. Lru!Broadcast(p)
  BY <1>7, <1>8, <1>9, <1>10 DEF Lru!Broadcast, GivenUp
<1> QED BY <1>5, <1>11 DEF Lru!Next

-------------------------------------------------------------------------------
(* The steps that use no block                                                 *)

(* The clock moves on: every use is now a past one.                            *)
LEMMA ClockTimes ==
  ASSUME CtlInv, LinesInv, TimesInv, cycle' = cycle + 1, lines' = lines,
         \A q \in Procs : /\ ctl'[q].job = ctl[q].job /\ ctl'[q].busy = ctl[q].busy
                          /\ ctl'[q].start = ctl[q].start /\ ctl'[q].cost = ctl[q].cost
  PROVE  TimesInv'
<1>1. \A q \in Procs : cycle \in Nat /\ ctl[q].start \in Nat /\ ctl[q].cost \in Nat
  BY DEF CtlInv, ControlTyped, Ctl
<1>2. \A q \in Procs, i \in Sets, w \in Ways :
        lines[q][i][w].lastUsed < cycle + 1 /\ lines[q][i][w].lastUsed # cycle + 1
  <2> SUFFICES ASSUME NEW q \in Procs, NEW i \in Sets, NEW w \in Ways
               PROVE  lines[q][i][w].lastUsed < cycle + 1 /\ lines[q][i][w].lastUsed # cycle + 1
    OBVIOUS
  <2>1. lines[q][i][w].lastUsed \in Nat /\ lines[q][i][w].lastUsed <= cycle
    BY DEF LinesInv, SoundCache, SoundSet, Line
  <2> QED BY <1>1, <2>1
<1>3. Aged'
  BY <1>2 DEF Aged, Older
<1>4. ASSUME NEW q \in Procs, Expired(q) PROVE Expired(q)'
  <2> DEFINE end == Word(ctl[q].start + ctl[q].cost)
  <2>1. end \in Nat
    BY <1>1, WidthAssumption DEF Word
  <2>2. end <= cycle
    BY <1>4 DEF Expired
  <2>3. Word(ctl'[q].start + ctl'[q].cost) = end
    OBVIOUS
  <2> HIDE DEF end
  <2>4. end <= cycle'
    BY <1>1, <2>1, <2>2
  <2> QED BY <2>3, <2>4 DEF Expired
<1>5. ASSUME NEW q \in Procs PROVE CacheTimes(q)'
  <2>1. CacheTimes(q)
    BY DEF TimesInv
  <2> QED BY <1>4, <2>1 DEF CacheTimes
<1>6. \A q \in Procs : UsedNow(q)'
  BY <1>2 DEF UsedNow
<1> QED BY <1>3, <1>5, <1>6 DEF TimesInv

(* A job is given out.                                                         *)
LEMMA DispatchTimes ==
  ASSUME CtlInv, LinesInv, LinesInv', TimesInv, NEW p \in Procs, NEW op, NEW b, Dispatch(p, op, b)
  PROVE  UNCHANGED (Lru!vars) /\ TimesInv'
<1> DEFINE d == [ctl[p] EXCEPT !.pending = Append(@, [op |-> op, block |-> b])]
<1>1. ctl' = [ctl EXCEPT ![p] = d] /\ cycle' = cycle + 1 /\ lines' = lines
  BY DEF Dispatch, StartTicks
<1>2. ctl \in [Procs -> Ctl]
  BY DEF CtlInv, ControlTyped
<1>3. SeenAlike(ctl[p], d) /\ d.start = ctl[p].start /\ d.cost = ctl[p].cost
  BY <1>2 DEF SeenAlike, Ctl
<1> HIDE DEF d
<1>4. \A q \in Procs : /\ SeenAlike(ctl[q], ctl'[q])
                       /\ ctl'[q].start = ctl[q].start /\ ctl'[q].cost = ctl[q].cost
  BY <1>1, <1>2, <1>3 DEF SeenAlike
<1>5. TimesInv'
  BY <1>1, <1>4, ClockTimes DEF SeenAlike
<1>6. UNCHANGED <<Recencies, LastJobs, BusStages>>
  BY <1>1, <1>4, NoCacheOrders
<1> QED BY <1>5, <1>6 DEF Lru!vars

(* Nothing is used, and no cache's turn comes.                                 *)
LEMMA StillTimes ==
  ASSUME TimesInv, UNCHANGED <<cycle, ctl, lines>>,
         pc' \notin {"caches", "bus"} \/ UNCHANGED <<pc, turn>>
  PROVE  TimesInv'
<1>1. \A q \in Procs : CacheTimes(q)'
  BY DEF TimesInv, CacheTimes, Expired
<1>2. Aged'
  BY DEF TimesInv, Aged
<1>3. Serving' => \A q \in Procs : UsedNow(q)'
  BY DEF TimesInv, Serving, Engaged, UsedNow, Expired
<1> QED BY <1>1, <1>2, <1>3 DEF TimesInv

(* A cache that is being served waits.                                         *)
LEMMA ServicedTimes ==
  ASSUME CtlInv, TimesInv, NEW p \in Procs, TickServiced(p)
  PROVE  TimesInv'
<1>1. /\ Ticks(p) /\ ctl[p].serviced /\ UNCHANGED <<cycle, ctl, lines>>
      /\ pc = "caches" /\ pc' \in {"caches", "bus"}
      /\ \A q \in Procs \ {p} : pc' = "caches" /\ turn' <= q => pc = "caches" /\ turn <= q
  BY TurnsPass DEF TickServiced
<1>2. \A q \in Procs : CacheTimes(q)'
  BY <1>1 DEF TimesInv, CacheTimes, Expired
<1>3. Older(lines[p], cycle)
  BY <1>1 DEF TimesInv, Aged
<1>4. \A q \in Procs : Older(lines'[q], cycle') <=> Older(lines[q], cycle)
  BY <1>1
<1>5. Aged'
  BY <1>1, <1>3, <1>4 DEF TimesInv, Aged
<1>6. Serving' => Serving
  BY <1>1 DEF Serving, Engaged
<1>7. Serving' => \A q \in Procs : UsedNow(q)'
  BY <1>1, <1>6 DEF TimesInv, UsedNow, Expired
<1> QED BY <1>2, <1>5, <1>7 DEF TimesInv

(* No line and no control field changes, and no order with them.               *)
LEMMA StillOrders ==
  ASSUME LinesInv, LinesInv', UNCHANGED <<ctl, lines>>
  PROVE  UNCHANGED (Lru!vars)
<1>1. \A q \in Procs : lines'[q] = lines[q] /\ SeenAlike(ctl[q], ctl'[q])
  BY DEF SeenAlike
<1> QED BY <1>1, NoCacheOrders DEF Lru!vars

-------------------------------------------------------------------------------
(* The whole machine                                                           *)

(* At the start no set holds a block.                                          *)
LEMMA InitOrders == Init => TimesInv /\ Lru!Init
<1> SUFFICES ASSUME Init PROVE TimesInv /\ Lru!Init
  OBVIOUS
<1>1. /\ pc = "loop"
      /\ \A p \in Procs : /\ ctl[p].job = NoJob /\ ~ctl[p].serviced /\ ~ctl[p].haveBusRequest
                          /\ \A i \in Sets : lines[p][i] = EmptySet
  BY DEF Init
<1>2. \A p \in Procs, i \in Sets, w \in Ways : ~Valid(lines[p][i][w])
  BY <1>1 DEF EmptySet, Valid
<1>3. TimesInv
  <2>1. ~Serving /\ Aged
    BY <1>1 DEF Serving, Aged
  <2>2. \A p \in Procs : CacheTimes(p)
    BY <1>2 DEF CacheTimes, OnlyTied, NoneTied, TiedBy, Untied
  <2> QED BY <2>1, <2>2 DEF TimesInv
<1>4. \A p \in Procs, i \in Sets : Recency(ctl[p], lines[p][i]) = {}
  <2> SUFFICES ASSUME NEW p \in Procs, NEW i \in Sets PROVE Recency(ctl[p], lines[p][i]) = {}
    OBVIOUS
  <2>1. HeldTags(lines[p][i]) = {}
    BY <1>2 DEF HeldTags
  <2> QED BY <2>1 DEF Recency
<1>5. Recencies = [p \in Procs |-> [i \in Sets |-> {}]]
  BY <1>4 DEF Recencies
<1>6. LastJobs = [p \in Procs |-> NoJob]
  BY <1>1 DEF LastJobs
<1>7. BusStages = [p \in Procs |-> "none"]
  BY <1>1 DEF BusStages, Stage
<1> QED BY <1>3, <1>5, <1>6, <1>7 DEF Lru!Init

(* Every step of the machine is one of LruCaches, or none.                     *)
LEMMA NextOrders ==
  ASSUME NarrowTags, MachineInv, TimesInv, [Next]_vars
  PROVE  [Lru!Next]_(Lru!vars) /\ TimesInv'
<1>1. CtlInv /\ LinesInv /\ RequestInv /\ LinesInv'
  BY NextLines DEF MachineInv, SmpInv
<1>2. CASE UNCHANGED vars \/ Exit \/ Done \/ BusWaits \/ BusIdle
  <2>1. UNCHANGED <<cycle, ctl, lines>>
    BY <1>2 DEF vars, Exit, Done, BusWaits, BusIdle
  <2>2. pc' \notin {"caches", "bus"} \/ UNCHANGED <<pc, turn>>
    BY <1>2 DEF vars, Exit, Done, BusWaits, BusIdle
  <2> QED BY <1>1, <2>1, <2>2, StillTimes, StillOrders
<1>3. CASE Tick
  <2>1. cycle' = cycle + 1 /\ UNCHANGED <<ctl, lines>>
    BY <1>3 DEF Tick, StartTicks
  <2> QED BY <1>1, <2>1, ClockTimes, StillOrders
<1>4. ASSUME NEW p \in Procs, NEW op \in TraceOps, NEW b \in Blocks, Dispatch(p, op, b)
      PROVE  [Lru!Next]_(Lru!vars) /\ TimesInv'
  BY <1>1, <1>4, DispatchTimes
<1>5. ASSUME NEW p \in Procs, TickServiced(p) PROVE [Lru!Next]_(Lru!vars) /\ TimesInv'
  <2>1. UNCHANGED <<ctl, lines>>
    BY <1>5 DEF TickServiced
  <2> QED BY <1>1, <1>5, <2>1, ServicedTimes, StillOrders
<1>6. ASSUME NEW p \in Procs, TickIdle(p) PROVE [Lru!Next]_(Lru!vars) /\ TimesInv'
  BY <1>1, <1>6, TickIdleOrders
<1>7. ASSUME NEW p \in Procs, TickHandles(p) PROVE [Lru!Next]_(Lru!vars) /\ TimesInv'
  BY <1>1, <1>7, TickHandlesOrders
<1>8. CASE BusFinish
  BY <1>1, <1>8, BusFinishOrders
<1>9. ASSUME NEW p \in Procs, BusGrant(p) PROVE [Lru!Next]_(Lru!vars) /\ TimesInv'
  BY <1>1, <1>9, BusGrantOrders
<1> QED BY <1>2, <1>3, <1>4, <1>5, <1>6, <1>7, <1>8, <1>9 DEF Next

(* Replacement is least-recently-used, for any number of processors, sets,     *)
(* ways and blocks, and under every protocol.                                  *)
THEOREM LruRefinement == ASSUME NarrowTags PROVE Spec => ImplementsLru
<1>1. Init => MachineInv /\ TimesInv /\ Lru!Init
  BY InitSmpInv, InitOrders DEF MachineInv, Init, RequestInv
<1>2. MachineInv /\ [Next]_vars => MachineInv'
  BY NextSmpInv, NextRequest DEF MachineInv, SmpInv
<1>3. MachineInv /\ TimesInv /\ [Next]_vars => [Lru!Next]_(Lru!vars) /\ TimesInv'
  BY NextOrders
<1> QED BY <1>1, <1>2, <1>3, PTL DEF Spec, ImplementsLru, Lru!Spec
===============================================================================
