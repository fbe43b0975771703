--------------------------- MODULE SkipListProofs ---------------------------
(***************************************************************************)
(* Theorems about SkipList, for any keys and heights: a reader without a   *)
(* lock never comes to memory that it may see uninitialised, misses no key *)
(* it could be sure of, and every level is sorted between two insertions,  *)
(* under the C++ memory orders the code names.                             *)
(***************************************************************************)
EXTENDS SkipList, SequenceTheorems, WellFoundedInduction, TLAPS

(* A set of natural numbers has a smallest element, a bounded one a        *)
(* greatest.                                                               *)
LEMMA Smallest ==
  ASSUME NEW T \in SUBSET Nat, T # {}
  PROVE  Min(T) \in T /\ \A y \in T : Min(T) <= y
<1>1. PICK x \in T : \A y \in T : ~ (<<y, x>> \in OpToRel(<, Nat))
  BY NatLessThanWellFounded, WFMin
<1>2. \A y \in T : ~ (y < x)
  BY <1>1 DEF OpToRel
<1>3. \A y \in T : x <= y
  BY <1>2
<1>4. QED
  BY <1>3 DEF Min

LEMMA Greatest ==
  ASSUME NEW T \in SUBSET Nat, T # {}, NEW b \in Nat, \A y \in T : y <= b
  PROVE  Max(T) \in T /\ \A y \in T : y <= Max(T)
<1> DEFINE D == {b - y : y \in T}
<1>1. D \in SUBSET Nat /\ D # {}
  <2>1. \A y \in T : y \in Nat /\ b - y \in Nat
    OBVIOUS
  <2>2. QED
    BY <2>1
<1>2. PICK d \in D : \A y \in D : d <= y
  BY <1>1, Smallest
<1>3. PICK x \in T : d = b - x
  BY <1>2
<1>4. \A y \in T : y <= x
  BY <1>2, <1>3
<1>5. QED
  BY <1>4 DEF Max

(* The keys lie between head and nullptr.                                  *)
LEMMA Keys ==
  /\ ListKeys \subseteq Nat \ {0} /\ nullptr \in Nat
  /\ nullptr \notin ListKeys \cup {head}
  /\ \A k \in ListKeys : head < k /\ k < nullptr
  /\ head < nullptr
  /\ garbage \notin ListKeys \cup {head, nullptr}
  /\ MaxHeight \in Nat \ {0} /\ Levels \subseteq Nat
  /\ key \notin Levels /\ max_height_ \notin Levels /\ key # max_height_
<1>1. PICK g \in ListKeys : \A k \in ListKeys : k <= g
  BY SkipListAssumption
<1>2. g \in Nat
  BY <1>1, SkipListAssumption
<1>3. Max(ListKeys) \in ListKeys /\ \A k \in ListKeys : k <= Max(ListKeys)
  <2>1. ListKeys \in SUBSET Nat /\ ListKeys # {} /\ \A k \in ListKeys : k <= g
    BY <1>1, SkipListAssumption
  <2>2. QED
    BY <1>2, <2>1, Greatest
<1>4. /\ nullptr = Max(ListKeys) + 1 /\ Max(ListKeys) \in Nat
      /\ garbage = nullptr + 1 /\ head = 0
  BY <1>3, SkipListAssumption DEF nullptr, garbage, head
<1>5. \A k \in ListKeys : k \in Nat \ {0} /\ k <= Max(ListKeys)
  BY <1>3, SkipListAssumption
<1>6. MaxHeight \in Nat \ {0}
  BY SkipListAssumption
<1>7. Levels \subseteq Nat /\ key \notin Levels /\ max_height_ \notin Levels /\ key # max_height_
  BY <1>6 DEF Levels, key, max_height_
<1>8. QED
  BY <1>4, <1>5, <1>6, <1>7
-----------------------------------------------------------------------------
Nodes == ListKeys \cup {head}
Rec == [at : Nodes \X (0 .. MaxHeight + 1), to : Nat, release : BOOLEAN]
Ops == {"FindGreaterOrEqual", "FindLessThan", "FindLast", "Next"}

LEMMA NodesAreNumbers == Nodes \subseteq Nat /\ ListKeys \subseteq Nodes /\ head \in Nodes /\ head \in Nat
BY Keys DEF Nodes, head

(* The store at i of s sets the link of n at level l; it links k there.    *)
Sets(s, i, n, l) == s[i].at = <<n, l>>
Links(s, i, k, l) == s[i].to = k /\ s[i].at[2] = l
LinkedIn(s, l) == {k \in ListKeys : \E i \in 1 .. Len(s) : Links(s, i, k, l)}

(* Links lead forward, those of head are always set with a barrier.        *)
FitsAt(r) == /\ r.at[2] \in Levels => r.to \in ListKeys \cup {nullptr} /\ r.to > r.at[1]
             /\ r.at[2] \in Levels /\ r.at[1] = head => r.release
             /\ r.at = <<head, max_height_>> => r.to \in 1 .. MaxHeight
Fits(s) == s \in Seq(Rec) /\ \A i \in 1 .. Len(s) : FitsAt(s[i])

(* The constructor's stores.                                               *)
HeadSet(s) == /\ MaxHeight + 1 <= Len(s)
              /\ \A l \in Levels : \E i \in 1 .. MaxHeight : Sets(s, i, head, l)
              /\ Sets(s, MaxHeight + 1, head, max_height_)

(* Whoever sees a node linked at a level sees its key, and its own links   *)
(* there and below.                                                        *)
Published(s) == \A j \in 1 .. Len(s), k \in ListKeys, m \in Levels :
    Links(s, j, k, m) => /\ \E i \in 1 .. j : Sets(s, i, k, key)
                         /\ \A l \in 0 .. m : \E i \in 1 .. j : Sets(s, i, k, l)

(* A link is set without a barrier only before its node is linked.         *)
Early(s) == \A i, j \in 1 .. Len(s), x \in ListKeys, l, m \in Levels :
    Sets(s, i, x, l) /\ ~s[i].release /\ Links(s, j, x, m) /\ l <= m => i < j

(* Once k is linked no link passes over it: one that does was replaced     *)
(* before.                                                                 *)
NoSkip(s) == \A i, j \in 1 .. Len(s), x \in Nodes, k \in ListKeys, l \in Levels :
    Sets(s, i, x, l) /\ Links(s, j, k, l) /\ x < k =>
       \/ s[i].to <= k
       \/ \E n \in 1 .. j : i < n /\ Sets(s, n, x, l)

StoresInv(s) == Fits(s) /\ HeadSet(s) /\ Published(s) /\ Early(s) /\ NoSkip(s)

(* Only a node that is linked, or being inserted, has links of its own.    *)
Owned(s, new) == \A i \in 1 .. Len(s), x \in ListKeys, l \in Levels :
    Sets(s, i, x, l) => x \in LinkedIn(s, l) \/ x = new

(* The insertion has linked its node below its level, has set no link of   *)
(* its own above, and goes between neighbours where it has still to go.    *)
Insertion == [key : ListKeys, height : 1 .. MaxHeight, level : Levels, prev : [Levels -> Nodes], set : BOOLEAN]
Between(s, p, new, l) == /\ p \in LinkedIn(s, l) \cup {head} /\ p < new
                         /\ \A k \in LinkedIn(s, l) : k < new => k <= p
Inserting(s, r) ==
    /\ r \in Insertion /\ r.level < r.height
    /\ \E i \in 1 .. Len(s) : Sets(s, i, r.key, key)
    /\ \A l \in Levels : r.key \in LinkedIn(s, l) <=> l < r.level
    /\ \A l \in Levels : (\E i \in 1 .. Len(s) : Sets(s, i, r.key, l)) <=> l < r.level \/ (l = r.level /\ r.set)
    /\ \A l \in Levels : r.level <= l => Between(s, r.prev[l], r.key, l)

WriterInv == /\ StoresInv(stores) /\ Owned(stores, insert.key)
             /\ insert = NoInsert \/ Inserting(stores, insert)

(* The reader is sure of a link to x at level l or above.                  *)
Reached(s, v, x, l) == x = head \/ \E j \in 1 .. v, m \in Levels : l <= m /\ Links(s, j, x, m)
Searching == [op : Ops, target : ListKeys \cup {head, nullptr}, x : Nodes, level : Levels, from : Nat]
Answered == [op : {"ended"}, by : Ops, target : ListKeys \cup {head, nullptr}, x : Nodes, from : Nat]

InSearch == /\ search \in Searching /\ search.from <= view
            /\ Reached(stores, view, search.x, search.level)
            /\ search.op = "Next" => search.level = 0
            /\ search.op \in {"FindGreaterOrEqual", "FindLessThan"} => search.target \in ListKeys /\ search.x < search.target
InAnswer == /\ search \in Answered /\ search.from <= view
            /\ Reached(stores, view, search.x, 0)
            /\ FindsWhatIsThere

ReaderInv ==
    /\ view \in Nat /\ MaxHeight + 1 <= view /\ view <= Len(stores)
    /\ node \in ListKeys \cup {nullptr} /\ (node \in ListKeys => Reached(stores, view, node, 0))
    /\ search = Idle \/ InSearch \/ InAnswer

SkipInv == WriterInv /\ ReaderInv
-----------------------------------------------------------------------------
(* What the types give of a store.                                         *)
LEMMA StoreFacts ==
  ASSUME NEW s \in Seq(Rec), NEW i \in 1 .. Len(s)
  PROVE  /\ s[i] \in Rec /\ s[i].to \in Nat /\ s[i].release \in BOOLEAN
         /\ s[i].at[1] \in Nodes /\ s[i].at[2] \in Nat
         /\ \A n, l : Sets(s, i, n, l) <=> s[i].at[1] = n /\ s[i].at[2] = l
<1>1. s[i] \in Rec
  BY LenProperties
<1>2. s[i].at \in Nodes \X (0 .. MaxHeight + 1)
  BY <1>1 DEF Rec
<1>3. QED
  BY <1>1, <1>2, Keys DEF Rec, Sets

(* One store more leaves the others where they are.                        *)
LEMMA OneMore ==
  ASSUME NEW s \in Seq(Rec), NEW r \in Rec
  PROVE  /\ Append(s, r) \in Seq(Rec) /\ Len(s) \in Nat /\ Len(Append(s, r)) = Len(s) + 1
         /\ \A i \in 1 .. Len(s) : Append(s, r)[i] = s[i]
         /\ Append(s, r)[Len(s) + 1] = r
  OBVIOUS

(* Stores of keys and heights change nothing of the links.                 *)
LEMMA OtherStore ==
  ASSUME NEW s, StoresInv(s), NEW r \in Rec, FitsAt(r), r.at[2] \notin Levels
  PROVE  /\ StoresInv(Append(s, r))
         /\ \A l \in Levels : LinkedIn(Append(s, r), l) = LinkedIn(s, l)
         /\ \A n : \A l \in Levels : (\E i \in 1 .. Len(s) + 1 : Sets(Append(s, r), i, n, l))
                                    <=> (\E i \in 1 .. Len(s) : Sets(s, i, n, l))
<1> DEFINE t == Append(s, r)  N == Len(s)
<1>1. /\ s \in Seq(Rec) /\ N \in Nat /\ t \in Seq(Rec) /\ Len(t) = N + 1
      /\ \A i \in 1 .. N : t[i] = s[i]
      /\ t[N + 1] = r
  BY OneMore DEF StoresInv, Fits
<1>0. Len(s) = N
  OBVIOUS
<1> HIDE DEF t, N
<1>2. \A i \in 1 .. N + 1 : \A n : \A l \in Levels : Sets(t, i, n, l) <=> i \in 1 .. N /\ Sets(s, i, n, l)
  <2>1. \A n : \A l \in Levels : ~Sets(t, N + 1, n, l)
    BY <1>1 DEF Sets
  <2>2. QED
    BY <1>1, <2>1 DEF Sets
<1>3. \A i \in 1 .. N + 1 : \A k : \A l \in Levels : Links(t, i, k, l) <=> i \in 1 .. N /\ Links(s, i, k, l)
  <2>1. \A k : \A l \in Levels : ~Links(t, N + 1, k, l)
    BY <1>1 DEF Links
  <2>2. QED
    BY <1>1, <2>1 DEF Links
<1>4. \A i \in 1 .. N : \A n, l : Sets(s, i, n, l) <=> Sets(t, i, n, l)
  BY <1>1 DEF Sets
<1>5. \A l \in Levels : LinkedIn(t, l) = LinkedIn(s, l)
  BY <1>0, <1>1, <1>3 DEF LinkedIn
<1>6. Fits(t)
  BY <1>0, <1>1 DEF StoresInv, Fits
<1>7. HeadSet(t)
  BY <1>0, <1>1, <1>4, Keys DEF StoresInv, HeadSet
<1>8. Published(t)
  <2> SUFFICES ASSUME NEW j \in 1 .. N + 1, NEW k \in ListKeys, NEW m \in Levels, Links(t, j, k, m)
               PROVE  /\ \E i \in 1 .. j : Sets(t, i, k, key)
                      /\ \A l \in 0 .. m : \E i \in 1 .. j : Sets(t, i, k, l)
    BY <1>1 DEF Published
  <2>1. j \in 1 .. N /\ Links(s, j, k, m)
    BY <1>3
  <2>2. \A i \in 1 .. j : i \in 1 .. N
    BY <1>1, <2>1
  <2>3. /\ \E i \in 1 .. j : Sets(s, i, k, key)
        /\ \A l \in 0 .. m : \E i \in 1 .. j : Sets(s, i, k, l)
    BY <1>0, <2>1 DEF StoresInv, Published
  <2>4. QED
    BY <1>4, <2>2, <2>3
<1>9. Early(t)
  <2> SUFFICES ASSUME NEW i \in 1 .. N + 1, NEW j \in 1 .. N + 1, NEW x \in ListKeys, NEW l \in Levels, NEW m \in Levels,
                      Sets(t, i, x, l), ~t[i].release, Links(t, j, x, m), l <= m
               PROVE  i < j
    BY <1>1 DEF Early
  <2>1. i \in 1 .. N /\ j \in 1 .. N /\ Sets(s, i, x, l) /\ Links(s, j, x, m) /\ ~s[i].release
    BY <1>1, <1>2, <1>3
  <2>2. QED
    BY <1>0, <2>1 DEF StoresInv, Early
<1>10. NoSkip(t)
  <2> SUFFICES ASSUME NEW i \in 1 .. N + 1, NEW j \in 1 .. N + 1, NEW x \in Nodes, NEW k \in ListKeys, NEW l \in Levels,
                      Sets(t, i, x, l), Links(t, j, k, l), x < k
               PROVE  t[i].to <= k \/ \E n \in 1 .. j : i < n /\ Sets(t, n, x, l)
    BY <1>1 DEF NoSkip
  <2>1. i \in 1 .. N /\ j \in 1 .. N /\ Sets(s, i, x, l) /\ Links(s, j, k, l) /\ t[i] = s[i]
    BY <1>1, <1>2, <1>3
  <2>2. s[i].to <= k \/ \E n \in 1 .. j : i < n /\ Sets(s, n, x, l)
    BY <1>0, <2>1 DEF StoresInv, NoSkip
  <2>3. \A n \in 1 .. j : n \in 1 .. N
    BY <1>1, <2>1
  <2>4. QED
    BY <1>4, <2>1, <2>2, <2>3
<1>11. \A n : \A l \in Levels : (\E i \in 1 .. N + 1 : Sets(t, i, n, l)) <=> (\E i \in 1 .. N : Sets(s, i, n, l))
  BY <1>1, <1>2
<1>12. QED
  BY <1>0, <1>5, <1>6, <1>7, <1>8, <1>9, <1>10, <1>11 DEF t, StoresInv

(* A level's two stores for a new node: its own link, and the one to it.   *)
WithOwn(s, new, h, next) == Append(s, Store(<<new, h>>, next, FALSE))
WithNew(s, new, h, p) == Append(s, Store(<<p, h>>, new, TRUE))

(* A new node's own link leads to the next node; nobody is linked by it    *)
(* who was not.                                                            *)
LEMMA OwnLink ==
  ASSUME NEW s, StoresInv(s), NEW new \in ListKeys, NEW h \in Levels,
         NEW next \in LinkedIn(s, h) \cup {nullptr}, new < next,
         \A k \in LinkedIn(s, h) : new < k => next <= k,
         \A m \in Levels : h <= m => new \notin LinkedIn(s, m)
  PROVE  /\ StoresInv(WithOwn(s, new, h, next))
         /\ \A l \in Levels : LinkedIn(WithOwn(s, new, h, next), l) = LinkedIn(s, l)
         /\ \A i \in 1 .. Len(s) + 1 : \A n, l : Sets(WithOwn(s, new, h, next), i, n, l)
                 <=> (i \in 1 .. Len(s) /\ Sets(s, i, n, l)) \/ (i = Len(s) + 1 /\ n = new /\ l = h)
<1> DEFINE r == Store(<<new, h>>, next, FALSE)  t == WithOwn(s, new, h, next)  N == Len(s)
<1>a. LinkedIn(s, h) \subseteq ListKeys
  BY DEF LinkedIn
<1>b. /\ r \in Rec /\ r.at = <<new, h>> /\ r.at[1] = new /\ r.at[2] = h /\ r.to = next /\ r.release = FALSE
      /\ next \in ListKeys \cup {nullptr} /\ next \in Nat /\ new \in Nat /\ new # head
  <2>1. new \in Nodes /\ h \in 0 .. MaxHeight + 1 /\ next \in Nat
    <3>1. h \in 0 .. MaxHeight + 1
      BY Keys DEF Levels
    <3>2. new \in Nodes /\ next \in Nat
      BY <1>a, Keys DEF Nodes
    <3>3. QED
      BY <3>1, <3>2
  <2>2. QED
    BY <1>a, <2>1, Keys DEF Store, Rec
<1>t. t = Append(s, r)
  BY DEF WithOwn
<1> HIDE DEF r, t
<1>1. /\ s \in Seq(Rec) /\ N \in Nat /\ t \in Seq(Rec) /\ Len(t) = N + 1
      /\ \A i \in 1 .. N : t[i] = s[i]
      /\ t[N + 1] = r
  BY <1>b, <1>t, OneMore DEF StoresInv, Fits
<1>0. Len(s) = N
  OBVIOUS
<1> HIDE DEF N
<1>2. /\ \A i \in 1 .. N : \A n, l : Sets(t, i, n, l) <=> Sets(s, i, n, l)
      /\ \A n, l : Sets(t, N + 1, n, l) <=> n = new /\ l = h
  BY <1>1, <1>b DEF Sets
<1>3. /\ \A i \in 1 .. N : \A k, l : Links(t, i, k, l) <=> Links(s, i, k, l)
      /\ \A k, l : Links(t, N + 1, k, l) <=> k = next /\ l = h
  BY <1>1, <1>b DEF Links
(* What the new store links was linked before.                             *)
<1>4. \A k \in ListKeys, l \in Levels : Links(t, N + 1, k, l) => \E j \in 1 .. N : Links(s, j, k, l)
  BY <1>0, <1>3, Keys DEF LinkedIn
<1>5. \A l \in Levels : LinkedIn(t, l) = LinkedIn(s, l)
  <2> SUFFICES ASSUME NEW l \in Levels, NEW k \in ListKeys
               PROVE  (\E i \in 1 .. N + 1 : Links(t, i, k, l)) <=> (\E i \in 1 .. N : Links(s, i, k, l))
    BY <1>0, <1>1 DEF LinkedIn
  <2>1. \A i \in 1 .. N + 1 : i \in 1 .. N \/ i = N + 1
    BY <1>1
  <2>2. \A i \in 1 .. N : i \in 1 .. N + 1
    BY <1>1
  <2>3. QED
    BY <1>3, <1>4, <2>1, <2>2
<1>6. Fits(t)
  <2>1. FitsAt(r)
    BY <1>b, Keys DEF FitsAt
  <2>2. QED
    BY <1>0, <1>1, <2>1 DEF StoresInv, Fits
<1>7. HeadSet(t)
  BY <1>0, <1>1, <1>2, Keys DEF StoresInv, HeadSet
<1>8. Published(t)
  <2> SUFFICES ASSUME NEW j \in 1 .. N + 1, NEW k \in ListKeys, NEW m \in Levels, Links(t, j, k, m)
               PROVE  /\ \E i \in 1 .. j : Sets(t, i, k, key)
                      /\ \A l \in 0 .. m : \E i \in 1 .. j : Sets(t, i, k, l)
    BY <1>1 DEF Published
  <2>1. PICK o \in 1 .. N : o <= j /\ Links(s, o, k, m)
    BY <1>1, <1>3, <1>4
  <2>2. \A i \in 1 .. o : i \in 1 .. N /\ i \in 1 .. j
    BY <1>1, <2>1
  <2>3. /\ \E i \in 1 .. o : Sets(s, i, k, key)
        /\ \A l \in 0 .. m : \E i \in 1 .. o : Sets(s, i, k, l)
    BY <1>0, <2>1 DEF StoresInv, Published
  <2>4. QED
    BY <1>2, <2>2, <2>3
<1>9. Early(t)
  <2> SUFFICES ASSUME NEW i \in 1 .. N + 1, NEW j \in 1 .. N + 1, NEW x \in ListKeys, NEW l \in Levels, NEW m \in Levels,
                      Sets(t, i, x, l), ~t[i].release, Links(t, j, x, m), l <= m
               PROVE  i < j
    BY <1>1 DEF Early
  <2>1. PICK o \in 1 .. N : o <= j /\ Links(s, o, x, m)
    BY <1>1, <1>3, <1>4
  <2>2. i # N + 1
    BY <1>0, <1>2, <2>1 DEF LinkedIn
  <2>3. i \in 1 .. N /\ Sets(s, i, x, l) /\ ~s[i].release
    BY <1>1, <1>2, <2>2
  <2>4. i < o
    BY <1>0, <2>1, <2>3 DEF StoresInv, Early
  <2>5. QED
    BY <2>1, <2>4
<1>10. NoSkip(t)
  <2> SUFFICES ASSUME NEW i \in 1 .. N + 1, NEW j \in 1 .. N + 1, NEW x \in Nodes, NEW k \in ListKeys, NEW l \in Levels,
                      Sets(t, i, x, l), Links(t, j, k, l), x < k
               PROVE  t[i].to <= k \/ \E n \in 1 .. j : i < n /\ Sets(t, n, x, l)
    BY <1>1 DEF NoSkip
  <2>1. PICK o \in 1 .. N : o <= j /\ Links(s, o, k, l)
    BY <1>1, <1>3, <1>4
  <2>2. CASE i = N + 1
    <3>1. x = new /\ l = h /\ t[i].to = next /\ k \in LinkedIn(s, h)
      BY <1>0, <1>1, <1>2, <1>b, <2>1, <2>2 DEF LinkedIn
    <3>2. QED
      BY <3>1
  <2>3. CASE i \in 1 .. N
    <3>1. Sets(s, i, x, l) /\ t[i] = s[i]
      BY <1>1, <1>2, <2>3
    <3>2. s[i].to <= k \/ \E n \in 1 .. o : i < n /\ Sets(s, n, x, l)
      BY <1>0, <2>1, <2>3, <3>1 DEF StoresInv, NoSkip
    <3>3. \A n \in 1 .. o : n \in 1 .. N /\ n \in 1 .. j
      BY <1>1, <2>1
    <3>4. QED
      BY <1>2, <3>1, <3>2, <3>3
  <2>4. QED
    BY <1>1, <2>2, <2>3
<1>11. \A i \in 1 .. N + 1 : \A n, l : Sets(t, i, n, l) <=> (i \in 1 .. N /\ Sets(s, i, n, l)) \/ (i = N + 1 /\ n = new /\ l = h)
  <2>1. \A i \in 1 .. N + 1 : (i \in 1 .. N /\ i # N + 1) \/ (i \notin 1 .. N /\ i = N + 1)
    BY <1>1
  <2>2. QED
    BY <1>2, <2>1
<1>12. QED
  BY <1>0, <1>5, <1>6, <1>7, <1>8, <1>9, <1>10, <1>11 DEF t, StoresInv

(* A node is linked when its own links are set, behind the last node       *)
(* before it.                                                              *)
LEMMA NewLink ==
  ASSUME NEW s, StoresInv(s), NEW new \in ListKeys, NEW h \in Levels, NEW p, Between(s, p, new, h),
         Owned(s, new),
         \E i \in 1 .. Len(s) : Sets(s, i, new, key),
         \A l \in 0 .. h : \E i \in 1 .. Len(s) : Sets(s, i, new, l)
  PROVE  /\ StoresInv(WithNew(s, new, h, p))
         /\ \A l \in Levels : LinkedIn(WithNew(s, new, h, p), l) = LinkedIn(s, l) \cup (IF l = h THEN {new} ELSE {})
         /\ \A i \in 1 .. Len(s) + 1 : \A n, l : Sets(WithNew(s, new, h, p), i, n, l)
                 <=> (i \in 1 .. Len(s) /\ Sets(s, i, n, l)) \/ (i = Len(s) + 1 /\ n = p /\ l = h)
<1> DEFINE r == Store(<<p, h>>, new, TRUE)  t == WithNew(s, new, h, p)  N == Len(s)
<1>a. /\ LinkedIn(s, h) \subseteq ListKeys /\ p \in LinkedIn(s, h) \cup {head} /\ p < new
      /\ \A k \in LinkedIn(s, h) : k < new => k <= p
  BY DEF LinkedIn, Between
<1>b. /\ r \in Rec /\ r.at = <<p, h>> /\ r.at[1] = p /\ r.at[2] = h /\ r.to = new /\ r.release = TRUE
      /\ p \in Nodes /\ p \in Nat /\ new \in Nat /\ new # head
  <2>1. p \in Nodes /\ h \in 0 .. MaxHeight + 1 /\ new \in Nat /\ p \in Nat
    <3>1. h \in 0 .. MaxHeight + 1
      BY Keys DEF Levels
    <3>2. Nodes \subseteq Nat
      BY Keys DEF Nodes, head
    <3>3. p \in Nodes /\ new \in Nodes
      BY <1>a DEF Nodes
    <3>4. QED
      BY <3>1, <3>2, <3>3
  <2>2. QED
    BY <1>a, <2>1, Keys DEF Store, Rec
<1>t. t = Append(s, r)
  BY DEF WithNew
<1> HIDE DEF r, t
<1>1. /\ s \in Seq(Rec) /\ N \in Nat /\ t \in Seq(Rec) /\ Len(t) = N + 1
      /\ \A i \in 1 .. N : t[i] = s[i]
      /\ t[N + 1] = r
  BY <1>b, <1>t, OneMore DEF StoresInv, Fits
<1>0. Len(s) = N
  OBVIOUS
<1> HIDE DEF N
<1>2. /\ \A i \in 1 .. N : \A n, l : Sets(t, i, n, l) <=> Sets(s, i, n, l)
      /\ \A n, l : Sets(t, N + 1, n, l) <=> n = p /\ l = h
  BY <1>1, <1>b DEF Sets
<1>3. /\ \A i \in 1 .. N : \A k, l : Links(t, i, k, l) <=> Links(s, i, k, l)
      /\ \A k, l : Links(t, N + 1, k, l) <=> k = new /\ l = h
  BY <1>1, <1>b DEF Links
<1>4. /\ \A i \in 1 .. N + 1 : i \in 1 .. N \/ i = N + 1
      /\ \A i \in 1 .. N : i \in 1 .. N + 1
  BY <1>1
<1>5. \A l \in Levels : LinkedIn(t, l) = LinkedIn(s, l) \cup (IF l = h THEN {new} ELSE {})
  <2> SUFFICES ASSUME NEW l \in Levels, NEW k \in ListKeys
               PROVE  (\E i \in 1 .. N + 1 : Links(t, i, k, l))
                         <=> (\E i \in 1 .. N : Links(s, i, k, l)) \/ (l = h /\ k = new)
    BY <1>0, <1>1 DEF LinkedIn
  <2>1. QED
    BY <1>1, <1>3, <1>4
<1>6. Fits(t)
  <2>1. FitsAt(r)
    BY <1>a, <1>b, Keys DEF FitsAt
  <2>2. QED
    BY <1>0, <1>1, <2>1 DEF StoresInv, Fits
<1>7. HeadSet(t)
  BY <1>0, <1>1, <1>2, Keys DEF StoresInv, HeadSet
<1>8. Published(t)
  <2> SUFFICES ASSUME NEW j \in 1 .. N + 1, NEW k \in ListKeys, NEW m \in Levels, Links(t, j, k, m)
               PROVE  /\ \E i \in 1 .. j : Sets(t, i, k, key)
                      /\ \A l \in 0 .. m : \E i \in 1 .. j : Sets(t, i, k, l)
    BY <1>1 DEF Published
  <2>1. CASE j \in 1 .. N
    <3>1. \A i \in 1 .. j : i \in 1 .. N
      BY <1>1, <2>1
    <3>2. Links(s, j, k, m)
      BY <1>3, <2>1
    <3>3. /\ \E i \in 1 .. j : Sets(s, i, k, key)
          /\ \A l \in 0 .. m : \E i \in 1 .. j : Sets(s, i, k, l)
      BY <1>0, <2>1, <3>2 DEF StoresInv, Published
    <3>4. QED
      BY <1>2, <3>1, <3>3
  <2>2. CASE j = N + 1
    <3>1. k = new /\ m = h
      BY <1>3, <2>2
    <3>2. QED
      BY <1>0, <1>2, <1>4, <2>2, <3>1
  <2>3. QED
    BY <1>4, <2>1, <2>2
<1>9. Early(t)
  <2> SUFFICES ASSUME NEW i \in 1 .. N + 1, NEW j \in 1 .. N + 1, NEW x \in ListKeys, NEW l \in Levels, NEW m \in Levels,
                      Sets(t, i, x, l), ~t[i].release, Links(t, j, x, m), l <= m
               PROVE  i < j
    BY <1>1 DEF Early
  <2>1. i \in 1 .. N /\ Sets(s, i, x, l) /\ ~s[i].release
    BY <1>1, <1>2, <1>4, <1>b
  <2>2. CASE j = N + 1
    BY <1>1, <2>1, <2>2
  <2>3. CASE j \in 1 .. N
    BY <1>0, <1>3, <2>1, <2>3 DEF StoresInv, Early
  <2>4. QED
    BY <1>4, <2>2, <2>3
<1>10. NoSkip(t)
  <2> SUFFICES ASSUME NEW i \in 1 .. N + 1, NEW j \in 1 .. N + 1, NEW x \in Nodes, NEW k \in ListKeys, NEW l \in Levels,
                      Sets(t, i, x, l), Links(t, j, k, l), x < k
               PROVE  t[i].to <= k \/ \E n \in 1 .. j : i < n /\ Sets(t, n, x, l)
    BY <1>1 DEF NoSkip
  <2>a. x \in Nat /\ k \in Nat
    BY Keys DEF Nodes, head
  <2>1. CASE i = N + 1
    <3>1. x = p /\ l = h /\ t[i].to = new
      BY <1>1, <1>2, <1>b, <2>1
    <3>2. k = new \/ k \in LinkedIn(s, h)
      BY <1>0, <1>3, <1>4, <3>1 DEF LinkedIn
    <3>3. QED
      BY <1>a, <1>b, <2>a, <3>1, <3>2
  <2>2. CASE i \in 1 .. N /\ j \in 1 .. N
    <3>1. Sets(s, i, x, l) /\ Links(s, j, k, l) /\ t[i] = s[i]
      BY <1>1, <1>2, <1>3, <2>2
    <3>2. s[i].to <= k \/ \E n \in 1 .. j : i < n /\ Sets(s, n, x, l)
      BY <1>0, <2>2, <3>1 DEF StoresInv, NoSkip
    <3>3. \A n \in 1 .. j : n \in 1 .. N
      BY <1>1, <2>2
    <3>4. QED
      BY <1>2, <3>1, <3>2, <3>3
  <2>3. CASE i \in 1 .. N /\ j = N + 1
    <3>1. Sets(s, i, x, h) /\ k = new /\ l = h /\ t[i] = s[i]
      BY <1>1, <1>2, <1>3, <2>3
    <3>2. CASE x = p
      <4>1. Sets(t, N + 1, x, l) /\ i < N + 1 /\ N + 1 \in 1 .. j
        BY <1>1, <1>2, <2>3, <3>1, <3>2
      <4>2. QED
        BY <4>1
    <3>3. CASE x # p
      <4>1. x = head \/ x \in LinkedIn(s, h)
        BY <1>0, <2>3, <2>a, <3>1 DEF Owned, Nodes
      <4>2. x < p
        BY <1>a, <1>b, <2>a, <3>1, <3>3, <4>1, Keys DEF head
      <4>3. p \in LinkedIn(s, h)
        BY <1>a, <1>b, <2>a, <4>2, Keys DEF head
      <4>4. PICK o \in 1 .. N : Links(s, o, p, h)
        BY <1>0, <4>3 DEF LinkedIn
      <4>5. s[i].to <= p \/ \E n \in 1 .. o : i < n /\ Sets(s, n, x, h)
        BY <1>0, <1>a, <2>3, <3>1, <4>2, <4>3, <4>4 DEF StoresInv, NoSkip
      <4>6. CASE s[i].to <= p
        <5>1. s[i].to \in Nat
          BY <1>0, <1>1, <2>3, StoreFacts
        <5>2. QED
          BY <1>a, <1>b, <3>1, <4>6, <5>1
      <4>7. CASE \E n \in 1 .. o : i < n /\ Sets(s, n, x, h)
        <5>1. PICK n \in 1 .. o : i < n /\ Sets(s, n, x, h)
          BY <4>7
        <5>2. n \in 1 .. N /\ n \in 1 .. j
          BY <1>1, <2>3, <4>4
        <5>3. QED
          BY <1>2, <3>1, <5>1, <5>2
      <4>8. QED
        BY <4>5, <4>6, <4>7
    <3>4. QED
      BY <3>2, <3>3
  <2>4. QED
    BY <1>4, <2>1, <2>2, <2>3
<1>11. \A i \in 1 .. N + 1 : \A n, l : Sets(t, i, n, l) <=> (i \in 1 .. N /\ Sets(s, i, n, l)) \/ (i = N + 1 /\ n = p /\ l = h)
  <2>1. \A i \in 1 .. N + 1 : (i \in 1 .. N /\ i # N + 1) \/ (i \notin 1 .. N /\ i = N + 1)
    BY <1>1
  <2>2. QED
    BY <1>2, <2>1
<1>12. QED
  BY <1>0, <1>5, <1>6, <1>7, <1>8, <1>9, <1>10, <1>11 DEF t, StoresInv
-----------------------------------------------------------------------------
(* The writer.  It sees every store of its own: a link leads to the next   *)
(* node of the level.                                                      *)
LEMMA LatestOf ==
  ASSUME stores \in Seq(Rec), NEW n, NEW l, \E i \in 1 .. Len(stores) : Sets(stores, i, n, l)
  PROVE  \E i \in 1 .. Len(stores) : /\ Sets(stores, i, n, l) /\ Latest(<<n, l>>) = stores[i].to
                                    /\ \A j \in 1 .. Len(stores) : Sets(stores, j, n, l) => j <= i
<1> DEFINE T == StoredAt(<<n, l>>, Len(stores))
<1>1. Len(stores) \in Nat
  OBVIOUS
<1>2. T = {i \in 1 .. Len(stores) : Sets(stores, i, n, l)}
  BY DEF StoredAt, Sets
<1>3. T \in SUBSET Nat /\ T # {} /\ \A i \in T : i <= Len(stores)
  BY <1>1, <1>2
<1>4. Max(T) \in T /\ \A j \in T : j <= Max(T)
  BY <1>1, <1>3, Greatest
<1>5. QED
  BY <1>2, <1>4 DEF Latest

LEMMA AtIsNext ==
  ASSUME StoresInv(stores), NEW l \in Levels, NEW n \in LinkedIn(stores, l) \cup {head}
  PROVE  /\ At(n, l) \in LinkedIn(stores, l) \cup {nullptr} /\ n < At(n, l)
         /\ \A k \in LinkedIn(stores, l) : n < k => At(n, l) <= k
<1>1. stores \in Seq(Rec) /\ Len(stores) \in Nat /\ MaxHeight \in Nat /\ MaxHeight + 1 <= Len(stores)
  BY Keys DEF StoresInv, Fits, HeadSet
<1>2. n \in Nodes
  BY DEF LinkedIn, Nodes
<1>3. \E i \in 1 .. Len(stores) : Sets(stores, i, n, l)
  <2>1. CASE n = head
    <3>1. PICK i \in 1 .. MaxHeight : Sets(stores, i, head, l)
      BY DEF StoresInv, HeadSet
    <3>2. i \in 1 .. Len(stores)
      BY <1>1
    <3>3. QED
      BY <2>1, <3>1, <3>2
  <2>2. CASE n \in LinkedIn(stores, l)
    <3>1. PICK j \in 1 .. Len(stores) : Links(stores, j, n, l) /\ n \in ListKeys
      BY <2>2 DEF LinkedIn
    <3>2. l \in 0 .. l
      BY Keys
    <3>3. PICK i \in 1 .. j : Sets(stores, i, n, l)
      BY <3>1, <3>2 DEF StoresInv, Published
    <3>4. i \in 1 .. Len(stores)
      BY <1>1
    <3>5. QED
      BY <3>3, <3>4
  <2>3. QED
    BY <2>1, <2>2
<1>4. PICK i \in 1 .. Len(stores) : /\ Sets(stores, i, n, l) /\ At(n, l) = stores[i].to
                                    /\ \A j \in 1 .. Len(stores) : Sets(stores, j, n, l) => j <= i
  BY <1>1, <1>3, LatestOf DEF At
<1>5. stores[i].at[1] = n /\ stores[i].at[2] = l
  BY <1>1, <1>4, StoreFacts
<1>6. At(n, l) \in ListKeys \cup {nullptr} /\ n < At(n, l)
  <2>1. FitsAt(stores[i])
    BY DEF StoresInv, Fits
  <2>2. stores[i].to \in ListKeys \cup {nullptr} /\ stores[i].to > n
    BY <1>5, <2>1 DEF FitsAt
  <2>3. QED
    BY <1>4, <2>2
<1>7. At(n, l) \in ListKeys => At(n, l) \in LinkedIn(stores, l)
  BY <1>4, <1>5 DEF LinkedIn, Links
<1>8. ASSUME NEW k \in LinkedIn(stores, l), n < k PROVE At(n, l) <= k
  <2>1. PICK j \in 1 .. Len(stores) : Links(stores, j, k, l) /\ k \in ListKeys
    BY DEF LinkedIn
  <2>2. stores[i].to <= k \/ \E m \in 1 .. j : i < m /\ Sets(stores, m, n, l)
    BY <1>2, <1>4, <1>8, <2>1 DEF StoresInv, NoSkip
  <2>3. \A m \in 1 .. j : m \in 1 .. Len(stores) /\ m \in Nat
    BY <1>1
  <2>4. QED
    BY <1>4, <2>2, <2>3
<1>9. QED
  BY <1>6, <1>7, <1>8

(* Insert: nobody has linked the node yet, and it goes between neighbours. *)
LEMMA InsertStores ==
  ASSUME StoresInv(stores), NEW new \in ListKeys, NEW height \in 1 .. MaxHeight, ListInsert(new, height)
  PROVE  /\ StoresInv(stores') /\ Len(stores) <= Len(stores')
         /\ \A i \in 1 .. Len(stores) : stores'[i] = stores[i]
         /\ \A l \in Levels : LinkedIn(stores', l) = LinkedIn(stores, l)
         /\ \A n : \A l \in Levels : (\E i \in 1 .. Len(stores') : Sets(stores', i, n, l))
                                    <=> (\E i \in 1 .. Len(stores) : Sets(stores, i, n, l))
         /\ \E i \in 1 .. Len(stores') : Sets(stores', i, new, key)
<1> DEFINE hs == Store(<<head, max_height_>>, height, FALSE)
           ks == Store(<<new, key>>, new, FALSE)
<1>1. /\ hs \in Rec /\ FitsAt(hs) /\ hs.at[2] \notin Levels
      /\ ks \in Rec /\ FitsAt(ks) /\ ks.at[2] \notin Levels /\ ks.at = <<new, key>>
  <2>1. /\ head \in Nodes /\ new \in Nodes /\ new \in Nat /\ height \in Nat
        /\ key \in 0 .. MaxHeight + 1 /\ max_height_ \in 0 .. MaxHeight + 1
    BY Keys DEF Nodes, key, max_height_
  <2>2. /\ hs.at = <<head, max_height_>> /\ hs.to = height /\ hs.release = FALSE
        /\ ks.at = <<new, key>> /\ ks.to = new /\ ks.release = FALSE
        /\ hs.at[2] = max_height_ /\ ks.at[2] = key /\ hs.at[1] = head /\ ks.at[1] = new
    BY DEF Store
  <2>3. hs \in Rec /\ ks \in Rec
    BY <2>1 DEF Store, Rec
  <2>4. FitsAt(hs) /\ FitsAt(ks)
    BY <2>2, Keys DEF FitsAt
  <2>5. QED
    BY <2>2, <2>3, <2>4, Keys
<1> HIDE DEF hs, ks
<1>2. stores \in Seq(Rec) /\ Len(stores) \in Nat
  BY DEF StoresInv, Fits
<1>3. stores' = Append(stores, ks) \/ stores' = Append(Append(stores, hs), ks)
  <2>1. stores' = stores \o (IF height > GetMaxHeight THEN <<hs>> ELSE << >>) \o <<ks>>
    BY DEF ListInsert, hs, ks
  <2>2. stores \o << >> = stores /\ stores \o <<hs>> = Append(stores, hs)
    BY <1>1, <1>2
  <2>3. stores \o <<ks>> = Append(stores, ks) /\ Append(stores, hs) \o <<ks>> = Append(Append(stores, hs), ks)
    BY <1>1, <1>2
  <2>4. QED
    BY <2>1, <2>2, <2>3
<1>4. ASSUME NEW s, StoresInv(s)
      PROVE  /\ StoresInv(Append(s, ks)) /\ StoresInv(Append(s, hs))
             /\ Len(s) \in Nat /\ Len(Append(s, ks)) = Len(s) + 1 /\ Len(Append(s, hs)) = Len(s) + 1
             /\ \A i \in 1 .. Len(s) : Append(s, ks)[i] = s[i] /\ Append(s, hs)[i] = s[i]
             /\ \A l \in Levels : LinkedIn(Append(s, ks), l) = LinkedIn(s, l)
             /\ \A l \in Levels : LinkedIn(Append(s, hs), l) = LinkedIn(s, l)
             /\ \A n : \A l \in Levels : (\E i \in 1 .. Len(s) + 1 : Sets(Append(s, ks), i, n, l))
                                    <=> (\E i \in 1 .. Len(s) : Sets(s, i, n, l))
             /\ \A n : \A l \in Levels : (\E i \in 1 .. Len(s) + 1 : Sets(Append(s, hs), i, n, l))
                                    <=> (\E i \in 1 .. Len(s) : Sets(s, i, n, l))
             /\ \E i \in 1 .. Len(s) + 1 : Sets(Append(s, ks), i, new, key)
  <2>1. s \in Seq(Rec)
    BY <1>4 DEF StoresInv, Fits
  <2>2. /\ Len(s) \in Nat /\ Len(Append(s, ks)) = Len(s) + 1 /\ Len(Append(s, hs)) = Len(s) + 1
        /\ \A i \in 1 .. Len(s) : Append(s, ks)[i] = s[i] /\ Append(s, hs)[i] = s[i]
        /\ Append(s, ks)[Len(s) + 1] = ks
    BY <1>1, <2>1, OneMore
  <2>3. Sets(Append(s, ks), Len(s) + 1, new, key) /\ Len(s) + 1 \in 1 .. Len(s) + 1
    BY <1>1, <2>2 DEF Sets
  <2>4. /\ StoresInv(Append(s, ks)) /\ \A l \in Levels : LinkedIn(Append(s, ks), l) = LinkedIn(s, l)
        /\ \A n : \A l \in Levels : (\E i \in 1 .. Len(s) + 1 : Sets(Append(s, ks), i, n, l))
                                    <=> (\E i \in 1 .. Len(s) : Sets(s, i, n, l))
    BY <1>1, <1>4, OtherStore
  <2>5. /\ StoresInv(Append(s, hs)) /\ \A l \in Levels : LinkedIn(Append(s, hs), l) = LinkedIn(s, l)
        /\ \A n : \A l \in Levels : (\E i \in 1 .. Len(s) + 1 : Sets(Append(s, hs), i, n, l))
                                    <=> (\E i \in 1 .. Len(s) : Sets(s, i, n, l))
    BY <1>1, <1>4, OtherStore
  <2>6. QED
    BY <2>2, <2>3, <2>4, <2>5
<1>5. CASE stores' = Append(stores, ks)
  BY <1>4, <1>5
<1>6. CASE stores' = Append(Append(stores, hs), ks)
  <2> DEFINE m == Append(stores, hs)
  <2>1. /\ StoresInv(m) /\ Len(m) = Len(stores) + 1 /\ \A i \in 1 .. Len(stores) : m[i] = stores[i]
        /\ \A l \in Levels : LinkedIn(m, l) = LinkedIn(stores, l)
        /\ \A n : \A l \in Levels : (\E i \in 1 .. Len(m) : Sets(m, i, n, l))
                                    <=> (\E i \in 1 .. Len(stores) : Sets(stores, i, n, l))
    BY <1>4
  <2>2. stores' = Append(m, ks)
    BY <1>6
  <2> HIDE DEF m
  <2>3. /\ StoresInv(stores') /\ Len(stores') = Len(m) + 1 /\ \A i \in 1 .. Len(m) : stores'[i] = m[i]
        /\ \A l \in Levels : LinkedIn(stores', l) = LinkedIn(m, l)
        /\ \A n : \A l \in Levels : (\E i \in 1 .. Len(stores') : Sets(stores', i, n, l))
                                    <=> (\E i \in 1 .. Len(m) : Sets(m, i, n, l))
        /\ \E i \in 1 .. Len(stores') : Sets(stores', i, new, key)
    BY <1>4, <2>1, <2>2
  <2>4. \A i \in 1 .. Len(stores) : i \in 1 .. Len(m)
    BY <1>2, <2>1
  <2>5. Len(stores) <= Len(stores')
    BY <1>2, <2>1, <2>3
  <2>6. QED
    BY <2>1, <2>3, <2>4, <2>5
<1>7. QED
  BY <1>3, <1>5, <1>6

(* The neighbour before a new node.                                        *)
LEMMA PrevIsBefore ==
  ASSUME NEW new \in ListKeys, NEW l \in Levels
  PROVE  PrevNodes(new)[l] \in Nodes /\ Between(stores, PrevNodes(new)[l], new, l)
<1> DEFINE T == {k \in LinkedIn(stores, l) : k < new} \cup {head}
<1>1. T \in SUBSET Nat /\ T # {} /\ new \in Nat /\ \A k \in T : k < new /\ k <= new
  <2>1. LinkedIn(stores, l) \subseteq Nat /\ new \in Nat /\ head \in Nat /\ head < new
    BY Keys, NodesAreNumbers DEF LinkedIn
  <2>2. QED
    BY <2>1
<1>2. Max(T) \in T /\ \A k \in T : k <= Max(T)
  BY <1>1, Greatest
<1>3. PrevNodes(new)[l] = Max(T)
  <2>1. Linked(l) = LinkedIn(stores, l)
    BY DEF Linked, LinkedIn, Links
  <2>2. {k \in Linked(l) : k < new} = {k \in LinkedIn(stores, l) : k < new}
    BY <2>1
  <2>3. PrevNodes(new)[l] = Max({k \in Linked(l) : k < new} \cup {head})
    BY DEF PrevNodes
  <2>4. QED
    BY <2>2, <2>3
<1>4. \A k \in LinkedIn(stores, l) : k < new => k \in T
  OBVIOUS
<1>5. Max(T) \in LinkedIn(stores, l) \cup {head} /\ Max(T) < new
  BY <1>1, <1>2
<1>6. Max(T) \in Nodes
  BY <1>5 DEF LinkedIn, Nodes
<1>7. QED
  BY <1>2, <1>3, <1>4, <1>5, <1>6 DEF Between

LEMMA InsertKeepsWriter ==
  ASSUME WriterInv, NEW new \in ListKeys, NEW height \in 1 .. MaxHeight, ListInsert(new, height)
  PROVE  WriterInv'
<1> DEFINE r == [key |-> new, height |-> height, level |-> 0, prev |-> PrevNodes(new), set |-> FALSE]
<1>1. /\ StoresInv(stores) /\ insert = NoInsert /\ insert' = r /\ new \notin LinkedIn(stores, 0)
      /\ Len(stores) \in Nat
  BY DEF WriterInv, ListInsert, Linked, LinkedIn, Links, StoresInv, Fits
<1>2. insert.key = head /\ insert'.key = new
  BY <1>1 DEF NoInsert
<1>3. /\ StoresInv(stores')
      /\ \A l \in Levels : LinkedIn(stores', l) = LinkedIn(stores, l)
      /\ \A n : \A l \in Levels : (\E i \in 1 .. Len(stores') : Sets(stores', i, n, l))
                                    <=> (\E i \in 1 .. Len(stores) : Sets(stores, i, n, l))
      /\ \E i \in 1 .. Len(stores') : Sets(stores', i, new, key)
  BY <1>1, InsertStores
<1>a. 0 \in Levels /\ \A l \in Levels : l \in Nat
  BY Keys DEF Levels
<1>4. \A x \in ListKeys, l \in Levels : (\E i \in 1 .. Len(stores) : Sets(stores, i, x, l)) => x \in LinkedIn(stores, l)
  BY <1>2, Keys DEF WriterInv, Owned
<1>5. \A l \in Levels : new \notin LinkedIn(stores, l) /\ ~\E i \in 1 .. Len(stores) : Sets(stores, i, new, l)
  <2>1. ASSUME NEW l \in Levels, new \in LinkedIn(stores, l) PROVE FALSE
    <3>1. PICK j \in 1 .. Len(stores) : Links(stores, j, new, l)
      BY <2>1 DEF LinkedIn
    <3>2. 0 \in 0 .. l
      BY <1>a
    <3>3. PICK i \in 1 .. j : Sets(stores, i, new, 0)
      BY <1>1, <3>1, <3>2 DEF StoresInv, Published
    <3>4. i \in 1 .. Len(stores)
      BY <1>1
    <3>5. QED
      BY <1>1, <1>4, <1>a, <3>3, <3>4
  <2>2. QED
    BY <1>4, <2>1
<1>6. Owned(stores', new)
  BY <1>3, <1>4 DEF Owned
<1>7. Inserting(stores', r)
  <2>1. r \in Insertion
    <3>1. PrevNodes(new) \in [Levels -> Nodes]
      BY PrevIsBefore DEF PrevNodes
    <3>2. QED
      BY <1>a, <3>1 DEF Insertion
  <2>2. /\ r.key = new /\ r.height = height /\ r.level = 0 /\ r.set = FALSE /\ r.prev = PrevNodes(new)
        /\ 0 < height
    BY Keys
  <2> HIDE DEF r
  <2>3. \A l \in Levels : Between(stores', PrevNodes(new)[l], new, l)
    BY <1>3, PrevIsBefore DEF Between
  <2>4. QED
    BY <1>3, <1>5, <1>a, <2>1, <2>2, <2>3 DEF Inserting
<1>8. QED
  BY <1>1, <1>2, <1>3, <1>6, <1>7 DEF WriterInv

(* The loop: a node's own link, then the one to it.                        *)
LEMMA SetNextStores ==
  ASSUME WriterInv, SetNext
  PROVE  /\ Len(stores') = Len(stores) + 1 /\ Len(stores) \in Nat
         /\ \A i \in 1 .. Len(stores) : stores'[i] = stores[i]
         /\ WriterInv'
<1> DEFINE r == insert  new == r.key  h == r.level  p == r.prev[h]
<1>1. /\ StoresInv(stores) /\ Owned(stores, new) /\ Inserting(stores, r) /\ r # NoInsert
      /\ stores \in Seq(Rec) /\ Len(stores) \in Nat
  BY DEF WriterInv, SetNext, StoresInv, Fits
<1>2. /\ r \in Insertion /\ new \in ListKeys /\ h \in Levels /\ r.height \in 1 .. MaxHeight /\ h < r.height
      /\ r.set \in BOOLEAN /\ r.prev \in [Levels -> Nodes] /\ p \in Nodes
  BY <1>1 DEF Inserting, Insertion
<1>3. /\ \E i \in 1 .. Len(stores) : Sets(stores, i, new, key)
      /\ \A l \in Levels : new \in LinkedIn(stores, l) <=> l < h
      /\ \A l \in Levels : (\E i \in 1 .. Len(stores) : Sets(stores, i, new, l)) <=> l < h \/ (l = h /\ r.set)
      /\ \A l \in Levels : h <= l => Between(stores, r.prev[l], new, l)
  BY <1>1 DEF Inserting
<1>a. \A l \in Levels : l \in Nat
  BY Keys
<1>4. Between(stores, p, new, h)
  BY <1>2, <1>3, <1>a
<1>b. /\ stores' = IF r.set THEN Append(stores, Store(<<p, h>>, new, TRUE))
                            ELSE Append(stores, Store(<<new, h>>, At(p, h), FALSE))
      /\ insert' = IF ~r.set THEN [r EXCEPT !.set = TRUE]
                   ELSE IF h + 1 = r.height THEN NoInsert
                   ELSE [r EXCEPT !.set = FALSE, !.level = @ + 1]
  BY DEF SetNext, NextLink, PublishedWith
<1> HIDE DEF r
<1>5. CASE ~r.set
  <2> DEFINE t == WithOwn(stores, new, h, At(p, h))
  <2>1. /\ stores' = t /\ insert' = [r EXCEPT !.set = TRUE]
    BY <1>5, <1>b DEF WithOwn
  <2>2. /\ At(p, h) \in LinkedIn(stores, h) \cup {nullptr} /\ p < At(p, h)
        /\ \A k \in LinkedIn(stores, h) : p < k => At(p, h) <= k
        /\ p \in LinkedIn(stores, h) \cup {head} /\ p < new /\ p \in Nat
        /\ \A k \in LinkedIn(stores, h) : k < new => k <= p
        /\ new \notin LinkedIn(stores, h)
    <3>1. p \in LinkedIn(stores, h) \cup {head} /\ p < new /\ \A k \in LinkedIn(stores, h) : k < new => k <= p
      BY <1>4 DEF Between
    <3>2. p \in Nat
      BY <1>2, NodesAreNumbers
    <3>3. new \notin LinkedIn(stores, h)
      BY <1>2, <1>3, <1>a
    <3>4. QED
      BY <1>1, <1>2, <3>1, <3>2, <3>3, AtIsNext
  <2>3. new < At(p, h)
    <3>1. LinkedIn(stores, h) \subseteq Nat /\ new \in Nat
      BY <1>2, Keys DEF LinkedIn
    <3>2. QED
      BY <1>2, <2>2, <3>1, Keys
  <2>4. \A k \in LinkedIn(stores, h) : new < k => At(p, h) <= k
    <3>1. LinkedIn(stores, h) \subseteq Nat /\ new \in Nat
      BY <1>2, Keys DEF LinkedIn
    <3>2. QED
      BY <2>2, <3>1
  <2>5. \A m \in Levels : h <= m => new \notin LinkedIn(stores, m)
    BY <1>2, <1>3, <1>a
  <2>6. /\ StoresInv(t) /\ \A l \in Levels : LinkedIn(t, l) = LinkedIn(stores, l)
        /\ \A i \in 1 .. Len(stores) + 1 : \A n, l : Sets(t, i, n, l)
               <=> (i \in 1 .. Len(stores) /\ Sets(stores, i, n, l)) \/ (i = Len(stores) + 1 /\ n = new /\ l = h)
    <3>1. StoresInv(stores) /\ new \in ListKeys /\ h \in Levels /\ At(p, h) \in LinkedIn(stores, h) \cup {nullptr}
      BY <1>1, <1>2, <2>2
    <3>2. QED
      BY <2>3, <2>4, <2>5, <3>1, OwnLink
  <2>7. Len(t) = Len(stores) + 1 /\ \A i \in 1 .. Len(stores) : t[i] = stores[i]
    BY <1>1 DEF WithOwn
  <2>8. insert' \in Insertion /\ insert'.key = new /\ insert'.level = h /\ insert'.height = r.height
        /\ insert'.prev = r.prev /\ insert'.set = TRUE
    BY <1>2, <2>1 DEF Insertion
  <2> HIDE DEF t
  <2>9. Owned(t, new)
    BY <1>1, <2>6, <2>7 DEF Owned
  <2>10. Inserting(t, insert')
    <3>1. \E i \in 1 .. Len(t) : Sets(t, i, new, key)
      BY <1>1, <1>3, <2>6, <2>7
    <3>2. \A l \in Levels : (\E i \in 1 .. Len(t) : Sets(t, i, new, l)) <=> l < h \/ l = h
      <4>1. Len(stores) + 1 \in 1 .. Len(t) /\ \A i \in 1 .. Len(stores) : i \in 1 .. Len(t)
        BY <1>1, <2>7
      <4>2. QED
        BY <1>3, <1>5, <2>6, <2>7, <4>1
    <3>3. \A l \in Levels : h <= l => Between(t, r.prev[l], new, l)
      BY <1>3, <2>6 DEF Between
    <3>4. QED
      BY <1>2, <1>3, <2>6, <2>8, <3>1, <3>2, <3>3 DEF Inserting
  <2>11. QED
    BY <1>1, <2>1, <2>6, <2>7, <2>8, <2>9, <2>10 DEF WriterInv
<1>6. CASE r.set
  <2> DEFINE t == WithNew(stores, new, h, p)
  <2>1. stores' = t
    BY <1>6, <1>b DEF WithNew
  <2>2. \A l \in 0 .. h : \E i \in 1 .. Len(stores) : Sets(stores, i, new, l)
    <3>1. \A l \in 0 .. h : l \in Levels /\ (l < h \/ l = h)
      BY <1>2, Keys DEF Levels
    <3>2. QED
      BY <1>3, <1>6, <3>1
  <2>3. /\ StoresInv(t)
        /\ \A l \in Levels : LinkedIn(t, l) = LinkedIn(stores, l) \cup (IF l = h THEN {new} ELSE {})
        /\ \A i \in 1 .. Len(stores) + 1 : \A n, l : Sets(t, i, n, l)
               <=> (i \in 1 .. Len(stores) /\ Sets(stores, i, n, l)) \/ (i = Len(stores) + 1 /\ n = p /\ l = h)
    <3>1. /\ StoresInv(stores) /\ new \in ListKeys /\ h \in Levels /\ Owned(stores, new)
          /\ \E i \in 1 .. Len(stores) : Sets(stores, i, new, key)
      BY <1>1, <1>2, <1>3
    <3>2. QED
      BY <1>4, <2>2, <3>1, NewLink
  <2>4. Len(t) = Len(stores) + 1 /\ \A i \in 1 .. Len(stores) : t[i] = stores[i]
    BY <1>1 DEF WithNew
  <2>5. p # new
    <3>1. p < new /\ new \in Nat
      BY <1>2, <1>4, Keys DEF Between
    <3>2. QED
      BY <3>1
  <2> HIDE DEF t
  <2>6. \A x \in Nodes : x # p => \A l : (\E i \in 1 .. Len(t) : Sets(t, i, x, l))
                                          <=> (\E i \in 1 .. Len(stores) : Sets(stores, i, x, l))
    <3>1. \A i \in 1 .. Len(stores) : i \in 1 .. Len(t)
      BY <1>1, <2>4
    <3>2. QED
      BY <2>3, <2>4, <3>1
  <2>7. \A l \in Levels : new \in LinkedIn(t, l) <=> l < h + 1
    <3>1. \A l \in Levels : l < h + 1 <=> l < h \/ l = h
      BY <1>2, <1>a
    <3>2. QED
      BY <1>3, <2>3, <3>1
  <2>8. \A l \in Levels : (\E i \in 1 .. Len(t) : Sets(t, i, new, l)) <=> l < h + 1
    <3>1. \A l \in Levels : l < h + 1 <=> l < h \/ l = h
      BY <1>2, <1>a
    <3>2. new \in Nodes
      BY <1>2 DEF Nodes
    <3>3. QED
      BY <1>3, <1>6, <2>5, <2>6, <3>1, <3>2
  <2>9. \A i \in 1 .. Len(t), x \in ListKeys, l \in Levels : Sets(t, i, x, l) => x \in LinkedIn(t, l)
    <3> SUFFICES ASSUME NEW i \in 1 .. Len(t), NEW x \in ListKeys, NEW l \in Levels, Sets(t, i, x, l)
                 PROVE  x \in LinkedIn(t, l)
      OBVIOUS
    <3>1. CASE x = new
      BY <2>7, <2>8, <3>1
    <3>2. CASE x # new /\ i \in 1 .. Len(stores) /\ Sets(stores, i, x, l)
      BY <1>1, <2>3, <3>2 DEF Owned
    <3>3. CASE x = p /\ l = h
      BY <1>4, <2>3, <3>3, Keys DEF Between
    <3>4. QED
      BY <2>3, <2>4, <3>1, <3>2, <3>3
  <2>10. CASE h + 1 = r.height
    <3>1. insert' = NoInsert
      BY <1>6, <1>b, <2>10
    <3>2. Owned(t, insert'.key)
      BY <2>9 DEF Owned
    <3>3. QED
      BY <1>1, <2>1, <2>3, <2>4, <3>1, <3>2 DEF WriterInv
  <2>11. CASE h + 1 # r.height
    <3>1. insert' = [r EXCEPT !.set = FALSE, !.level = @ + 1]
      BY <1>6, <1>b, <2>11
    <3>2. h + 1 \in Levels /\ h + 1 < r.height
      BY <1>2, <2>11, Keys DEF Levels
    <3>3. insert' \in Insertion /\ insert'.key = new /\ insert'.level = h + 1 /\ insert'.height = r.height
          /\ insert'.prev = r.prev /\ insert'.set = FALSE
      BY <1>2, <3>1, <3>2 DEF Insertion
    <3>4. Owned(t, new)
      BY <2>9 DEF Owned
    <3>5. \A l \in Levels : h + 1 <= l => Between(t, r.prev[l], new, l)
      <4> SUFFICES ASSUME NEW l \in Levels, h + 1 <= l PROVE Between(t, r.prev[l], new, l)
        OBVIOUS
      <4>1. h <= l /\ l # h
        BY <1>2, <1>a
      <4>2. LinkedIn(t, l) = LinkedIn(stores, l)
        BY <2>3, <4>1
      <4>3. QED
        BY <1>3, <4>1, <4>2 DEF Between
    <3>6. \E i \in 1 .. Len(t) : Sets(t, i, new, key)
      <4>1. new \in Nodes
        BY <1>2 DEF Nodes
      <4>2. QED
        BY <1>3, <2>5, <2>6, <4>1
    <3>7. Inserting(t, insert')
      BY <2>7, <2>8, <3>2, <3>3, <3>5, <3>6 DEF Inserting
    <3>8. QED
      BY <1>1, <2>1, <2>3, <2>4, <3>3, <3>4, <3>7 DEF WriterInv
  <2>12. QED
    BY <2>10, <2>11
<1>7. QED
  BY <1>2, <1>5, <1>6
-----------------------------------------------------------------------------
(* The reader.  What it reached stays reached.                             *)
LEMMA ReachedStays ==
  ASSUME NEW s, NEW t, Len(s) \in Nat, \A i \in 1 .. Len(s) : t[i] = s[i],
         NEW v \in Nat, NEW w \in Nat, v <= Len(s), v <= w, NEW x, NEW l \in Nat, NEW m \in Nat, m <= l,
         Reached(s, v, x, l)
  PROVE  Reached(t, w, x, m)
<1>1. CASE x = head
  BY <1>1 DEF Reached
<1>2. CASE x # head
  <2>1. PICK j \in 1 .. v, o \in Levels : l <= o /\ Links(s, j, x, o)
    BY <1>2 DEF Reached
  <2>2. j \in 1 .. w /\ j \in 1 .. Len(s) /\ o \in Nat
    BY Keys
  <2>3. m <= o /\ Links(t, j, x, o)
    BY <2>1, <2>2 DEF Links
  <2>4. QED
    BY <2>2, <2>3 DEF Reached
<1>3. QED
  BY <1>1, <1>2

(* The writer's steps leave the reader where it is, with what it is sure   *)
(* of.                                                                     *)
LEMMA WriterStepReader ==
  ASSUME ReaderInv, Len(stores) \in Nat, Len(stores') \in Nat, Len(stores) <= Len(stores'),
         \A i \in 1 .. Len(stores) : stores'[i] = stores[i],
         UNCHANGED <<view, node, search>>
  PROVE  ReaderInv'
<1>1. view \in Nat /\ MaxHeight + 1 <= view /\ view <= Len(stores) /\ view <= Len(stores')
  BY Keys DEF ReaderInv
<1>2. node \in ListKeys \cup {nullptr} /\ (node \in ListKeys => Reached(stores', view, node, 0))
  <2>1. ASSUME Reached(stores, view, node, 0) PROVE Reached(stores', view, node, 0)
    BY <1>1, <2>1, ReachedStays
  <2>2. QED
    BY <2>1 DEF ReaderInv
<1>3. CASE search = Idle
  BY <1>1, <1>2, <1>3 DEF ReaderInv
<1>4. CASE InSearch
  <2>1. search.level \in Nat
    BY <1>4, Keys DEF InSearch, Searching
  <2>2. Reached(stores', view, search.x, search.level)
    BY <1>1, <1>4, <2>1, ReachedStays DEF InSearch
  <2>3. QED
    BY <1>1, <1>2, <1>4, <2>2 DEF InSearch, ReaderInv
<1>5. CASE InAnswer
  <2>1. Reached(stores', view, search.x, 0)
    BY <1>1, <1>5, ReachedStays DEF InAnswer
  <2>2. Sure' = Sure
    <3>1. search.from \in Nat /\ search.from <= view
      BY <1>5 DEF InAnswer, Answered
    <3>2. \A i \in 1 .. search.from : i \in 1 .. Len(stores)
      BY <1>1, <3>1
    <3>3. \A i \in 1 .. search.from : stores'[i] = stores[i]
      BY <3>2
    <3>4. QED
      BY <3>3 DEF Sure
  <2>3. FindsWhatIsThere'
    BY <1>5, <2>2 DEF InAnswer, FindsWhatIsThere
  <2>4. QED
    BY <1>1, <1>2, <1>5, <2>1, <2>3 DEF InAnswer, ReaderInv
<1>6. QED
  BY <1>3, <1>4, <1>5 DEF ReaderInv

(* A load may return any store from the last one that the reader is sure   *)
(* of; from a load on it is sure of what was loaded.                       *)
LEMMA LoadableFacts ==
  ASSUME stores \in Seq(Rec), view \in Nat, view <= Len(stores), NEW n, NEW l, NEW i \in Loadable(<<n, l>>),
         \E j \in 1 .. view : Sets(stores, j, n, l)
  PROVE  /\ i \in 1 .. Len(stores) /\ Sets(stores, i, n, l) /\ Loaded(i) = stores[i].to
         /\ \A j \in 1 .. view : Sets(stores, j, n, l) => j <= i
<1> DEFINE T == StoredAt(<<n, l>>, view) \cup {0}
<1>1. Len(stores) \in Nat
  OBVIOUS
<1>2. \A j, m : j \in StoredAt(<<n, l>>, m) <=> j \in 1 .. m /\ Sets(stores, j, n, l)
  BY DEF StoredAt, Sets
<1>3. T \in SUBSET Nat /\ T # {} /\ \A j \in T : j <= view
  <2>1. StoredAt(<<n, l>>, view) \subseteq 1 .. view
    BY DEF StoredAt
  <2>2. QED
    BY <2>1
<1>4. Max(T) \in T /\ \A j \in T : j <= Max(T)
  BY <1>3, Greatest
<1>5. i \in StoredAt(<<n, l>>, Len(stores)) \cup {0} /\ i >= Max(T)
  BY DEF Loadable
<1>6. \A j \in 1 .. view : Sets(stores, j, n, l) => j <= i
  <2>1. StoredAt(<<n, l>>, Len(stores)) \subseteq 1 .. Len(stores)
    BY DEF StoredAt
  <2>2. i \in Nat /\ Max(T) \in Nat
    <3>1. Max(T) \in Nat
      BY <1>3, <1>4
    <3>2. i \in (1 .. Len(stores)) \cup {0}
      BY <1>5, <2>1
    <3>3. QED
      BY <1>1, <3>1, <3>2
  <2>3. ASSUME NEW j \in 1 .. view, Sets(stores, j, n, l) PROVE j <= i
    <3>1. j \in T
      BY <1>2, <2>3
    <3>2. j <= Max(T)
      BY <1>4, <3>1
    <3>3. QED
      BY <1>5, <2>2, <3>2
  <2>4. QED
    BY <2>3
<1>7. i # 0
  BY <1>6
<1>8. QED
  BY <1>2, <1>5, <1>6, <1>7 DEF Loaded

LEMMA AcquireFacts ==
  ASSUME stores \in Seq(Rec), view \in Nat, view <= Len(stores), NEW i \in 1 .. Len(stores)
  PROVE  /\ AcquireLoad(i) \in Nat /\ view <= AcquireLoad(i) /\ AcquireLoad(i) <= Len(stores)
         /\ stores[i].release => i <= AcquireLoad(i)
<1>1. Len(stores) \in Nat /\ i \in Nat /\ i > 0 /\ {view, i} \in SUBSET Nat
  OBVIOUS
<1>2. \A j \in {view, i} : j <= Len(stores)
  BY <1>1
<1>3. Max({view, i}) \in {view, i} /\ \A j \in {view, i} : j <= Max({view, i})
  BY <1>1, <1>2, Greatest
<1>4. QED
  BY <1>1, <1>2, <1>3 DEF AcquireLoad

(* What the reader of x at level l finds: a node further on, of which it   *)
(* is sure then, and none that it was sure of is passed over.              *)
LEMMA LoadFacts ==
  ASSUME StoresInv(stores), view \in Nat, MaxHeight + 1 <= view, view <= Len(stores),
         NEW x \in Nodes, NEW l \in Levels, Reached(stores, view, x, l), NEW i \in Loadable(<<x, l>>)
  PROVE  /\ i \in 1 .. Len(stores) /\ Links(stores, i, Loaded(i), l)
         /\ Loaded(i) \in ListKeys \cup {nullptr} /\ x < Loaded(i)
         /\ AcquireLoad(i) \in Nat /\ view <= AcquireLoad(i) /\ AcquireLoad(i) <= Len(stores)
         /\ i <= AcquireLoad(i)
         /\ \A j \in 1 .. view, k \in ListKeys : Links(stores, j, k, l) /\ x < k => Loaded(i) <= k
<1>1. stores \in Seq(Rec) /\ Len(stores) \in Nat /\ l \in Nat /\ MaxHeight \in Nat
  BY Keys DEF StoresInv, Fits
<1>2. \/ x = head
      \/ x \in ListKeys /\ \E j \in 1 .. view, m \in Levels : l <= m /\ Links(stores, j, x, m)
  BY DEF Reached, Nodes
<1>3. \E j \in 1 .. view : Sets(stores, j, x, l)
  <2>1. CASE x = head
    <3>1. PICK j \in 1 .. MaxHeight : Sets(stores, j, head, l)
      BY DEF StoresInv, HeadSet
    <3>2. j \in 1 .. view
      BY <1>1
    <3>3. QED
      BY <2>1, <3>1, <3>2
  <2>2. CASE x \in ListKeys /\ \E j \in 1 .. view, m \in Levels : l <= m /\ Links(stores, j, x, m)
    <3>1. PICK j \in 1 .. view, m \in Levels : l <= m /\ Links(stores, j, x, m)
      BY <2>2
    <3>2. l \in 0 .. m /\ j \in 1 .. Len(stores)
      BY <1>1, <3>1, Keys
    <3>3. PICK o \in 1 .. j : Sets(stores, o, x, l)
      BY <2>2, <3>1, <3>2 DEF StoresInv, Published
    <3>4. o \in 1 .. view
      BY <1>1
    <3>5. QED
      BY <3>3, <3>4
  <2>3. QED
    BY <1>2, <2>1, <2>2
<1>4. /\ i \in 1 .. Len(stores) /\ Sets(stores, i, x, l) /\ Loaded(i) = stores[i].to
      /\ \A j \in 1 .. view : Sets(stores, j, x, l) => j <= i
  BY <1>1, <1>3, LoadableFacts
<1>5. stores[i].at[1] = x /\ stores[i].at[2] = l /\ stores[i].to \in Nat /\ stores[i].release \in BOOLEAN
  BY <1>1, <1>4, StoreFacts
<1>6. FitsAt(stores[i])
  BY <1>4 DEF StoresInv, Fits
<1>7. Loaded(i) \in ListKeys \cup {nullptr} /\ x < Loaded(i) /\ Links(stores, i, Loaded(i), l)
  BY <1>4, <1>5, <1>6, NodesAreNumbers DEF FitsAt, Links
<1>8. /\ AcquireLoad(i) \in Nat /\ view <= AcquireLoad(i) /\ AcquireLoad(i) <= Len(stores)
      /\ stores[i].release => i <= AcquireLoad(i)
  BY <1>1, <1>4, AcquireFacts
<1>9. i <= AcquireLoad(i)
  <2>1. CASE x = head
    BY <1>5, <1>6, <1>8, <2>1 DEF FitsAt
  <2>2. CASE x \in ListKeys /\ (\E j \in 1 .. view, m \in Levels : l <= m /\ Links(stores, j, x, m)) /\ ~stores[i].release
    <3>1. PICK j \in 1 .. view, m \in Levels : l <= m /\ Links(stores, j, x, m)
      BY <2>2
    <3>2. j \in 1 .. Len(stores)
      BY <1>1
    <3>3. i < j
      BY <1>4, <2>2, <3>1, <3>2 DEF StoresInv, Early
    <3>4. QED
      BY <1>1, <1>4, <1>8, <3>1, <3>3
  <2>3. QED
    BY <1>2, <1>5, <1>8, <2>1, <2>2
<1>10. ASSUME NEW j \in 1 .. view, NEW k \in ListKeys, Links(stores, j, k, l), x < k PROVE Loaded(i) <= k
  <2>1. j \in 1 .. Len(stores)
    BY <1>1
  <2>2. stores[i].to <= k \/ \E n \in 1 .. j : i < n /\ Sets(stores, n, x, l)
    BY <1>4, <1>10, <2>1 DEF StoresInv, NoSkip
  <2>3. ASSUME NEW n \in 1 .. j, i < n, Sets(stores, n, x, l) PROVE FALSE
    <3>1. n \in 1 .. view
      BY <1>1
    <3>2. n <= i
      BY <1>4, <2>3, <3>1
    <3>3. QED
      BY <1>4, <2>3, <3>1, <3>2
  <2>4. QED
    BY <1>4, <2>2, <2>3
<1>11. QED
  BY <1>4, <1>7, <1>8, <1>9, <1>10

(* Every search begins at the head, at a height the list has had.          *)
LEMMA FindReader ==
  ASSUME StoresInv(stores), ReaderInv, NEW op \in {"FindGreaterOrEqual", "FindLessThan", "FindLast"},
         NEW target \in ListKeys \cup {nullptr}, op # "FindLast" => target \in ListKeys,
         Find(op, target)
  PROVE  ReaderInv'
<1>1. /\ view \in Nat /\ MaxHeight + 1 <= view /\ view <= Len(stores) /\ MaxHeight \in Nat \ {0}
      /\ stores \in Seq(Rec) /\ Len(stores) \in Nat
  BY Keys DEF ReaderInv, StoresInv, Fits
<1>2. PICK i \in Loadable(<<head, max_height_>>) : Begin(op, target, head, Loaded(i) - 1)
  BY DEF Find
<1>3. MaxHeight + 1 \in 1 .. view /\ Sets(stores, MaxHeight + 1, head, max_height_)
  BY <1>1 DEF StoresInv, HeadSet
<1>4. i \in 1 .. Len(stores) /\ Sets(stores, i, head, max_height_) /\ Loaded(i) = stores[i].to
  BY <1>1, <1>3, LoadableFacts
<1>5. Loaded(i) \in 1 .. MaxHeight
  <2>1. FitsAt(stores[i])
    BY <1>4 DEF StoresInv, Fits
  <2>2. QED
    BY <1>4, <2>1 DEF FitsAt, Sets
<1>6. Loaded(i) - 1 \in Levels
  BY <1>1, <1>5 DEF Levels
<1>7. /\ search' = [op |-> op, target |-> target, x |-> head, level |-> Loaded(i) - 1, from |-> view]
      /\ UNCHANGED <<stores, insert, view, node>>
  BY <1>2 DEF Begin, Find
<1>8. InSearch'
  <2>1. search' \in Searching
    BY <1>1, <1>6, <1>7, NodesAreNumbers DEF Searching, Ops
  <2>2. Reached(stores', view', search'.x, search'.level)
    BY <1>7 DEF Reached
  <2>3. search'.op # "Next" /\ search'.from <= view'
    BY <1>1, <1>7
  <2>4. search'.op \in {"FindGreaterOrEqual", "FindLessThan"} => search'.target \in ListKeys /\ search'.x < search'.target
    BY <1>7, Keys
  <2>5. QED
    BY <2>1, <2>2, <2>3, <2>4 DEF InSearch
<1>9. QED
  BY <1>1, <1>7, <1>8 DEF ReaderInv

LEMMA FollowReader ==
  ASSUME ReaderInv, NEW x \in Nodes, Reached(stores, view, x, 0), Follow(x)
  PROVE  ReaderInv'
<1>1. /\ view \in Nat /\ 0 \in Levels
      /\ search' = [op |-> "Next", target |-> head, x |-> x, level |-> 0, from |-> view]
      /\ UNCHANGED <<stores, insert, view, node>>
  BY Keys DEF Follow, Begin, ReaderInv, Levels
<1>2. InSearch'
  <2>1. search' \in Searching /\ search'.op = "Next" /\ search'.level = 0 /\ search'.x = x /\ search'.from = view
    BY <1>1 DEF Searching, Ops
  <2>2. QED
    BY <1>1, <2>1 DEF InSearch
<1>3. QED
  BY <1>1, <1>2 DEF ReaderInv

(* A load goes on to the next node, down a level, or ends the search.      *)
LEMMA LoadReader ==
  ASSUME StoresInv(stores), ReaderInv, Load
  PROVE  ReaderInv'
<1> DEFINE op == search.op  target == search.target  x == search.x  l == search.level
<1>1. InSearch
  <2>1. search.op # "none" /\ search.op # "ended"
    BY DEF Load
  <2>2. search # Idle /\ search \notin Answered
    BY <2>1 DEF Idle, Answered
  <2>3. QED
    BY <2>2 DEF ReaderInv, InAnswer
<1>2. /\ op \in Ops /\ target \in ListKeys \cup {head, nullptr} /\ x \in Nodes /\ l \in Levels
      /\ search \in Searching /\ search.from \in Nat /\ search.from <= view
      /\ Reached(stores, view, x, l) /\ (op = "Next" => l = 0)
      /\ op \in {"FindGreaterOrEqual", "FindLessThan"} => target \in ListKeys /\ x < target
  BY <1>1 DEF InSearch, Searching
<1>3. /\ view \in Nat /\ MaxHeight + 1 <= view /\ view <= Len(stores) /\ MaxHeight \in Nat \ {0}
      /\ Len(stores) \in Nat /\ l \in Nat
      /\ node \in ListKeys \cup {nullptr} /\ (node \in ListKeys => Reached(stores, view, node, 0))
  <2>1. /\ view \in Nat /\ MaxHeight + 1 <= view /\ view <= Len(stores)
        /\ node \in ListKeys \cup {nullptr} /\ (node \in ListKeys => Reached(stores, view, node, 0))
    BY DEF ReaderInv
  <2>2. stores \in Seq(Rec)
    BY DEF StoresInv, Fits
  <2>3. Len(stores) \in Nat
    BY <2>2
  <2>4. MaxHeight \in Nat \ {0} /\ l \in Nat
    BY <1>2, Keys
  <2>5. QED
    BY <2>1, <2>3, <2>4
<1>4. PICK i \in Loadable(<<x, l>>) :
         LET next == Loaded(i)
         IN  /\ view' = AcquireLoad(i)
             /\ IF op # "Next" /\ Before(op, search.target, next)
                THEN search' = [search EXCEPT !.x = next] /\ UNCHANGED node
                ELSE IF search.level > 0
                THEN search' = [search EXCEPT !.level = @ - 1] /\ UNCHANGED node
                ELSE /\ search' = [op |-> "ended", by |-> op, target |-> search.target,
                                   x |-> search.x, from |-> search.from]
                     /\ node' = IF op \in {"Next", "FindGreaterOrEqual"} THEN next
                                ELSE IF search.x = head THEN nullptr ELSE search.x
  BY DEF Load
<1>5. UNCHANGED stores
  BY DEF Load
<1> DEFINE next == Loaded(i)
<1>6. /\ i \in 1 .. Len(stores) /\ Links(stores, i, next, l)
      /\ next \in ListKeys \cup {nullptr} /\ x < next
      /\ view' \in Nat /\ view <= view' /\ view' <= Len(stores)
      /\ i <= view'
      /\ \A j \in 1 .. view, k \in ListKeys : Links(stores, j, k, l) /\ x < k => next <= k
  BY <1>2, <1>3, <1>4, LoadFacts
<1>7. \A n, m, o : m \in Nat /\ o \in Nat /\ o <= m /\ Reached(stores, view, n, m) => Reached(stores', view', n, o)
  BY <1>3, <1>5, <1>6, ReachedStays
<1>8. next \in ListKeys => Reached(stores', view', next, l)
  <2>1. i \in 1 .. view'
    BY <1>6
  <2>2. l <= l /\ l \in Levels
    BY <1>2, <1>3
  <2>3. QED
    BY <1>5, <1>6, <2>1, <2>2 DEF Reached
<1>9. /\ MaxHeight + 1 <= view' /\ view' <= Len(stores') /\ search.from <= view'
  BY <1>2, <1>3, <1>5, <1>6
<1> HIDE DEF next
<1>10. CASE op # "Next" /\ Before(op, target, next)
  <2>1. search' = [search EXCEPT !.x = next] /\ node' = node
    BY <1>4, <1>10 DEF next
  <2>2. next \in ListKeys /\ (op = "FindLast" \/ next < target)
    BY <1>6, <1>10 DEF Before
  <2>3. /\ search' \in Searching /\ search'.x = next /\ search'.op = op /\ search'.target = target
        /\ search'.level = l /\ search'.from = search.from
    BY <1>2, <2>1, <2>2 DEF Searching, Nodes
  <2>4. InSearch'
    BY <1>2, <1>8, <1>9, <1>10, <2>2, <2>3 DEF InSearch
  <2>5. node' \in ListKeys \cup {nullptr} /\ (node' \in ListKeys => Reached(stores', view', node', 0))
    BY <1>3, <1>7, <2>1
  <2>6. QED
    BY <1>6, <1>9, <2>4, <2>5 DEF ReaderInv
<1>11. CASE ~(op # "Next" /\ Before(op, target, next)) /\ l > 0
  <2>1. search' = [search EXCEPT !.level = @ - 1] /\ node' = node
    BY <1>4, <1>11 DEF next
  <2>2. l - 1 \in Levels /\ l - 1 \in Nat /\ l - 1 <= l
    BY <1>2, <1>3, <1>11 DEF Levels
  <2>3. /\ search' \in Searching /\ search'.x = x /\ search'.op = op /\ search'.target = target
        /\ search'.level = l - 1 /\ search'.from = search.from
    BY <1>2, <2>1, <2>2 DEF Searching
  <2>4. Reached(stores', view', x, l - 1)
    BY <1>2, <1>3, <1>7, <2>2
  <2>5. op # "Next"
    BY <1>2, <1>11
  <2>6. InSearch'
    BY <1>2, <1>9, <2>3, <2>4, <2>5 DEF InSearch
  <2>7. node' \in ListKeys \cup {nullptr} /\ (node' \in ListKeys => Reached(stores', view', node', 0))
    BY <1>3, <1>7, <2>1
  <2>8. QED
    BY <1>6, <1>9, <2>6, <2>7 DEF ReaderInv
<1>12. CASE ~(op # "Next" /\ Before(op, target, next)) /\ l = 0
  <2>1. /\ search' = [op |-> "ended", by |-> op, target |-> target, x |-> x, from |-> search.from]
        /\ node' = IF op \in {"Next", "FindGreaterOrEqual"} THEN next ELSE IF x = head THEN nullptr ELSE x
    BY <1>4, <1>12 DEF next
  <2>2. /\ search' \in Answered /\ search'.x = x /\ search'.op = "ended" /\ search'.by = op
        /\ search'.target = target /\ search'.from = search.from
    BY <1>2, <2>1 DEF Answered
  <2>3. Reached(stores', view', x, 0)
    BY <1>2, <1>3, <1>7, <1>12
  <2>4. node' \in ListKeys \cup {nullptr} /\ (node' \in ListKeys => Reached(stores', view', node', 0))
    <3>1. CASE op \in {"Next", "FindGreaterOrEqual"}
      <4>1. node' = next
        BY <2>1, <3>1
      <4>2. QED
        BY <1>6, <1>8, <1>12, <4>1
    <3>2. CASE op \notin {"Next", "FindGreaterOrEqual"} /\ x = head
      <4>1. node' = nullptr
        BY <2>1, <3>2
      <4>2. QED
        BY <4>1, Keys
    <3>3. CASE op \notin {"Next", "FindGreaterOrEqual"} /\ x # head
      <4>1. node' = x /\ x \in ListKeys
        BY <1>2, <2>1, <3>3 DEF Nodes
      <4>2. QED
        BY <2>3, <4>1
    <3>4. QED
      BY <3>1, <3>2, <3>3
  <2>5. \A k \in Sure' : k \in ListKeys /\ (x < k => next <= k)
    <3> SUFFICES ASSUME NEW k \in Sure' PROVE k \in ListKeys /\ (x < k => next <= k)
      OBVIOUS
    <3>1. k \in ListKeys /\ \E j \in 1 .. search.from : stores[j].to = k /\ stores[j].at[2] = 0
      BY <1>5, <2>2 DEF Sure
    <3>2. PICK j \in 1 .. search.from : Links(stores, j, k, l)
      BY <1>12, <3>1 DEF Links
    <3>3. j \in 1 .. view
      BY <1>2, <1>3
    <3>4. QED
      BY <1>6, <3>1, <3>2, <3>3
  <2>6. x \in Nat /\ next \in Nat /\ target \in Nat /\ \A k \in ListKeys : k \in Nat /\ k < nullptr
    BY <1>2, <1>6, Keys, NodesAreNumbers
  <2>7. op # "Next" => next = nullptr \/ (op # "FindLast" /\ next >= target)
    BY <1>12, <2>6 DEF Before
  <2>8. FindsWhatIsThere'
    <3>1. CASE op = "FindGreaterOrEqual"
      <4>1. node' = next /\ target \in ListKeys /\ x < target
        BY <1>2, <2>1, <3>1
      <4>2. next >= target
        BY <2>6, <2>7, <3>1, <4>1, Keys
      <4>3. ~\E k \in Sure' : target <= k /\ k < next
        BY <2>5, <2>6, <4>1
      <4>4. QED
        BY <2>2, <3>1, <4>1, <4>2, <4>3 DEF FindsWhatIsThere
    <3>2. CASE op = "FindLessThan"
      <4>1. target \in ListKeys /\ x < target
        BY <1>2, <3>2
      <4>2. next >= target
        BY <2>6, <2>7, <3>2, <4>1, Keys
      <4>3. ~\E k \in Sure' : x < k /\ k < target
        BY <2>5, <2>6, <4>1, <4>2
      <4>4. QED
        BY <2>2, <3>2, <4>1, <4>3 DEF FindsWhatIsThere
    <3>3. CASE op = "FindLast"
      <4>1. next = nullptr
        BY <2>7, <3>3
      <4>2. ASSUME NEW k \in Sure', x < k PROVE FALSE
        <5>1. nullptr <= k /\ k \in Nat /\ k < nullptr
          BY <2>5, <2>6, <4>1, <4>2
        <5>2. QED
          BY <2>6, <4>1, <5>1
      <4>3. QED
        BY <2>2, <3>3, <4>2 DEF FindsWhatIsThere
    <3>4. CASE op = "Next"
      <4>1. node' = next /\ next > x
        BY <1>6, <2>1, <2>6, <3>4
      <4>2. ~\E k \in Sure' : x < k /\ k < next
        BY <2>5, <2>6
      <4>3. QED
        BY <2>2, <3>4, <4>1, <4>2 DEF FindsWhatIsThere
    <3>5. QED
      BY <1>2, <3>1, <3>2, <3>3, <3>4 DEF Ops
  <2>9. InAnswer'
    BY <1>9, <2>2, <2>3, <2>8 DEF InAnswer
  <2>10. QED
    BY <1>6, <1>9, <2>4, <2>9 DEF ReaderInv
<1>13. QED
  BY <1>3, <1>10, <1>11, <1>12

(* An iterator returns, after the mutex if its caller takes it.            *)
LEMMA ReturnReader ==
  ASSUME StoresInv(stores), ReaderInv, Return
  PROVE  ReaderInv'
<1>1. /\ view \in Nat /\ MaxHeight + 1 <= view /\ view <= Len(stores) /\ Len(stores) \in Nat
      /\ node \in ListKeys \cup {nullptr} /\ (node \in ListKeys => Reached(stores, view, node, 0))
  BY DEF ReaderInv, StoresInv, Fits
<1>2. UNCHANGED <<stores, node>> /\ search' = Idle /\ view' \in {view, Len(stores)}
  BY DEF Return
<1>3. view' \in Nat /\ view <= view' /\ view' <= Len(stores) /\ MaxHeight + 1 <= view'
  BY <1>1, <1>2, Keys
<1>4. node' \in ListKeys => Reached(stores', view', node', 0)
  BY <1>1, <1>2, <1>3, ReachedStays
<1>5. QED
  BY <1>1, <1>2, <1>3, <1>4 DEF ReaderInv

(* Every step of the reader.                                               *)
LEMMA ReadReader ==
  ASSUME StoresInv(stores), ReaderInv, Read
  PROVE  ReaderInv'
<1>1. CASE ListSeek
  BY <1>1, FindReader DEF ListSeek
<1>2. CASE ListSeekToLast
  BY <1>2, FindReader DEF ListSeekToLast
<1>3. CASE StepBack
  BY <1>3, FindReader DEF StepBack
<1>4. CASE ListSeekToFirst
  <2>1. head \in Nodes /\ Reached(stores, view, head, 0) /\ Follow(head)
    BY <1>4, NodesAreNumbers DEF ListSeekToFirst, Reached
  <2>2. QED
    BY <2>1, FollowReader
<1>5. CASE StepForward
  <2>1. node \in Nodes /\ Reached(stores, view, node, 0) /\ Follow(node)
    BY <1>5, NodesAreNumbers DEF StepForward, ReaderInv
  <2>2. QED
    BY <2>1, FollowReader
<1>6. CASE Load
  BY <1>6, LoadReader
<1>7. CASE Return
  BY <1>7, ReturnReader
<1>8. QED
  BY <1>1, <1>2, <1>3, <1>4, <1>5, <1>6, <1>7 DEF Read
-----------------------------------------------------------------------------
(* The empty list.                                                         *)
LEMMA ListInitInv ==
  ASSUME ListInit
  PROVE  SkipInv
<1> DEFINE f == [i \in 1 .. MaxHeight |-> Store(<<head, i - 1>>, nullptr, TRUE)]
           r == Store(<<head, max_height_>>, 1, FALSE)
           N == MaxHeight
<1>1. N \in Nat \ {0} /\ nullptr \in Nat /\ head \in Nodes /\ head < nullptr /\ nullptr \notin ListKeys
  BY Keys, NodesAreNumbers
<1>2. \A i \in 1 .. N : Store(<<head, i - 1>>, nullptr, TRUE) \in Rec
  BY <1>1 DEF Store, Rec
<1>3. r \in Rec
  BY <1>1 DEF Store, Rec, max_height_
<1>4. stores = f \o <<r>>
  BY DEF ListInit
<1>a. f \in [1 .. N -> Rec] /\ \A i \in 1 .. N : f[i] = Store(<<head, i - 1>>, nullptr, TRUE)
  BY <1>2
<1>b. r = Store(<<head, max_height_>>, 1, FALSE)
  OBVIOUS
<1> HIDE DEF f, r
<1>5. f \in Seq(Rec) /\ Len(f) = N
  <2>1. f \in Seq(Rec)
    BY <1>1, <1>a, SeqDef
  <2>2. Len(f) \in Nat /\ 1 .. Len(f) = 1 .. N
    <3>1. DOMAIN f = 1 .. N
      BY <1>a
    <3>2. Len(f) \in Nat /\ DOMAIN f = 1 .. Len(f)
      BY <2>1, LenProperties
    <3>3. QED
      BY <3>1, <3>2, Zenon
  <2>3. ASSUME NEW m \in Nat, 1 .. m = 1 .. N PROVE m = N
    <3>1. N \in 1 .. N /\ (m > 0 => m \in 1 .. m)
      BY <1>1
    <3>2. N \in 1 .. m
      BY <2>3, <3>1, Zenon
    <3>3. m > 0
      BY <1>1, <3>2
    <3>4. m \in 1 .. N
      BY <2>3, <3>1, <3>3, Zenon
    <3>5. QED
      BY <1>1, <3>2, <3>4
  <2>4. QED
    BY <2>1, <2>2, <2>3
<1>6. /\ stores \in Seq(Rec) /\ Len(stores) = N + 1 /\ stores[N + 1] = r
      /\ \A i \in 1 .. N : stores[i] = f[i]
  <2>1. <<r>> \in Seq(Rec) /\ Len(<<r>>) = 1 /\ <<r>>[1] = r
    BY <1>3
  <2>2. QED
    BY <1>1, <1>4, <1>5, <2>1, ConcatProperties
<1>7. \A i \in 1 .. N : /\ stores[i].at = <<head, i - 1>> /\ stores[i].to = nullptr /\ stores[i].release = TRUE
                        /\ stores[i].at[1] = head /\ stores[i].at[2] = i - 1
  <2> SUFFICES ASSUME NEW i \in 1 .. N
               PROVE  /\ stores[i].at = <<head, i - 1>> /\ stores[i].to = nullptr /\ stores[i].release = TRUE
                      /\ stores[i].at[1] = head /\ stores[i].at[2] = i - 1
    OBVIOUS
  <2>1. stores[i] = Store(<<head, i - 1>>, nullptr, TRUE)
    BY <1>6, <1>a
  <2>2. QED
    BY <2>1 DEF Store
<1>8. /\ stores[N + 1].at = <<head, max_height_>> /\ stores[N + 1].to = 1 /\ stores[N + 1].release = FALSE
      /\ stores[N + 1].at[1] = head /\ stores[N + 1].at[2] = max_height_
  BY <1>6, <1>b DEF Store
<1>9. \A i \in 1 .. N + 1 : i \in 1 .. N \/ i = N + 1
  BY <1>1
<1>10. max_height_ \notin Levels /\ \A i \in 1 .. N : i - 1 # max_height_
  BY <1>1, Keys DEF max_height_
<1>11. Fits(stores)
  <2>1. \A i \in 1 .. N : FitsAt(stores[i])
    BY <1>1, <1>7, <1>10 DEF FitsAt
  <2>2. FitsAt(stores[N + 1])
    BY <1>1, <1>8, <1>10 DEF FitsAt
  <2>3. QED
    BY <1>6, <1>9, <2>1, <2>2 DEF Fits
<1>12. HeadSet(stores)
  <2>1. ASSUME NEW l \in Levels PROVE \E i \in 1 .. MaxHeight : Sets(stores, i, head, l)
    <3>1. l + 1 \in 1 .. N /\ (l + 1) - 1 = l
      BY <1>1 DEF Levels
    <3>2. QED
      BY <1>7, <3>1 DEF Sets
  <2>2. Sets(stores, MaxHeight + 1, head, max_height_)
    BY <1>8 DEF Sets
  <2>3. QED
    BY <1>1, <1>6, <2>1, <2>2 DEF HeadSet
(* Nobody is linked, and no node but head has links.                       *)
<1>13. \A j \in 1 .. N + 1, k \in ListKeys, m \in Levels : ~Links(stores, j, k, m)
  BY <1>1, <1>7, <1>8, <1>9, <1>10 DEF Links
<1>14. \A j \in 1 .. N + 1, x \in ListKeys, m \in Levels : ~Sets(stores, j, x, m)
  BY <1>7, <1>8, <1>9, Keys DEF Sets
<1>15. StoresInv(stores) /\ Owned(stores, insert.key)
  BY <1>6, <1>11, <1>12, <1>13, <1>14 DEF StoresInv, Published, Early, NoSkip, Owned
<1>16. WriterInv
  BY <1>15 DEF WriterInv, ListInit
<1>17. ReaderInv
  BY <1>1, <1>6 DEF ReaderInv, ListInit
<1>18. QED
  BY <1>16, <1>17 DEF SkipInv

(* Every step keeps what the proof is about.                               *)
LEMMA ListNextInv ==
  ASSUME SkipInv, [ListNext]_listVars
  PROVE  SkipInv'
<1>1. WriterInv /\ ReaderInv /\ StoresInv(stores) /\ stores \in Seq(Rec) /\ Len(stores) \in Nat
  BY DEF SkipInv, WriterInv, StoresInv, Fits
<1>2. ASSUME NEW new \in ListKeys, NEW height \in 1 .. MaxHeight, ListInsert(new, height) PROVE SkipInv'
  <2>1. /\ StoresInv(stores') /\ Len(stores) <= Len(stores')
        /\ \A i \in 1 .. Len(stores) : stores'[i] = stores[i]
    BY <1>1, <1>2, InsertStores
  <2>2. Len(stores') \in Nat
    BY <2>1 DEF StoresInv, Fits
  <2>3. WriterInv'
    BY <1>1, <1>2, InsertKeepsWriter
  <2>4. UNCHANGED <<view, node, search>>
    BY <1>2 DEF ListInsert
  <2>5. QED
    BY <1>1, <2>1, <2>2, <2>3, <2>4, WriterStepReader DEF SkipInv
<1>3. CASE SetNext
  <2>1. /\ Len(stores') = Len(stores) + 1 /\ \A i \in 1 .. Len(stores) : stores'[i] = stores[i]
        /\ WriterInv'
    BY <1>1, <1>3, SetNextStores
  <2>2. Len(stores') \in Nat /\ Len(stores) <= Len(stores')
    BY <1>1, <2>1
  <2>3. UNCHANGED <<view, node, search>>
    BY <1>3 DEF SetNext
  <2>4. QED
    BY <1>1, <2>1, <2>2, <2>3, WriterStepReader DEF SkipInv
<1>4. CASE Read
  <2>1. ReaderInv'
    BY <1>1, <1>4, ReadReader
  <2>2. UNCHANGED <<stores, insert>>
    BY <1>4 DEF Read, ListSeek, ListSeekToLast, StepBack, ListSeekToFirst, StepForward, Find, Follow, Load, Return
  <2>3. WriterInv'
    BY <1>1, <2>2 DEF WriterInv, Inserting
  <2>4. QED
    BY <2>1, <2>3 DEF SkipInv
<1>5. CASE UNCHANGED listVars
  <2>1. UNCHANGED <<stores, insert, view, node, search>>
    BY <1>5 DEF listVars
  <2>2. QED
    BY <2>1 DEF SkipInv, WriterInv, Inserting, ReaderInv, InSearch, InAnswer, FindsWhatIsThere, Sure
<1>6. QED
  BY <1>2, <1>3, <1>4, <1>5 DEF ListNext, Write
-----------------------------------------------------------------------------
(* Whoever is reached has a key that the reader is sure of.                *)
LEMMA ReachedHasKey ==
  ASSUME StoresInv(stores), view \in Nat, view <= Len(stores), NEW x \in ListKeys, NEW l \in Nat,
         Reached(stores, view, x, l)
  PROVE  StoredAt(<<x, key>>, view) # {}
<1>1. Len(stores) \in Nat /\ x # head
  BY Keys DEF StoresInv, Fits
<1>2. PICK j \in 1 .. view, m \in Levels : Links(stores, j, x, m)
  BY <1>1 DEF Reached
<1>3. j \in 1 .. Len(stores)
  BY <1>1
<1>4. PICK i \in 1 .. j : Sets(stores, i, x, key)
  BY <1>2, <1>3 DEF StoresInv, Published
<1>5. i \in 1 .. view
  BY <1>1
<1>6. QED
  BY <1>4, <1>5 DEF StoredAt, Sets

LEMMA SkipReadsInitialised ==
  ASSUME SkipInv
  PROVE  ReadsInitialised
<1>1. StoresInv(stores) /\ ReaderInv /\ view \in Nat /\ view <= Len(stores)
  BY DEF SkipInv, WriterInv, ReaderInv
<1>2. node # garbage /\ (node \in ListKeys => StoredAt(<<node, key>>, view) # {})
  <2>1. node \in ListKeys \cup {nullptr} /\ (node \in ListKeys => Reached(stores, view, node, 0))
    BY <1>1 DEF ReaderInv
  <2>2. node # garbage
    BY <2>1, Keys
  <2>3. QED
    BY <1>1, <2>1, <2>2, ReachedHasKey
<1>3. ASSUME "x" \in DOMAIN search
      PROVE  search.x # garbage /\ (search.x \in ListKeys => StoredAt(<<search.x, key>>, view) # {})
  <2>1. search # Idle
    BY <1>3 DEF Idle
  <2>2. \E l \in Nat : search.x \in Nodes /\ Reached(stores, view, search.x, l)
    <3>1. CASE InSearch
      <4>1. search.level \in Nat /\ search.x \in Nodes /\ Reached(stores, view, search.x, search.level)
        BY <3>1, Keys DEF InSearch, Searching
      <4>2. QED
        BY <4>1
    <3>2. CASE InAnswer
      <4>1. search.x \in Nodes /\ Reached(stores, view, search.x, 0)
        BY <3>2 DEF InAnswer, Answered
      <4>2. QED
        BY <4>1
    <3>3. QED
      BY <1>1, <2>1, <3>1, <3>2 DEF ReaderInv
  <2>3. search.x # garbage
    <3>1. garbage # head
      BY Keys DEF garbage, head
    <3>2. QED
      BY <2>2, <3>1, Keys DEF Nodes
  <2>4. QED
    BY <1>1, <2>2, <2>3, ReachedHasKey
<1>4. QED
  BY <1>2, <1>3 DEF ReadsInitialised

LEMMA SkipFindsWhatIsThere ==
  ASSUME SkipInv
  PROVE  FindsWhatIsThere
<1>1. search = Idle \/ InSearch \/ InAnswer
  BY DEF SkipInv, ReaderInv
<1>2. CASE search = Idle
  BY <1>2 DEF Idle, FindsWhatIsThere
<1>3. CASE InSearch
  <2>1. search.op \in Ops
    BY <1>3 DEF InSearch, Searching
  <2>2. search.op # "ended"
    BY <2>1 DEF Ops
  <2>3. QED
    BY <2>2 DEF FindsWhatIsThere
<1>4. CASE InAnswer
  BY <1>4 DEF InAnswer
<1>5. QED
  BY <1>1, <1>2, <1>3, <1>4

LEMMA SkipLevelsAreSorted ==
  ASSUME SkipInv
  PROVE  LevelsAreSorted
<1> SUFFICES ASSUME insert = NoInsert, NEW l \in Levels
             PROVE  /\ \A n \in Linked(l) \cup {head} : At(n, l) = Min({k \in Linked(l) : k > n} \cup {nullptr})
                    /\ l > 0 => Linked(l) \subseteq Linked(l - 1)
  BY DEF LevelsAreSorted
<1>1. /\ StoresInv(stores) /\ Owned(stores, head) /\ Len(stores) \in Nat
  BY DEF SkipInv, WriterInv, NoInsert, StoresInv, Fits
<1>2. \A m : Linked(m) = LinkedIn(stores, m)
  BY DEF Linked, LinkedIn, Links
<1>3. ASSUME NEW n \in Linked(l) \cup {head}
      PROVE  At(n, l) = Min({k \in Linked(l) : k > n} \cup {nullptr})
  <2> DEFINE T == {k \in Linked(l) : k > n} \cup {nullptr}
  <2>1. /\ At(n, l) \in Linked(l) \cup {nullptr} /\ n < At(n, l)
        /\ \A k \in Linked(l) : n < k => At(n, l) <= k
    BY <1>1, <1>2, <1>3, AtIsNext
  <2>2. Linked(l) \subseteq Nat /\ nullptr \in Nat /\ n \in Nat /\ \A k \in Linked(l) : k < nullptr
    BY <1>3, Keys, NodesAreNumbers DEF Linked
  <2>3. T \in SUBSET Nat /\ T # {}
    BY <2>2
  <2>4. At(n, l) \in T /\ \A k \in T : At(n, l) <= k
    BY <2>1, <2>2
  <2>5. Min(T) \in T /\ \A k \in T : Min(T) <= k
    BY <2>3, Smallest
  <2>6. At(n, l) <= Min(T) /\ Min(T) <= At(n, l) /\ At(n, l) \in Nat /\ Min(T) \in Nat
    BY <2>3, <2>4, <2>5
  <2>7. QED
    BY <2>6
<1>4. ASSUME l > 0, NEW k \in Linked(l) PROVE k \in Linked(l - 1)
  <2>1. PICK j \in 1 .. Len(stores) : Links(stores, j, k, l) /\ k \in ListKeys
    BY DEF Linked, Links
  <2>2. l - 1 \in 0 .. l /\ l - 1 \in Levels
    BY <1>4, Keys DEF Levels
  <2>3. PICK i \in 1 .. j : Sets(stores, i, k, l - 1)
    BY <1>1, <2>1, <2>2 DEF StoresInv, Published
  <2>4. i \in 1 .. Len(stores)
    BY <1>1
  <2>5. QED
    BY <1>1, <1>2, <2>1, <2>2, <2>3, <2>4, Keys DEF Owned
<1>5. QED
  BY <1>3, <1>4

(* A reader never comes to memory that it may see uninitialised and never  *)
(* follows a link nobody has set; no operation misses a key it could be    *)
(* sure of, or ends on the wrong side of its target; and between two       *)
(* insertions each level is sorted and holds what the one above holds.     *)
(* This is what db/skiplist.h promises with its barriers, for any keys,    *)
(* heights, stores and stale values a load may return.                     *)
THEOREM ReadersSafe == ListSpec => []ReadersAreSafe
<1>1. ListInit => SkipInv
  BY ListInitInv
<1>2. SkipInv /\ [ListNext]_listVars => SkipInv'
  BY ListNextInv
<1>3. SkipInv => ReadersAreSafe
  BY SkipReadsInitialised, SkipFindsWhatIsThere, SkipLevelsAreSorted DEF ReadersAreSafe
<1>4. QED
  BY <1>1, <1>2, <1>3, PTL DEF ListSpec
=============================================================================
