-------------------------- MODULE PeopleListProofs --------------------------
(***************************************************************************)
(* Proofs about PeopleList, for any sets of tables and users and any       *)
(* number of lost connections: the count of unanswered listens is exact,   *)
(* so it is never decremented below zero, and the client listens exactly   *)
(* while somebody observes; and nobody is listed twice.                    *)
(***************************************************************************)
EXTENDS PeopleList, FiniteSetTheorems, SequenceTheorems, TLAPS

(* The count, as an invariant that steps preserve.                         *)
CountInv == /\ PeopleTypeOK
            /\ ListenBehindObservers
            /\ IsFiniteSet(ListensIn(up))
            /\ IsFiniteSet(AnswersIn(down))
            /\ AnswersAreCounted
-----------------------------------------------------------------------------
(* One request more, or one less, is one element more or less.             *)
LEMMA ListenAdded ==
  ASSUME NEW f \in [Sendable -> Nat], NEW g \in [Sendable -> Nat],
         IsFiniteSet(ListensIn(f)), NEW l \in Lists,
         g[l] = f[l] + 1, \A k \in Lists \ {l} : g[k] = f[k]
  PROVE  /\ IsFiniteSet(ListensIn(g))
         /\ Cardinality(ListensIn(g)) = Cardinality(ListensIn(f)) + 1
<1>1. f[l] \in Nat
  BY DEF Sendable
<1>2. ListensIn(g) = ListensIn(f) \cup {<<l, g[l]>>}
  <2>1. ASSUME NEW k \in Lists, NEW i \in 1 .. g[k]
        PROVE  <<k, i>> \in ListensIn(f) \cup {<<l, g[l]>>}
    <3>1. f[k] \in Nat
      BY DEF Sendable
    <3>2. CASE k = l
      BY <1>1, <3>2 DEF ListensIn
    <3>3. CASE k # l
      BY <3>3 DEF ListensIn
    <3>4. QED
      BY <3>2, <3>3
  <2>2. ListensIn(f) \subseteq ListensIn(g)
    <3>1. ASSUME NEW k \in Lists, NEW i \in 1 .. f[k]
          PROVE  i \in 1 .. g[k]
      BY <1>1 DEF Sendable
    <3>2. QED
      BY <3>1 DEF ListensIn
  <2>3. <<l, g[l]>> \in ListensIn(g)
    BY <1>1 DEF ListensIn
  <2>4. QED
    BY <2>1, <2>2, <2>3 DEF ListensIn
<1>3. <<l, g[l]>> \notin ListensIn(f)
  BY <1>1 DEF ListensIn
<1>4. QED
  BY <1>2, <1>3, FS_AddElement

LEMMA ListenRemoved ==
  ASSUME NEW f \in [Sendable -> Nat], IsFiniteSet(ListensIn(f)),
         NEW l \in Lists, f[l] > 0
  PROVE  LET g == [f EXCEPT ![l] = @ - 1]
         IN  /\ g \in [Sendable -> Nat]
             /\ IsFiniteSet(ListensIn(g))
             /\ Cardinality(ListensIn(g)) = Cardinality(ListensIn(f)) - 1
<1> DEFINE g == [f EXCEPT ![l] = @ - 1]
<1>1. g \in [Sendable -> Nat] /\ g[l] = f[l] - 1 /\ \A k \in Lists \ {l} : g[k] = f[k]
  BY DEF Sendable
<1>2. ListensIn(g) \subseteq ListensIn(f)
  <2>1. ASSUME NEW k \in Lists, NEW i \in 1 .. g[k]
        PROVE  i \in 1 .. f[k]
    BY <1>1 DEF Sendable
  <2>2. QED
    BY <2>1 DEF ListensIn
<1>3. IsFiniteSet(ListensIn(g))
  BY <1>2, FS_Subset
<1>4. Cardinality(ListensIn(f)) = Cardinality(ListensIn(g)) + 1
  <2>1. f[l] = g[l] + 1
    BY <1>1 DEF Sendable
  <2>2. QED
    BY <1>1, <1>3, <2>1, ListenAdded
<1>5. Cardinality(ListensIn(g)) \in Nat
  BY <1>3, FS_CardinalityType
<1>6. QED
  BY <1>1, <1>3, <1>4, <1>5

(* Requests that differ in puts only.                                      *)
LEMMA SameListens ==
  ASSUME NEW f, NEW g, \A l \in Lists : g[l] = f[l]
  PROVE  ListensIn(g) = ListensIn(f)
BY DEF ListensIn

LEMMA NoListens ==
  LET f == [x \in Sendable |-> 0]
  IN  IsFiniteSet(ListensIn(f)) /\ Cardinality(ListensIn(f)) = 0
<1> DEFINE f == [x \in Sendable |-> 0]
<1>1. \A l \in Lists : 1 .. f[l] = {}
  BY DEF Sendable
<1>2. ListensIn(f) = {}
  BY <1>1 DEF ListensIn
<1>3. QED
  BY <1>2, FS_EmptySet
-----------------------------------------------------------------------------
(* What the server sends: messages that are no answers, with at most one   *)
(* answer after them.                                                      *)
LEMMA AnswersFinite ==
  ASSUME NEW d \in Seq(Messages) PROVE IsFiniteSet(AnswersIn(d))
<1>1. AnswersIn(d) \subseteq 1 .. Len(d) /\ Len(d) \in Nat
  BY DEF AnswersIn
<1>2. IsFiniteSet(1 .. Len(d))
  BY <1>1, FS_Interval
<1>3. QED
  BY <1>1, <1>2, FS_Subset

LEMMA MessageAppended ==
  ASSUME NEW d \in Seq(Messages), NEW m \in Messages
  PROVE  /\ d \o <<m>> \in Seq(Messages)
         /\ Cardinality(AnswersIn(d \o <<m>>)) =
                Cardinality(AnswersIn(d)) + One(m.kind \in {"granted", "denied"})
<1> DEFINE e == d \o <<m>>
<1>1. e \in Seq(Messages) /\ Len(e) = Len(d) + 1 /\ Len(d) \in Nat
      /\ e[Len(e)] = m /\ \A i \in 1 .. Len(d) : e[i] = d[i]
  OBVIOUS
<1>2. DOMAIN e = DOMAIN d \cup {Len(e)} /\ Len(e) \notin DOMAIN d
      /\ \A i \in DOMAIN d : e[i] = d[i]
  BY <1>1
<1> HIDE DEF e
<1>3. CASE m.kind \in {"granted", "denied"}
  <2>1. AnswersIn(e) = AnswersIn(d) \cup {Len(e)} /\ Len(e) \notin AnswersIn(d)
    BY <1>1, <1>2, <1>3 DEF AnswersIn
  <2>2. QED
    BY <1>1, <1>3, <2>1, AnswersFinite, FS_AddElement DEF One, e
<1>4. CASE m.kind \notin {"granted", "denied"}
  <2>1. AnswersIn(e) = AnswersIn(d)
    BY <1>1, <1>2, <1>4 DEF AnswersIn
  <2>2. Cardinality(AnswersIn(d)) \in Nat
    BY AnswersFinite, FS_CardinalityType
  <2>3. QED
    BY <1>1, <1>4, <2>1, <2>2 DEF One, e
<1>5. QED
  BY <1>3, <1>4

LEMMA MessageReceived ==
  ASSUME NEW d \in Seq(Messages), d # <<>>
  PROVE  /\ Head(d) \in Messages /\ Tail(d) \in Seq(Messages)
         /\ Cardinality(AnswersIn(d)) =
                Cardinality(AnswersIn(Tail(d))) + One(Head(d).kind \in {"granted", "denied"})
<1> DEFINE t == Tail(d)
           S == {i + 1 : i \in AnswersIn(t)}
<1>1. /\ Head(d) \in Messages /\ t \in Seq(Messages) /\ Head(d) = d[1]
      /\ Len(d) \in Nat \ {0} /\ Len(t) = Len(d) - 1
      /\ \A i \in 1 .. Len(t) : t[i] = d[i + 1]
  BY HeadTailProperties, EmptySeq
<1> HIDE DEF t
<1>2. AnswersIn(t) \subseteq Nat /\ DOMAIN t = 1 .. Len(t) /\ DOMAIN d = 1 .. Len(d)
  BY <1>1 DEF AnswersIn
<1>3. IsFiniteSet(S) /\ Cardinality(S) = Cardinality(AnswersIn(t))
  <2> DEFINE f == [i \in AnswersIn(t) |-> i + 1]
  <2>1. f \in Bijection(AnswersIn(t), S)
    BY <1>2 DEF Bijection, Injection, Surjection, IsInjective
  <2>2. ExistsBijection(AnswersIn(t), S)
    BY <2>1 DEF ExistsBijection
  <2>3. QED
    BY <1>1, <2>2, AnswersFinite, FS_Bijection
<1>4. \A i \in DOMAIN d : i \in AnswersIn(d) <=> i \in S \/ (i = 1 /\ 1 \in AnswersIn(d))
  <2> SUFFICES ASSUME NEW i \in 1 .. Len(d)
               PROVE  i \in AnswersIn(d) <=> i \in S \/ (i = 1 /\ 1 \in AnswersIn(d))
    BY <1>2
  <2>1. CASE i = 1
    BY <1>1, <1>2, <2>1 DEF AnswersIn
  <2>2. CASE i # 1
    <3>1. i - 1 \in 1 .. Len(t) /\ t[i - 1] = d[i]
      BY <1>1, <2>2
    <3>2. i \in S <=> i - 1 \in AnswersIn(t)
      BY <1>2, <3>1
    <3>3. QED
      BY <1>2, <2>2, <3>1, <3>2 DEF AnswersIn
  <2>3. QED
    BY <2>1, <2>2
<1>5. S \subseteq DOMAIN d /\ 1 \notin S
  BY <1>1, <1>2 DEF AnswersIn
<1>6. Cardinality(S) \in Nat
  BY <1>3, FS_CardinalityType
<1>7. CASE Head(d).kind \in {"granted", "denied"}
  <2>1. AnswersIn(d) = S \cup {1}
    BY <1>1, <1>2, <1>4, <1>5, <1>7 DEF AnswersIn
  <2>2. QED
    BY <1>1, <1>3, <1>5, <1>7, <2>1, FS_AddElement DEF One, t
<1>8. CASE Head(d).kind \notin {"granted", "denied"}
  <2>1. AnswersIn(d) = S
    BY <1>1, <1>2, <1>4, <1>5, <1>8 DEF AnswersIn
  <2>2. QED
    BY <1>1, <1>3, <1>6, <1>8, <2>1 DEF One, t
<1>9. QED
  BY <1>7, <1>8
-----------------------------------------------------------------------------
LEMMA InitCount == PeopleInit => CountInv
<1> SUFFICES ASSUME PeopleInit PROVE CountInv
  OBVIOUS
<1>1. PeopleTypeOK /\ ListenBehindObservers
  <2>1. down \in Seq(Messages)
    BY EmptySeq DEF PeopleInit
  <2>2. up \in [Sendable -> Nat] /\ drops \in 0 .. MaxDrops
    BY ConstantsAssumption DEF PeopleInit
  <2>3. events \in [Lists -> [Users -> Nat]] /\ rows \in [Lists -> [Users -> Nat]]
    BY DEF PeopleInit
  <2>4. QED
    BY <2>1, <2>2, <2>3 DEF PeopleInit, PeopleTypeOK, ListenBehindObservers
<1>2. IsFiniteSet(ListensIn(up)) /\ Cardinality(ListensIn(up)) = 0
  BY NoListens DEF PeopleInit
<1>3. IsFiniteSet(AnswersIn(down)) /\ Cardinality(AnswersIn(down)) = 0
  <2>1. AnswersIn(down) = {}
    BY DEF PeopleInit, AnswersIn
  <2>2. QED
    BY <2>1, FS_EmptySet
<1>4. QED
  BY <1>1, <1>2, <1>3 DEF CountInv, AnswersAreCounted, PeopleInit

(* A new listen is sent at once on a connection, and counted.              *)
LEMMA ObserveCount ==
  ASSUME CountInv, NEW l \in Lists, Observe(l) PROVE CountInv'
<1> USE DEF CountInv, PeopleTypeOK
<1>1. \A u \in Users : One(u \in Shown) \in Nat
  BY DEF One
<1>2. events' \in [Lists -> [Users -> Nat]]
  BY <1>1 DEF Observe
<1>3. ListenBehindObservers'
  BY ConstantsAssumption DEF Observe, ListenBehindObservers
<1>4. UNCHANGED down /\ AnswersIn(down') = AnswersIn(down)
  BY DEF Observe
<1>5. Cardinality(AnswersIn(down)) \in Nat /\ Cardinality(ListensIn(up)) \in Nat
  BY FS_CardinalityType
<1>6. CASE observers = {} /\ Connected
  <2>1. up' \in [Sendable -> Nat] /\ up'[l] = up[l] + 1 /\ \A k \in Lists \ {l} : up'[k] = up[k]
    BY <1>6 DEF Observe, One, Sendable
  <2>2. IsFiniteSet(ListensIn(up')) /\ Cardinality(ListensIn(up')) = Cardinality(ListensIn(up)) + 1
    BY <2>1, ListenAdded
  <2>3. unacked' = unacked + 1
    BY <1>6 DEF Observe, One
  <2>4. AnswersAreCounted'
    BY <1>4, <1>5, <2>2, <2>3 DEF AnswersAreCounted
  <2>5. QED
    BY <1>2, <1>3, <1>4, <2>1, <2>2, <2>3, <2>4 DEF Observe
<1>7. CASE ~(observers = {} /\ Connected)
  <2>1. up' = up /\ unacked' = unacked
    <3>1. CASE observers = {}
      BY <1>7, <3>1 DEF Observe, One, Sendable
    <3>2. CASE observers # {}
      BY <3>2 DEF Observe
    <3>3. QED
      BY <3>1, <3>2
  <2>2. QED
    BY <1>2, <1>3, <1>4, <2>1 DEF Observe, AnswersAreCounted
<1>8. QED
  BY <1>6, <1>7

(* A write sends no listen, and AddRow touches neither side of the count.  *)
LEMMA WriteCount ==
  ASSUME CountInv, NEW u \in Users, Write(u) PROVE CountInv'
<1> USE DEF CountInv, PeopleTypeOK
<1>1. up' \in [Sendable -> Nat] /\ \A l \in Lists : up'[l] = up[l]
  BY ConstantsAssumption DEF Write, One, Sendable
<1>2. ListensIn(up') = ListensIn(up)
  BY <1>1, SameListens
<1>3. events' \in [Lists -> [Users -> Nat]]
  BY DEF Write, Raise, One
<1>4. QED
  BY <1>1, <1>2, <1>3 DEF Write, ListenBehindObservers, AnswersAreCounted

LEMMA AddRowCount ==
  ASSUME CountInv, NEW l \in Lists, NEW u \in Users, AddRow(l, u) PROVE CountInv'
<1> USE DEF CountInv, PeopleTypeOK
<1>1. events' \in [Lists -> [Users -> Nat]] /\ rows' \in [Lists -> [Users -> Nat]]
  BY DEF AddRow
<1>2. QED
  BY <1>1 DEF AddRow, network, client, tree, ListenBehindObservers, AnswersAreCounted
-----------------------------------------------------------------------------
(* On a new connection the listen is sent, and counted, once more.         *)
LEMMA RestoreCount ==
  ASSUME CountInv, RestoreState,
         UNCHANGED <<stored, tried, down, serving, drops, listen, puts, held,
                     tree, opened, events, rows>>
  PROVE  CountInv'
<1> USE DEF CountInv, PeopleTypeOK, RestoreState, tree
<1>1. up' \in [Sendable -> Nat]
  BY DEF One
<1>2. \A l \in Lists : up'[l] = up[l] + One(l = listen)
  BY ConstantsAssumption DEF Sendable
<1>3. Cardinality(AnswersIn(down)) \in Nat /\ Cardinality(ListensIn(up)) \in Nat
  BY FS_CardinalityType
<1>4. CASE listen = NoList
  <2>1. \A l \in Lists : up'[l] = up[l]
    BY <1>2, <1>4, ConstantsAssumption DEF One, Sendable
  <2>2. ListensIn(up') = ListensIn(up)
    BY <2>1, SameListens
  <2>3. unacked' = unacked
    BY <1>4 DEF One
  <2>4. QED
    BY <1>1, <2>2, <2>3 DEF ListenBehindObservers, AnswersAreCounted
<1>5. CASE listen # NoList
  <2>1. listen \in Lists /\ up'[listen] = up[listen] + 1
        /\ \A l \in Lists \ {listen} : up'[l] = up[l]
    BY <1>2, <1>5 DEF One, Sendable
  <2>2. IsFiniteSet(ListensIn(up')) /\ Cardinality(ListensIn(up')) = Cardinality(ListensIn(up)) + 1
    BY <1>1, <2>1, ListenAdded
  <2>3. unacked' = unacked + 1
    BY <1>5 DEF One
  <2>4. QED
    BY <1>1, <1>3, <2>2, <2>3 DEF ListenBehindObservers, AnswersAreCounted
<1>6. QED
  BY <1>4, <1>5

LEMMA ConnectCount ==
  ASSUME CountInv, Connect \/ Authenticated PROVE CountInv'
<1>1. CASE connection' = "authenticating" /\ UNCHANGED <<up, unacked>>
  BY <1>1 DEF Connect, Authenticated, RestoreState, tree, CountInv, PeopleTypeOK, ListenBehindObservers,
              AnswersAreCounted
<1>2. CASE RestoreState
  BY <1>2, RestoreCount DEF Connect, Authenticated
<1>3. QED
  BY <1>1, <1>2 DEF Connect, Authenticated

(* Nothing is under way after a disconnect, and nothing is counted.        *)
LEMMA DropCount ==
  ASSUME CountInv, Drop PROVE CountInv'
<1> USE DEF CountInv, PeopleTypeOK, Drop, tree
<1>1. up' \in [Sendable -> Nat] /\ down' \in Seq(Messages)
  BY EmptySeq
<1>2. IsFiniteSet(ListensIn(up')) /\ Cardinality(ListensIn(up')) = 0
  BY NoListens
<1>3. IsFiniteSet(AnswersIn(down')) /\ Cardinality(AnswersIn(down')) = 0
  <2>1. AnswersIn(down') = {}
    BY DEF AnswersIn
  <2>2. QED
    BY <2>1, FS_EmptySet
<1>4. drops' \in 0 .. MaxDrops
  BY ConstantsAssumption
<1>5. unacked' = 0 /\ ListenBehindObservers'
  BY DEF ListenBehindObservers
<1>6. PeopleTypeOK'
  <2>1. connection' = "down" /\ serving' = FALSE
    OBVIOUS
  <2>2. UNCHANGED <<stored, tried, listen, puts, held, writes, synced, serverCache, observers,
                    opened, events, rows>>
    OBVIOUS
  <2> HIDE DEF Drop
  <2>3. QED
    BY <1>1, <1>4, <1>5, <2>1, <2>2
<1>7. QED
  BY <1>2, <1>3, <1>5, <1>6 DEF AnswersAreCounted
-----------------------------------------------------------------------------
(* The server answers a listen with one message that counts, and sends     *)
(* any other message without taking a listen.                              *)
LEMMA AnswerListenCount ==
  ASSUME CountInv, NEW l \in Lists, GrantListen(l) \/ DenyListen(l) PROVE CountInv'
<1> USE DEF CountInv, PeopleTypeOK, GrantListen, DenyListen, Server, client, tree
<1> DEFINE data == [kind |-> "data", users |-> stored]
           granted == [kind |-> "granted", list |-> l]
           denied == [kind |-> "denied", list |-> l]
<1>1. /\ up' \in [Sendable -> Nat] /\ IsFiniteSet(ListensIn(up'))
      /\ Cardinality(ListensIn(up')) = Cardinality(ListensIn(up)) - 1
  <2>1. up[l] > 0 /\ up' = [up EXCEPT ![l] = @ - 1]
    OBVIOUS
  <2> HIDE DEF GrantListen, DenyListen
  <2>2. QED
    BY <2>1, ListenRemoved
<1>2. down' \in Seq(Messages) /\ Cardinality(AnswersIn(down')) = Cardinality(AnswersIn(down)) + 1
  <2>1. data \in Messages /\ granted \in Messages /\ denied \in Messages
    BY DEF Messages
  <2>2. CASE GrantListen(l)
    <3>1. down' = (down \o <<data>>) \o <<granted>>
      BY <2>1, <2>2 DEF Push
    <3>2. One(data.kind \in {"granted", "denied"}) = 0 /\ One(granted.kind \in {"granted", "denied"}) = 1
      BY DEF One
    <3> HIDE DEF data, granted
    <3>3. /\ down \o <<data>> \in Seq(Messages)
          /\ Cardinality(AnswersIn(down \o <<data>>)) = Cardinality(AnswersIn(down)) + 0
      BY <2>1, <3>2, MessageAppended
    <3>6. /\ down' \in Seq(Messages)
          /\ Cardinality(AnswersIn(down')) = Cardinality(AnswersIn(down \o <<data>>)) + 1
      BY <2>1, <3>1, <3>2, <3>3, MessageAppended
    <3>4. Cardinality(AnswersIn(down)) \in Nat
      BY FS_CardinalityType
    <3>5. QED
      BY <3>3, <3>6, <3>4
  <2>3. CASE DenyListen(l)
    BY <2>1, <2>3, MessageAppended DEF Push, One
  <2>4. QED
    BY <2>2, <2>3
<1>3. IsFiniteSet(AnswersIn(down'))
  BY <1>2, AnswersFinite
<1>4. /\ Cardinality(AnswersIn(down)) \in Nat /\ Cardinality(ListensIn(up)) \in Nat
      /\ Cardinality(ListensIn(up')) \in Nat
  BY <1>1, FS_CardinalityType
<1>5. AnswersAreCounted'
  BY <1>1, <1>2, <1>4 DEF AnswersAreCounted
<1>6. QED
  BY <1>1, <1>2, <1>3, <1>5 DEF ListenBehindObservers

LEMMA ServerCount ==
  ASSUME CountInv,
         \/ RevokeListen
         \/ \E u \in Users : AcceptPut(u) \/ RefusePut(u) \/ WriteElsewhere(u)
  PROVE  CountInv'
<1> USE DEF CountInv, PeopleTypeOK, RevokeListen, AcceptPut, RefusePut, WriteElsewhere, Server, client, tree
<1>1. up' \in [Sendable -> Nat] /\ \A l \in Lists : up'[l] = up[l]
  <2>1. CASE up' = up
    BY <2>1
  <2>2. ASSUME NEW u \in Users, up[u] > 0, up' = [up EXCEPT ![u] = @ - 1]
        PROVE  up' \in [Sendable -> Nat] /\ \A l \in Lists : up'[l] = up[l]
    BY <2>2, ConstantsAssumption DEF Sendable
  <2>3. QED
    BY <2>1, <2>2
<1>2. ListensIn(up') = ListensIn(up)
  BY <1>1, SameListens
<1>3. ASSUME NEW d \in Seq(Messages), NEW m \in Messages, m.kind \notin {"granted", "denied"}
      PROVE  /\ d \o <<m>> \in Seq(Messages)
             /\ Cardinality(AnswersIn(d \o <<m>>)) = Cardinality(AnswersIn(d))
  <2>1. Cardinality(AnswersIn(d)) \in Nat
    BY AnswersFinite, FS_CardinalityType
  <2>2. QED
    BY <1>3, <2>1, MessageAppended DEF One
<1>4. down' \in Seq(Messages) /\ Cardinality(AnswersIn(down')) = Cardinality(AnswersIn(down))
  <2>1. CASE RevokeListen
    <3>1. [kind |-> "revoked"] \in Messages
      BY DEF Messages
    <3>2. QED
      BY <1>3, <2>1, <3>1 DEF Push
  <2>2. ASSUME NEW u \in Users, AcceptPut(u) \/ RefusePut(u) \/ WriteElsewhere(u)
        PROVE  down' \in Seq(Messages) /\ Cardinality(AnswersIn(down')) = Cardinality(AnswersIn(down))
    <3> DEFINE added == [kind |-> "added", user |-> u]
               put == [kind |-> "put", user |-> u]
    <3>1. added \in Messages /\ put \in Messages
      BY DEF Messages
    <3>2. down' \in {down, down \o <<added>>, down \o <<put>>, (down \o <<added>>) \o <<put>>}
      <4>1. down \o <<>> = down
        BY ConcatEmptySeq
      <4>2. down \o Append(<<added>>, put) = (down \o <<added>>) \o <<put>> /\ Append(<<>>, put) = <<put>>
        BY <3>1
      <4> HIDE DEF added, put
      <4>3. Announce(u) \in {<<>>, <<added>>}
        BY DEF Announce, added
      <4>4. down' \in {down \o Announce(u), down \o Append(Announce(u), put), down \o <<put>>}
        BY <2>2 DEF Push, put
      <4>5. QED
        BY <4>1, <4>2, <4>3, <4>4
    <3>3. /\ down \o <<added>> \in Seq(Messages)
          /\ Cardinality(AnswersIn(down \o <<added>>)) = Cardinality(AnswersIn(down))
      BY <1>3, <3>1
    <3>4. /\ down \o <<put>> \in Seq(Messages)
          /\ Cardinality(AnswersIn(down \o <<put>>)) = Cardinality(AnswersIn(down))
      BY <1>3, <3>1
    <3>5. /\ (down \o <<added>>) \o <<put>> \in Seq(Messages)
          /\ Cardinality(AnswersIn((down \o <<added>>) \o <<put>>)) =
                 Cardinality(AnswersIn(down \o <<added>>))
      BY <1>3, <3>1, <3>3
    <3>6. QED
      BY <3>2, <3>3, <3>4, <3>5
  <2>3. QED
    BY <2>1, <2>2
<1>5. IsFiniteSet(AnswersIn(down'))
  BY <1>4, AnswersFinite
<1>6. QED
  BY <1>1, <1>2, <1>4, <1>5 DEF ListenBehindObservers, AnswersAreCounted
-----------------------------------------------------------------------------
(* Each answer that arrives is counted off, and nothing else is.  As the   *)
(* answer was counted before, the count does not become negative.          *)
LEMMA ReceiveCounts ==
  ASSUME CountInv, ReceiveAny
  PROVE  /\ Head(down) \in Messages /\ down' \in Seq(Messages)
         /\ unacked' \in Nat
         /\ AnswersAreCounted'
<1> USE DEF CountInv, PeopleTypeOK
<1>1. down # <<>> /\ down' = Tail(down) /\ UNCHANGED up
  BY DEF ReceiveAny, Receive, ReceiveData, ReceiveAdded, ReceiveGranted, ReceiveDenied, ReceiveRevoked,
         ReceivePut
<1>2. /\ Head(down) \in Messages /\ down' \in Seq(Messages)
      /\ Cardinality(AnswersIn(down)) =
             Cardinality(AnswersIn(down')) + One(Head(down).kind \in {"granted", "denied"})
  BY <1>1, MessageReceived
<1>3. Cardinality(AnswersIn(down')) \in Nat /\ Cardinality(ListensIn(up)) \in Nat
  BY <1>2, AnswersFinite, FS_CardinalityType
<1>4. unacked' = unacked - One(Head(down).kind \in {"granted", "denied"})
  <2>1. CASE ReceiveGranted \/ ReceiveDenied
    BY <2>1 DEF ReceiveGranted, ReceiveDenied, Receive, One
  <2>2. CASE ReceiveData \/ ReceiveAdded \/ ReceiveRevoked \/ ReceivePut
    BY <2>2 DEF ReceiveData, ReceiveAdded, ReceiveRevoked, ReceivePut, Receive, One
  <2>3. QED
    BY <2>1, <2>2 DEF ReceiveAny
<1>5. One(Head(down).kind \in {"granted", "denied"}) \in Nat
  BY DEF One
<1>6. unacked' = Cardinality(ListensIn(up)) + Cardinality(AnswersIn(down'))
  BY <1>2, <1>3, <1>4, <1>5 DEF AnswersAreCounted
<1>7. QED
  BY <1>1, <1>2, <1>3, <1>6 DEF AnswersAreCounted

LEMMA ReceiveCount == ASSUME CountInv, ReceiveAny PROVE CountInv'
<1> USE DEF CountInv, PeopleTypeOK
<1>1. /\ Head(down) \in Messages /\ down' \in Seq(Messages) /\ unacked' \in Nat
      /\ AnswersAreCounted' /\ IsFiniteSet(AnswersIn(down'))
  BY ReceiveCounts, AnswersFinite
<1>2. UNCHANGED <<stored, tried, up, serving, drops, connection, opened, rows>>
  BY DEF ReceiveAny, Receive, ReceiveData, ReceiveAdded, ReceiveGranted, ReceiveDenied, ReceiveRevoked,
         ReceivePut
<1>3. ASSUME NEW appeared, Raise(appeared) PROVE events' \in [Lists -> [Users -> Nat]]
  BY <1>3 DEF Raise, One
<1>4. CASE ReceiveData
  <2>1. Head(down).users \subseteq Users
    BY <1>1, <1>4 DEF ReceiveData, Receive, Messages
  <2>2. events' \in [Lists -> [Users -> Nat]]
    BY <1>3, <1>4 DEF ReceiveData
  <2>3. QED
    BY <1>1, <1>2, <1>4, <2>1, <2>2 DEF ReceiveData, ListenBehindObservers
<1>5. CASE ReceiveAdded
  <2>1. Head(down).user \in Users
    BY <1>1, <1>5 DEF ReceiveAdded, Receive, Messages
  <2>2. events' \in [Lists -> [Users -> Nat]]
    BY <1>3, <1>5 DEF ReceiveAdded
  <2>3. QED
    BY <1>1, <1>2, <1>5, <2>1, <2>2 DEF ReceiveAdded, ListenBehindObservers
<1>6. CASE ReceiveGranted
  <2>1. events' \in [Lists -> [Users -> Nat]] /\ synced' \in BOOLEAN
    BY <1>3, <1>6 DEF ReceiveGranted
  <2>2. held' \subseteq Users /\ writes' \subseteq Users
    BY <1>6 DEF ReceiveGranted, AckHeld
  <2>3. QED
    BY <1>1, <1>2, <1>6, <2>1, <2>2 DEF ReceiveGranted, ListenBehindObservers
<1>7. CASE ReceiveDenied
  <2>1. held' \subseteq Users /\ writes' \subseteq Users
    BY <1>7 DEF ReceiveDenied, AckHeld
  <2>2. QED
    BY <1>1, <1>2, <1>7, <2>1 DEF ReceiveDenied, RemoveView, ListenBehindObservers
<1>8. CASE ReceiveRevoked
  BY <1>1, <1>2, <1>8 DEF ReceiveRevoked, RemoveView, ListenBehindObservers
<1>9. CASE ReceivePut
  <2>1. Head(down).user \in Users
    BY <1>1, <1>9 DEF ReceivePut, Receive, Messages
  <2>2. puts' \subseteq Users /\ held' \subseteq Users /\ writes' \subseteq Users
    BY <1>9, <2>1 DEF ReceivePut
  <2>3. QED
    BY <1>1, <1>2, <1>9, <2>2 DEF ReceivePut, ListenBehindObservers
<1>10. QED
  BY <1>4, <1>5, <1>6, <1>7, <1>8, <1>9 DEF ReceiveAny
-----------------------------------------------------------------------------
LEMMA StutterCount == ASSUME CountInv, UNCHANGED peopleVars PROVE CountInv'
BY DEF CountInv, PeopleTypeOK, ListenBehindObservers, AnswersAreCounted, peopleVars

(* CountInv holds in every reachable state.                                *)
THEOREM CountInvariant == PeopleSpec => []CountInv
<1>1. ASSUME CountInv, [PeopleNext]_peopleVars PROVE CountInv'
  <2>1. CASE UNCHANGED peopleVars
    BY <1>1, <2>1, StutterCount
  <2>2. CASE PeopleNext
    <3>1. CASE \E l \in Lists : Observe(l) \/ GrantListen(l) \/ DenyListen(l)
      BY <1>1, <3>1, ObserveCount, AnswerListenCount
    <3>2. CASE \E u \in Users : Write(u) \/ AcceptPut(u) \/ RefusePut(u) \/ WriteElsewhere(u)
      BY <1>1, <3>2, WriteCount, ServerCount
    <3>3. CASE \E l \in Lists, u \in Users : AddRow(l, u)
      BY <1>1, <3>3, AddRowCount
    <3>4. CASE Connect \/ Authenticated \/ Drop \/ RevokeListen \/ ReceiveAny
      BY <1>1, <3>4, ConnectCount, DropCount, ServerCount, ReceiveCount
    <3>5. QED
      BY <2>2, <3>1, <3>2, <3>3, <3>4 DEF PeopleNext
  <2>3. QED
    BY <1>1, <2>1, <2>2
<1>2. QED
  BY <1>1, InitCount, PTL DEF PeopleSpec

(* Every variable keeps its type; unackedListensCount stays a natural      *)
(* number although the code decrements it without looking.                 *)
THEOREM PeopleTypes == PeopleSpec => []PeopleTypeOK
<1>1. CountInv => PeopleTypeOK
  BY DEF CountInv
<1>2. QED
  BY <1>1, CountInvariant, PTL

(* The client listens exactly while a table observes.                      *)
THEOREM ListensForObservers == PeopleSpec => []ListenBehindObservers
<1>1. CountInv => ListenBehindObservers
  BY DEF CountInv
<1>2. QED
  BY <1>1, CountInvariant, PTL

(* unackedListensCount is the number of answers to come.                   *)
THEOREM CountIsExact == PeopleSpec => []AnswersAreCounted
<1>1. CountInv => AnswersAreCounted
  BY DEF CountInv
<1>2. QED
  BY <1>1, CountInvariant, PTL

(* The three together: the client's listens are those the tables need, and *)
(* the count of answers to come stays exact.                               *)
THEOREM ListensCounted == PeopleSpec => []ListensAreCounted
<1>1. CountInv => ListensAreCounted
  BY DEF CountInv, ListensAreCounted
<1>2. QED
  BY <1>1, CountInvariant, PTL
-----------------------------------------------------------------------------
(* Who is listed.  A write shows until its put is answered, and the record *)
(* must have come by then, or the user would appear a second time when it  *)
(* does.  The parts of the invariant follow the messages in the queue.     *)
(*                                                                         *)
(* The messages in the queue, by position.  Position 0 stands for what the *)
(* client already has in its server cache.                                 *)
IsData(i) == down[i].kind = "data"
IsPut(i, u) == down[i].kind = "put" /\ down[i].user = u
Refuses(i) == down[i].kind = "denied" /\ down[i].list = listen
Brings(i, u) == IF i = 0 THEN u \in serverCache
                ELSE \/ IsData(i) /\ u \in down[i].users
                     \/ down[i].kind = "added" /\ down[i].user = u

(* A view that is synced, or that a message will make so; what it takes    *)
(* away again before position t, and whom it has by then.                  *)
Starts == {s \in 0 .. Len(down) : IF s = 0 THEN synced ELSE IsData(s)}
Ends(s, i) == down[i].kind = "revoked" \/ (s = 0 /\ Refuses(i))
Ended(s, t) == \E i \in s + 1 .. t : Ends(s, i)
Brought(s, t, u) == \E i \in s .. t : Brings(i, u)

(* After position j a listen is answered.                                  *)
Later(j) == up[listen] > 0 \/ \E i \in j + 1 .. Len(down) : IsData(i) \/ Refuses(i)

(* Nothing was asked on this connection.                                   *)
Idle == connection # "up" /\ ~serving /\ down = <<>> /\ \A l \in Lists : up[l] = 0

(* A record is known to the client only if the server has it, and a write  *)
(* is pending while its put is unanswered or held.                         *)
Known == /\ puts \subseteq writes /\ held \subseteq writes /\ writes \subseteq tried
         /\ puts \cap held = {}
         /\ stored \subseteq tried /\ serverCache \subseteq stored
         /\ synced => observers # {}
         /\ observers \subseteq opened
         /\ \A i \in 1 .. Len(down), u \in Users : Brings(i, u) => u \in stored

(* A put is under way at most once.                                        *)
PutsOnce ==
    \A u \in Users :
       /\ up[u] <= 1
       /\ up[u] > 0 => u \in puts /\ connection = "up" /\ \A i \in 1 .. Len(down) : ~IsPut(i, u)
       /\ \A i \in 1 .. Len(down) : IsPut(i, u) =>
             u \in puts /\ connection = "up" /\ \A k \in 1 .. Len(down) : IsPut(k, u) => k = i

(* All the data come right before a granted listen, and only tables that   *)
(* were opened listen.                                                     *)
ListensOnce ==
    /\ listen # NoList => listen \in opened
    /\ \A l \in Lists : up[l] > 0 => l \in opened
    /\ \A i \in 1 .. Len(down) :
          /\ IsData(i) => i + 1 \in 1 .. Len(down) /\ down[i + 1].kind = "granted"
          /\ down[i].kind \in {"granted", "denied"} => down[i].list \in opened
          /\ down[i].kind = "granted" =>
                IF i = 1 THEN down[i].list = listen => synced ELSE IsData(i - 1)

(* Later data have all that earlier messages have, and the records whose   *)
(* put was answered before.                                                *)
Grows ==
    \A k \in 1 .. Len(down), u \in Users : IsData(k) =>
       /\ \A i \in 0 .. k - 1 : Brings(i, u) => u \in down[k].users
       /\ u \in stored /\ (u \in held \/ \E j \in 1 .. k - 1 : IsPut(j, u)) => u \in down[k].users

(* A synced view is kept up to date while the server serves it; otherwise  *)
(* its end is on the way, or it will be listened to again.                 *)
Cover ==
    \A s \in Starts :
       \/ serving /\ \A u \in stored : Brought(s, Len(down), u)
       \/ Ended(s, Len(down))
       \/ s = 0 /\ ~serving /\ (connection = "up" => up[listen] > 0)

(* When a put is answered the view has the record the server stored, or    *)
(* has ended, or a listen is answered after it.                            *)
PutsCovered ==
    \A s \in Starts, j \in 1 .. Len(down), u \in stored : s < j /\ IsPut(j, u) =>
       \/ Brought(s, j - 1, u)
       \/ Ended(s, j - 1)
       \/ s = 0 /\ Later(j)

HeldCovered == \A u \in held \cap stored : synced => u \in serverCache \/ Later(0) \/ Idle

Listed(l, u) == events[l][u] + rows[l][u]

(* A table lists whom the client shows, and otherwise only users whose     *)
(* record was refused for good.                                            *)
RowsInv ==
    \A l \in Lists, u \in Users :
       /\ l \notin opened => events[l][u] = 0 /\ rows[l][u] = 0
       /\ Listed(l, u) <= 1
       /\ l \in observers /\ u \in Shown => Listed(l, u) = 1
       /\ l \in observers /\ u \notin Shown /\ Listed(l, u) = 1 =>
             synced /\ u \in tried /\ u \notin stored /\ u \notin writes

Booked == Known /\ PutsOnce /\ ListensOnce
Covered == Grows /\ Cover /\ PutsCovered /\ HeldCovered
-----------------------------------------------------------------------------
LEMMA InitListed == PeopleInit => Booked /\ Covered /\ RowsInv
<1> SUFFICES ASSUME PeopleInit PROVE Booked /\ Covered /\ RowsInv
  OBVIOUS
<1>1. Len(down) = 0 /\ Starts = {} /\ 1 .. Len(down) = {}
  BY DEF PeopleInit, Starts
<1>2. Booked
  <2>1. \A x \in Sendable : up[x] = 0
    BY DEF PeopleInit
  <2>2. \A x \in Sendable : up[x] <= 1 /\ ~(up[x] > 0)
    BY <2>1
  <2>3. QED
    BY <1>1, <2>2 DEF PeopleInit, Booked, Known, PutsOnce, ListensOnce, Sendable
<1>3. Covered
  BY <1>1 DEF PeopleInit, Covered, Grows, Cover, PutsCovered, HeldCovered
<1>4. RowsInv
  BY DEF PeopleInit, RowsInv, Listed
<1>5. QED
  BY <1>2, <1>3, <1>4

(* What of the queue stays as it was when messages are added to its end.   *)
LEMMA PrefixStays ==
  ASSUME down \in Seq(Messages), down' \in Seq(Messages), Len(down) <= Len(down'),
         \A i \in 1 .. Len(down) : down'[i] = down[i],
         UNCHANGED <<synced, serverCache, listen>>
  PROVE  /\ \A i \in 1 .. Len(down) : (IsData(i)' <=> IsData(i)) /\ (Refuses(i)' <=> Refuses(i))
         /\ \A u : \A i \in 1 .. Len(down) : IsPut(i, u)' <=> IsPut(i, u)
         /\ \A u : \A i \in 0 .. Len(down) : Brings(i, u)' <=> Brings(i, u)
         /\ \A s \in 0 .. Len(down) : s \in Starts' <=> s \in Starts
         /\ \A s, t : t \in 0 .. Len(down) /\ s \in 0 .. Len(down) => (Ended(s, t)' <=> Ended(s, t))
         /\ \A s, t, u : t \in 0 .. Len(down) /\ s \in 0 .. Len(down) => (Brought(s, t, u)' <=> Brought(s, t, u))
<1>1. Len(down) \in Nat /\ Len(down') \in Nat
  OBVIOUS
<1>2. \A i \in 1 .. Len(down) : (IsData(i)' <=> IsData(i)) /\ (Refuses(i)' <=> Refuses(i))
  BY DEF IsData, Refuses
<1>3. \A u : \A i \in 1 .. Len(down) : IsPut(i, u)' <=> IsPut(i, u)
  BY DEF IsPut
<1>4. \A u : \A i \in 0 .. Len(down) : Brings(i, u)' <=> Brings(i, u)
  BY <1>1, <1>2 DEF Brings
<1>5. \A s \in 0 .. Len(down) : s \in Starts' <=> s \in Starts
  BY <1>1, <1>2 DEF Starts
<1>6. \A s, t : t \in 0 .. Len(down) /\ s \in 0 .. Len(down) => (Ended(s, t)' <=> Ended(s, t))
  <2> SUFFICES ASSUME NEW s \in 0 .. Len(down), NEW t \in 0 .. Len(down)
               PROVE  Ended(s, t)' <=> Ended(s, t)
    OBVIOUS
  <2>1. \A i \in s + 1 .. t : i \in 1 .. Len(down)
    BY <1>1
  <2>2. \A i \in s + 1 .. t : Ends(s, i)' <=> Ends(s, i)
    BY <1>2, <2>1 DEF Ends
  <2>3. QED
    BY <2>2 DEF Ended
<1>7. \A s, t, u : t \in 0 .. Len(down) /\ s \in 0 .. Len(down) => (Brought(s, t, u)' <=> Brought(s, t, u))
  <2> SUFFICES ASSUME NEW s \in 0 .. Len(down), NEW t \in 0 .. Len(down), NEW u
               PROVE  Brought(s, t, u)' <=> Brought(s, t, u)
    OBVIOUS
  <2>1. \A i \in s .. t : i \in 0 .. Len(down)
    BY <1>1
  <2>2. QED
    BY <1>4, <2>1 DEF Brought
<1>8. QED
  BY <1>2, <1>3, <1>4, <1>5, <1>6, <1>7
-----------------------------------------------------------------------------
(* Steps that leave the queue alone.                                       *)
LEMMA ListenerKnown ==
  ASSUME PeopleTypeOK, ListenBehindObservers, Known, synced
  PROVE  observers # {} /\ listen \in Lists
BY DEF PeopleTypeOK, ListenBehindObservers, Known

(* A first observer finds no synced view; another one asks for nothing.    *)
LEMMA ObserveListed ==
  ASSUME PeopleTypeOK, ListenBehindObservers, Booked, Covered, NEW l \in Lists, Observe(l)
  PROVE  Booked' /\ Covered'
<1>1. /\ UNCHANGED <<stored, tried, down, serving, connection, puts, held, writes, synced, serverCache>>
      /\ opened' = opened \cup {l} /\ observers' = observers \cup {l} /\ l \notin opened
  BY DEF Observe
<1>2. \A k \in Lists : up'[k] # up[k] => k = l
  BY DEF Observe, PeopleTypeOK, Sendable
<1>3. \A u \in Users : up'[u] = up[u]
  BY ConstantsAssumption DEF Observe, PeopleTypeOK, Sendable
<1>4. CASE observers = {}
  <2>1. listen' = l /\ ~synced
    BY <1>4 DEF Observe, Booked, Known
  <2>2. Known'
    BY <1>1, <2>1 DEF Booked, Known, Brings, IsData
  <2>3. PutsOnce'
    BY <1>1, <1>3 DEF Booked, PutsOnce, IsPut
  <2>4. ListensOnce'
    BY <1>1, <1>2, <2>1 DEF Booked, ListensOnce, IsData
  <2>5. Starts' = Starts /\ 0 \notin Starts
    BY <1>1, <2>1 DEF Starts, IsData
  <2>6. Grows'
    BY <1>1 DEF Covered, Grows, Brings, IsData, IsPut
  <2>7. \A s \in Starts : \A t : Ended(s, t)' <=> Ended(s, t)
    BY <1>1, <2>5 DEF Ended, Ends
  <2>8. \A s, t, u : Brought(s, t, u)' <=> Brought(s, t, u)
    BY <1>1 DEF Brought, Brings, IsData
  <2>9. Cover'
    BY <1>1, <2>5, <2>7, <2>8 DEF Covered, Cover
  <2>10. PutsCovered'
    BY <1>1, <2>5, <2>7, <2>8 DEF Covered, PutsCovered, IsPut
  <2>11. HeldCovered'
    BY <1>1, <2>1 DEF HeldCovered
  <2>12. QED
    BY <2>2, <2>3, <2>4, <2>6, <2>9, <2>10, <2>11 DEF Booked, Covered
<1>5. CASE observers # {}
  <2>1. UNCHANGED <<up, listen>>
    BY <1>5 DEF Observe
  <2>2. Booked'
    BY <1>1, <2>1 DEF Booked, Known, PutsOnce, ListensOnce, Brings, IsData, IsPut
  <2>3. Covered'
    BY <1>1, <2>1 DEF Covered, Grows, Cover, PutsCovered, HeldCovered, Starts, Ended, Ends, Brought,
                      Brings, IsData, IsPut, Refuses, Later, Idle
  <2>4. QED
    BY <2>2, <2>3
<1>6. QED
  BY <1>4, <1>5

(* A put of a new record is on its way once.                               *)
LEMMA WriteListed ==
  ASSUME PeopleTypeOK, ListenBehindObservers, Booked, Covered, NEW u \in Users, Write(u)
  PROVE  Booked' /\ Covered'
<1>1. /\ UNCHANGED <<stored, down, serving, connection, held, listen, synced, serverCache, observers, opened>>
      /\ u \notin tried /\ tried' = tried \cup {u} /\ writes' = writes \cup {u} /\ puts' = puts \cup {u}
  BY DEF Write
<1>2. \A l \in Lists : up'[l] = up[l]
  BY ConstantsAssumption DEF Write, PeopleTypeOK, Sendable
<1>3. \A v \in Users : up'[v] = up[v] + One(v = u /\ connection = "up")
  BY DEF Write, PeopleTypeOK, Sendable, One
<1>4. up[u] = 0 /\ \A i \in 1 .. Len(down) : ~IsPut(i, u)
  <2>1. u \notin puts /\ up[u] \in Nat
    BY <1>1 DEF Booked, Known, PeopleTypeOK, Sendable
  <2>2. QED
    BY <2>1 DEF Booked, PutsOnce
<1>5. Known'
  BY <1>1 DEF Booked, Known, Brings, IsData
<1>6. PutsOnce'
  <2> SUFFICES ASSUME NEW v \in Users
               PROVE  /\ up'[v] <= 1
                      /\ up'[v] > 0 => v \in puts' /\ connection' = "up" /\ \A i \in 1 .. Len(down) : ~IsPut(i, v)
                      /\ \A i \in 1 .. Len(down) : IsPut(i, v) =>
                            v \in puts' /\ connection' = "up" /\ \A k \in 1 .. Len(down) : IsPut(k, v) => k = i
    BY <1>1 DEF PutsOnce, IsPut
  <2>1. CASE v = u
    BY <1>1, <1>3, <1>4, <2>1 DEF One
  <2>2. CASE v # u
    <3>1. up'[v] = up[v]
      BY <1>3, <2>2 DEF One, PeopleTypeOK, Sendable
    <3>2. QED
      BY <1>1, <3>1 DEF Booked, PutsOnce
  <2>3. QED
    BY <2>1, <2>2
<1>7. ListensOnce'
  BY <1>1, <1>2 DEF Booked, ListensOnce, IsData
<1>8. synced => up'[listen] = up[listen]
  BY <1>2, ListenerKnown DEF Booked
<1>9. 0 \in Starts => synced
  BY DEF Starts
<1>10. Starts' = Starts /\ \A s, t : Ended(s, t)' <=> Ended(s, t)
  BY <1>1 DEF Starts, IsData, Ended, Ends, Refuses
<1>11. \A s, t, v : Brought(s, t, v)' <=> Brought(s, t, v)
  BY <1>1 DEF Brought, Brings, IsData
<1>12. synced => \A j : Later(j)' <=> Later(j)
  BY <1>1, <1>8 DEF Later, IsData, Refuses
<1>13. Grows'
  BY <1>1 DEF Covered, Grows, Brings, IsData, IsPut
<1>14. Cover'
  BY <1>1, <1>8, <1>9, <1>10, <1>11 DEF Covered, Cover
<1>15. PutsCovered'
  BY <1>1, <1>9, <1>10, <1>11, <1>12 DEF Covered, PutsCovered, IsPut
<1>16. HeldCovered'
  BY <1>1, <1>2, <1>12 DEF Covered, HeldCovered, Idle
<1>17. QED
  BY <1>5, <1>6, <1>7, <1>13, <1>14, <1>15, <1>16 DEF Booked, Covered

(* Nothing is under way before the client is up again, when it sends its   *)
(* listen and every unanswered put once.                                   *)
LEMMA RestoreListed ==
  ASSUME PeopleTypeOK, ListenBehindObservers, Booked, Covered, RestoreState, connection # "up",
         UNCHANGED <<stored, tried, down, serving, drops, listen, puts, held,
                     tree, opened, events, rows>>
  PROVE  Booked' /\ Covered'
<1>1. UNCHANGED <<stored, tried, down, serving, listen, puts, held, writes, synced, serverCache, observers, opened>>
      /\ connection' = "up"
  BY DEF tree, RestoreState
<1>2. \A x \in Sendable : up'[x] = up[x] + One(x = listen \/ x \in puts) /\ up[x] \in Nat
  BY DEF RestoreState, PeopleTypeOK
<1>3. \A u \in Users : up[u] = 0 /\ \A i \in 1 .. Len(down) : ~IsPut(i, u)
  BY <1>2 DEF Booked, PutsOnce, Sendable
<1>4. \A u \in Users : up'[u] = One(u \in puts)
  BY <1>2, <1>3, ConstantsAssumption DEF PeopleTypeOK, Sendable, One
<1>5. \A l \in Lists : up'[l] = up[l] + One(l = listen) /\ up[l] \in Nat
  BY <1>2, ConstantsAssumption DEF PeopleTypeOK, Sendable
<1>6. synced => up'[listen] > 0
  BY <1>5, ListenerKnown DEF Booked, One
<1>7. Known'
  BY <1>1 DEF Booked, Known, Brings, IsData
<1>8. PutsOnce'
  BY <1>1, <1>3, <1>4 DEF PutsOnce, IsPut, One
<1>9. ListensOnce'
  BY <1>1, <1>5, ConstantsAssumption DEF Booked, ListensOnce, IsData, One
<1>10. Starts' = Starts /\ (\A s, t : Ended(s, t)' <=> Ended(s, t)) /\ (0 \in Starts => synced)
  BY <1>1 DEF Starts, IsData, Ended, Ends, Refuses
<1>11. \A s, t, v : Brought(s, t, v)' <=> Brought(s, t, v)
  BY <1>1 DEF Brought, Brings, IsData
<1>12. synced => \A j : Later(j)'
  BY <1>1, <1>6 DEF Later
<1>13. Grows'
  BY <1>1 DEF Covered, Grows, Brings, IsData, IsPut
<1>14. Cover'
  BY <1>1, <1>6, <1>10, <1>11 DEF Covered, Cover
<1>15. PutsCovered'
  BY <1>1, <1>10, <1>11, <1>12 DEF Covered, PutsCovered, IsPut
<1>16. HeldCovered'
  BY <1>1, <1>12 DEF HeldCovered
<1>17. QED
  BY <1>7, <1>8, <1>9, <1>13, <1>14, <1>15, <1>16 DEF Booked, Covered

LEMMA ConnectListed ==
  ASSUME PeopleTypeOK, ListenBehindObservers, Booked, Covered, Connect \/ Authenticated
  PROVE  Booked' /\ Covered'
<1>1. connection # "up" /\ UNCHANGED <<stored, tried, down, serving, drops, listen, puts, held,
                                       tree, opened, events, rows>>
  BY DEF Connect, Authenticated
<1>2. CASE RestoreState
  BY <1>1, <1>2, RestoreListed
<1>3. CASE connection' = "authenticating" /\ UNCHANGED up
  <2>1. UNCHANGED <<stored, tried, down, serving, listen, puts, held, writes, synced, serverCache, observers, opened>>
    BY <1>1 DEF tree
  <2>2. Booked'
    <3>1. PutsOnce'
      BY <1>1, <1>3, <2>1 DEF Booked, PutsOnce, IsPut
    <3>2. Known' /\ ListensOnce'
      BY <1>3, <2>1 DEF Booked, Known, ListensOnce, Brings, IsData
    <3>3. QED
      BY <3>1, <3>2 DEF Booked
  <2>3. Grows' /\ PutsCovered'
    BY <1>3, <2>1 DEF Covered, Grows, PutsCovered, Starts, Ended, Ends, Brought,
                      Brings, IsData, IsPut, Refuses, Later
  <2>4. Cover' /\ HeldCovered'
    BY <1>1, <1>3, <2>1 DEF Covered, Cover, HeldCovered, Starts, Ended, Ends, Brought,
                      Brings, IsData, Refuses, Later, Idle
  <2>5. QED
    BY <2>2, <2>3, <2>4 DEF Covered
<1>4. QED
  BY <1>2, <1>3 DEF Connect, Authenticated

LEMMA DropListed ==
  ASSUME PeopleTypeOK, Booked, Covered, Drop
  PROVE  Booked' /\ Covered'
<1>1. UNCHANGED <<stored, tried, listen, puts, held, writes, synced, serverCache, observers, opened>>
      /\ connection' = "down" /\ serving' = FALSE /\ down' = <<>>
  BY DEF Drop, tree
<1>2. \A x \in Sendable : ~(up'[x] > 0) /\ up'[x] <= 1 /\ up'[x] = 0
  BY DEF Drop
<1>3. Len(down') = 0 /\ 1 .. Len(down') = {} /\ Starts' \subseteq {0}
  BY <1>1 DEF Starts
<1>4. Known' /\ PutsOnce' /\ ListensOnce'
  BY <1>1, <1>2, <1>3 DEF Booked, Known, PutsOnce, ListensOnce, Sendable
<1>5. Grows' /\ PutsCovered'
  BY <1>3 DEF Grows, PutsCovered
<1>6. Cover' /\ HeldCovered'
  BY <1>1, <1>2, <1>3 DEF Cover, HeldCovered, Idle, Sendable
<1>7. QED
  BY <1>4, <1>5, <1>6 DEF Booked, Covered
-----------------------------------------------------------------------------
(* Steps of the server, which add to the end of the queue.                 *)
LEMMA Pushed ==
  ASSUME NEW d \in Seq(Messages), NEW m \in Seq(Messages)
  PROVE  /\ d \o m \in Seq(Messages) /\ Len(d \o m) = Len(d) + Len(m)
         /\ \A i \in 1 .. Len(d) : (d \o m)[i] = d[i]
         /\ \A i \in 1 .. Len(m) : (d \o m)[Len(d) + i] = m[i]
         /\ Len(d) \in Nat /\ Len(m) \in Nat
OBVIOUS

(* What each message adds, besides the parts the client keeps.             *)
LEMMA ServerKeeps ==
  ASSUME PeopleTypeOK, NEW m \in Seq(Messages), Push(m), Server
  PROVE  /\ UNCHANGED <<drops, connection, listen, unacked, puts, held, writes, synced, serverCache,
                        observers, opened>>
         /\ down' \in Seq(Messages) /\ Len(down') = Len(down) + Len(m)
         /\ \A i \in 1 .. Len(down) : down'[i] = down[i]
         /\ \A i \in 1 .. Len(m) : down'[Len(down) + i] = m[i]
         /\ Len(down) \in Nat /\ Len(m) \in Nat
BY Pushed DEF Push, Server, client, tree, PeopleTypeOK

(* A record stored now was not held, and no answer to its put is in the    *)
(* queue; data, puts and the answers to a listen are added as the server   *)
(* does.  Then what was covered stays so.                                  *)
LEMMA PushKeeps ==
  ASSUME PeopleTypeOK, Booked, Covered, ListenBehindObservers,
         UNCHANGED <<connection, listen, held, synced, serverCache>>,
         down' \in Seq(Messages), Len(down) <= Len(down'),
         \A i \in 1 .. Len(down) : down'[i] = down[i],
         stored \subseteq stored',
         \A u \in stored' \ stored : u \notin held /\ \A i \in 1 .. Len(down) : ~IsPut(i, u),
         \A k \in Len(down) + 1 .. Len(down') :
             IsData(k)' => k = Len(down) + 1 /\ down'[k].users = stored' /\ stored' = stored,
         \A l \in Lists : l = listen /\ up[l] > 0 =>
             up'[l] > 0 \/ \E i \in Len(down) + 1 .. Len(down') : IsData(i)' \/ Refuses(i)',
         Idle => Idle',
         \A s \in Starts, j \in Len(down) + 1 .. Len(down'), u \in stored' : IsPut(j, u)' =>
             Brought(s, j - 1, u)' \/ Ended(s, j - 1)' \/ (s = 0 /\ Later(j)'),
         \A k, j \in Len(down) + 1 .. Len(down'), u \in Users : ~(IsData(k)' /\ IsPut(j, u)')
  PROVE  Grows' /\ PutsCovered' /\ HeldCovered'
<1> DEFINE n == Len(down)
           m == Len(down')
<1>1. n \in Nat /\ m \in Nat /\ n <= m
  BY DEF PeopleTypeOK
<1>2. /\ \A i \in 1 .. n : (IsData(i)' <=> IsData(i)) /\ (Refuses(i)' <=> Refuses(i))
      /\ \A i \in 1 .. n : \A u : IsPut(i, u)' <=> IsPut(i, u)
      /\ \A i \in 0 .. n : \A u : Brings(i, u)' <=> Brings(i, u)
      /\ \A s \in 0 .. n : s \in Starts' <=> s \in Starts
      /\ \A s, t : t \in 0 .. n /\ s \in 0 .. n => (Ended(s, t)' <=> Ended(s, t))
      /\ \A s, t, u : t \in 0 .. n /\ s \in 0 .. n => (Brought(s, t, u)' <=> Brought(s, t, u))
  BY PrefixStays DEF PeopleTypeOK
<1>3. \A s \in Starts' : s \in 0 .. m /\ (s = 0 => synced) /\ (s > n => IsData(s)')
  BY <1>1 DEF Starts
<1>4. \A j \in 0 .. n : synced /\ Later(j) => Later(j)'
  <2> SUFFICES ASSUME NEW j \in 0 .. n, synced, Later(j) PROVE Later(j)'
    OBVIOUS
  <2>1. listen \in Lists
    BY ListenerKnown DEF Booked
  <2>2. CASE up[listen] > 0
    <3>1. up'[listen] > 0 \/ \E i \in n + 1 .. m : IsData(i)' \/ Refuses(i)'
      BY <2>1, <2>2
    <3>2. \A i \in n + 1 .. m : i \in j + 1 .. m
      BY <1>1
    <3>3. QED
      BY <3>1, <3>2 DEF Later
  <2>3. CASE \E i \in j + 1 .. n : IsData(i) \/ Refuses(i)
    <3>1. \A i \in j + 1 .. n : i \in j + 1 .. m /\ i \in 1 .. n
      BY <1>1
    <3>2. QED
      BY <1>2, <2>3, <3>1 DEF Later
  <2>4. QED
    BY <2>2, <2>3 DEF Later
<1>5. Grows'
  <2> SUFFICES ASSUME NEW k \in 1 .. m, NEW u \in Users, IsData(k)'
               PROVE  /\ \A i \in 0 .. k - 1 : Brings(i, u)' => u \in down'[k].users
                      /\ u \in stored' /\ (u \in held \/ \E j \in 1 .. k - 1 : IsPut(j, u)') => u \in down'[k].users
    BY DEF Grows
  <2>1. CASE k \in 1 .. n
    <3>1. \A i \in 0 .. k - 1 : i \in 0 .. n /\ (i # 0 => i \in 1 .. n)
      BY <2>1, <1>1
    <3>2. IsData(k) /\ down'[k] = down[k]
      BY <1>2, <2>1
    <3>3. \A i \in 0 .. k - 1 : Brings(i, u)' => u \in down'[k].users
      BY <1>2, <2>1, <3>1, <3>2 DEF Covered, Grows
    <3>4. ASSUME u \in stored', u \in held \/ \E j \in 1 .. k - 1 : IsPut(j, u)' PROVE u \in down'[k].users
      <4>1. u \in held \/ \E j \in 1 .. k - 1 : IsPut(j, u)
        BY <1>2, <3>1, <3>4
      <4>2. u \in stored
        BY <3>1, <3>4, <4>1
      <4>3. QED
        BY <2>1, <3>2, <4>1, <4>2 DEF Covered, Grows
    <3>5. QED
      BY <3>3, <3>4
  <2>2. CASE k \notin 1 .. n
    <3>1. k = n + 1 /\ down'[k].users = stored' /\ stored' = stored
      BY <1>1, <2>2
    <3>2. \A i \in 0 .. k - 1 : i \in 0 .. n /\ (i # 0 => i \in 1 .. n)
      BY <1>1, <3>1
    <3>3. \A i \in 0 .. n : Brings(i, u) => u \in stored
      BY <1>1 DEF Booked, Known, Brings
    <3>4. \A i \in 0 .. k - 1 : Brings(i, u)' => u \in stored
      BY <1>2, <3>2, <3>3
    <3>5. QED
      BY <3>1, <3>4
  <2>3. QED
    BY <2>1, <2>2
<1>6. PutsCovered'
  <2> SUFFICES ASSUME NEW s \in Starts', NEW j \in 1 .. m, NEW u \in stored', s < j, IsPut(j, u)'
               PROVE  Brought(s, j - 1, u)' \/ Ended(s, j - 1)' \/ (s = 0 /\ Later(j)')
    BY DEF PutsCovered
  <2>1. CASE j \in 1 .. n
    <3>1. s \in 0 .. n /\ j - 1 \in 0 .. n /\ s \in Starts
      BY <1>1, <1>2, <1>3, <2>1
    <3>2. IsPut(j, u) /\ u \in stored
      BY <1>2, <2>1
    <3>3. Brought(s, j - 1, u) \/ Ended(s, j - 1) \/ (s = 0 /\ Later(j))
      BY <2>1, <3>1, <3>2 DEF Covered, PutsCovered
    <3>4. s = 0 /\ Later(j) => Later(j)'
      BY <1>1, <1>3, <1>4, <2>1
    <3>5. QED
      BY <1>2, <3>1, <3>3, <3>4
  <2>2. CASE j \notin 1 .. n
    <3>1. j \in n + 1 .. m
      BY <1>1, <2>2
    <3>2. u \in Users
      <4>1. j \in DOMAIN down'
        BY <1>1
      <4>2. down'[j] \in Messages
        BY <4>1
      <4>3. QED
        BY <4>2 DEF IsPut, Messages
    <3>3. s \in 0 .. n
      <4>1. ASSUME s > n PROVE FALSE
        <5>1. IsData(s)' /\ s \in n + 1 .. m
          BY <1>1, <1>3, <4>1
        <5>2. QED
          BY <3>1, <3>2, <5>1
      <4>2. QED
        BY <1>1, <1>3, <4>1
    <3>4. s \in Starts
      BY <1>2, <3>3
    <3>5. QED
      BY <3>1, <3>4
  <2>3. QED
    BY <2>1, <2>2
<1>7. HeldCovered'
  BY <1>1, <1>4 DEF Covered, HeldCovered
<1>8. QED
  BY <1>5, <1>6, <1>7

LEMMA CoverStays ==
  ASSUME PeopleTypeOK, UNCHANGED <<listen, synced, serverCache>>,
         down' \in Seq(Messages), Len(down) <= Len(down'),
         \A i \in 1 .. Len(down) : down'[i] = down[i],
         NEW s \in Starts, NEW n, n = Len(down), NEW t \in n .. Len(down')
  PROVE  /\ s \in 0 .. n
         /\ Ended(s, n) => Ended(s, t)'
         /\ \A u : Brought(s, n, u) => Brought(s, t, u)'
<1>1. Len(down) \in Nat /\ Len(down') \in Nat /\ s \in 0 .. n
  BY DEF Starts, PeopleTypeOK
<1>2. (Ended(s, n)' <=> Ended(s, n)) /\ \A u : Brought(s, n, u)' <=> Brought(s, n, u)
  <2>1. /\ \A x, y : y \in 0 .. Len(down) /\ x \in 0 .. Len(down) => (Ended(x, y)' <=> Ended(x, y))
        /\ \A x, y, u : y \in 0 .. Len(down) /\ x \in 0 .. Len(down) => (Brought(x, y, u)' <=> Brought(x, y, u))
    BY PrefixStays DEF PeopleTypeOK
  <2>2. n \in 0 .. Len(down) /\ s \in 0 .. Len(down)
    BY <1>1
  <2>3. QED
    BY <2>1, <2>2
<1>3. QED
  BY <1>1, <1>2 DEF Ended, Brought
LEMMA PushBooked ==
  ASSUME PeopleTypeOK, Booked, NEW n \in Nat, n = Len(down),
         UNCHANGED <<connection, listen, puts, held, writes, synced, serverCache, observers, opened>>,
         down' \in Seq(Messages), n <= Len(down'), \A i \in 1 .. n : down'[i] = down[i],
         stored \subseteq stored', tried \subseteq tried', stored' \subseteq tried',
         \A i \in n + 1 .. Len(down'), u \in Users : Brings(i, u)' => u \in stored',
         \A u \in Users :
            \/ up'[u] = up[u] /\ \A i \in n + 1 .. Len(down') : ~IsPut(i, u)'
            \/ /\ up[u] > 0 /\ up'[u] = up[u] - 1
               /\ \A i, k \in n + 1 .. Len(down') : IsPut(i, u)' /\ IsPut(k, u)' => k = i,
         \A l \in Lists : up'[l] > 0 => up[l] > 0,
         \A i \in n + 1 .. Len(down') :
            /\ IsData(i)' => i + 1 \in 1 .. Len(down') /\ down'[i + 1].kind = "granted"
            /\ down'[i].kind \in {"granted", "denied"} => down'[i].list \in opened
            /\ down'[i].kind = "granted" => i # 1 /\ IsData(i - 1)'
  PROVE  Booked'
<1>1. Len(down') \in Nat /\ (\A i \in 1 .. Len(down') : i \in 1 .. n \/ i \in n + 1 .. Len(down'))
      /\ (\A i \in 1 .. n : i \in 1 .. Len(down'))
  OBVIOUS
<1>2. /\ \A i \in 1 .. n : (IsData(i)' <=> IsData(i))
      /\ \A i \in 1 .. n : \A u : IsPut(i, u)' <=> IsPut(i, u)
      /\ \A i \in 1 .. n : \A u : Brings(i, u)' <=> Brings(i, u)
  BY PrefixStays DEF PeopleTypeOK
<1>3. Known'
  BY <1>1, <1>2 DEF Booked, Known
<1>4. PutsOnce'
  <2> SUFFICES ASSUME NEW u \in Users
               PROVE  /\ up'[u] <= 1
                      /\ up'[u] > 0 => u \in puts /\ connection = "up" /\ \A i \in 1 .. Len(down') : ~IsPut(i, u)'
                      /\ \A i \in 1 .. Len(down') : IsPut(i, u)' =>
                            u \in puts /\ connection = "up" /\ \A k \in 1 .. Len(down') : IsPut(k, u)' => k = i
    BY DEF PutsOnce
  <2>1. /\ up[u] <= 1 /\ up[u] \in Nat
        /\ up[u] > 0 => u \in puts /\ connection = "up" /\ \A i \in 1 .. n : ~IsPut(i, u)
        /\ \A i \in 1 .. n : IsPut(i, u) =>
              u \in puts /\ connection = "up" /\ \A k \in 1 .. n : IsPut(k, u) => k = i
    BY DEF Booked, PutsOnce, PeopleTypeOK, Sendable
  <2>2. CASE up'[u] = up[u] /\ \A i \in n + 1 .. Len(down') : ~IsPut(i, u)'
    BY <1>1, <1>2, <2>1, <2>2
  <2>3. CASE /\ up[u] > 0 /\ up'[u] = up[u] - 1
             /\ \A i, k \in n + 1 .. Len(down') : IsPut(i, u)' /\ IsPut(k, u)' => k = i
    <3>1. up'[u] = 0 /\ u \in puts /\ connection = "up" /\ \A i \in 1 .. n : ~IsPut(i, u)'
      BY <1>2, <2>1, <2>3
    <3>2. QED
      BY <1>1, <2>3, <3>1
  <2>4. QED
    BY <2>2, <2>3
<1>5. ListensOnce'
  <2>1. \A l \in Lists : up'[l] > 0 => l \in opened
    BY DEF Booked, ListensOnce
  <2>2. ASSUME NEW i \in 1 .. n
        PROVE  /\ IsData(i)' => i + 1 \in 1 .. Len(down') /\ down'[i + 1].kind = "granted"
               /\ down'[i].kind \in {"granted", "denied"} => down'[i].list \in opened
               /\ down'[i].kind = "granted" =>
                     IF i = 1 THEN down'[i].list = listen => synced ELSE IsData(i - 1)'
    <3>1. i - 1 \in 1 .. n \/ i = 1
      OBVIOUS
    <3>2. /\ IsData(i) => i + 1 \in 1 .. n /\ down[i + 1].kind = "granted"
          /\ down[i].kind \in {"granted", "denied"} => down[i].list \in opened
          /\ down[i].kind = "granted" =>
                IF i = 1 THEN down[i].list = listen => synced ELSE IsData(i - 1)
      BY DEF Booked, ListensOnce
    <3>3. QED
      BY <1>1, <1>2, <3>1, <3>2
  <2>3. QED
    BY <1>1, <2>1, <2>2 DEF Booked, ListensOnce
<1>6. QED
  BY <1>3, <1>4, <1>5 DEF Booked

(* A granted listen: all the data, then the answer.                        *)
LEMMA GrantListed ==
  ASSUME PeopleTypeOK, ListenBehindObservers, Booked, Covered, NEW l \in Lists, GrantListen(l)
  PROVE  Booked' /\ Covered'
<1> DEFINE data == [kind |-> "data", users |-> stored]
           granted == [kind |-> "granted", list |-> l]
<1>1. PICK n : n = Len(down)
  OBVIOUS
<1>2. data \in Messages /\ granted \in Messages
  BY DEF Messages, PeopleTypeOK
<1>3. PICK m : m = <<data, granted>>
  OBVIOUS
<1>4. m \in Seq(Messages) /\ Len(m) = 2 /\ m[1] = data /\ m[2] = granted
  BY <1>2, <1>3
<1>5. Push(m) /\ Server /\ serving' = TRUE /\ UNCHANGED <<stored, tried>>
  BY <1>3 DEF GrantListen
<1>6. up[l] > 0 /\ up'[l] = up[l] - 1 /\ \A x \in Sendable \ {l} : up'[x] = up[x]
  BY DEF GrantListen, PeopleTypeOK, Sendable
<1>7. /\ UNCHANGED <<drops, connection, listen, unacked, puts, held, writes, synced, serverCache,
                     observers, opened>>
      /\ down' \in Seq(Messages) /\ Len(down') = n + 2 /\ n \in Nat
      /\ \A i \in 1 .. n : down'[i] = down[i]
      /\ down'[n + 1] = data /\ down'[n + 2] = granted
  <2> HIDE DEF data, granted
  <2>1. /\ UNCHANGED <<drops, connection, listen, unacked, puts, held, writes, synced, serverCache,
                       observers, opened>>
        /\ down' \in Seq(Messages) /\ Len(down') = n + 2 /\ n \in Nat
        /\ \A i \in 1 .. n : down'[i] = down[i]
        /\ \A i \in 1 .. 2 : down'[n + i] = m[i]
    BY <1>1, <1>4, <1>5, ServerKeeps
  <2>2. QED
    BY <1>4, <2>1
<1>8. \A i \in n + 1 .. Len(down') : i = n + 1 \/ i = n + 2
  BY <1>7
<1>9. /\ IsData(n + 1)' /\ ~IsData(n + 2)'
      /\ \A u : ~IsPut(n + 1, u)' /\ ~IsPut(n + 2, u)'
      /\ \A u \in Users : (Brings(n + 1, u)' <=> u \in stored) /\ ~Brings(n + 2, u)'
  BY <1>7 DEF IsData, IsPut, Brings
<1>10. Booked'
  <2>1. stored' \subseteq tried'
    BY <1>5 DEF Booked, Known
  <2>2. \A i \in n + 1 .. Len(down'), u \in Users : Brings(i, u)' => u \in stored'
    BY <1>5, <1>8, <1>9
  <2>3. \A u \in Users : up'[u] = up[u] /\ \A i \in n + 1 .. Len(down') : ~IsPut(i, u)'
    BY <1>6, <1>8, <1>9, ConstantsAssumption DEF Sendable
  <2>4. \A k \in Lists : up'[k] > 0 => up[k] > 0
    BY <1>6 DEF Sendable
  <2>5. l \in opened
    BY <1>6 DEF Booked, ListensOnce
  <2>6. \A i \in n + 1 .. Len(down') :
            /\ IsData(i)' => i + 1 \in 1 .. Len(down') /\ down'[i + 1].kind = "granted"
            /\ down'[i].kind \in {"granted", "denied"} => down'[i].list \in opened
            /\ down'[i].kind = "granted" => i # 1 /\ IsData(i - 1)'
    <3>1. n + 1 + 1 = n + 2 /\ n + 2 - 1 = n + 1 /\ n + 2 # 1 /\ n + 2 \in 1 .. Len(down')
      BY <1>7
    <3>2. QED
      BY <1>7, <1>8, <1>9, <2>5, <3>1
  <2>7. QED
    BY <1>1, <1>5, <1>7, <2>1, <2>2, <2>3, <2>4, <2>6, PushBooked
<1>11. Grows' /\ PutsCovered' /\ HeldCovered'
  <2>1. \A k \in Len(down) + 1 .. Len(down') :
             IsData(k)' => k = Len(down) + 1 /\ down'[k].users = stored' /\ stored' = stored
    BY <1>1, <1>5, <1>7, <1>8, <1>9
  <2>2. \A i \in Len(down) + 1 .. Len(down') : \A u : ~IsPut(i, u)'
    BY <1>1, <1>8, <1>9
  <2>3. \E i \in Len(down) + 1 .. Len(down') : IsData(i)' \/ Refuses(i)'
    <3>1. Len(down) + 1 \in Len(down) + 1 .. Len(down')
      BY <1>1, <1>7
    <3>2. QED
      BY <1>1, <1>9, <3>1
  <2>4. ~Idle
    BY <1>6 DEF Idle
  <2>5. Len(down) <= Len(down')
    BY <1>1, <1>7
  <2>6. QED
    BY <1>1, <1>5, <1>7, <2>1, <2>2, <2>3, <2>4, <2>5, PushKeeps
<1>12. Cover'
  <2> SUFFICES ASSUME NEW s \in Starts'
               PROVE  serving' /\ \A u \in stored' : Brought(s, Len(down), u)'
    BY DEF Cover
  <2>1. s \in 0 .. n + 1
    <3>1. s \in 0 .. Len(down') /\ (s # 0 => IsData(s)')
      BY DEF Starts
    <3>2. QED
      BY <1>7, <1>9, <3>1
  <2>2. n + 1 \in s .. Len(down')
    BY <1>7, <2>1
  <2>3. QED
    BY <1>5, <1>9, <2>2 DEF Brought, PeopleTypeOK
<1>13. QED
  BY <1>10, <1>11, <1>12 DEF Covered
LEMMA OnePushed ==
  ASSUME PeopleTypeOK, NEW a \in Messages, Push(<<a>>), Server, NEW n, n = Len(down)
  PROVE  /\ UNCHANGED <<drops, connection, listen, unacked, puts, held, writes, synced, serverCache,
                        observers, opened>>
         /\ down' \in Seq(Messages) /\ Len(down') = n + 1 /\ n \in Nat
         /\ \A i \in 1 .. n : down'[i] = down[i]
         /\ down'[n + 1] = a
         /\ \A i \in n + 1 .. Len(down') : i = n + 1
<1>1. PICK m : m = <<a>>
  OBVIOUS
<1>2. m \in Seq(Messages) /\ Len(m) = 1 /\ m[1] = a /\ Push(m)
  BY <1>1
<1>3. /\ UNCHANGED <<drops, connection, listen, unacked, puts, held, writes, synced, serverCache,
                     observers, opened>>
      /\ down' \in Seq(Messages) /\ Len(down') = n + 1 /\ n \in Nat
      /\ \A i \in 1 .. n : down'[i] = down[i]
      /\ \A i \in 1 .. 1 : down'[n + i] = m[i]
  BY <1>2, ServerKeeps
<1>4. QED
  BY <1>2, <1>3

(* What covers a view before messages that are no data still does, unless  *)
(* it depends on what the step changed.                                    *)
LEMMA OldCover ==
  ASSUME PeopleTypeOK, Cover, UNCHANGED <<listen, synced, serverCache>>,
         NEW n, n = Len(down), down' \in Seq(Messages), n <= Len(down'),
         \A i \in 1 .. n : down'[i] = down[i],
         \A i \in n + 1 .. Len(down') : ~IsData(i)',
         NEW s \in Starts', NEW t \in n .. Len(down')
  PROVE  /\ s \in Starts /\ s \in 0 .. n
         /\ \/ serving /\ \A u \in stored : Brought(s, t, u)'
            \/ Ended(s, t)'
            \/ s = 0 /\ synced /\ ~serving /\ (connection = "up" => up[listen] > 0)
<1>1. s \in Starts /\ s \in 0 .. n
  <2>1. s \in 0 .. Len(down') /\ (s # 0 => IsData(s)') /\ n \in Nat /\ Len(down') \in Nat
    BY DEF Starts, PeopleTypeOK
  <2>2. s \in 0 .. n
    BY <2>1
  <2>3. \A x \in 0 .. Len(down) : x \in Starts' <=> x \in Starts
    BY PrefixStays DEF PeopleTypeOK
  <2>4. QED
    BY <2>2, <2>3
<1>2. /\ Ended(s, n) => Ended(s, t)'
      /\ \A u : Brought(s, n, u) => Brought(s, t, u)'
  BY <1>1, CoverStays
<1>3. \/ serving /\ \A u \in stored : Brought(s, n, u)
      \/ Ended(s, n)
      \/ s = 0 /\ ~serving /\ (connection = "up" => up[listen] > 0)
  BY <1>1 DEF Cover
<1>4. s = 0 => synced
  BY <1>1 DEF Starts
<1>5. QED
  BY <1>1, <1>2, <1>3, <1>4

(* A refusal ends the view that listens.                                   *)
LEMMA DenyListed ==
  ASSUME PeopleTypeOK, ListenBehindObservers, Booked, Covered, NEW l \in Lists, DenyListen(l)
  PROVE  Booked' /\ Covered'
<1> DEFINE denied == [kind |-> "denied", list |-> l]
<1>1. PICK n : n = Len(down)
  OBVIOUS
<1>2. denied \in Messages
  BY DEF Messages
<1>3. Push(<<denied>>) /\ Server /\ UNCHANGED <<stored, tried, serving>>
  BY DEF DenyListen
<1>4. up[l] > 0 /\ up'[l] = up[l] - 1 /\ \A x \in Sendable \ {l} : up'[x] = up[x]
  BY DEF DenyListen, PeopleTypeOK, Sendable
<1>5. /\ UNCHANGED <<drops, connection, listen, unacked, puts, held, writes, synced, serverCache,
                     observers, opened>>
      /\ down' \in Seq(Messages) /\ Len(down') = n + 1 /\ n \in Nat
      /\ \A i \in 1 .. n : down'[i] = down[i]
      /\ down'[n + 1] = denied
      /\ \A i \in n + 1 .. Len(down') : i = n + 1
  <2> HIDE DEF denied
  <2>1. QED
    BY <1>1, <1>2, <1>3, OnePushed
<1>6. /\ ~IsData(n + 1)' /\ (Refuses(n + 1)' <=> l = listen)
      /\ \A u : ~IsPut(n + 1, u)'
      /\ \A u \in Users : ~Brings(n + 1, u)'
  BY <1>5 DEF IsData, IsPut, Brings, Refuses
<1>7. Booked'
  <2>1. stored' \subseteq tried'
    BY <1>3 DEF Booked, Known
  <2>2. \A u \in Users : up'[u] = up[u] /\ \A i \in n + 1 .. Len(down') : ~IsPut(i, u)'
    BY <1>4, <1>5, <1>6, ConstantsAssumption DEF Sendable
  <2>3. \A k \in Lists : up'[k] > 0 => up[k] > 0
    BY <1>4 DEF Sendable
  <2>4. l \in opened
    BY <1>4 DEF Booked, ListensOnce
  <2>5. \A i \in n + 1 .. Len(down') :
            /\ IsData(i)' => i + 1 \in 1 .. Len(down') /\ down'[i + 1].kind = "granted"
            /\ down'[i].kind \in {"granted", "denied"} => down'[i].list \in opened
            /\ down'[i].kind = "granted" => i # 1 /\ IsData(i - 1)'
    BY <1>5, <1>6, <2>4
  <2>6. \A i \in n + 1 .. Len(down'), u \in Users : Brings(i, u)' => u \in stored'
    BY <1>5, <1>6
  <2>7. QED
    BY <1>1, <1>3, <1>5, <2>1, <2>2, <2>3, <2>5, <2>6, PushBooked
<1>8. Len(down) <= Len(down') /\ Len(down) + 1 \in Len(down) + 1 .. Len(down')
  BY <1>1, <1>5
<1>9. Grows' /\ PutsCovered' /\ HeldCovered'
  <2>1. \A i \in Len(down) + 1 .. Len(down') : ~IsData(i)' /\ \A u : ~IsPut(i, u)'
    BY <1>1, <1>5, <1>6
  <2>2. \A k \in Lists : k = listen /\ up[k] > 0 =>
            up'[k] > 0 \/ \E i \in Len(down) + 1 .. Len(down') : IsData(i)' \/ Refuses(i)'
    <3>1. CASE l = listen
      BY <1>1, <1>6, <1>8, <3>1
    <3>2. CASE l # listen
      BY <1>4, <3>2 DEF Sendable
    <3>3. QED
      BY <3>1, <3>2
  <2>3. ~Idle
    BY <1>4 DEF Idle
  <2>4. QED
    BY <1>1, <1>3, <1>5, <1>8, <2>1, <2>2, <2>3, PushKeeps
<1>10. Cover'
  <2> SUFFICES ASSUME NEW s \in Starts'
               PROVE  \/ serving' /\ \A u \in stored' : Brought(s, Len(down), u)'
                      \/ Ended(s, Len(down))'
                      \/ s = 0 /\ ~serving' /\ (connection' = "up" => up'[listen] > 0)
    BY <1>5 DEF Cover
  <2>1. PICK t : t = Len(down')
    OBVIOUS
  <2>2. \/ serving /\ \A u \in stored : Brought(s, t, u)'
        \/ Ended(s, t)'
        \/ s = 0 /\ synced /\ ~serving /\ (connection = "up" => up[listen] > 0)
    <3>1. t \in n .. Len(down') /\ \A i \in n + 1 .. Len(down') : ~IsData(i)'
      BY <1>5, <1>6, <2>1
    <3>2. QED
      BY <1>1, <1>5, <1>8, <3>1, OldCover DEF Covered
  <2>3. CASE s = 0 /\ synced /\ ~serving /\ (connection = "up" => up[listen] > 0)
    <3>1. listen \in Lists
      BY <2>3, ListenerKnown DEF Booked
    <3>2. CASE l = listen
      <4>1. Ends(s, n + 1)' /\ n + 1 \in s + 1 .. Len(down')
        BY <1>5, <1>6, <2>3, <3>2 DEF Ends
      <4>2. QED
        BY <4>1 DEF Ended
    <3>3. CASE l # listen
      BY <1>3, <1>4, <1>5, <2>3, <3>1, <3>3 DEF Sendable
    <3>4. QED
      BY <3>2, <3>3
  <2>4. QED
    BY <1>3, <2>1, <2>2, <2>3
<1>11. QED
  BY <1>7, <1>9, <1>10 DEF Covered
LEMMA OneMore ==
  ASSUME NEW a, NEW b PROVE Append(<<a>>, b) = <<a, b>> /\ Append(<<>>, b) = <<b>>
<1>1. <<>> \in Seq({a, b}) /\ <<a>> \in Seq({a, b}) /\ <<a, b>> \in Seq({a, b}) /\ a \in {a, b} /\ b \in {a, b}
  OBVIOUS
<1>2. Append(<<a>>, b) = <<a, b>>
  <2>1. Append(<<a>>, b) \in Seq({a, b}) /\ Len(Append(<<a>>, b)) = 2
        /\ \A i \in 1 .. 2 : Append(<<a>>, b)[i] = <<a, b>>[i]
    BY <1>1
  <2>2. QED
    BY <1>1, <2>1, SeqEqual
<1>3. Append(<<>>, b) = <<b>>
  BY <1>1
<1>4. QED
  BY <1>2, <1>3

(* The view that is taken away ends, whoever listens.                      *)
LEMMA RevokeListed ==
  ASSUME PeopleTypeOK, ListenBehindObservers, Booked, Covered, RevokeListen
  PROVE  Booked' /\ Covered'
<1> DEFINE revoked == [kind |-> "revoked"]
<1>1. PICK n : n = Len(down)
  OBVIOUS
<1>2. revoked \in Messages
  BY DEF Messages
<1>3. Push(<<revoked>>) /\ Server /\ UNCHANGED <<stored, tried, up>> /\ serving /\ serving' = FALSE
  BY DEF RevokeListen
<1>4. /\ UNCHANGED <<drops, connection, listen, unacked, puts, held, writes, synced, serverCache,
                     observers, opened>>
      /\ down' \in Seq(Messages) /\ Len(down') = n + 1 /\ n \in Nat
      /\ \A i \in 1 .. n : down'[i] = down[i]
      /\ down'[n + 1] = revoked
      /\ \A i \in n + 1 .. Len(down') : i = n + 1
  <2> HIDE DEF revoked
  <2>1. QED
    BY <1>1, <1>2, <1>3, OnePushed
<1>5. /\ ~IsData(n + 1)'
      /\ \A u : ~IsPut(n + 1, u)'
      /\ \A u \in Users : ~Brings(n + 1, u)'
  BY <1>4 DEF IsData, IsPut, Brings
<1>6. Booked'
  <2>1. stored' \subseteq tried'
    BY <1>3 DEF Booked, Known
  <2>2. \A i \in n + 1 .. Len(down') :
            /\ IsData(i)' => i + 1 \in 1 .. Len(down') /\ down'[i + 1].kind = "granted"
            /\ down'[i].kind \in {"granted", "denied"} => down'[i].list \in opened
            /\ down'[i].kind = "granted" => i # 1 /\ IsData(i - 1)'
    BY <1>4, <1>5
  <2>3. \A i \in n + 1 .. Len(down'), u \in Users : ~Brings(i, u)' /\ ~IsPut(i, u)'
    BY <1>4, <1>5
  <2>4. QED
    BY <1>1, <1>3, <1>4, <2>1, <2>2, <2>3, PushBooked
<1>7. Grows' /\ PutsCovered' /\ HeldCovered'
  <2>1. \A i \in Len(down) + 1 .. Len(down') : ~IsData(i)' /\ \A u : ~IsPut(i, u)'
    BY <1>1, <1>4, <1>5
  <2>2. ~Idle /\ Len(down) <= Len(down')
    BY <1>1, <1>3, <1>4 DEF Idle
  <2>3. QED
    BY <1>1, <1>3, <1>4, <2>1, <2>2, PushKeeps
<1>8. Cover'
  <2> SUFFICES ASSUME NEW s \in Starts' PROVE Ended(s, Len(down))'
    BY DEF Cover
  <2>1. s \in 0 .. Len(down') /\ (s # 0 => IsData(s)')
    BY DEF Starts
  <2>2. n + 1 \in s + 1 .. Len(down')
    BY <1>4, <1>5, <2>1
  <2>3. Ends(s, n + 1)'
    BY <1>4 DEF Ends
  <2>4. QED
    BY <2>2, <2>3 DEF Ended
<1>9. QED
  BY <1>6, <1>7, <1>8 DEF Covered

(* The answer to a put comes after the record, if that is new to a served  *)
(* view; a refused put is the same without the record.                     *)
LEMMA PutListed ==
  ASSUME PeopleTypeOK, ListenBehindObservers, Booked, Covered, NEW u \in Users,
         AcceptPut(u) \/ RefusePut(u)
  PROVE  Booked' /\ Covered'
<1> DEFINE added == [kind |-> "added", user |-> u]
           put == [kind |-> "put", user |-> u]
           new == AcceptPut(u) /\ serving /\ u \notin stored
<1>1. PICK n : n = Len(down)
  OBVIOUS
<1>2. added \in Messages /\ put \in Messages
  BY DEF Messages
<1>3. /\ UNCHANGED <<tried, serving>> /\ Server
      /\ stored \subseteq stored' /\ stored' \subseteq stored \cup {u}
      /\ serving /\ u \in stored' \ stored => new
      /\ up[u] > 0 /\ up'[u] = up[u] - 1 /\ \A x \in Sendable \ {u} : up'[x] = up[x]
  BY DEF AcceptPut, RefusePut, PeopleTypeOK, Sendable
<1>4. Push(IF new THEN <<added, put>> ELSE <<put>>)
  <2>1. Append(<<added>>, put) = <<added, put>> /\ Append(<<>>, put) = <<put>>
    BY OneMore
  <2>2. CASE AcceptPut(u)
    <3>1. Push(Append(Announce(u), put))
      BY <2>2 DEF AcceptPut
    <3>2. Announce(u) = IF new THEN <<added>> ELSE <<>>
      BY <2>2 DEF Announce
    <3> HIDE DEF added, put, new
    <3>3. QED
      BY <2>1, <3>1, <3>2
  <2>3. CASE RefusePut(u) /\ ~AcceptPut(u)
    BY <2>3 DEF RefusePut
  <2>4. QED
    BY <2>2, <2>3
<1>5. /\ UNCHANGED <<drops, connection, listen, unacked, puts, held, writes, synced, serverCache,
                     observers, opened>>
      /\ down' \in Seq(Messages) /\ Len(down') = IF new THEN n + 2 ELSE n + 1
      /\ n \in Nat
      /\ \A i \in 1 .. n : down'[i] = down[i]
      /\ down'[Len(down')] = put
      /\ new => down'[n + 1] = added
  <2>1. CASE new
    <3>1. PICK m : m = <<added, put>>
      OBVIOUS
    <3> HIDE DEF added, put
    <3>2. m \in Seq(Messages) /\ Len(m) = 2 /\ m[1] = added /\ m[2] = put /\ Push(m)
      BY <1>2, <1>4, <2>1, <3>1
    <3> HIDE DEF new
    <3>3. /\ UNCHANGED <<drops, connection, listen, unacked, puts, held, writes, synced, serverCache,
                         observers, opened>>
          /\ down' \in Seq(Messages) /\ Len(down') = n + 2 /\ n \in Nat
          /\ \A i \in 1 .. n : down'[i] = down[i]
          /\ \A i \in 1 .. 2 : down'[n + i] = m[i]
      BY <1>1, <1>3, <3>2, ServerKeeps
    <3>4. QED
      BY <2>1, <3>2, <3>3
  <2>2. CASE ~new
    <3> HIDE DEF added, put, new
    <3>1. QED
      BY <1>1, <1>2, <1>3, <1>4, <2>2, OnePushed
  <2>3. QED
    BY <2>1, <2>2
<1> HIDE DEF new
<1>6. /\ \A i \in n + 1 .. Len(down') : i = Len(down') \/ (i = n + 1 /\ new)
      /\ Len(down') - 1 \in n .. Len(down') /\ Len(down') \in n + 1 .. Len(down')
      /\ new => n + 1 = Len(down') - 1
      /\ n <= Len(down')
  BY <1>5
<1>7. \A i \in n + 1 .. Len(down') :
          /\ ~IsData(i)' /\ down'[i].kind \notin {"granted", "denied"}
          /\ \A v : IsPut(i, v)' <=> v = u /\ i = Len(down')
          /\ \A v \in Users : Brings(i, v)' => v = u /\ new
  <2>1. ASSUME NEW i \in n + 1 .. Len(down')
        PROVE  /\ ~IsData(i)' /\ down'[i].kind \notin {"granted", "denied"}
               /\ \A v : IsPut(i, v)' <=> v = u /\ i = Len(down')
               /\ \A v \in Users : Brings(i, v)' => v = u /\ new
    <3>1. CASE i = Len(down')
      BY <1>5, <1>6, <3>1 DEF IsData, IsPut, Brings
    <3>2. CASE i = n + 1 /\ new
      BY <1>5, <1>6, <3>2 DEF IsData, IsPut, Brings
    <3>3. QED
      BY <1>6, <3>1, <3>2
  <2>2. QED
    BY <2>1
<1>8. new => u \in stored'
  BY DEF new, AcceptPut
<1>9. u \in puts /\ connection = "up" /\ u \in tried /\ u \notin held /\ \A i \in 1 .. n : ~IsPut(i, u)
  BY <1>1, <1>3 DEF Booked, PutsOnce, Known
<1>10. Booked'
  <2>1. stored' \subseteq tried'
    BY <1>3, <1>9 DEF Booked, Known
  <2>2. \A i \in n + 1 .. Len(down'), v \in Users : Brings(i, v)' => v \in stored'
    BY <1>7, <1>8
  <2>3. \A v \in Users :
            \/ up'[v] = up[v] /\ \A i \in n + 1 .. Len(down') : ~IsPut(i, v)'
            \/ /\ up[v] > 0 /\ up'[v] = up[v] - 1
               /\ \A i, k \in n + 1 .. Len(down') : IsPut(i, v)' /\ IsPut(k, v)' => k = i
    BY <1>3, <1>7 DEF Sendable
  <2>4. \A l \in Lists : up'[l] = up[l]
    BY <1>3, ConstantsAssumption DEF Sendable
  <2>5. QED
    BY <1>1, <1>3, <1>5, <1>6, <1>7, <2>1, <2>2, <2>3, <2>4, PushBooked
<1>11. \A s \in Starts' :
           /\ s \in Starts /\ s \in 0 .. n
           /\ \A t \in n .. Len(down') :
                 \/ serving /\ \A v \in stored : Brought(s, t, v)'
                 \/ Ended(s, t)'
                 \/ s = 0 /\ synced /\ ~serving /\ (connection = "up" => up[listen] > 0)
  BY <1>1, <1>5, <1>6, <1>7, OldCover DEF Covered
<1>12. synced => up'[listen] = up[listen]
  BY <1>3, ConstantsAssumption, ListenerKnown DEF Booked, Sendable
<1>13. Grows' /\ PutsCovered' /\ HeldCovered'
  <2>1. \A i \in Len(down) + 1 .. Len(down') : ~IsData(i)'
    BY <1>1, <1>7
  <2>2. \A v \in stored' \ stored : v \notin held /\ \A i \in 1 .. Len(down) : ~IsPut(i, v)
    BY <1>1, <1>3, <1>9
  <2>3. ~Idle /\ Len(down) <= Len(down') /\ \A i \in 1 .. Len(down) : down'[i] = down[i]
    BY <1>1, <1>5, <1>6, <1>9 DEF Idle
  <2>4. \A l \in Lists : up'[l] = up[l]
    BY <1>3, ConstantsAssumption DEF Sendable
  <2>5. \A s \in Starts, j \in Len(down) + 1 .. Len(down'), v \in stored' : IsPut(j, v)' =>
             Brought(s, j - 1, v)' \/ Ended(s, j - 1)' \/ (s = 0 /\ Later(j)')
    <3> SUFFICES ASSUME NEW s \in Starts, u \in stored', NEW j, j = Len(down')
                 PROVE  Brought(s, j - 1, u)' \/ Ended(s, j - 1)' \/ (s = 0 /\ Later(j)')
      BY <1>1, <1>7
    <3>1. s \in Starts'
      <4>1. s \in 0 .. Len(down)
        BY DEF Starts
      <4>2. \A x \in 0 .. Len(down) : x \in Starts' <=> x \in Starts
        BY <1>5, <2>3, PrefixStays DEF PeopleTypeOK
      <4>3. QED
        BY <4>1, <4>2
    <3>2. j - 1 \in n .. Len(down') /\ s \in 0 .. n
      BY <1>6, <1>11, <3>1
    <3>3. \/ serving /\ \A v \in stored : Brought(s, j - 1, v)'
          \/ Ended(s, j - 1)'
          \/ s = 0 /\ synced /\ ~serving /\ (connection = "up" => up[listen] > 0)
      BY <1>11, <3>1, <3>2
    <3>4. CASE serving /\ u \notin stored
      <4>1. new /\ n + 1 = j - 1
        BY <1>3, <1>6, <3>4
      <4>2. Brings(j - 1, u)' /\ j - 1 \in s .. j - 1
        BY <1>5, <3>2, <4>1 DEF Brings, IsData
      <4>3. QED
        BY <4>2 DEF Brought
    <3>5. CASE s = 0 /\ synced /\ ~serving /\ (connection = "up" => up[listen] > 0)
      BY <1>5, <1>9, <1>12, <3>5 DEF Later
    <3>6. QED
      BY <3>3, <3>4, <3>5
  <2>6. QED
    BY <1>3, <1>5, <2>1, <2>2, <2>3, <2>4, <2>5, PushKeeps
<1>14. Cover'
  <2> SUFFICES ASSUME NEW s \in Starts'
               PROVE  \/ serving /\ \A v \in stored' : Brought(s, Len(down), v)'
                      \/ Ended(s, Len(down))'
                      \/ s = 0 /\ ~serving /\ (connection = "up" => up'[listen] > 0)
    BY <1>3, <1>5 DEF Cover
  <2>1. PICK t : t = Len(down')
    OBVIOUS
  <2>2. t \in n .. Len(down') /\ s \in 0 .. n
    BY <1>6, <1>11, <2>1
  <2>3. CASE serving /\ \A v \in stored : Brought(s, t, v)'
    <3>1. ASSUME u \in stored' \ stored PROVE Brought(s, t, u)'
      <4>1. new
        BY <1>3, <2>3, <3>1
      <4>2. Brings(n + 1, u)' /\ n + 1 \in s .. t
        BY <1>5, <1>6, <2>1, <2>2, <4>1 DEF Brings, IsData
      <4>3. QED
        BY <4>2 DEF Brought
    <3>2. QED
      BY <1>3, <2>1, <2>3, <3>1
  <2>4. QED
    BY <1>11, <1>12, <2>1, <2>2, <2>3
<1>15. QED
  BY <1>10, <1>13, <1>14 DEF Covered

(* A record that somebody else writes: its user has no put here.           *)
LEMMA ElsewhereListed ==
  ASSUME PeopleTypeOK, ListenBehindObservers, Booked, Covered, NEW u \in Users, WriteElsewhere(u)
  PROVE  Booked' /\ Covered'
<1> DEFINE added == [kind |-> "added", user |-> u]
<1>1. PICK n : n = Len(down)
  OBVIOUS
<1>2. /\ UNCHANGED <<up, serving>> /\ Server /\ u \notin tried
      /\ tried' = tried \cup {u} /\ stored' = stored \cup {u}
  BY DEF WriteElsewhere
<1>3. u \notin stored /\ u \notin held /\ u \notin puts /\ \A i \in 1 .. n : ~IsPut(i, u)
  BY <1>1, <1>2 DEF Booked, Known, PutsOnce
<1>4. /\ UNCHANGED <<drops, connection, listen, unacked, puts, held, writes, synced, serverCache,
                     observers, opened>>
      /\ down' \in Seq(Messages) /\ Len(down') = (IF serving THEN n + 1 ELSE n) /\ n \in Nat
      /\ \A i \in 1 .. n : down'[i] = down[i]
      /\ serving => down'[n + 1] = added
      /\ ~serving => down' = down
  <2>1. CASE serving
    <3>1. added \in Messages
      BY DEF Messages
    <3>2. Push(<<added>>)
      BY <1>3, <2>1 DEF WriteElsewhere, Announce
    <3> HIDE DEF added
    <3>3. QED
      BY <1>1, <1>2, <2>1, <3>1, <3>2, OnePushed
  <2>2. CASE ~serving
    <3>1. Push(<<>>)
      BY <2>2 DEF WriteElsewhere, Announce
    <3>2. down' = down
      BY <3>1 DEF Push, PeopleTypeOK
    <3>3. QED
      BY <1>1, <1>2, <2>2, <3>2 DEF Server, client, tree, PeopleTypeOK
  <2>3. QED
    BY <2>1, <2>2
<1>5. /\ \A i \in n + 1 .. Len(down') : i = n + 1 /\ serving
      /\ n <= Len(down')
  BY <1>4
<1>6. \A i \in n + 1 .. Len(down') :
          /\ ~IsData(i)' /\ down'[i].kind \notin {"granted", "denied"}
          /\ \A v : ~IsPut(i, v)'
          /\ \A v \in Users : Brings(i, v)' => v = u
  BY <1>4, <1>5 DEF IsData, IsPut, Brings
<1>7. Booked'
  <2>1. stored' \subseteq tried' /\ tried \subseteq tried' /\ stored \subseteq stored'
    BY <1>2 DEF Booked, Known
  <2>2. QED
    BY <1>1, <1>2, <1>4, <1>5, <1>6, <2>1, PushBooked
<1>8. Grows' /\ PutsCovered' /\ HeldCovered'
  <2>1. \A i \in Len(down) + 1 .. Len(down') : ~IsData(i)' /\ \A v : ~IsPut(i, v)'
    BY <1>1, <1>6
  <2>2. Idle => Idle'
    BY <1>2, <1>4 DEF Idle
  <2>3. stored \subseteq stored' /\ \A v \in stored' \ stored : v \notin held /\ \A i \in 1 .. Len(down) : ~IsPut(i, v)
    BY <1>1, <1>2, <1>3
  <2>4. Len(down) <= Len(down') /\ \A i \in 1 .. Len(down) : down'[i] = down[i]
    BY <1>1, <1>4, <1>5
  <2>5. QED
    BY <1>2, <1>4, <2>1, <2>2, <2>3, <2>4, PushKeeps
<1>9. Cover'
  <2> SUFFICES ASSUME NEW s \in Starts'
               PROVE  \/ serving /\ \A v \in stored' : Brought(s, Len(down), v)'
                      \/ Ended(s, Len(down))'
                      \/ s = 0 /\ ~serving /\ (connection = "up" => up[listen] > 0)
    BY <1>2, <1>4 DEF Cover
  <2>1. PICK t : t = Len(down')
    OBVIOUS
  <2>2. t \in n .. Len(down')
    BY <1>4, <1>5, <2>1
  <2>3. /\ s \in 0 .. n
        /\ \/ serving /\ \A v \in stored : Brought(s, t, v)'
           \/ Ended(s, t)'
           \/ s = 0 /\ synced /\ ~serving /\ (connection = "up" => up[listen] > 0)
    BY <1>1, <1>4, <1>5, <1>6, <2>2, OldCover DEF Covered
  <2>4. CASE serving
    <3>1. Brings(n + 1, u)' /\ n + 1 \in s .. t
      BY <1>4, <2>1, <2>3, <2>4 DEF Brings, IsData
    <3>2. Brought(s, t, u)'
      BY <3>1 DEF Brought
    <3>3. QED
      BY <1>2, <2>1, <2>3, <2>4, <3>2
  <2>5. QED
    BY <2>1, <2>3, <2>4
<1>10. QED
  BY <1>7, <1>8, <1>9 DEF Covered
-----------------------------------------------------------------------------
(* Steps that take the first message.                                      *)
LEMMA NothingAsked ==
  ASSUME NEW f \in [Sendable -> Nat], NEW d \in Seq(Messages),
         IsFiniteSet(ListensIn(f)), IsFiniteSet(AnswersIn(d)),
         Cardinality(ListensIn(f)) + Cardinality(AnswersIn(d)) = 0
  PROVE  /\ \A l \in Lists : ~(f[l] > 0)
         /\ \A i \in 1 .. Len(d) : d[i].kind \notin {"granted", "denied"}
<1>1. Cardinality(ListensIn(f)) = 0 /\ Cardinality(AnswersIn(d)) = 0
  BY FS_CardinalityType
<1>2. ListensIn(f) = {} /\ AnswersIn(d) = {}
  BY <1>1, FS_EmptySet
<1>3. ASSUME NEW l \in Lists, f[l] > 0 PROVE FALSE
  <2>1. f[l] \in Nat
    BY DEF Sendable
  <2>2. <<l, 1>> \in {l} \X (1 .. f[l])
    BY <1>3, <2>1
  <2>3. QED
    BY <1>2, <2>2 DEF ListensIn
<1>4. ASSUME NEW i \in 1 .. Len(d) PROVE d[i].kind \notin {"granted", "denied"}
  <2>1. i \in DOMAIN d
    OBVIOUS
  <2>2. QED
    BY <1>2, <2>1 DEF AnswersIn
<1>5. QED
  BY <1>3, <1>4

(* What the first message does to the view.  It becomes synced by data,    *)
(* and stays so only while what arrives does not end it.                   *)
LEMMA ReceiveFacts ==
  ASSUME PeopleTypeOK, ListenBehindObservers, Booked, ReceiveAny
  PROVE  /\ UNCHANGED <<stored, tried, up, serving, drops, connection, opened, rows>>
         /\ down \in Seq(Messages) /\ down' \in Seq(Messages)
         /\ Len(down) \in Nat /\ Len(down') \in Nat /\ Len(down) = Len(down') + 1
         /\ down[1] = Head(down) /\ \A i \in 1 .. Len(down') : down'[i] = down[i + 1]
         /\ synced' /\ IsData(1) => serverCache' = down[1].users
         /\ synced' /\ ~IsData(1) => /\ synced /\ listen' = listen /\ ~Ends(0, 1)
                                     /\ \A u : Brings(0, u) \/ Brings(1, u) => u \in serverCache'
         /\ \A u : u \in serverCache' => Brings(0, u) \/ Brings(1, u)
         /\ \A u \in held' : u \in held \/ (IsPut(1, u) /\ unacked # 0)
<1>1. down # <<>> /\ down' = Tail(down)
      /\ UNCHANGED <<stored, tried, up, serving, drops, connection, opened, rows>>
  BY DEF ReceiveAny, Receive, ReceiveData, ReceiveAdded, ReceiveGranted, ReceiveDenied, ReceiveRevoked,
         ReceivePut
<1>2. /\ down \in Seq(Messages) /\ down' \in Seq(Messages)
      /\ Len(down) \in Nat /\ Len(down') \in Nat /\ Len(down) = Len(down') + 1
      /\ down[1] = Head(down) /\ \A i \in 1 .. Len(down') : down'[i] = down[i + 1]
  <2>1. down \in Seq(Messages)
    BY DEF PeopleTypeOK
  <2>2. QED
    BY <1>1, <2>1, HeadTailProperties, EmptySeq
<1> DEFINE Facts == /\ synced' /\ IsData(1) => serverCache' = down[1].users
                    /\ synced' /\ ~IsData(1) => /\ synced /\ listen' = listen /\ ~Ends(0, 1)
                                                /\ \A u : Brings(0, u) \/ Brings(1, u) => u \in serverCache'
                    /\ \A u : u \in serverCache' => Brings(0, u) \/ Brings(1, u)
                    /\ \A u \in held' : u \in held \/ (IsPut(1, u) /\ unacked # 0)
<1> SUFFICES Facts
  BY <1>1, <1>2
<1>3. CASE ReceiveData
  <2>1. IsData(1)
    BY <1>2, <1>3 DEF ReceiveData, Receive, IsData
  <2>2. CASE observers = {}
    BY <1>3, <2>1, <2>2 DEF ReceiveData, Booked, Known, Brings
  <2>3. CASE observers # {}
    BY <1>2, <1>3, <2>1, <2>3 DEF ReceiveData, Brings
  <2>4. QED
    BY <2>2, <2>3
<1>4. CASE ReceiveAdded
  <2>1. ~IsData(1) /\ ~Ends(0, 1) /\ down[1].kind = "added"
    BY <1>2, <1>4 DEF ReceiveAdded, Receive, IsData, Ends, Refuses
  <2>2. \A u : Brings(1, u) <=> u = down[1].user
    BY <2>1 DEF Brings
  <2>3. UNCHANGED <<held, synced, listen>> /\ \A u : Brings(0, u) <=> u \in serverCache
    BY <1>4 DEF ReceiveAdded, Brings
  <2>4. CASE serverCache' = serverCache \cup {Head(down).user}
    BY <1>2, <2>1, <2>2, <2>3, <2>4
  <2>5. CASE ~synced /\ serverCache' = serverCache
    BY <2>3, <2>5
  <2>6. QED
    BY <1>4, <2>4, <2>5 DEF ReceiveAdded
<1>5. CASE ReceiveGranted
  <2>1. ~IsData(1) /\ ~Ends(0, 1) /\ down[1].kind = "granted"
    BY <1>2, <1>5 DEF ReceiveGranted, Receive, IsData, Ends, Refuses
  <2>2. \A u : ~Brings(1, u) /\ (Brings(0, u) <=> u \in serverCache)
    BY <2>1 DEF Brings
  <2>3. UNCHANGED <<listen, serverCache>> /\ held' \subseteq held
    BY <1>5 DEF ReceiveGranted, AckHeld
  <2>4. 1 \in 1 .. Len(down)
    BY <1>2
  <2>5. down[1].list = listen => synced
    BY <2>1, <2>4 DEF Booked, ListensOnce
  <2>6. synced' => synced
    BY <1>2, <1>5, <2>5 DEF ReceiveGranted
  <2>7. QED
    BY <1>2, <2>1, <2>2, <2>3, <2>6
<1>6. CASE ReceiveDenied
  <2>1. ~IsData(1) /\ (Ends(0, 1) <=> Head(down).list = listen)
    BY <1>2, <1>6 DEF ReceiveDenied, Receive, IsData, Ends, Refuses
  <2>2. \A u : ~Brings(1, u) /\ (Brings(0, u) <=> u \in serverCache)
    BY <1>2, <1>6, <2>1 DEF ReceiveDenied, Receive, Brings
  <2>3. held' \subseteq held
    BY <1>6 DEF ReceiveDenied, AckHeld
  <2>4. CASE Head(down).list = listen
    BY <1>2, <1>6, <2>2, <2>3, <2>4 DEF ReceiveDenied, RemoveView
  <2>5. CASE Head(down).list # listen
    <3>1. UNCHANGED <<listen, synced, serverCache>>
      BY <1>6, <2>5 DEF ReceiveDenied
    <3>2. QED
      BY <1>2, <2>1, <2>2, <2>3, <2>5, <3>1
  <2>6. QED
    BY <2>4, <2>5
<1>7. CASE ReceiveRevoked
  BY <1>2, <1>7 DEF ReceiveRevoked, RemoveView
<1>8. CASE ReceivePut
  <2>1. ~IsData(1) /\ ~Ends(0, 1) /\ IsPut(1, Head(down).user)
    BY <1>2, <1>8 DEF ReceivePut, Receive, IsData, Ends, Refuses, IsPut
  <2>2. \A u : ~Brings(1, u) /\ (Brings(0, u) <=> u \in serverCache)
    BY <2>1 DEF Brings, IsPut, IsData
  <2>3. UNCHANGED <<listen, synced, serverCache>>
        /\ \A u \in held' : u \in held \/ (u = Head(down).user /\ unacked # 0)
    BY <1>8 DEF ReceivePut
  <2>4. QED
    BY <1>2, <2>1, <2>2, <2>3
<1>9. QED
  BY <1>3, <1>4, <1>5, <1>6, <1>7, <1>8 DEF ReceiveAny

(* A view of after the step, where it was before: a message or position 0. *)
LEMMA Shifted ==
  ASSUME PeopleTypeOK, ListenBehindObservers, Booked, ReceiveAny, NEW s \in Starts',
         NEW o, o = IF s = 0 /\ ~IsData(1) THEN 0 ELSE s + 1
  PROVE  /\ s \in 0 .. Len(down') /\ o \in 0 .. s + 1 /\ o \in Starts
         /\ o = 0 => s = 0 /\ synced /\ synced' /\ listen' = listen /\ ~Ends(0, 1)
         /\ \A t \in s .. Len(down') : \A u : Brought(o, t + 1, u) => Brought(s, t, u)'
         /\ \A t \in s .. Len(down') : Ended(o, t + 1) => Ended(s, t)'
<1> USE ReceiveFacts
<1>1. s \in 0 .. Len(down') /\ (s = 0 => synced') /\ (s # 0 => IsData(s)') /\ Len(down') \in Nat
      /\ Len(down) = Len(down') + 1
  BY DEF Starts
<1>2. s # 0 => IsData(s + 1)
  BY <1>1 DEF IsData
<1>3. o \in Starts /\ o \in 0 .. s + 1
  <2>1. CASE o = 0
    BY <1>1, <2>1 DEF Starts
  <2>2. CASE o = s + 1
    <3>1. IsData(s + 1) /\ s + 1 \in 0 .. Len(down) /\ s + 1 # 0
      BY <1>1, <1>2, <2>2
    <3>2. QED
      BY <1>1, <2>2, <3>1 DEF Starts
  <2>3. QED
    BY <2>1, <2>2
<1>4. o = 0 => s = 0 /\ synced /\ synced' /\ listen' = listen /\ ~Ends(0, 1)
  BY <1>1
<1>5. \A i \in 1 .. Len(down') : \A u : Brings(i + 1, u) => Brings(i, u)'
  BY <1>1 DEF Brings, IsData
<1>6. ASSUME NEW t \in s .. Len(down'), NEW u, Brought(o, t + 1, u) PROVE Brought(s, t, u)'
  <2>1. PICK i \in o .. t + 1 : Brings(i, u)
    BY <1>6 DEF Brought
  <2>2. CASE i > 1
    <3>1. i - 1 \in 1 .. Len(down') /\ i - 1 + 1 = i
      BY <1>1, <1>3, <2>2
    <3>2. i - 1 \in s .. t
      BY <1>1, <1>3, <2>2
    <3>3. Brings(i - 1, u)'
      BY <1>5, <2>1, <3>1
    <3>4. QED
      BY <3>2, <3>3 DEF Brought
  <2>3. CASE i \in {0, 1}
    <3>1. s = 0
      BY <1>1, <2>3
    <3>2. Brings(0, u)'
      <4>1. CASE IsData(1)
        <5>1. i = 1
          BY <2>3, <3>1, <4>1
        <5>2. u \in down[1].users
          BY <2>1, <4>1, <5>1 DEF Brings, IsData
        <5>3. QED
          BY <1>1, <3>1, <4>1, <5>2 DEF Brings
      <4>2. CASE ~IsData(1)
        BY <1>1, <2>1, <2>3, <3>1, <4>2 DEF Brings
      <4>3. QED
        BY <4>1, <4>2
    <3>3. QED
      BY <1>1, <3>1, <3>2 DEF Brought
  <2>4. QED
    BY <1>1, <1>3, <2>2, <2>3
<1>7. ASSUME NEW t \in s .. Len(down'), Ended(o, t + 1) PROVE Ended(s, t)'
  <2>1. PICK i \in o + 1 .. t + 1 : Ends(o, i)
    BY <1>7 DEF Ended
  <2>2. i # 1
    BY <1>1, <1>4, <2>1
  <2>3. i - 1 \in s + 1 .. t /\ i - 1 \in 1 .. Len(down') /\ i - 1 + 1 = i
    BY <1>1, <1>3, <2>2
  <2>4. Ends(s, i - 1)'
    <3>1. down'[i - 1] = down[i]
      BY <2>3
    <3>2. CASE o = 0
      BY <1>4, <2>1, <3>1, <3>2 DEF Ends, Refuses
    <3>3. CASE o # 0
      BY <2>1, <3>1, <3>3 DEF Ends
    <3>4. QED
      BY <3>2, <3>3
  <2>5. QED
    BY <2>3, <2>4 DEF Ended
<1>8. QED
  BY <1>1, <1>3, <1>4, <1>6, <1>7
LEMMA ReceiveCovered ==
  ASSUME PeopleTypeOK, ListenBehindObservers, Booked, Covered, ReceiveAny
  PROVE  Covered'
<1> USE ReceiveFacts
<1>1. /\ UNCHANGED <<stored, up, serving, connection>>
      /\ Len(down') \in Nat /\ Len(down) = Len(down') + 1
      /\ \A i \in 1 .. Len(down') : down'[i] = down[i + 1]
  OBVIOUS
<1>2. \A i \in 1 .. Len(down') :
          /\ IsData(i)' <=> IsData(i + 1)
          /\ \A u : (IsPut(i, u)' <=> IsPut(i + 1, u)) /\ (Brings(i, u)' <=> Brings(i + 1, u))
  BY <1>1 DEF IsData, IsPut, Brings
<1>3. Grows'
  <2> SUFFICES ASSUME NEW k \in 1 .. Len(down'), NEW u \in Users, IsData(k)'
               PROVE  /\ \A i \in 0 .. k - 1 : Brings(i, u)' => u \in down'[k].users
                      /\ u \in stored /\ (u \in held' \/ \E j \in 1 .. k - 1 : IsPut(j, u)') => u \in down'[k].users
    BY <1>1 DEF Grows
  <2>1. k + 1 \in 1 .. Len(down) /\ IsData(k + 1) /\ down'[k] = down[k + 1] /\ k + 1 - 1 = k
    BY <1>1, <1>2
  <2>2. /\ \A i \in 0 .. k : Brings(i, u) => u \in down[k + 1].users
        /\ u \in stored /\ (u \in held \/ \E j \in 1 .. k : IsPut(j, u)) => u \in down[k + 1].users
    BY <2>1 DEF Covered, Grows
  <2>3. ASSUME NEW i \in 0 .. k - 1, Brings(i, u)' PROVE u \in down'[k].users
    <3>1. CASE i = 0
      <4>1. u \in serverCache'
        BY <2>3, <3>1 DEF Brings
      <4>2. Brings(0, u) \/ Brings(1, u)
        BY <4>1
      <4>3. 0 \in 0 .. k /\ 1 \in 0 .. k
        OBVIOUS
      <4>4. QED
        BY <2>1, <2>2, <4>2, <4>3
    <3>2. CASE i # 0
      BY <1>1, <1>2, <2>1, <2>2, <2>3, <3>2
    <3>3. QED
      BY <3>1, <3>2
  <2>4. ASSUME u \in stored, u \in held' \/ \E j \in 1 .. k - 1 : IsPut(j, u)' PROVE u \in down'[k].users
    <3>1. u \in held \/ \E j \in 1 .. k : IsPut(j, u)
      <4>1. CASE u \in held'
        <5>1. u \in held \/ IsPut(1, u)
          BY <4>1
        <5>2. 1 \in 1 .. k
          OBVIOUS
        <5>3. QED
          BY <5>1, <5>2
      <4>2. ASSUME NEW j \in 1 .. k - 1, IsPut(j, u)' PROVE \E i \in 1 .. k : IsPut(i, u)
        <5>1. j \in 1 .. Len(down') /\ j + 1 \in 1 .. k
          BY <1>1
        <5>2. IsPut(j + 1, u)
          BY <1>2, <4>2, <5>1
        <5>3. QED
          BY <5>1, <5>2
      <4>3. QED
        BY <2>4, <4>1, <4>2
    <3>2. QED
      BY <2>1, <2>2, <2>4, <3>1
  <2>5. QED
    BY <2>3, <2>4
<1>4. Cover'
  <2> SUFFICES ASSUME NEW s \in Starts', NEW t, t = Len(down')
               PROVE  \/ serving /\ \A u \in stored : Brought(s, t, u)'
                      \/ Ended(s, t)'
                      \/ s = 0 /\ ~serving /\ (connection = "up" => up[listen'] > 0)
    BY <1>1 DEF Cover
  <2>1. PICK o : o = IF s = 0 /\ ~IsData(1) THEN 0 ELSE s + 1
    OBVIOUS
  <2>2. /\ s \in 0 .. Len(down') /\ o \in Starts
        /\ o = 0 => s = 0 /\ listen' = listen
        /\ \A x \in s .. Len(down') : \A u : Brought(o, x + 1, u) => Brought(s, x, u)'
        /\ \A x \in s .. Len(down') : Ended(o, x + 1) => Ended(s, x)'
    BY <2>1, Shifted
  <2>3. t \in s .. Len(down') /\ t + 1 = Len(down)
    BY <1>1, <2>2
  <2>4. \/ serving /\ \A u \in stored : Brought(o, t + 1, u)
        \/ Ended(o, t + 1)
        \/ o = 0 /\ ~serving /\ (connection = "up" => up[listen] > 0)
    BY <2>2, <2>3 DEF Covered, Cover
  <2>5. QED
    BY <2>2, <2>3, <2>4
<1>5. ASSUME NEW j \in 0 .. Len(down'), Later(j + 1), listen' = listen PROVE Later(j)'
  <2>1. CASE up[listen] > 0
    BY <1>1, <1>5, <2>1 DEF Later
  <2>2. CASE \E i \in j + 2 .. Len(down) : IsData(i) \/ Refuses(i)
    <3>1. PICK i \in j + 2 .. Len(down) : IsData(i) \/ Refuses(i)
      BY <2>2
    <3>2. i - 1 \in j + 1 .. Len(down') /\ i - 1 \in 1 .. Len(down') /\ i - 1 + 1 = i
      BY <1>1
    <3>3. IsData(i - 1)' \/ Refuses(i - 1)'
      BY <1>1, <1>5, <3>1, <3>2 DEF IsData, Refuses
    <3>4. QED
      BY <3>2, <3>3 DEF Later
  <2>3. j + 1 + 1 = j + 2
    OBVIOUS
  <2>4. QED
    BY <1>5, <2>1, <2>2, <2>3 DEF Later
<1>6. PutsCovered'
  <2> SUFFICES ASSUME NEW s \in Starts', NEW j \in 1 .. Len(down'), NEW u \in stored, s < j, IsPut(j, u)'
               PROVE  Brought(s, j - 1, u)' \/ Ended(s, j - 1)' \/ (s = 0 /\ Later(j)')
    BY <1>1 DEF PutsCovered
  <2>1. PICK o : o = IF s = 0 /\ ~IsData(1) THEN 0 ELSE s + 1
    OBVIOUS
  <2>2. /\ s \in 0 .. Len(down') /\ o \in 0 .. s + 1 /\ o \in Starts
        /\ o = 0 => s = 0 /\ listen' = listen
        /\ \A x \in s .. Len(down') : \A v : Brought(o, x + 1, v) => Brought(s, x, v)'
        /\ \A x \in s .. Len(down') : Ended(o, x + 1) => Ended(s, x)'
    BY <2>1, Shifted
  <2>3. j - 1 \in s .. Len(down') /\ j - 1 + 1 = j /\ j + 1 - 1 = j /\ j + 1 \in 1 .. Len(down) /\ o < j + 1
        /\ j \in 0 .. Len(down')
    BY <1>1, <2>2
  <2>4. IsPut(j + 1, u)
    BY <1>2
  <2>5. Brought(o, j, u) \/ Ended(o, j) \/ (o = 0 /\ Later(j + 1))
    BY <2>2, <2>3, <2>4 DEF Covered, PutsCovered
  <2>6. QED
    BY <1>5, <2>2, <2>3, <2>5
<1>7. HeldCovered'
  <2> SUFFICES ASSUME NEW u \in held' \cap stored, synced', u \notin serverCache' PROVE Later(0)'
    BY <1>1 DEF HeldCovered
  <2>1. ~IsData(1)
    <3>1. ASSUME IsData(1) PROVE u \in serverCache'
      <4>1. u \in held
        BY <3>1 DEF IsPut, IsData
      <4>2. 1 \in 1 .. Len(down) /\ u \in Users
        BY <1>1 DEF PeopleTypeOK
      <4>3. u \in down[1].users
        BY <3>1, <4>1, <4>2 DEF Covered, Grows
      <4>4. QED
        BY <3>1, <4>3
    <3>2. QED
      BY <3>1
  <2>2. synced /\ listen' = listen /\ ~Ends(0, 1) /\ ~Brings(0, u) /\ ~Brings(1, u)
    BY <2>1
  <2>3. u \notin serverCache
    BY <2>2 DEF Brings
  <2>4. Later(0 + 1)
    <3>1. CASE u \in held
      <4>1. Later(0)
        BY <1>1, <2>2, <2>3, <3>1 DEF Covered, HeldCovered, Idle
      <4>2. ~Refuses(1)
        BY <2>2 DEF Ends
      <4>3. \A i \in 0 + 1 .. Len(down) : i = 1 \/ i \in 0 + 1 + 1 .. Len(down)
        BY <1>1
      <4>4. QED
        BY <2>1, <4>1, <4>2, <4>3 DEF Later
    <3>2. CASE u \notin held
      <4>1. IsPut(1, u) /\ 1 \in 1 .. Len(down) /\ 0 \in Starts /\ 0 < 1 /\ u \in stored
        BY <1>1, <2>2, <3>2 DEF Starts
      <4>2. Brought(0, 1 - 1, u) \/ Ended(0, 1 - 1) \/ Later(1)
        BY <4>1 DEF Covered, PutsCovered
      <4>3. ~Brought(0, 1 - 1, u)
        BY <2>2 DEF Brought
      <4>4. ~Ended(0, 1 - 1)
        BY DEF Ended
      <4>5. QED
        BY <4>2, <4>3, <4>4
    <3>3. QED
      BY <3>1, <3>2
  <2>5. QED
    BY <1>1, <1>5, <2>2, <2>4
<1>8. QED
  BY <1>3, <1>4, <1>6, <1>7 DEF Covered

LEMMA ReceiveBooked ==
  ASSUME PeopleTypeOK, ListenBehindObservers, Booked, Covered, ReceiveAny
  PROVE  Booked'
<1> USE ReceiveFacts
<1>1. /\ UNCHANGED <<stored, tried, up, connection, opened>>
      /\ Len(down') \in Nat /\ Len(down) = Len(down') + 1
      /\ \A i \in 1 .. Len(down') : down'[i] = down[i + 1]
      /\ down[1] = Head(down) /\ down[1] \in Messages
  BY DEF PeopleTypeOK
<1>2. \A i \in 1 .. Len(down') :
          /\ i + 1 \in 1 .. Len(down)
          /\ IsData(i)' <=> IsData(i + 1)
          /\ \A u : (IsPut(i, u)' <=> IsPut(i + 1, u)) /\ (Brings(i, u)' <=> Brings(i + 1, u))
  BY <1>1 DEF IsData, IsPut, Brings
<1>3. \A u \in Users : IsPut(1, u) => u \in puts /\ u \notin held /\ connection = "up"
                                       /\ \A k \in 1 .. Len(down') : ~IsPut(k, u)'
  <2>1. 1 \in 1 .. Len(down) /\ \A k \in 1 .. Len(down') : k + 1 # 1
    BY <1>1
  <2>2. QED
    BY <1>2, <2>1 DEF Booked, PutsOnce, Known
<1>4. /\ puts' \subseteq writes' /\ held' \subseteq writes' /\ writes' \subseteq writes
      /\ puts' \cap held' = {} /\ puts' \subseteq puts
      /\ \A u \in puts : u \notin puts' => IsPut(1, u)
  <2>1. CASE ReceivePut
    <3>1. IsPut(1, Head(down).user) /\ Head(down).user \in Users
      BY <1>1, <2>1 DEF ReceivePut, Receive, IsPut, Messages
    <3>2. Head(down).user \in puts /\ Head(down).user \notin held
      BY <1>3, <3>1
    <3>3. QED
      BY <2>1, <3>1, <3>2 DEF ReceivePut, Booked, Known
  <2>2. CASE ~ReceivePut
    <3>1. puts' = puts /\ (\/ UNCHANGED <<held, writes>>
                           \/ held' = {} /\ writes' = writes \ held)
      BY <2>2 DEF ReceiveAny, ReceiveData, ReceiveAdded, ReceiveGranted, ReceiveDenied, ReceiveRevoked, AckHeld
    <3>2. QED
      BY <3>1 DEF Booked, Known
  <2>3. QED
    BY <2>1, <2>2
<1>5. /\ observers' \subseteq observers
      /\ listen' # NoList => listen' = listen
      /\ synced' => observers' # {}
  <2>1. CASE ReceiveData \/ ReceiveAdded \/ ReceiveRevoked \/ ReceivePut \/ ReceiveDenied
    BY <2>1 DEF ReceiveData, ReceiveAdded, ReceiveDenied, ReceiveRevoked, ReceivePut, RemoveView, Booked, Known
  <2>2. CASE ReceiveGranted
    <3>1. UNCHANGED <<listen, observers>>
      BY <2>2 DEF ReceiveGranted
    <3>2. ASSUME synced' PROVE synced
      <4>1. ~IsData(1)
        BY <1>1, <2>2 DEF ReceiveGranted, Receive, IsData
      <4>2. QED
        BY <3>2, <4>1
    <3>3. QED
      BY <3>1, <3>2 DEF Booked, Known
  <2>3. QED
    BY <2>1, <2>2 DEF ReceiveAny
<1>6. Known'
  <2>1. ASSUME NEW u, u \in serverCache' PROVE u \in stored
    <3>1. Brings(0, u) \/ Brings(1, u)
      BY <2>1
    <3>2. 1 \in 1 .. Len(down)
      BY <1>1
    <3>3. Brings(1, u) => u \in Users
      BY <1>1 DEF Brings, IsData, Messages
    <3>4. QED
      BY <3>1, <3>2, <3>3 DEF Booked, Known, Brings
  <2>2. \A i \in 1 .. Len(down'), u \in Users : Brings(i, u)' => u \in stored
    BY <1>2 DEF Booked, Known
  <2>3. QED
    BY <1>1, <1>4, <1>5, <2>1, <2>2 DEF Booked, Known
<1>7. PutsOnce'
  <2> SUFFICES ASSUME NEW u \in Users
               PROVE  /\ up[u] <= 1
                      /\ up[u] > 0 => u \in puts' /\ connection = "up" /\ \A i \in 1 .. Len(down') : ~IsPut(i, u)'
                      /\ \A i \in 1 .. Len(down') : IsPut(i, u)' =>
                            u \in puts' /\ connection = "up" /\ \A k \in 1 .. Len(down') : IsPut(k, u)' => k = i
    BY <1>1 DEF PutsOnce
  <2>1. /\ up[u] <= 1
        /\ up[u] > 0 => u \in puts /\ connection = "up" /\ \A i \in 1 .. Len(down) : ~IsPut(i, u)
        /\ \A i \in 1 .. Len(down) : IsPut(i, u) =>
              u \in puts /\ connection = "up" /\ \A k \in 1 .. Len(down) : IsPut(k, u) => k = i
    BY DEF Booked, PutsOnce
  <2>2. u \in puts /\ ~IsPut(1, u) => u \in puts'
    BY <1>4
  <2>3. 1 \in 1 .. Len(down)
    BY <1>1
  <2>4. \A i, k \in 1 .. Len(down') : i + 1 = k + 1 => i = k
    BY <1>1
  <2>5. up[u] > 0 => u \in puts' /\ connection = "up" /\ \A i \in 1 .. Len(down') : ~IsPut(i, u)'
    BY <1>2, <2>1, <2>2, <2>3
  <2>6. ASSUME NEW i \in 1 .. Len(down'), IsPut(i, u)'
        PROVE  u \in puts' /\ connection = "up" /\ \A k \in 1 .. Len(down') : IsPut(k, u)' => k = i
    <3>1. IsPut(i + 1, u) /\ ~IsPut(1, u)
      BY <1>2, <1>3, <2>6
    <3>2. QED
      BY <1>2, <2>1, <2>2, <2>4, <3>1
  <2>7. QED
    BY <2>1, <2>5, <2>6
<1>8. ListensOnce'
  <2>1. /\ listen' # NoList => listen' \in opened
        /\ \A l \in Lists : up[l] > 0 => l \in opened
    BY <1>5 DEF Booked, ListensOnce
  <2>2. ASSUME NEW i \in 1 .. Len(down')
        PROVE  /\ IsData(i)' => i + 1 \in 1 .. Len(down') /\ down'[i + 1].kind = "granted"
               /\ down'[i].kind \in {"granted", "denied"} => down'[i].list \in opened
               /\ down'[i].kind = "granted" =>
                     IF i = 1 THEN down'[i].list = listen' => synced' ELSE IsData(i - 1)'
    <3>1. /\ IsData(i + 1) => i + 1 + 1 \in 1 .. Len(down) /\ down[i + 1 + 1].kind = "granted"
          /\ down[i + 1].kind \in {"granted", "denied"} => down[i + 1].list \in opened
          /\ down[i + 1].kind = "granted" => IsData(i + 1 - 1)
      <4>1. i + 1 \in 1 .. Len(down) /\ i + 1 # 1
        BY <1>1
      <4>2. QED
        BY <4>1 DEF Booked, ListensOnce
    <3>2. IsData(i)' => i + 1 \in 1 .. Len(down') /\ down'[i + 1].kind = "granted"
      <4>1. i + 1 + 1 \in 1 .. Len(down) => i + 1 \in 1 .. Len(down')
        BY <1>1
      <4>2. QED
        BY <1>1, <1>2, <3>1, <4>1
    <3>3. ASSUME down'[i].kind = "granted"
          PROVE  IF i = 1 THEN down'[i].list = listen' => synced' ELSE IsData(i - 1)'
      <4>1. CASE i # 1
        <5>1. i - 1 \in 1 .. Len(down') /\ i - 1 + 1 = i /\ i + 1 - 1 = i
          BY <1>1, <4>1
        <5>2. IsData(i)
          BY <1>1, <3>1, <3>3, <5>1
        <5>3. QED
          BY <1>2, <4>1, <5>1, <5>2
      <4>2. CASE i = 1
        <5>1. IsData(1) /\ down[2].kind = "granted" /\ down[2].list \in opened /\ down'[1] = down[2]
          BY <1>1, <3>1, <3>3, <4>2
        <5>2. ReceiveData
          BY <1>1, <5>1 DEF IsData, ReceiveAny, ReceiveAdded, ReceiveGranted, ReceiveDenied, ReceiveRevoked,
                            ReceivePut, Receive
        <5>3. NoList \notin opened
          BY ConstantsAssumption DEF PeopleTypeOK
        <5>4. CASE observers = {}
          <6>1. listen' = NoList
            BY <5>2, <5>4 DEF ReceiveData, ListenBehindObservers
          <6>2. QED
            BY <4>2, <5>1, <5>3, <6>1
        <5>5. CASE observers # {}
          BY <4>2, <5>2, <5>5 DEF ReceiveData
        <5>6. QED
          BY <5>4, <5>5
      <4>3. QED
        BY <4>1, <4>2
    <3>4. QED
      BY <1>1, <3>1, <3>2, <3>3
  <2>3. QED
    BY <1>1, <2>1, <2>2 DEF ListensOnce
<1>9. QED
  BY <1>6, <1>7, <1>8 DEF Booked
-----------------------------------------------------------------------------
(* A write is forgotten when the view has its record, or the server has    *)
(* none: the count of unanswered listens is what this rests on.            *)
LEMMA WriteGoesWhenKnown ==
  ASSUME CountInv, CountInv', Booked, Covered, ReceiveAny, synced', NEW u \in Users,
         u \in writes, u \notin writes', u \in stored
  PROVE  u \in serverCache'
<1>1. PeopleTypeOK /\ ListenBehindObservers
  BY DEF CountInv
<1>2. /\ UNCHANGED <<stored, up>> /\ Len(down') \in Nat /\ Len(down) = Len(down') + 1
      /\ \A i \in 1 .. Len(down') : down'[i] = down[i + 1]
      /\ down[1] = Head(down)
      /\ ~IsData(1) => /\ synced /\ listen' = listen /\ ~Ends(0, 1)
                       /\ \A v : Brings(0, v) \/ Brings(1, v) => v \in serverCache'
  BY <1>1, ReceiveFacts
<1>3. \/ ReceivePut /\ unacked = 0 /\ IsPut(1, u)
      \/ (ReceiveGranted \/ ReceiveDenied) /\ unacked' = 0 /\ u \in held
  <2>1. CASE ReceivePut
    <3>1. unacked = 0 /\ u = Head(down).user /\ Head(down).kind = "put"
      BY <2>1 DEF ReceivePut, Receive
    <3>2. QED
      BY <1>2, <2>1, <3>1 DEF IsPut
  <2>2. CASE ReceiveGranted \/ ReceiveDenied
    BY <2>2 DEF ReceiveGranted, ReceiveDenied, AckHeld
  <2>3. CASE ReceiveData \/ ReceiveAdded \/ ReceiveRevoked
    BY <2>3 DEF ReceiveData, ReceiveAdded, ReceiveRevoked
  <2>4. QED
    BY <2>1, <2>2, <2>3 DEF ReceiveAny
<1>4. ~IsData(1)
  BY <1>2, <1>3 DEF ReceivePut, ReceiveGranted, ReceiveDenied, Receive, IsData
<1>5. synced /\ listen \in Lists
  BY <1>1, <1>2, <1>4, ListenerKnown DEF Booked
<1>6. /\ ~(up[listen] > 0)
      /\ \A i \in 1 + 1 .. Len(down) : down[i].kind \notin {"granted", "denied"}
  <2>1. CASE ReceivePut /\ unacked = 0
    <3>1. Cardinality(ListensIn(up)) + Cardinality(AnswersIn(down)) = 0
      BY <2>1 DEF CountInv, AnswersAreCounted
    <3>2. (\A l \in Lists : ~(up[l] > 0)) /\ \A i \in 1 .. Len(down) : down[i].kind \notin {"granted", "denied"}
      BY <3>1, NothingAsked DEF CountInv, PeopleTypeOK
    <3>3. QED
      BY <1>5, <3>2
  <2>2. CASE unacked' = 0
    <3>1. Cardinality(ListensIn(up')) + Cardinality(AnswersIn(down')) = 0
      BY <2>2 DEF CountInv, AnswersAreCounted
    <3>2. (\A l \in Lists : ~(up'[l] > 0)) /\ \A i \in 1 .. Len(down') : down'[i].kind \notin {"granted", "denied"}
      BY <3>1, NothingAsked DEF CountInv, PeopleTypeOK
    <3>3. ~(up[listen] > 0)
      BY <1>2, <1>5, <3>2
    <3>4. \A i \in 1 + 1 .. Len(down) : i - 1 \in 1 .. Len(down') /\ i - 1 + 1 = i
      BY <1>2
    <3>5. \A i \in 1 + 1 .. Len(down) : down[i].kind \notin {"granted", "denied"}
      BY <1>2, <3>2, <3>4
    <3>6. QED
      BY <3>3, <3>5
  <2>3. QED
    BY <1>3, <2>1, <2>2
<1>7. ~Later(1)
  <2>1. ASSUME NEW i \in 1 + 1 .. Len(down), IsData(i) PROVE FALSE
    <3>1. i \in 1 .. Len(down)
      BY <1>2
    <3>2. i + 1 \in 1 .. Len(down) /\ down[i + 1].kind = "granted"
      BY <2>1, <3>1 DEF Booked, ListensOnce
    <3>3. i + 1 \in 1 + 1 .. Len(down)
      BY <1>2, <3>2
    <3>4. QED
      BY <1>6, <3>2, <3>3
  <2>2. QED
    BY <1>6, <2>1 DEF Later, Refuses
<1>8. Brings(0, u)
  <2>1. CASE IsPut(1, u)
    <3>1. 0 \in Starts /\ 1 \in 1 .. Len(down) /\ 0 < 1
      BY <1>2, <1>5 DEF Starts
    <3>2. Brought(0, 1 - 1, u) \/ Ended(0, 1 - 1)
      BY <1>7, <2>1, <3>1 DEF Covered, PutsCovered
    <3>3. ~Ended(0, 1 - 1)
      BY DEF Ended
    <3>4. QED
      BY <3>2, <3>3 DEF Brought
  <2>2. CASE u \in held
    <3>1. ~Idle
      BY <1>2 DEF Idle
    <3>2. ~Later(0)
      <4>1. ~Refuses(1)
        BY <1>2, <1>4 DEF Ends
      <4>2. \A i \in 0 + 1 .. Len(down) : i = 1 \/ i \in 1 + 1 .. Len(down)
        BY <1>2
      <4>3. QED
        BY <1>4, <1>7, <4>1, <4>2 DEF Later
    <3>3. QED
      BY <1>5, <2>2, <3>1, <3>2 DEF Covered, HeldCovered, Brings
  <2>3. QED
    BY <1>3, <2>1, <2>2
<1>9. QED
  BY <1>2, <1>4, <1>8

(* One event for each observer and each user who appears.                  *)
LEMMA Raised ==
  ASSUME PeopleTypeOK, NEW A, Raise(A), NEW l \in Lists, NEW u \in Users
  PROVE  events'[l][u] = events[l][u] + One(l \in observers /\ u \in A)
BY DEF Raise, PeopleTypeOK, One

(* Either nobody observes any more, or each message tells every observer   *)
(* of whom it makes appear.                                                *)
LEMMA ReceiveTells ==
  ASSUME PeopleTypeOK, ListenBehindObservers, Booked, ReceiveAny
  PROVE  \/ observers' = {} /\ UNCHANGED <<events, rows>>
         \/ /\ observers' = observers /\ (synced => synced') /\ UNCHANGED rows
            /\ \A l \in Lists, u \in Users :
                  events'[l][u] = events[l][u] + One(l \in observers /\ u \in Shown' /\ u \notin Shown)
<1> DEFINE Told == \A l \in Lists, u \in Users :
                      events'[l][u] = events[l][u] + One(l \in observers /\ u \in Shown' /\ u \notin Shown)
<1>1. UNCHANGED rows
  BY ReceiveFacts
<1>2. ASSUME NEW A, Raise(A), A = Shown' \ Shown PROVE Told
  BY <1>2, Raised DEF One
<1>3. ASSUME events' = events, \A u \in Users : u \in Shown' => u \in Shown PROVE Told
  <2>1. \A l \in Lists, u \in Users : events[l][u] \in Nat
    BY DEF PeopleTypeOK
  <2>2. QED
    BY <1>3, <2>1 DEF One
<1>4. CASE ReceiveData
  <2>1. CASE observers = {}
    BY <1>1, <1>4, <2>1 DEF ReceiveData
  <2>2. CASE observers # {}
    <3>1. synced' = TRUE /\ writes' = writes /\ observers' = observers
      BY <1>4, <2>2 DEF ReceiveData
    <3>2. Raise(Visible(writes, TRUE, serverCache') \ Shown)
      BY <1>4, <2>2 DEF ReceiveData
    <3>3. Visible(writes, TRUE, serverCache') = Shown'
      BY <3>1 DEF Shown, Visible
    <3>4. QED
      BY <1>1, <1>2, <3>1, <3>2, <3>3
  <2>3. QED
    BY <2>1, <2>2
<1>5. CASE ReceiveAdded
  <2>1. UNCHANGED <<writes, synced, observers>>
    BY <1>5 DEF ReceiveAdded
  <2>2. CASE Raise(Visible(writes, synced, serverCache') \ Shown)
    <3>1. Visible(writes, synced, serverCache') = Shown'
      BY <2>1 DEF Shown, Visible
    <3>2. QED
      BY <1>1, <1>2, <2>1, <2>2, <3>1
  <2>3. CASE UNCHANGED <<serverCache, events>>
    BY <1>1, <1>3, <2>1, <2>3 DEF Shown, Visible
  <2>4. QED
    BY <1>5, <2>2, <2>3 DEF ReceiveAdded
<1>6. CASE ReceiveGranted
  <2>1. UNCHANGED <<serverCache, observers>> /\ writes' \subseteq writes
    BY <1>6 DEF ReceiveGranted, AckHeld
  <2>2. Head(down).list = listen => synced
    <3>1. 1 \in 1 .. Len(down) /\ down[1] = Head(down)
      BY <1>6, ReceiveFacts
    <3>2. QED
      BY <1>6, <3>1 DEF Booked, ListensOnce, ReceiveGranted, Receive
  <2>3. synced' = synced
    BY <1>6, <2>2 DEF ReceiveGranted, PeopleTypeOK
  <2>4. \A u : u \in Shown' => u \in Shown
    BY <2>1, <2>3 DEF Shown, Visible
  <2>5. CASE Head(down).list = listen
    <3>1. Raise(Visible(writes, TRUE, serverCache) \ Shown)
      BY <1>6, <2>5 DEF ReceiveGranted
    <3>2. Visible(writes, TRUE, serverCache) \ Shown = Shown' \ Shown
      BY <2>2, <2>4, <2>5 DEF Shown, Visible
    <3>3. QED
      BY <1>1, <1>2, <2>1, <2>3, <3>1, <3>2
  <2>6. CASE Head(down).list # listen
    <3>1. events' = events
      BY <1>6, <2>6 DEF ReceiveGranted
    <3>2. QED
      BY <1>1, <1>3, <2>1, <2>3, <2>4, <3>1
  <2>7. QED
    BY <2>5, <2>6
<1>7. CASE ReceiveDenied
  <2>1. CASE Head(down).list = listen
    BY <1>1, <1>7, <2>1 DEF ReceiveDenied, RemoveView
  <2>2. CASE Head(down).list # listen
    <3>1. UNCHANGED <<synced, serverCache, observers, events>> /\ writes' \subseteq writes
      BY <1>7, <2>2 DEF ReceiveDenied, AckHeld
    <3>2. QED
      BY <1>1, <1>3, <3>1 DEF Shown, Visible
  <2>3. QED
    BY <2>1, <2>2
<1>8. CASE ReceiveRevoked
  BY <1>1, <1>8 DEF ReceiveRevoked, RemoveView
<1>9. CASE ReceivePut
  <2>1. UNCHANGED <<synced, serverCache, observers, events>> /\ writes' \subseteq writes
    BY <1>9 DEF ReceivePut
  <2>2. QED
    BY <1>1, <1>3, <2>1 DEF Shown, Visible
<1>10. QED
  BY <1>4, <1>5, <1>6, <1>7, <1>8, <1>9 DEF ReceiveAny
-----------------------------------------------------------------------------
LEMMA ReceiveRows ==
  ASSUME CountInv, CountInv', Booked, Booked', Covered, RowsInv, ReceiveAny
  PROVE  RowsInv'
<1>1. PeopleTypeOK /\ ListenBehindObservers
  BY DEF CountInv
<1>2. UNCHANGED <<stored, tried, opened, rows>>
  BY <1>1, ReceiveFacts
<1> SUFFICES ASSUME NEW l \in Lists, NEW u \in Users
             PROVE  /\ l \notin opened' => events'[l][u] = 0 /\ rows'[l][u] = 0
                    /\ Listed(l, u)' <= 1
                    /\ l \in observers' /\ u \in Shown' => Listed(l, u)' = 1
                    /\ l \in observers' /\ u \notin Shown' /\ Listed(l, u)' = 1 =>
                          synced' /\ u \in tried' /\ u \notin stored' /\ u \notin writes'
  BY DEF RowsInv
<1>3. /\ l \notin opened => events[l][u] = 0 /\ rows[l][u] = 0
      /\ Listed(l, u) <= 1
      /\ l \in observers /\ u \in Shown => Listed(l, u) = 1
      /\ l \in observers /\ u \notin Shown /\ Listed(l, u) = 1 =>
             synced /\ u \in tried /\ u \notin stored /\ u \notin writes
      /\ events[l][u] \in Nat /\ rows[l][u] \in Nat
  BY <1>1 DEF RowsInv, PeopleTypeOK
<1>4. CASE observers' = {} /\ UNCHANGED <<events, rows>>
  BY <1>2, <1>3, <1>4 DEF Listed
<1>5. CASE /\ observers' = observers /\ (synced => synced')
           /\ events'[l][u] = events[l][u] + One(l \in observers /\ u \in Shown' /\ u \notin Shown)
  <2>1. writes' \subseteq writes
    BY DEF ReceiveAny, ReceiveData, ReceiveAdded, ReceiveGranted, ReceiveDenied, ReceiveRevoked, ReceivePut, AckHeld
  <2>2. Listed(l, u)' = Listed(l, u) + One(l \in observers /\ u \in Shown' /\ u \notin Shown)
        /\ Listed(l, u) \in Nat
    BY <1>2, <1>3, <1>5 DEF Listed, One
  <2>3. u \in Shown' => u \in writes \/ u \in stored
    BY <1>2, <2>1 DEF Shown, Visible, Booked, Known
  <2>4. l \in observers /\ u \in Shown /\ u \notin Shown' => synced' /\ u \in tried /\ u \notin stored /\ u \notin writes'
    <3> SUFFICES ASSUME l \in observers, u \in Shown, u \notin Shown'
                 PROVE  synced' /\ u \in tried /\ u \notin stored /\ u \notin writes'
      OBVIOUS
    <3>1. u \notin serverCache' /\ (synced' => u \notin writes')
      BY DEF Shown, Visible
    <3>2. CASE u \in serverCache
      <4>1. CASE synced' /\ IsData(1)
        <5>1. 1 \in 1 .. Len(down) /\ serverCache' = down[1].users
          BY <1>1, <4>1, ReceiveFacts
        <5>2. Brings(0, u) /\ 0 \in 0 .. 1 - 1
          BY <3>2 DEF Brings
        <5>3. QED
          BY <3>1, <4>1, <5>1, <5>2 DEF Covered, Grows
      <4>2. CASE synced' /\ ~IsData(1)
        BY <1>1, <3>1, <3>2, <4>2, ReceiveFacts DEF Brings
      <4>3. CASE ~synced'
        <5>1. ~synced
          BY <1>5, <4>3
        <5>2. serverCache \subseteq serverCache'
          BY <1>5, <3>2, <4>3, <5>1 DEF ReceiveAny, ReceiveData, ReceiveAdded, ReceiveGranted, ReceiveDenied,
                                        ReceiveRevoked, ReceivePut, RemoveView, Booked, Known
        <5>3. QED
          BY <3>1, <3>2, <5>2
      <4>4. QED
        BY <4>1, <4>2, <4>3
    <3>3. CASE u \notin serverCache
      <4>1. synced /\ u \in writes
        BY <3>3 DEF Shown, Visible
      <4>2. synced' /\ u \notin writes'
        BY <1>5, <3>1, <4>1
      <4>3. u \notin stored
        BY <3>1, <4>1, <4>2, WriteGoesWhenKnown
      <4>4. QED
        BY <4>1, <4>2, <4>3 DEF Booked, Known
    <3>4. QED
      BY <3>2, <3>3
  <2>5. CASE l \in observers /\ u \in Shown' /\ u \notin Shown
    <3>1. Listed(l, u) = 0 /\ l \in opened
      BY <1>3, <2>2, <2>3, <2>5 DEF Booked, Known
    <3>2. Listed(l, u)' = 1
      BY <2>2, <2>5, <3>1 DEF One
    <3>3. QED
      BY <1>2, <2>5, <3>1, <3>2
  <2>6. CASE ~(l \in observers /\ u \in Shown' /\ u \notin Shown)
    <3>1. Listed(l, u)' = Listed(l, u) /\ events'[l][u] = events[l][u] /\ rows'[l][u] = rows[l][u]
      BY <1>2, <1>3, <1>5, <2>2, <2>6 DEF One
    <3>2. QED
      BY <1>2, <1>3, <1>5, <2>1, <2>4, <2>6, <3>1
  <2>7. QED
    BY <2>5, <2>6
<1>6. \/ observers' = {} /\ UNCHANGED <<events, rows>>
      \/ /\ observers' = observers /\ (synced => synced')
         /\ events'[l][u] = events[l][u] + One(l \in observers /\ u \in Shown' /\ u \notin Shown)
  BY <1>1, ReceiveTells
<1>7. QED
  BY <1>4, <1>5, <1>6
(* A table that opens is told of everybody shown.                          *)
LEMMA ObserveRows ==
  ASSUME PeopleTypeOK, Booked, RowsInv, NEW l \in Lists, Observe(l) PROVE RowsInv'
<1>1. UNCHANGED <<stored, tried, writes, synced, serverCache, rows>> /\ Shown' = Shown
      /\ opened' = opened \cup {l} /\ observers' = observers \cup {l} /\ l \notin opened
      /\ events' = [events EXCEPT ![l] = [u \in Users |-> One(u \in Shown)]]
  BY DEF Observe, Shown
<1> SUFFICES ASSUME NEW k \in Lists, NEW u \in Users
             PROVE  /\ k \notin opened' => events'[k][u] = 0 /\ rows'[k][u] = 0
                    /\ Listed(k, u)' <= 1
                    /\ k \in observers' /\ u \in Shown' => Listed(k, u)' = 1
                    /\ k \in observers' /\ u \notin Shown' /\ Listed(k, u)' = 1 =>
                          synced' /\ u \in tried' /\ u \notin stored' /\ u \notin writes'
  BY DEF RowsInv
<1>2. CASE k = l
  <2>1. events'[k][u] = One(u \in Shown) /\ rows'[k][u] = 0
    BY <1>1, <1>2 DEF RowsInv, PeopleTypeOK
  <2>2. QED
    BY <1>1, <1>2, <2>1 DEF Listed, One
<1>3. CASE k # l
  <2>1. events'[k][u] = events[k][u] /\ rows'[k][u] = rows[k][u]
    BY <1>1, <1>3 DEF PeopleTypeOK
  <2>2. QED
    BY <1>1, <1>3, <2>1 DEF RowsInv, Listed
<1>4. QED
  BY <1>2, <1>3

(* A new record is shown at once where the view is synced.                 *)
LEMMA WriteRows ==
  ASSUME PeopleTypeOK, Booked, RowsInv, NEW w \in Users, Write(w) PROVE RowsInv'
<1>1. UNCHANGED <<stored, synced, serverCache, observers, opened, rows>>
      /\ w \notin tried /\ tried' = tried \cup {w} /\ writes' = writes \cup {w}
      /\ Raise(Visible({w}, synced, serverCache) \ Shown)
  BY DEF Write
<1>2. w \notin stored /\ w \notin serverCache /\ w \notin writes
  BY <1>1 DEF Booked, Known
<1>3. \A u : (u \in Shown' <=> u \in Shown \/ (synced /\ u = w))
             /\ (u \in Visible({w}, synced, serverCache) \ Shown <=> synced /\ u = w)
  BY <1>1, <1>2 DEF Shown, Visible
<1> SUFFICES ASSUME NEW k \in Lists, NEW u \in Users
             PROVE  /\ k \notin opened' => events'[k][u] = 0 /\ rows'[k][u] = 0
                    /\ Listed(k, u)' <= 1
                    /\ k \in observers' /\ u \in Shown' => Listed(k, u)' = 1
                    /\ k \in observers' /\ u \notin Shown' /\ Listed(k, u)' = 1 =>
                          synced' /\ u \in tried' /\ u \notin stored' /\ u \notin writes'
  BY DEF RowsInv
<1>4. events'[k][u] = events[k][u] + One(k \in observers /\ synced /\ u = w)
      /\ rows'[k][u] = rows[k][u] /\ events[k][u] \in Nat /\ rows[k][u] \in Nat
  <2>1. events'[k][u] = events[k][u] + One(k \in observers /\ u \in Visible({w}, synced, serverCache) \ Shown)
    BY <1>1, Raised
  <2>2. QED
    BY <1>1, <1>3, <2>1 DEF PeopleTypeOK, One
<1>5. Listed(k, u)' = Listed(k, u) + One(k \in observers /\ synced /\ u = w) /\ Listed(k, u) \in Nat
  BY <1>4 DEF Listed, One
<1>6. k \in observers => k \in opened
  BY DEF Booked, Known
<1>7. CASE u = w
  <2>1. u \notin Shown /\ u \notin tried
    BY <1>1, <1>2, <1>7 DEF Shown, Visible
  <2>2. k \in observers => Listed(k, u) = 0
    BY <1>5, <2>1 DEF RowsInv
  <2>3. QED
    BY <1>1, <1>3, <1>4, <1>5, <1>6, <1>7, <2>1, <2>2 DEF RowsInv, One
<1>8. CASE u # w
  <2>1. Listed(k, u)' = Listed(k, u) /\ events'[k][u] = events[k][u] /\ rows'[k][u] = rows[k][u]
    BY <1>4, <1>5, <1>8 DEF One
  <2>2. QED
    BY <1>1, <1>3, <1>8, <2>1 DEF RowsInv
<1>9. QED
  BY <1>7, <1>8

(* A row for an event leaves their sum.                                    *)
LEMMA AddRowRows ==
  ASSUME PeopleTypeOK, RowsInv, NEW l \in Lists, NEW w \in Users, AddRow(l, w) PROVE RowsInv'
<1>1. UNCHANGED <<stored, tried, writes, synced, serverCache, observers, opened>> /\ Shown' = Shown
      /\ events[l][w] > 0
      /\ events' = [events EXCEPT ![l][w] = @ - 1] /\ rows' = [rows EXCEPT ![l][w] = @ + 1]
  BY DEF AddRow, tree, Shown
<1> SUFFICES ASSUME NEW k \in Lists, NEW u \in Users
             PROVE  /\ k \notin opened => events'[k][u] = 0 /\ rows'[k][u] = 0
                    /\ Listed(k, u)' = Listed(k, u)
  BY <1>1 DEF RowsInv
<1>2. events[k][u] \in Nat /\ rows[k][u] \in Nat
  BY DEF PeopleTypeOK
<1>3. CASE k = l /\ u = w
  <2>1. events'[k][u] = events[k][u] - 1 /\ rows'[k][u] = rows[k][u] + 1
    BY <1>1, <1>3 DEF PeopleTypeOK
  <2>2. k \in opened
    BY <1>1, <1>3 DEF RowsInv
  <2>3. QED
    BY <1>2, <2>1, <2>2 DEF Listed
<1>4. CASE ~(k = l /\ u = w)
  <2>1. events'[k][u] = events[k][u] /\ rows'[k][u] = rows[k][u]
    BY <1>1, <1>4 DEF PeopleTypeOK
  <2>2. QED
    BY <2>1 DEF RowsInv, Listed
<1>5. QED
  BY <1>3, <1>4

(* Of the others only the server changes what rows depend on: it stores    *)
(* records of users who are still pending, or were never tried.            *)
LEMMA OtherRows ==
  ASSUME PeopleTypeOK, Booked, RowsInv,
         \/ Connect \/ Authenticated \/ Drop \/ RevokeListen
         \/ \E l \in Lists : GrantListen(l) \/ DenyListen(l)
         \/ \E u \in Users : AcceptPut(u) \/ RefusePut(u) \/ WriteElsewhere(u)
  PROVE  RowsInv'
<1>1. UNCHANGED <<writes, synced, serverCache, observers, opened, events, rows>>
  BY DEF Connect, Authenticated, Drop, RevokeListen, GrantListen, DenyListen, AcceptPut, RefusePut,
         WriteElsewhere, Server, tree
<1>2. tried \subseteq tried' /\ \A u \in stored' : u \in stored \/ u \in writes \/ u \notin tried
  <2>1. CASE \E u \in Users : AcceptPut(u) \/ RefusePut(u)
    <3>1. PICK u \in Users : AcceptPut(u) \/ RefusePut(u)
      BY <2>1
    <3>2. tried' = tried /\ stored' \subseteq stored \cup {u} /\ up[u] > 0
      BY <3>1 DEF AcceptPut, RefusePut
    <3>3. u \in writes
      BY <3>2 DEF Booked, PutsOnce, Known
    <3>4. QED
      BY <3>2, <3>3
  <2>2. CASE \E u \in Users : WriteElsewhere(u)
    BY <2>2 DEF WriteElsewhere
  <2>3. CASE UNCHANGED <<stored, tried>>
    BY <2>3
  <2>4. QED
    BY <2>1, <2>2, <2>3 DEF Connect, Authenticated, Drop, RevokeListen, GrantListen, DenyListen
<1>3. Shown' = Shown
  BY <1>1 DEF Shown
<1>4. QED
  BY <1>1, <1>2, <1>3 DEF RowsInv, Listed
-----------------------------------------------------------------------------
(* The count of answers, the queue and the rows.                           *)
ListedInv == CountInv /\ Booked /\ Covered /\ RowsInv

LEMMA ListedStep == ASSUME ListedInv, PeopleNext PROVE ListedInv'
<1> USE DEF ListedInv
<1>1. PeopleTypeOK /\ ListenBehindObservers
  BY DEF CountInv
<1>2. CASE \E l \in Lists : Observe(l)
  BY <1>1, <1>2, ObserveCount, ObserveListed, ObserveRows
<1>3. CASE \E l \in Lists : GrantListen(l) \/ DenyListen(l)
  BY <1>1, <1>3, AnswerListenCount, GrantListed, DenyListed, OtherRows
<1>4. CASE \E u \in Users : Write(u)
  BY <1>1, <1>4, WriteCount, WriteListed, WriteRows
<1>5. CASE \E u \in Users : AcceptPut(u) \/ RefusePut(u) \/ WriteElsewhere(u)
  <2>1. CountInv' /\ RowsInv'
    BY <1>1, <1>5, ServerCount, OtherRows
  <2>2. Booked' /\ Covered'
    BY <1>1, <1>5, PutListed, ElsewhereListed
  <2>3. QED
    BY <2>1, <2>2
<1>6. CASE \E l \in Lists, u \in Users : AddRow(l, u)
  <2>1. UNCHANGED <<stored, tried, up, down, serving, connection, listen, puts, held, writes, synced, serverCache,
                    observers, opened>>
    BY <1>6 DEF AddRow, network, client, tree
  <2>2. Booked'
    BY <2>1 DEF Booked, Known, PutsOnce, ListensOnce, Brings, IsData, IsPut
  <2>3. Covered'
    BY <2>1 DEF Covered, Grows, Cover, PutsCovered, HeldCovered, Starts, Ended, Ends, Brought,
                Brings, IsData, IsPut, Refuses, Later, Idle
  <2>4. QED
    BY <1>1, <1>6, <2>2, <2>3, AddRowCount, AddRowRows
<1>7. CASE Connect \/ Authenticated
  BY <1>1, <1>7, ConnectCount, ConnectListed, OtherRows
<1>8. CASE Drop
  BY <1>1, <1>8, DropCount, DropListed, OtherRows
<1>9. CASE RevokeListen
  BY <1>1, <1>9, ServerCount, RevokeListed, OtherRows
<1>10. CASE ReceiveAny
  <2>1. CountInv'
    BY <1>10, ReceiveCount
  <2>2. Booked' /\ Covered'
    BY <1>1, <1>10, ReceiveBooked, ReceiveCovered
  <2>3. QED
    BY <1>10, <2>1, <2>2, ReceiveRows
<1>11. QED
  BY <1>2, <1>3, <1>4, <1>5, <1>6, <1>7, <1>8, <1>9, <1>10 DEF PeopleNext

LEMMA ListedStutter == ASSUME ListedInv, UNCHANGED peopleVars PROVE ListedInv'
<1>1. CountInv'
  BY StutterCount DEF ListedInv
<1>2. UNCHANGED <<stored, tried, up, down, serving, connection, listen, puts, held, writes, synced, serverCache,
                  observers, opened, events, rows>>
  BY DEF peopleVars
<1>3. Booked'
  BY <1>2 DEF ListedInv, Booked, Known, PutsOnce, ListensOnce, Brings, IsData, IsPut
<1>4. Covered'
  BY <1>2 DEF ListedInv, Covered, Grows, Cover, PutsCovered, HeldCovered, Starts, Ended, Ends, Brought,
              Brings, IsData, IsPut, Refuses, Later, Idle
<1>5. RowsInv'
  BY <1>2 DEF ListedInv, RowsInv, Listed, Shown
<1>6. QED
  BY <1>1, <1>3, <1>4, <1>5 DEF ListedInv

THEOREM ListedInvariant == PeopleSpec => []ListedInv
<1>1. PeopleInit => ListedInv
  BY InitCount, InitListed DEF ListedInv
<1>2. ListedInv /\ [PeopleNext]_peopleVars => ListedInv'
  BY ListedStep, ListedStutter
<1>3. QED
  BY <1>1, <1>2, PTL DEF PeopleSpec

(* Nobody is listed twice, however connections are lost, listens answered  *)
(* late, doubly or with a refusal, and writes accepted or refused.         *)
THEOREM NobodyListedTwice == PeopleSpec => []NobodyTwice
<1>1. ListedInv => NobodyTwice
  BY DEF ListedInv, RowsInv, Listed, NobodyTwice
<1>2. QED
  BY <1>1, ListedInvariant, PTL
=============================================================================
