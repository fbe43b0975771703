---------------------------- MODULE DBWriteProofs ---------------------------
(***************************************************************************)
(* Theorems about DBWrite, for any sets of threads, any capacity and       *)
(* triggers, and any number of calls.                                      *)
(***************************************************************************)
EXTENDS DBWrite, SequenceTheorems, FiniteSetTheorems, TLAPS

(* The types of what TypeOK leaves open.                                   *)
Call == [kind : {"none", "put", "sync", "flush", "range"}, seq : Nat, delay : BOOLEAN,
         force : BOOLEAN, old : SUBSET Nat, done : BOOLEAN, ok : BOOLEAN]
View == [open : BOOLEAN, snapshot : Nat, mem : Nat, imm : Nat, tables : SUBSET Nat, acked : SUBSET Nat]
Types == /\ TypeOK
         /\ call \in [Threads -> Call]
         /\ view \in [Threads -> View]
-----------------------------------------------------------------------------
(* Places in a queue without duplicates.                                   *)
Distinct(q) == \A i, j \in DOMAIN q : q[i] = q[j] => i = j

(* A writer's place is where the queue has it.                             *)
LEMMA PlaceOf ==
    ASSUME NEW S, NEW q \in Seq(S), Distinct(q), NEW i \in 1 .. Len(q)
    PROVE  Place(q, q[i]) = i
<1>1. {j \in 1 .. Len(q) : q[j] = q[i]} = {i}
  BY DEF Distinct
<1>2. Min({i}) = i
  BY DEF Min
<1>3. QED
  BY <1>1, <1>2 DEF Place, SelectInSeq

(* What is behind a place has the writers that are not up to it.           *)
LEMMA RestOf ==
    ASSUME NEW S, NEW q \in Seq(S), Distinct(q), NEW i \in 1 .. Len(q)
    PROVE  LET r == SubSeq(q, i + 1, Len(q))
           IN  /\ r \in Seq(S) /\ Distinct(r)
               /\ Range(r) = Range(q) \ {q[j] : j \in 1 .. i}
               /\ r = <<>> \/ Head(r) \in Range(r)
<1> DEFINE r == SubSeq(q, i + 1, Len(q))
<1>1. /\ r \in Seq(S) /\ Len(r) = Len(q) - i
      /\ \A k \in 1 .. Len(r) : r[k] = q[k + i]
  BY SubSeqProperties
<1> HIDE DEF r
<1>2. Distinct(r)
  <2>1. SUFFICES ASSUME NEW j \in 1 .. Len(r), NEW k \in 1 .. Len(r), r[j] = r[k]
                 PROVE  j = k
    BY <1>1, LenProperties DEF Distinct
  <2>2. /\ Len(q) \in Nat /\ DOMAIN q = 1 .. Len(q)
        /\ q[j + i] = q[k + i]
    BY <1>1, <2>1, LenProperties
  <2>3. j + i \in 1 .. Len(q) /\ k + i \in 1 .. Len(q)
    BY <1>1, <2>2
  <2>4. j + i = k + i
    BY <2>2, <2>3 DEF Distinct
  <2>5. QED
    BY <2>4
<1>3. /\ Range(r) = {r[k] : k \in 1 .. Len(r)}
      /\ Range(q) = {q[k] : k \in 1 .. Len(q)}
  BY <1>1, RangeEquality
<1>4. /\ Range(r) = Range(q) \ {q[j] : j \in 1 .. i}
      /\ r = <<>> \/ Head(r) \in Range(r)
  <2>1. ASSUME NEW k \in 1 .. Len(r)
        PROVE  r[k] \in Range(q) /\ \A j \in 1 .. i : q[j] # r[k]
    BY <1>1, <1>3, LenProperties DEF Distinct
  <2>2. ASSUME NEW k \in 1 .. Len(q), k \notin 1 .. i PROVE q[k] \in Range(r)
    <3>1. Len(q) \in Nat /\ k - i \in 1 .. Len(r)
      BY <1>1, <2>2, LenProperties
    <3>2. r[k - i] = q[k - i + i]
      BY <1>1, <3>1
    <3>3. r[k - i] = q[k]
      BY <3>1, <3>2
    <3>4. QED
      BY <3>1, <3>3, <1>3
  <2>3. Range(r) = Range(q) \ {q[j] : j \in 1 .. i}
    BY <2>1, <2>2, <1>3
  <2>4. r = <<>> \/ Head(r) \in Range(r)
    BY <1>1, <1>3, EmptySeq
  <2>5. QED
    BY <2>3, <2>4
<1>5. QED
  BY <1>1, <1>2, <1>4 DEF r

(* Another writer at the end changes nothing for those before it.          *)
LEMMA Appended ==
    ASSUME NEW S, NEW q \in Seq(S), Distinct(q), NEW t \in S, t \notin Range(q)
    PROVE  /\ Append(q, t) \in Seq(S) /\ Distinct(Append(q, t))
           /\ Range(Append(q, t)) = Range(q) \cup {t}
           /\ Head(Append(q, t)) = IF q = <<>> THEN t ELSE Head(q)
           /\ \A i \in 1 .. Len(q) : Append(q, t)[i] = q[i] /\ Place(Append(q, t), q[i]) = i
<1> DEFINE r == Append(q, t)
<1>1. /\ r \in Seq(S) /\ Len(r) = Len(q) + 1 /\ r[Len(q) + 1] = t
      /\ \A i \in 1 .. Len(q) : r[i] = q[i]
  BY AppendProperties
<1> HIDE DEF r
<1>2. Distinct(r)
  BY <1>1 DEF Distinct, Range
<1>3. Range(r) = Range(q) \cup {t}
  <2>1. /\ Range(r) = {r[k] : k \in 1 .. Len(q) + 1}
        /\ Range(q) = {q[k] : k \in 1 .. Len(q)}
    BY <1>1, RangeEquality
  <2>2. QED
    BY <1>1, <2>1
<1>4. Head(r) = IF q = <<>> THEN t ELSE Head(q)
  BY HeadTailAppend DEF r
<1>5. ASSUME NEW i \in 1 .. Len(q) PROVE Place(r, q[i]) = i
  <2>1. i \in 1 .. Len(r) /\ r[i] = q[i]
    BY <1>1, LenProperties
  <2>2. QED
    BY <2>1, <1>1, <1>2, PlaceOf
<1>6. QED
  BY <1>1, <1>2, <1>3, <1>4, <1>5 DEF r
-----------------------------------------------------------------------------
(* Who waits in the queue or is its head.  The others wait for their cv    *)
(* with an answer already given, or have nothing to do with the queue.     *)
InQueue(t) == pc[t] \in Ahead \/ (pc[t] = "queued" /\ ~call[t].done)
Logging == {"logging", "logged", "unlogged", "unsynced"}
Writing == {"put", "sync", "flush"}

QueueInv == /\ Distinct(queue)
            /\ \A t \in Threads : t \in Range(queue) <=> InQueue(t)
            /\ \A t \in Threads : InQueue(t) => call[t].kind \in Writing
            /\ OneLogger
            /\ \A t \in Threads : pc[t] \in Logging => last \in Range(queue)
            /\ manual # Nobody => pc[manual] = "range"

Core == Types /\ QueueInv

(* The head of the queue is its own group; a group is the head and some    *)
(* that wait behind it, and who is left keeps the order.                   *)
LEMMA GroupOf ==
    ASSUME Core, NEW t \in Threads, pc[t] \in Ahead, NEW upto \in Range(queue)
    PROVE  /\ t \in Range(queue) /\ Position(t) = 1 /\ Group(t) = {t}
           /\ t \in Group(upto) /\ Group(upto) \subseteq Range(queue) /\ Range(queue) \subseteq Threads
           /\ IsFiniteSet(Group(upto))
           /\ \A u \in Group(upto) \ {t} : pc[u] = "queued" /\ ~call[u].done
           /\ Rest(upto) \in Seq(Threads) /\ Distinct(Rest(upto))
           /\ Range(Rest(upto)) = Range(queue) \ Group(upto)
           /\ Rest(upto) = <<>> \/ Head(Rest(upto)) \in Range(Rest(upto))
<1>1. /\ queue \in Seq(Threads) /\ queue # <<>> /\ queue[1] = t
      /\ Len(queue) \in Nat /\ 1 \in 1 .. Len(queue)
      /\ Range(queue) = {queue[i] : i \in 1 .. Len(queue)}
      /\ Range(queue) \subseteq Threads
  <2>1. queue \in Seq(Threads) /\ queue # <<>> /\ Head(queue) = t
    BY DEF Core, Types, TypeOK, QueueInv, OneLogger
  <2>2. Len(queue) \in Nat \ {0} /\ queue[1] = t
    BY <2>1, EmptySeq
  <2>3. QED
    BY <2>1, <2>2, RangeEquality, RangeOfSeq
<1>2. Distinct(queue)
  BY DEF Core, QueueInv
<1>3. PICK i \in 1 .. Len(queue) : upto = queue[i]
  BY <1>1
<1>4. Position(t) = 1 /\ Position(upto) = i
  BY <1>1, <1>2, <1>3, PlaceOf DEF Position
<1>5. /\ t \in Range(queue) /\ Group(t) = {t}
      /\ t \in Group(upto) /\ Group(upto) \subseteq Range(queue)
  BY <1>1, <1>3, <1>4 DEF Group
<1>6. IsFiniteSet(Group(upto))
  <2>1. [j \in 1 .. i |-> queue[j]] \in Surjection(1 .. i, Group(upto))
    BY <1>3, <1>4 DEF Group, Surjection
  <2>2. IsFiniteSet(1 .. i)
    BY <1>1, <1>3, FS_Interval
  <2>3. QED
    BY <2>1, <2>2, FS_Surjection
<1>7. ASSUME NEW u \in Group(upto) \ {t} PROVE pc[u] = "queued" /\ ~call[u].done
  <2>1. u \in Threads /\ InQueue(u)
    BY <1>1, <1>5, <1>7 DEF Core, QueueInv
  <2>2. pc[u] \notin Ahead
    BY <2>1, <1>7 DEF Core, QueueInv, OneLogger
  <2>3. QED
    BY <2>1, <2>2 DEF InQueue
<1>8. /\ Rest(upto) \in Seq(Threads) /\ Distinct(Rest(upto))
      /\ Range(Rest(upto)) = Range(queue) \ Group(upto)
      /\ Rest(upto) = <<>> \/ Head(Rest(upto)) \in Range(Rest(upto))
  <2>1. /\ Rest(upto) = SubSeq(queue, i + 1, Len(queue))
        /\ Group(upto) = {queue[j] : j \in 1 .. i}
    BY <1>4 DEF Rest, Group
  <2>2. QED
    BY <1>1, <1>2, <2>1, RestOf
<1>9. QED
  BY <1>1, <1>4, <1>5, <1>6, <1>7, <1>8

(* The batches of a group and the numbers they have are finitely many.     *)
Batch == {u \in Group(last) : IsBatch(u)}
Numbers == {call[u].seq : u \in Batch}

LEMMA NumbersOf ==
    ASSUME Core, NEW t \in Threads, pc[t] \in Logging
    PROVE  /\ IsFiniteSet(Numbers) /\ Cardinality(Numbers) \in Nat /\ Numbers \subseteq Nat
           /\ \A u \in Threads : Entries(u) = Numbers
<1>1. pc[t] \in Ahead /\ last \in Range(queue)
  BY DEF Core, QueueInv, Logging, Ahead
<1>2. IsFiniteSet(Batch) /\ Batch \subseteq Threads
  BY <1>1, GroupOf, FS_Subset DEF Batch
<1>3. [u \in Batch |-> call[u].seq] \in Surjection(Batch, Numbers)
  BY DEF Numbers, Surjection
<1>4. IsFiniteSet(Numbers)
  BY <1>2, <1>3, FS_Surjection
<1>5. Numbers \subseteq Nat
  BY <1>2 DEF Numbers, Core, Types, TypeOK
<1>6. QED
  BY <1>4, <1>5, FS_CardinalityType DEF Entries, Numbers, Batch
-----------------------------------------------------------------------------
(* A group that leaves takes along whom it answers, and nobody else: the   *)
(* writers left are those still waiting in the queue.                      *)
LEMMA LeaveQueueKeeps ==
    ASSUME Core, NEW t \in Threads, pc[t] \in Ahead, NEW upto \in Range(queue),
           NEW ok \in BOOLEAN, LeaveQueue(t, upto, ok), UNCHANGED manual
    PROVE  /\ queue' \in Seq(Threads) /\ last' \in Threads \cup {Nobody} /\ mutex' \in Threads \cup {Nobody}
           /\ pc' \in [Threads -> Labels] /\ call' \in [Threads -> Call]
           /\ woken' \subseteq Threads /\ acked' \subseteq Nat
           /\ QueueInv'
<1>1. /\ t \in Group(upto) /\ Group(upto) \subseteq Range(queue) /\ Range(queue) \subseteq Threads
      /\ \A u \in Group(upto) \ {t} : pc[u] = "queued" /\ ~call[u].done
      /\ queue' \in Seq(Threads) /\ Distinct(queue')
      /\ Range(queue') = Range(queue) \ Group(upto)
      /\ Rest(upto) = <<>> \/ Head(Rest(upto)) \in Threads
  BY GroupOf DEF LeaveQueue
<1>2. Types /\ QueueInv
  BY DEF Core
<1>3. /\ pc' = [pc EXCEPT ![t] = IF call[t].kind = "flush" /\ ok THEN "flushed" ELSE "idle"]
      /\ call' = [u \in Threads |-> IF u \in Group(upto) \ {t}
                                    THEN [call[u] EXCEPT !.done = TRUE, !.ok = ok] ELSE call[u]]
      /\ last' = Nobody /\ mutex' = Nobody
  BY DEF LeaveQueue, Goto
<1>4. pc' \in [Threads -> Labels] /\ call' \in [Threads -> Call]
  <2>1. pc \in [Threads -> Labels] /\ call \in [Threads -> Call]
    BY <1>2 DEF Types, TypeOK
  <2>2. "flushed" \in Labels /\ "idle" \in Labels
    BY DEF Labels
  <2>3. pc' \in [Threads -> Labels]
    BY <2>1, <2>2, <1>3
  <2>4. ASSUME NEW u \in Threads PROVE [call[u] EXCEPT !.done = TRUE, !.ok = ok] \in Call
    BY <2>1 DEF Call
  <2>5. call' \in [Threads -> Call]
    BY <2>1, <2>4, <1>3
  <2>6. QED
    BY <2>3, <2>5
<1>5. woken' \subseteq Threads /\ acked' \subseteq Nat
  BY <1>1, <1>2 DEF LeaveQueue, Types, TypeOK
<1>6. \A u \in Threads : u # t => pc'[u] = pc[u]
  BY <1>2, <1>3 DEF Types, TypeOK
<1>7. pc'[t] \in {"idle", "flushed"}
  BY <1>2, <1>3 DEF Types, TypeOK
<1>8. \A u \in Threads : /\ call'[u].kind = call[u].kind
                         /\ call'[u].done = (call[u].done \/ u \in Group(upto) \ {t})
  BY <1>2, <1>3 DEF Types, Call
<1>9. \A u \in Threads : u # t => pc'[u] \notin Ahead
  BY <1>2, <1>6 DEF QueueInv, OneLogger
<1>10. \A u \in Threads : pc'[u] \notin Ahead
  BY <1>7, <1>9 DEF Ahead
<1>11. ASSUME NEW u \in Threads PROVE u \in Range(queue') <=> InQueue(u)'
  <2>1. InQueue(u)' <=> pc'[u] = "queued" /\ ~call'[u].done
    BY <1>10 DEF InQueue, Ahead
  <2>2. CASE u \in Group(upto)
    BY <2>1, <2>2, <1>1, <1>7, <1>8
  <2>3. CASE u \notin Group(upto)
    <3>1. u # t /\ pc'[u] = pc[u] /\ call'[u].done = call[u].done
      BY <2>3, <1>1, <1>3, <1>6
    <3>2. pc[u] \notin Ahead
      BY <1>9, <3>1
    <3>3. InQueue(u)' <=> InQueue(u)
      BY <2>1, <3>1, <3>2 DEF InQueue
    <3>4. QED
      BY <2>3, <3>3, <1>1, <1>2 DEF QueueInv
  <2>4. QED
    BY <2>2, <2>3
<1>12. \A u \in Threads : InQueue(u)' => call'[u].kind \in Writing
  <2>1. \A u \in Threads : InQueue(u)' => InQueue(u)
    BY <1>1, <1>2, <1>11 DEF QueueInv
  <2>2. QED
    BY <2>1, <1>2, <1>8 DEF QueueInv
<1>13. manual' # Nobody => pc'[manual'] = "range"
  BY <1>2, <1>6 DEF QueueInv, Types, TypeOK, Ahead
<1>14. QueueInv'
  BY <1>1, <1>10, <1>11, <1>12, <1>13 DEF QueueInv, OneLogger, Logging, Ahead
<1>15. QED
  BY <1>1, <1>3, <1>4, <1>5, <1>14
(* No step breaks it: whoever enters the queue is not in it yet, whoever   *)
(* leaves it is the head with its group, and only the head logs.           *)
LEMMA CoreStep ==
    ASSUME Core, [Next]_vars
    PROVE  Core'
<1>a. /\ TypeOK /\ call \in [Threads -> Call] /\ view \in [Threads -> View] /\ QueueInv
  BY DEF Core, Types
<1>b. pc \in [Threads -> Labels] /\ \A c \in Call : c.seq \in Nat
  BY <1>a DEF TypeOK, Call
<1>d. /\ lastSeq \in Nat /\ l0 \in Nat /\ imm \in 0 .. Len(mems) - 1
      /\ queue \in Seq(Threads) /\ manual \in Threads \cup {Nobody}
      /\ tables \subseteq Nat /\ acked \subseteq Nat
      /\ calls < MaxCalls => calls + 1 \in 0 .. MaxCalls
  <2>1. /\ lastSeq \in Nat /\ l0 \in Nat /\ imm \in 0 .. Len(mems) - 1
        /\ queue \in Seq(Threads) /\ manual \in Threads \cup {Nobody}
        /\ tables \subseteq Nat /\ acked \subseteq Nat /\ calls \in 0 .. MaxCalls
    BY <1>a DEF TypeOK
  <2>2. MaxCalls \in Nat
    BY DBWriteAssumption
  <2>3. QED
    BY <2>1, <2>2
<1>c. /\ mems \in Seq(SUBSET Nat) /\ Len(mems) \in Nat \ {0} /\ Mem \in 1 .. Len(mems)
      /\ mems[Mem] \subseteq Nat /\ Contents(imm) \subseteq Nat
  <2>1. mems \in Seq(SUBSET Nat) /\ Len(mems) \in Nat \ {0}
    BY <1>a, EmptySeq DEF TypeOK
  <2>2. imm = 0 \/ imm \in 1 .. Len(mems)
    BY <1>d, <2>1
  <2>3. QED
    BY <2>1, <2>2, ElementOfSeq DEF Mem, Contents
<1>1. ASSUME NEW t \in Threads, NEW kind \in Kinds \cap {"put", "sync", "flush"},
               BeginWrite(t, kind) PROVE Core'
  <2> DEFINE new == [NoCall EXCEPT !.kind = kind, !.delay = kind # "flush", !.force = kind = "flush",
                                   !.old = acked]
  <2>1. new \in Call /\ new.kind = kind /\ ~new.done
    BY <1>a DEF NoCall, Call, TypeOK
  <2>2. /\ pc[t] = "idle" /\ call' = [call EXCEPT ![t] = new] /\ queue' = Append(queue, t)
        /\ \/ queue = <<>> /\ pc' = [pc EXCEPT ![t] = "room"]
           \/ queue # <<>> /\ pc' = [pc EXCEPT ![t] = "queued"]
        /\ UNCHANGED <<last, manual>>
    BY <1>1 DEF BeginWrite, Goto, background
  <2> HIDE DEF new
  <2>3. t \notin Range(queue)
    BY <1>a, <2>2 DEF QueueInv, InQueue, Ahead
  <2>4. /\ queue' \in Seq(Threads) /\ Distinct(queue') /\ Range(queue') = Range(queue) \cup {t}
        /\ queue' # <<>> /\ Head(queue') = IF queue = <<>> THEN t ELSE Head(queue)
    BY <1>a, <1>d, <2>2, <2>3, Appended, AppendProperties DEF QueueInv
  <2>5. call' \in [Threads -> Call] /\ pc' \in [Threads -> Labels]
    BY <1>a, <1>b, <2>1, <2>2 DEF Labels
  <2>6. Types'
    <3>1. calls' \in 0 .. MaxCalls
      BY <1>1, <1>d DEF BeginWrite
    <3>2. QED
      BY <1>1, <1>a, <1>b, <2>4, <2>5, <3>1 DEF BeginWrite, Types, TypeOK, memory, background
  <2>7. \A u \in Threads : u # t => pc'[u] = pc[u] /\ call'[u] = call[u]
    BY <1>a, <1>b, <2>2
  <2>8. pc'[t] = (IF queue = <<>> THEN "room" ELSE "queued") /\ call'[t] = new
    BY <1>a, <1>b, <2>2
  <2>9. ASSUME NEW u \in Threads
        PROVE  (u \in Range(queue') <=> InQueue(u)') /\ (InQueue(u)' => call'[u].kind \in Writing)
    BY <1>a, <2>1, <2>4, <2>7, <2>8 DEF QueueInv, InQueue, Ahead, Writing
  <2>10. OneLogger'
    BY <1>a, <2>4, <2>7, <2>8 DEF QueueInv, OneLogger, Ahead
  <2>11. \A u \in Threads : pc'[u] \in Logging => last' \in Range(queue')
    BY <1>a, <2>2, <2>4, <2>7, <2>8 DEF QueueInv, Logging
  <2>12. manual' # Nobody => pc'[manual'] = "range"
    BY <1>a, <1>b, <2>2 DEF QueueInv, TypeOK
  <2>13. QED
    BY <2>4, <2>6, <2>9, <2>10, <2>11, <2>12 DEF Core, QueueInv
<1>2. ASSUME NEW t \in Threads, BeginGet(t) PROVE Core'
  <2>1. /\ view' = [view EXCEPT ![t] = [open |-> TRUE, snapshot |-> lastSeq, mem |-> Mem, imm |-> imm,
                                        tables |-> tables, acked |-> acked]]
        /\ pc' = [pc EXCEPT ![t] = "reading"] /\ calls < MaxCalls /\ calls' = calls + 1
    BY <1>2 DEF BeginGet, Goto
  <2>2. imm \in Nat /\ Mem \in Nat
    BY <1>c, <1>d
  <2>3. /\ view' \in [Threads -> View] /\ pc' \in [Threads -> Labels]
        /\ calls' \in 0 .. MaxCalls
    BY <1>a, <1>b, <1>d, <2>1, <2>2 DEF View, Labels
  <2>4. Types'
    BY <1>2, <1>a, <2>3, <1>b, DBWriteAssumption DEF BeginGet, Types, TypeOK, memory, background
  <2>5. QueueInv'
    BY <1>2, <1>a
       DEF BeginGet, Mem, Goto, QueueInv, InQueue, OneLogger, Ahead, Logging, Writing, TypeOK,
           Call, memory, background, history
  <2>6. QED
    BY <2>4, <2>5 DEF Core
<1>3. ASSUME NEW t \in Threads, BeginRange(t) PROVE Core'
  <2>1. [NoCall EXCEPT !.kind = "range"] \in Call
    BY DEF NoCall, Call
  <2>2. /\ call' \in [Threads -> Call] /\ pc' \in [Threads -> Labels]
        /\ calls' \in 0 .. MaxCalls
    BY <1>3, <1>a, <1>b, <1>d, <2>1 DEF BeginRange, Goto, Labels
  <2>3. Types'
    BY <1>3, <1>a, <2>2, <1>b, DBWriteAssumption DEF BeginRange, Types, TypeOK, memory, background
  <2>4. QueueInv'
    BY <1>3, <1>a
       DEF BeginRange, NoCall, Goto, QueueInv, InQueue, OneLogger, Ahead, Logging, Writing, TypeOK,
           Call, memory, background, history
  <2>5. QED
    BY <2>3, <2>4 DEF Core
<1>4. ASSUME NEW t \in Threads, WakeWriter(t) PROVE Core'
  <2>1. /\ pc[t] = "queued"
        /\ \/ call[t].done /\ pc' = [pc EXCEPT ![t] = "flushed"]
           \/ call[t].done /\ pc' = [pc EXCEPT ![t] = "idle"]
           \/ ~call[t].done /\ Head(queue) = t /\ pc' = [pc EXCEPT ![t] = "room"]
           \/ pc' = pc
        /\ UNCHANGED <<call, queue, last, manual>>
    BY <1>4 DEF WakeWriter, Goto, background
  <2>2. ~call[t].done => queue # <<>>
    <3>1. ~call[t].done => t \in Range(queue)
      BY <1>a, <2>1 DEF QueueInv, InQueue
    <3>2. Range(queue) = {queue[i] : i \in 1 .. Len(queue)} /\ (queue = <<>> => Len(queue) = 0)
      BY <1>a, RangeEquality, EmptySeq DEF TypeOK
    <3>3. QED
      BY <3>1, <3>2
  <2>3. \A u \in Threads : u # t => pc'[u] = pc[u]
    BY <1>b, <2>1
  <2>4. \/ call[t].done /\ pc'[t] \in {"flushed", "idle"}
        \/ ~call[t].done /\ Head(queue) = t /\ pc'[t] = "room"
        \/ pc'[t] = "queued"
    BY <1>b, <2>1
  <2>5. \A u \in Threads : InQueue(u)' <=> InQueue(u)
    BY <2>1, <2>3, <2>4 DEF InQueue, Ahead
  <2>6. OneLogger'
    BY <1>a, <2>1, <2>2, <2>3, <2>4 DEF QueueInv, OneLogger, Ahead
  <2>7. \A u \in Threads : pc'[u] \in Logging => pc[u] \in Logging
    BY <2>3, <2>4 DEF Logging
  <2>8. manual # Nobody => manual # t
    BY <1>a, <2>1 DEF QueueInv
  <2>9. Types'
    BY <1>4, <1>a
       DEF WakeWriter, Goto, Types, TypeOK, Labels, Call, View, memory, background, history
  <2>10. QueueInv'
    BY <1>a, <2>1, <2>3, <2>5, <2>6, <2>7, <2>8 DEF QueueInv, TypeOK
  <2>11. QED
    BY <2>9, <2>10 DEF Core
<1>5. ASSUME NEW t \in Threads, RoomRefused(t) PROVE Core'
  <2>1. pc[t] \in Ahead /\ LeaveQueue(t, t, FALSE) /\ UNCHANGED manual
    BY <1>5 DEF RoomRefused, AtHead, Ahead, background
  <2>2. t \in Range(queue)
    BY <1>a, <2>1 DEF QueueInv, InQueue
  <2>3. /\ queue' \in Seq(Threads) /\ last' \in Threads \cup {Nobody} /\ mutex' \in Threads \cup {Nobody}
        /\ pc' \in [Threads -> Labels] /\ call' \in [Threads -> Call]
        /\ woken' \subseteq Threads /\ acked' \subseteq Nat
        /\ QueueInv'
    BY <2>1, <2>2, LeaveQueueKeeps
  <2>4. Types'
    BY <1>5, <1>a, <1>b, <2>3 DEF RoomRefused, Types, TypeOK, memory, background
  <2>5. QED
    BY <2>3, <2>4 DEF Core
<1>6. ASSUME NEW t \in Threads, RoomDelay(t) PROVE Core'
  <2>1. call' \in [Threads -> Call] /\ pc' \in [Threads -> Labels]
    BY <1>6, <1>a, <1>b DEF RoomDelay, Goto, Labels, Call
  <2>2. Types'
    BY <1>6, <1>a, <1>b, <2>1 DEF RoomDelay, Types, TypeOK, memory, background, history
  <2>3. QueueInv'
    BY <1>6, <1>a
       DEF RoomDelay, AtHead, Goto, QueueInv, InQueue, OneLogger, Ahead, Logging, Writing, TypeOK,
           Call, memory, background, history
  <2>4. QED
    BY <2>2, <2>3 DEF Core
<1>7. ASSUME NEW t \in Threads, EndDelay(t) PROVE Core'
  <2>1. Types'
    BY <1>7, <1>a
       DEF EndDelay, Goto, Types, TypeOK, Labels, Call, View, memory, background, history
  <2>2. QueueInv'
    BY <1>7, <1>a
       DEF EndDelay, Goto, QueueInv, InQueue, OneLogger, Ahead, Logging, Writing, TypeOK, Call,
           memory, background, history
  <2>3. QED
    BY <2>1, <2>2 DEF Core
<1>8. ASSUME NEW t \in Threads, RoomWait(t) PROVE Core'
  <2>1. Types'
    BY <1>8, <1>a
       DEF RoomWait, Roomless, AtHead, Wait, Goto, Types, TypeOK, Labels, Call, View, memory,
           background, history
  <2>2. QueueInv'
    BY <1>8, <1>a
       DEF RoomWait, Roomless, AtHead, Wait, Goto, QueueInv, InQueue, OneLogger, Ahead, Logging,
           Writing, TypeOK, Call, memory, background, history
  <2>3. QED
    BY <2>1, <2>2 DEF Core
<1>9. ASSUME NEW t \in Threads, RoomSwitch(t) PROVE Core'
  <2>1. /\ call' = [call EXCEPT ![t].force = FALSE] /\ imm' = Len(mems) /\ mems' = Append(mems, {})
        /\ UNCHANGED <<pc, queue, last, manual>>
    BY <1>9 DEF RoomSwitch, Mem
  <2>2. call' \in [Threads -> Call]
    BY <1>a, <2>1 DEF Call
  <2>3. mems' \in Seq(SUBSET Nat) \ {<<>>} /\ imm' \in 0 .. Len(mems') - 1
    BY <1>c, <2>1, AppendProperties
  <2>4. \A u \in Threads : call'[u].kind = call[u].kind /\ call'[u].done = call[u].done
    BY <1>a, <2>1 DEF Call
  <2>5. bg' \in {"off", "queued", "flush", "compact", "flush within"}
    BY <1>9, <1>a DEF RoomSwitch, MaybeScheduleCompaction, TypeOK
  <2>6. /\ mutex' = t /\ queue' \in Seq(Threads) /\ pc' \in [Threads -> Labels]
        /\ tables' \subseteq Nat /\ l0' \in Nat /\ lastSeq' \in Nat
    BY <1>9, <1>b, <1>d DEF RoomSwitch
  <2>7. Types'
    BY <1>9, <1>a, <2>2, <2>3, <2>5, <2>6, <1>b DEF RoomSwitch, Types, TypeOK, history
  <2>8. QueueInv'
    BY <1>a, <2>1, <2>4 DEF QueueInv, InQueue, OneLogger
  <2>9. QED
    BY <2>7, <2>8 DEF Core
<1>10. ASSUME NEW t \in Threads, RoomNoFile(t) PROVE Core'
  <2>1. pc[t] \in Ahead /\ LeaveQueue(t, t, FALSE) /\ UNCHANGED manual
    BY <1>10 DEF RoomNoFile, Roomless, AtHead, Ahead, background
  <2>2. t \in Range(queue)
    BY <1>a, <2>1 DEF QueueInv, InQueue
  <2>3. /\ queue' \in Seq(Threads) /\ last' \in Threads \cup {Nobody} /\ mutex' \in Threads \cup {Nobody}
        /\ pc' \in [Threads -> Labels] /\ call' \in [Threads -> Call]
        /\ woken' \subseteq Threads /\ acked' \subseteq Nat
        /\ QueueInv'
    BY <2>1, <2>2, LeaveQueueKeeps
  <2>4. Types'
    BY <1>10, <1>a, <1>b, <2>3 DEF RoomNoFile, Types, TypeOK, memory, background
  <2>5. QED
    BY <2>3, <2>4 DEF Core
<1>11. ASSUME NEW t \in Threads, RoomForBatch(t) PROVE Core'
  <2>1. PICK upto \in Range(queue) : BatchGroup(t, upto) /\ last' = upto /\ call' = Numbered(upto)
    BY <1>11 DEF RoomForBatch
  <2>2. pc[t] = "room" /\ pc' = [pc EXCEPT ![t] = "logging"] /\ UNCHANGED <<queue, manual>>
    BY <1>11 DEF RoomForBatch, Roomy, AtHead, Goto, background
  <2>3. IsFiniteSet(Group(upto)) /\ upto \in Threads
    BY <2>1, <2>2, GroupOf DEF Ahead
  <2>4. ASSUME NEW u \in Threads
        PROVE  /\ call'[u] \in Call /\ call'[u].kind = call[u].kind /\ call'[u].done = call[u].done
    <3> DEFINE S == {w \in Group(upto) : IsBatch(w) /\ Position(w) <= Position(u)}
    <3>1. Cardinality(S) \in Nat
      BY <2>3, FS_Subset, FS_CardinalityType
    <3> HIDE DEF S
    <3>2. lastSeq + Cardinality(S) \in Nat
      BY <1>d, <3>1
    <3>3. [call[u] EXCEPT !.seq = lastSeq + Cardinality(S)] \in Call
      BY <1>a, <3>2 DEF Call
    <3>4. call'[u] = IF u \in Group(upto) /\ IsBatch(u)
                     THEN [call[u] EXCEPT !.seq = lastSeq + Cardinality(S)] ELSE call[u]
      BY <2>1 DEF Numbered, S
    <3>5. QED
      BY <1>a, <3>3, <3>4 DEF Call
  <2>5. call' \in [Threads -> Call] /\ pc' \in [Threads -> Labels]
    BY <1>b, <2>1, <2>2, <2>4 DEF Numbered, Labels
  <2>6. \A u \in Threads : pc'[u] = IF u = t THEN "logging" ELSE pc[u]
    BY <1>b, <2>2
  <2>7. \A u \in Threads : (InQueue(u)' <=> InQueue(u)) /\ (pc'[u] \in Ahead <=> pc[u] \in Ahead)
    BY <2>2, <2>4, <2>6 DEF InQueue, Ahead
  <2>8. Types'
    BY <1>11, <1>a, <2>1, <2>3, <2>5, <1>b
       DEF RoomForBatch, Types, TypeOK, View, memory, background, history
  <2>9. QueueInv'
    BY <1>a, <2>1, <2>2, <2>4, <2>6, <2>7 DEF QueueInv, OneLogger, TypeOK
  <2>10. QED
    BY <2>8, <2>9 DEF Core
<1>12. ASSUME NEW t \in Threads, RoomForFlush(t) PROVE Core'
  <2>1. pc[t] \in Ahead /\ LeaveQueue(t, t, TRUE) /\ UNCHANGED manual
    BY <1>12 DEF RoomForFlush, Roomy, AtHead, Ahead, background
  <2>2. t \in Range(queue)
    BY <1>a, <2>1 DEF QueueInv, InQueue
  <2>3. /\ queue' \in Seq(Threads) /\ last' \in Threads \cup {Nobody} /\ mutex' \in Threads \cup {Nobody}
        /\ pc' \in [Threads -> Labels] /\ call' \in [Threads -> Call]
        /\ woken' \subseteq Threads /\ acked' \subseteq Nat
        /\ QueueInv'
    BY <2>1, <2>2, LeaveQueueKeeps
  <2>4. Types'
    BY <1>12, <1>a, <1>b, <2>3 DEF RoomForFlush, Types, TypeOK, memory, background
  <2>5. QED
    BY <2>3, <2>4 DEF Core
<1>13. ASSUME NEW t \in Threads, Log(t) PROVE Core'
  <2>1. Entries(t) \subseteq Nat
    BY <1>13, NumbersOf DEF Log, Logging
  <2>2. mems[Mem] \cup Entries(t) \in SUBSET Nat
    BY <1>c, <2>1
  <2>3. mems' \in Seq(SUBSET Nat) /\ Len(mems') = Len(mems)
    BY <1>13, <1>c, <2>2, ExceptSeq DEF Log
  <2>4. mems' # <<>>
    BY <2>3, <1>c, EmptySeq
  <2>5. pc' \in [Threads -> Labels] /\ synced' \subseteq Nat
    BY <1>13, <1>a, <1>b, <2>1 DEF Log, Goto, Labels, TypeOK
  <2>6. Types'
    BY <1>13, <1>a, <1>b, <1>c, <2>3, <2>4, <2>5 DEF Log, Types, TypeOK, View, background
  <2>7. QueueInv'
    BY <1>13, <1>a
       DEF Log, Goto, QueueInv, InQueue, OneLogger, Ahead, Logging, Writing, TypeOK, Call, memory,
           background, history
  <2>8. QED
    BY <2>6, <2>7 DEF Core
<1>14. ASSUME NEW t \in Threads, LogFails(t) PROVE Core'
  <2>1. Entries(t) \subseteq Nat
    BY <1>14, NumbersOf DEF LogFails, Logging
  <2>2. pc' \in [Threads -> Labels] /\ failed' \subseteq Nat
    BY <1>14, <1>a, <1>b, <2>1 DEF LogFails, Goto, Labels, TypeOK
  <2>3. Types'
    BY <1>14, <1>a, <1>b, <2>2 DEF LogFails, Types, TypeOK, memory, background
  <2>4. QueueInv'
    BY <1>14, <1>a
       DEF LogFails, Goto, QueueInv, InQueue, OneLogger, Ahead, Logging, Writing, TypeOK, Call,
           memory, background, history
  <2>5. QED
    BY <2>3, <2>4 DEF Core
<1>15. ASSUME NEW t \in Threads, Publish(t) PROVE Core'
  <2>1. /\ pc[t] \in Ahead /\ pc[t] \in Logging /\ last \in Range(queue)
        /\ LeaveQueue(t, last, pc[t] = "logged") /\ UNCHANGED manual
    BY <1>15, <1>a DEF Publish, Ahead, Logging, QueueInv
  <2>2. lastSeq' \in Nat
    <3>1. lastSeq' = lastSeq + Cardinality(Entries(t))
      BY <1>15 DEF Publish
    <3>2. Cardinality(Entries(t)) \in Nat
      BY <2>1, NumbersOf
    <3>3. QED
      BY <1>d, <3>1, <3>2
  <2>3. (pc[t] = "logged") \in BOOLEAN
    OBVIOUS
  <2>4. /\ queue' \in Seq(Threads) /\ last' \in Threads \cup {Nobody} /\ mutex' \in Threads \cup {Nobody}
        /\ pc' \in [Threads -> Labels] /\ call' \in [Threads -> Call]
        /\ woken' \subseteq Threads /\ acked' \subseteq Nat
        /\ QueueInv'
    BY <2>1, <2>3, LeaveQueueKeeps
  <2>5. bgError' \in BOOLEAN /\ asleep' \subseteq Threads
    BY <1>15, <1>a DEF Publish, RecordBackgroundError, TypeOK
  <2>6. Types'
    BY <1>15, <1>a, <1>b, <2>2, <2>4, <2>5 DEF Publish, Types, TypeOK, memory
  <2>7. QED
    BY <2>4, <2>6 DEF Core
<1>16. ASSUME NEW t \in Threads, EndGet(t) PROVE Core'
  <2>1. Types'
    BY <1>16, <1>a
       DEF EndGet, NoView, MaybeScheduleCompaction, Goto, Types, TypeOK, Labels, Call, View,
           memory, background, history
  <2>2. QueueInv'
    BY <1>16, <1>a
       DEF EndGet, NoView, MaybeScheduleCompaction, Goto, QueueInv, InQueue, OneLogger, Ahead,
           Logging, Writing, TypeOK, Call, memory, background, history
  <2>3. QED
    BY <2>1, <2>2 DEF Core
<1>17. ASSUME NEW t \in Threads, AwaitFlush(t) PROVE Core'
  <2>1. /\ pc[t] = "flushed"
        /\ pc' = pc \/ pc' = [pc EXCEPT ![t] = "idle"]
        /\ UNCHANGED <<call, queue, last, manual>>
    BY <1>17 DEF AwaitFlush, Goto, background
  <2>2. \A u \in Threads : pc'[u] = pc[u] \/ (u = t /\ pc'[t] = "idle")
    BY <1>b, <2>1
  <2>3. \A u \in Threads : (InQueue(u)' <=> InQueue(u)) /\ (pc'[u] \in Ahead <=> pc[u] \in Ahead)
    BY <2>1, <2>2 DEF InQueue, Ahead
  <2>4. \A u \in Threads : pc'[u] \in Logging => pc[u] \in Logging
    BY <2>2 DEF Logging
  <2>5. Types'
    BY <1>17, <1>a
       DEF AwaitFlush, Wait, Goto, Types, TypeOK, Labels, Call, View, memory, background, history
  <2>6. QueueInv'
    BY <1>a, <2>1, <2>2, <2>3, <2>4 DEF QueueInv, OneLogger, TypeOK
  <2>7. QED
    BY <2>5, <2>6 DEF Core
<1>18. ASSUME NEW t \in Threads, RangeWait(t) PROVE Core'
  <2>1. Types'
    BY <1>18, <1>a
       DEF RangeWait, Range1, Wait, MaybeScheduleCompaction, Goto, Types, TypeOK, Labels, Call,
           View, memory, background, history
  <2>2. QueueInv'
    BY <1>18, <1>a
       DEF RangeWait, Range1, Wait, MaybeScheduleCompaction, Goto, QueueInv, InQueue, OneLogger,
           Ahead, Logging, Writing, TypeOK, Call, memory, background, history
  <2>3. QED
    BY <2>1, <2>2 DEF Core
<1>19. ASSUME NEW t \in Threads, RangeEnds(t) PROVE Core'
  <2>1. Types'
    BY <1>19, <1>a
       DEF RangeEnds, Range1, Goto, Types, TypeOK, Labels, Call, View, memory, background, history
  <2>2. QueueInv'
    BY <1>19, <1>a
       DEF RangeEnds, Range1, Goto, QueueInv, InQueue, OneLogger, Ahead, Logging, Writing, TypeOK,
           Call, memory, background, history
  <2>3. QED
    BY <2>1, <2>2 DEF Core
<1>20. ASSUME BackgroundIdle PROVE Core'
  <2>1. Types'
    BY <1>20, <1>a
       DEF BackgroundIdle, EndCall, Rescheduled, Types, TypeOK, Labels, Call, View, memory,
           background, history
  <2>2. QueueInv'
    BY <1>20, <1>a
       DEF BackgroundIdle, EndCall, Rescheduled, QueueInv, InQueue, OneLogger, Ahead, Logging,
           Writing, TypeOK, Call, memory, background, history
  <2>3. QED
    BY <2>1, <2>2 DEF Core
<1>21. ASSUME BackgroundFlush PROVE Core'
  <2>1. Types'
    BY <1>21, <1>a
       DEF BackgroundFlush, Types, TypeOK, Labels, Call, View, memory, background, history
  <2>2. QueueInv'
    BY <1>21, <1>a
       DEF BackgroundFlush, QueueInv, InQueue, OneLogger, Ahead, Logging, Writing, TypeOK, Call,
           memory, background, history
  <2>3. QED
    BY <2>1, <2>2 DEF Core
<1>22. ASSUME BackgroundNothing PROVE Core'
  <2>1. call' \in [Threads -> Call]
    BY <1>22, <1>a DEF BackgroundNothing, Call
  <2>2. Types'
    BY <1>22, <1>a, <1>b, <2>1
       DEF BackgroundNothing, EndCall, Rescheduled, Types, TypeOK, View, memory, background,
           history
  <2>3. QueueInv'
    BY <1>22, <1>a
       DEF BackgroundNothing, EndCall, Rescheduled, QueueInv, InQueue, OneLogger, Ahead, Logging,
           Writing, TypeOK, Call, memory, background, history
  <2>4. QED
    BY <2>2, <2>3 DEF Core
<1>23. ASSUME BackgroundCompact PROVE Core'
  <2>1. Types'
    BY <1>23, <1>a
       DEF BackgroundCompact, Types, TypeOK, Labels, Call, View, memory, background, history
  <2>2. QueueInv'
    BY <1>23, <1>a
       DEF BackgroundCompact, QueueInv, InQueue, OneLogger, Ahead, Logging, Writing, TypeOK, Call,
           memory, background, history
  <2>3. QED
    BY <2>1, <2>2 DEF Core
<1>24. ASSUME FlushOK PROVE Core'
  <2>1. /\ mems' = mems /\ (imm' = 0 \/ imm' = imm) /\ (l0' = l0 \/ l0' = l0 + 1)
        /\ tables' = tables \/ tables' = tables \cup Contents(imm)
    BY <1>24 DEF FlushOK, CompactMemTable
  <2>2. imm' \in 0 .. Len(mems') - 1 /\ l0' \in Nat /\ tables' \subseteq Nat /\ mems' = mems
    <3>1. imm' \in 0 .. Len(mems') - 1
      BY <1>c, <1>d, <2>1
    <3>2. l0' \in Nat
      BY <1>d, <2>1
    <3>3. tables' \subseteq Nat
      BY <1>c, <1>d, <2>1
    <3>4. QED
      BY <2>1, <3>1, <3>2, <3>3
  <2>3. Types'
    BY <1>24, <1>a, <1>b, <2>2
       DEF FlushOK, EndCall, Rescheduled, CompactMemTable, Types, TypeOK, background, history
  <2>4. QueueInv'
    BY <1>24, <1>a
       DEF FlushOK, EndCall, Rescheduled, CompactMemTable, Contents, QueueInv, InQueue, OneLogger,
           Ahead, Logging, Writing, TypeOK, Call, memory, background, history
  <2>5. QED
    BY <2>3, <2>4 DEF Core
<1>25. ASSUME FlushFails PROVE Core'
  <2>1. Types'
    BY <1>25, <1>a
       DEF FlushFails, EndCall, Rescheduled, Types, TypeOK, Labels, Call, View, memory, background,
           history
  <2>2. QueueInv'
    BY <1>25, <1>a
       DEF FlushFails, EndCall, Rescheduled, QueueInv, InQueue, OneLogger, Ahead, Logging, Writing,
           TypeOK, Call, memory, background, history
  <2>3. QED
    BY <2>1, <2>2 DEF Core
<1>26. ASSUME FlushWithin PROVE Core'
  <2>1. Types'
    BY <1>26, <1>a DEF FlushWithin, Types, TypeOK, Labels, Call, View, memory, background, history
  <2>2. QueueInv'
    BY <1>26, <1>a
       DEF FlushWithin, QueueInv, InQueue, OneLogger, Ahead, Logging, Writing, TypeOK, Call,
           memory, background, history
  <2>3. QED
    BY <2>1, <2>2 DEF Core
<1>27. ASSUME FlushWithinEnds PROVE Core'
  <2>1. /\ mems' = mems /\ (imm' = 0 \/ imm' = imm) /\ (l0' = l0 \/ l0' = l0 + 1)
        /\ tables' = tables \/ tables' = tables \cup Contents(imm)
    BY <1>27 DEF FlushWithinEnds, memory, CompactMemTable
  <2>2. imm' \in 0 .. Len(mems') - 1 /\ l0' \in Nat /\ tables' \subseteq Nat /\ mems' = mems
    <3>1. imm' \in 0 .. Len(mems') - 1
      BY <1>c, <1>d, <2>1
    <3>2. l0' \in Nat
      BY <1>d, <2>1
    <3>3. tables' \subseteq Nat
      BY <1>c, <1>d, <2>1
    <3>4. QED
      BY <2>1, <3>1, <3>2, <3>3
  <2>3. Types'
    BY <1>27, <1>a, <1>b, <2>2
       DEF FlushWithinEnds, CompactMemTable, Types, TypeOK, memory, background, history
  <2>4. QueueInv'
    BY <1>27, <1>a
       DEF FlushWithinEnds, CompactMemTable, Contents, QueueInv, InQueue, OneLogger, Ahead,
           Logging, Writing, TypeOK, Call, memory, background, history
  <2>5. QED
    BY <2>3, <2>4 DEF Core
<1>28. ASSUME CompactOK PROVE Core'
  <2>1. l0' \in Nat
    BY <1>28, <1>a DEF CompactOK, TypeOK
  <2>2. Types'
    BY <1>28, <1>a, <1>b, <2>1
       DEF CompactOK, EndCall, Rescheduled, Types, TypeOK, background, history
  <2>3. QueueInv'
    BY <1>28, <1>a
       DEF CompactOK, EndCall, Rescheduled, QueueInv, InQueue, OneLogger, Ahead, Logging, Writing,
           TypeOK, Call, memory, background, history
  <2>4. QED
    BY <2>2, <2>3 DEF Core
<1>29. ASSUME CompactFails PROVE Core'
  <2>1. call' \in [Threads -> Call]
    BY <1>29, <1>a DEF CompactFails, Call
  <2>2. Types'
    BY <1>29, <1>a, <1>b, <2>1
       DEF CompactFails, EndCall, Rescheduled, Types, TypeOK, View, memory, background, history
  <2>3. QueueInv'
    BY <1>29, <1>a
       DEF CompactFails, EndCall, Rescheduled, QueueInv, InQueue, OneLogger, Ahead, Logging,
           Writing, TypeOK, Call, memory, background, history
  <2>4. QED
    BY <2>2, <2>3 DEF Core
<1>30. ASSUME Close PROVE Core'
  <2>1. Types'
    BY <1>30, <1>a DEF Close, Types, TypeOK, Labels, Call, View, memory, background, history
  <2>2. QueueInv'
    BY <1>30, <1>a
       DEF Close, QueueInv, InQueue, OneLogger, Ahead, Logging, Writing, TypeOK, Call, memory,
           background, history
  <2>3. QED
    BY <2>1, <2>2 DEF Core
<1>31. CASE UNCHANGED vars
  BY <1>a, <1>31
     DEF Core, Types, TypeOK, QueueInv, InQueue, OneLogger, vars, memory, background, history
<1>32. QED
  BY <1>1, <1>2, <1>3, <1>4, <1>5, <1>6, <1>7, <1>8, <1>9, <1>10, <1>11, <1>12, <1>13, <1>14,
     <1>15, <1>16, <1>17, <1>18, <1>19, <1>20, <1>21, <1>22, <1>23, <1>24, <1>25, <1>26, <1>27,
     <1>28, <1>29, <1>30, <1>31
     DEF Next, Begin, GoOn, Background
-----------------------------------------------------------------------------
(* The numbers of a group that is being logged follow LastSequence(); what *)
(* was logged of it is in the memtable, and what was not is known to have  *)
(* failed.                                                                 *)
GroupInv == \A t \in Threads : pc[t] \in Logging =>
    /\ Numbers = lastSeq + 1 .. lastSeq + Cardinality(Numbers)
    /\ \A u \in Group(last) : MayJoin(t, u)
    /\ pc[t] = "logged" => /\ Numbers \subseteq mems[Mem]
                           /\ call[t].kind = "sync" => Numbers \subseteq synced
    /\ pc[t] \in {"unlogged", "unsynced"} => Numbers \subseteq failed

(* No number is used twice: those given out are published, or belong to    *)
(* the group that is being logged.                                         *)
NumberInv ==
    /\ \A u \in Threads : ~IsBatch(u) => call[u].seq = 0
    /\ \A u \in Threads : call[u].seq <= lastSeq \/ \E t \in Threads : pc[t] \in Logging /\ u \in Batch
    /\ \A n \in mems[Mem] : n \in 1 .. lastSeq \/ \E t \in Threads : pc[t] = "logged" /\ n \in Numbers
    /\ Contents(imm) \cup tables \subseteq 1 .. lastSeq
    /\ acked \subseteq 1 .. lastSeq

Data == GroupInv /\ NumberInv /\ AckedAreKept /\ PublishedIsReadable /\ SyncIsSynced /\ NewestFirst

(* There is one writer ahead of the others.                                *)
LEMMA OneAhead ==
    ASSUME Core, NEW t \in Threads, pc[t] \in Ahead
    PROVE  \A u \in Threads : pc[u] \in Ahead => u = t
BY DEF Core, QueueInv, OneLogger

(* A step that neither touches what is stored and promised nor the group   *)
(* that is being logged keeps all of it.                                   *)
LEMMA DataQuiet ==
    ASSUME Core, Data, Core',
           UNCHANGED <<mems, imm, tables, lastSeq, acked, synced, failed>>,
           \A u \in Threads : pc[u] \in Logging \/ pc'[u] \in Logging => pc'[u] = pc[u],
           \A t \in Threads : pc[t] \in Logging =>
              /\ Group(last)' = Group(last)
              /\ \A u \in Group(last) : call'[u].kind = call[u].kind /\ call'[u].seq = call[u].seq,
           \A u \in Threads : \/ call'[u].kind = call[u].kind /\ call'[u].seq = call[u].seq
                              \/ call'[u].seq = 0
    PROVE  Data'
<1>1. ASSUME NEW t \in Threads, pc[t] \in Logging
      PROVE  Group(last)' = Group(last) /\ Batch' = Batch /\ Numbers' = Numbers
  <2>1. Group(last)' = Group(last) /\ Group(last) \subseteq Threads
    BY <1>1, GroupOf DEF Core, QueueInv, Logging, Ahead
  <2>2. \A u \in Group(last) : (IsBatch(u)' <=> IsBatch(u))
    BY <1>1 DEF IsBatch
  <2>3. Batch' = Batch
    BY <2>1, <2>2 DEF Batch
  <2>4. Numbers' = Numbers
    BY <1>1, <2>1, <2>3 DEF Numbers, Batch
  <2>5. QED
    BY <2>1, <2>3, <2>4
<1>2. Mem' = Mem /\ Contents(imm)' = Contents(imm) /\ lastSeq \in Nat
  BY DEF Mem, Contents, Core, Types, TypeOK
<1>3. GroupInv'
  <2>1. SUFFICES ASSUME NEW t \in Threads, pc'[t] \in Logging
                 PROVE  /\ Numbers' = lastSeq' + 1 .. lastSeq' + Cardinality(Numbers')
                        /\ \A u \in Group(last)' : MayJoin(t, u)'
                        /\ pc'[t] = "logged" => /\ Numbers' \subseteq mems'[Mem']
                                                /\ call'[t].kind = "sync" => Numbers' \subseteq synced'
                        /\ pc'[t] \in {"unlogged", "unsynced"} => Numbers' \subseteq failed'
    BY DEF GroupInv
  <2>2. pc'[t] = pc[t] /\ pc[t] \in Logging
    BY <2>1
  <2>3. t \in Group(last)
    BY <2>2, GroupOf DEF Core, QueueInv, Logging, Ahead
  <2>4. \A u \in Group(last) : MayJoin(t, u)' <=> MayJoin(t, u)
    BY <2>2, <2>3 DEF MayJoin
  <2>5. call'[t].kind = call[t].kind
    BY <2>2, <2>3
  <2>6. QED
    BY <1>1, <1>2, <2>2, <2>4, <2>5 DEF Data, GroupInv
<1>4. NumberInv'
  <2>1. \A u \in Threads : ~IsBatch(u)' => call'[u].seq = 0
    BY DEF Data, NumberInv, IsBatch
  <2>2. ASSUME NEW u \in Threads
        PROVE  call'[u].seq <= lastSeq' \/ \E t \in Threads : pc'[t] \in Logging /\ u \in Batch'
    <3>1. CASE call'[u].seq = 0
      BY <3>1, <1>2
    <3>2. CASE call'[u].seq = call[u].seq
      BY <3>2, <1>1 DEF Data, NumberInv
    <3>3. QED
      BY <3>1, <3>2
  <2>3. \A n \in mems'[Mem'] : \/ n \in 1 .. lastSeq'
                               \/ \E t \in Threads : pc'[t] = "logged" /\ n \in Numbers'
    BY <1>1, <1>2 DEF Data, NumberInv, Logging
  <2>4. QED
    BY <1>2, <2>1, <2>2, <2>3 DEF Data, NumberInv
<1>5. AckedAreKept' /\ PublishedIsReadable' /\ NewestFirst'
  BY <1>2 DEF Data, AckedAreKept, PublishedIsReadable, NewestFirst
<1>6. SyncIsSynced'
  BY DEF Data, SyncIsSynced, NumberInv
<1>7. QED
  BY <1>3, <1>4, <1>5, <1>6 DEF Data

(* Numbered counts the batches of a group: they get the numbers that       *)
(* follow LastSequence(), each of them once.                               *)
LEMMA NumberedGroup ==
    ASSUME Core, NEW t \in Threads, pc[t] \in Ahead, NEW upto \in Range(queue),
           UNCHANGED queue, last' = upto, call' = Numbered(upto)
    PROVE  /\ Group(last)' = Group(upto)
           /\ \A u \in Threads : call'[u].kind = call[u].kind
           /\ Batch' = {u \in Group(upto) : IsBatch(u)}
           /\ \A u \in Threads : u \notin Batch' => call'[u] = call[u]
           /\ Numbers' = lastSeq + 1 .. lastSeq + Cardinality(Numbers')
           /\ Cardinality(Numbers') \in Nat
<1> DEFINE B == {u \in Group(upto) : IsBatch(u)}
           S(u) == {w \in Group(upto) : IsBatch(w) /\ Position(w) <= Position(u)}
           N == Cardinality(B)
           f == [u \in B |-> Cardinality(S(u))]
<1>1. /\ Group(upto) \subseteq Range(queue) /\ Range(queue) \subseteq Threads
      /\ IsFiniteSet(Group(upto))
  BY GroupOf
<1>2. call \in [Threads -> Call] /\ lastSeq \in Nat /\ queue \in Seq(Threads) /\ Distinct(queue)
  BY DEF Core, Types, TypeOK, QueueInv
<1>3. IsFiniteSet(B) /\ N \in Nat /\ B \subseteq Threads
  BY <1>1, FS_Subset, FS_CardinalityType
<1>4. ASSUME NEW u \in Range(queue) PROVE Position(u) \in Nat /\ queue[Position(u)] = u
  <2>1. PICK i \in 1 .. Len(queue) : u = queue[i]
    BY <1>2, RangeEquality
  <2>2. QED
    BY <1>2, <2>1, PlaceOf, LenProperties DEF Position
<1>5. ASSUME NEW u \in B
      PROVE  /\ S(u) \subseteq B /\ u \in S(u) /\ IsFiniteSet(S(u))
             /\ Cardinality(S(u)) \in 1 .. N
  <2>1. S(u) \subseteq B /\ u \in S(u)
    BY <1>1, <1>4
  <2>2. IsFiniteSet(S(u)) /\ Cardinality(S(u)) <= N
    BY <1>3, <2>1, FS_Subset
  <2>3. Cardinality(S(u)) \in Nat /\ Cardinality(S(u)) # 0
    BY <2>1, <2>2, FS_CardinalityType, FS_EmptySet
  <2>4. QED
    BY <1>3, <2>1, <2>2, <2>3
<1>6. ASSUME NEW u \in B, NEW v \in B, Position(u) < Position(v)
      PROVE  Cardinality(S(u)) # Cardinality(S(v))
  <2>1. S(u) \subseteq S(v) /\ v \in S(v) /\ v \notin S(u)
    <3>1. \A w \in B : Position(w) \in Nat
      BY <1>1, <1>4
    <3>2. QED
      BY <3>1, <1>6
  <2>2. IsFiniteSet(S(v))
    BY <1>5
  <2>3. QED
    BY <2>1, <2>2, FS_Subset
<1>7. f \in Injection(B, 1 .. N)
  <2>1. f \in [B -> 1 .. N]
    BY <1>5
  <2>2. ASSUME NEW u \in B, NEW v \in B, f[u] = f[v] PROVE u = v
    <3>1. /\ Position(u) \in Nat /\ Position(v) \in Nat
          /\ queue[Position(u)] = u /\ queue[Position(v)] = v
      BY <1>1, <1>4
    <3>2. Cardinality(S(u)) = Cardinality(S(v))
      BY <2>2
    <3>3. ~(Position(u) < Position(v)) /\ ~(Position(v) < Position(u))
      BY <1>6, <3>2
    <3>4. QED
      BY <3>1, <3>3
  <2>3. QED
    BY <2>1, <2>2 DEF Injection, IsInjective
<1>8. f \in Surjection(B, 1 .. N)
  <2>1. IsFiniteSet(1 .. N) /\ Cardinality(1 .. N) = N
    BY <1>3, FS_Interval
  <2>2. QED
    BY <1>7, <2>1, FS_Injection
<1>9. \A u \in Threads : call'[u] = IF u \in B THEN [call[u] EXCEPT !.seq = lastSeq + f[u]] ELSE call[u]
  BY DEF Numbered
<1>10. /\ \A u \in Threads : call'[u].kind = call[u].kind
       /\ \A u \in B : call'[u].seq = lastSeq + f[u]
  BY <1>2, <1>3, <1>9 DEF Call
<1>11. Group(last)' = Group(upto)
  BY DEF Group, Position
<1>12. Batch' = B
  BY <1>1, <1>10, <1>11 DEF Batch, IsBatch
<1>13. Numbers' = lastSeq + 1 .. lastSeq + N
  <2>1. Numbers' = {lastSeq + f[u] : u \in B}
    BY <1>10, <1>12 DEF Numbers
  <2>2. \A n \in 1 .. N : \E u \in B : f[u] = n
    BY <1>8 DEF Surjection
  <2>3. \A u \in B : f[u] \in 1 .. N
    BY <1>5
  <2> HIDE DEF f, N
  <2>4. ASSUME NEW m \in lastSeq + 1 .. lastSeq + N PROVE \E u \in B : m = lastSeq + f[u]
    <3>1. m - lastSeq \in 1 .. N
      BY <1>2, <1>3
    <3>2. PICK u \in B : f[u] = m - lastSeq
      BY <2>2, <3>1
    <3>3. QED
      BY <1>2, <3>2
  <2>5. \A u \in B : lastSeq + f[u] \in lastSeq + 1 .. lastSeq + N
    BY <1>2, <1>3, <2>3
  <2>6. QED
    BY <2>1, <2>4, <2>5
<1>14. Cardinality(Numbers') = N
  BY <1>2, <1>3, <1>13, FS_Interval
<1>15. QED
  BY <1>3, <1>9, <1>10, <1>11, <1>12, <1>13, <1>14

(* Most steps leave queue and memory alone and move no logger.             *)
LEMMA DataUntouched ==
    ASSUME Core, Data, Core',
           UNCHANGED <<queue, last, mems, imm, tables, lastSeq, acked, synced, failed>>,
           \A u \in Threads : pc[u] \in Logging \/ pc'[u] \in Logging => pc'[u] = pc[u],
           \A u \in Threads : call'[u].kind = call[u].kind /\ call'[u].seq = call[u].seq
    PROVE  Data'
<1>1. Group(last)' = Group(last)
  BY DEF Group, Position
<1>2. \A t \in Threads : pc[t] \in Logging => Group(last) \subseteq Threads
  BY GroupOf DEF Core, QueueInv, Logging, Ahead
<1>3. QED
  BY <1>1, <1>2, DataQuiet

(* A writer that leaves alone and unlogged leaves the rest as it was.      *)
LEMMA DataLeaving ==
    ASSUME Core, Data, Core', NEW t \in Threads, pc[t] = "room", NEW ok \in BOOLEAN,
           LeaveQueue(t, t, ok), ok => ~IsBatch(t),
           UNCHANGED <<mems, imm, tables, lastSeq, synced, failed>>
    PROVE  Data'
<1>1. t \in Range(queue) /\ Group(t) = {t}
  <2>1. t \in Range(queue)
    BY DEF Core, QueueInv, InQueue, Ahead
  <2>2. QED
    BY <2>1, GroupOf DEF Ahead
<1>2. acked' = acked
  <2>1. CASE ok
    BY <2>1, <1>1 DEF LeaveQueue, Data, NumberInv
  <2>2. CASE ~ok
    BY <2>2 DEF LeaveQueue
  <2>3. QED
    BY <2>1, <2>2
<1>3. pc \in [Threads -> Labels] /\ call \in [Threads -> Call]
  BY DEF Core, Types, TypeOK
<1>4. call' = call
  <2>1. call' = [u \in Threads |-> call[u]]
    BY <1>1 DEF LeaveQueue
  <2>2. QED
    BY <1>3, <2>1
<1>5. \A u \in Threads : pc[u] \notin Logging /\ pc'[u] \notin Logging
  <2>1. \A u \in Threads : pc[u] \notin Logging
    BY OneAhead DEF Ahead, Logging
  <2>2. \A u \in Threads : pc'[u] = IF u = t THEN pc'[t] ELSE pc[u]
    BY <1>3 DEF LeaveQueue, Goto
  <2>3. pc'[t] \in {"flushed", "idle"}
    BY <1>3 DEF LeaveQueue, Goto
  <2>4. QED
    BY <2>1, <2>2, <2>3 DEF Logging
<1>6. QED
  BY <1>2, <1>4, <1>5, DataQuiet

(* The memtable becomes immutable while nobody logs.                       *)
LEMMA DataRoomSwitch ==
    ASSUME Core, Data, Core', NEW t \in Threads, RoomSwitch(t)
    PROVE  Data'
<1>1. /\ pc[t] = "room" /\ imm = 0 /\ imm' = Mem /\ mems' = Append(mems, {})
      /\ UNCHANGED <<pc, queue, last, tables, lastSeq, acked, synced, failed>>
      /\ call' = [call EXCEPT ![t].force = FALSE]
  BY DEF RoomSwitch, Roomless, AtHead, history
<1>2. \A u \in Threads : pc'[u] \notin Logging /\ pc[u] \notin Logging
  BY <1>1, OneAhead DEF Logging, Ahead
<1>3. \A u \in Threads : call'[u].kind = call[u].kind /\ call'[u].seq = call[u].seq
  BY <1>1 DEF Core, Types, Call
<1>4. mems \in Seq(SUBSET Nat) /\ mems # <<>> /\ Len(mems) \in Nat \ {0}
  BY EmptySeq DEF Core, Types, TypeOK
<1>5. mems'[Mem'] = {} /\ Contents(imm)' = mems[Mem] /\ Contents(imm) = {}
  <2>1. mems'[Len(mems) + 1] = {} /\ mems'[Len(mems)] = mems[Len(mems)] /\ Len(mems') = Len(mems) + 1
    BY <1>1, <1>4, AppendProperties
  <2>2. QED
    BY <1>1, <1>4, <2>1 DEF Mem, Contents
<1>6. mems[Mem] \subseteq 1 .. lastSeq
  BY <1>2 DEF Data, NumberInv, Logging
<1>7. GroupInv'
  BY <1>2 DEF GroupInv
<1>8. NumberInv'
  BY <1>1, <1>2, <1>3, <1>5, <1>6 DEF Data, NumberInv, IsBatch
<1>9. AckedAreKept' /\ PublishedIsReadable' /\ NewestFirst'
  BY <1>1, <1>5 DEF Data, AckedAreKept, PublishedIsReadable, NewestFirst
<1>10. SyncIsSynced'
  BY <1>1, <1>3 DEF Data, SyncIsSynced
<1>11. QED
  BY <1>7, <1>8, <1>9, <1>10 DEF Data

(* The group gets numbers nobody has.                                      *)
LEMMA DataRoomForBatch ==
    ASSUME Core, Data, Core', NEW t \in Threads, RoomForBatch(t)
    PROVE  Data'
<1>1. /\ pc[t] = "room" /\ pc' = [pc EXCEPT ![t] = "logging"]
      /\ UNCHANGED <<queue, mems, imm, tables, lastSeq, acked, synced, failed>>
  BY DEF RoomForBatch, Roomy, AtHead, Goto, memory, history
<1>2. PICK upto \in Range(queue) : BatchGroup(t, upto) /\ last' = upto /\ call' = Numbered(upto)
  BY DEF RoomForBatch
<1>3. /\ Group(last)' = Group(upto)
      /\ \A u \in Threads : call'[u].kind = call[u].kind
      /\ Batch' = {u \in Group(upto) : IsBatch(u)}
      /\ \A u \in Threads : u \notin Batch' => call'[u] = call[u]
      /\ Numbers' = lastSeq + 1 .. lastSeq + Cardinality(Numbers')
      /\ Cardinality(Numbers') \in Nat
  BY <1>1, <1>2, NumberedGroup DEF Ahead
<1>4. /\ \A u \in Threads : pc[u] \notin Logging
      /\ \A u \in Threads : pc'[u] = IF u = t THEN "logging" ELSE pc[u]
  BY <1>1, OneAhead DEF Core, Types, TypeOK, Logging, Ahead
<1>5. Group(upto) \subseteq Threads /\ t \in Group(upto)
  BY <1>1, <1>2, GroupOf DEF Ahead
<1>6. GroupInv'
  <2>1. \A u \in Group(upto) : MayJoin(t, u)'
    BY <1>2, <1>3, <1>5 DEF BatchGroup, MayJoin
  <2>2. QED
    BY <1>1, <1>3, <1>4, <2>1 DEF GroupInv, Logging
<1>7. Mem' = Mem /\ Contents(imm)' = Contents(imm)
  BY <1>1 DEF Mem, Contents
<1>8. NumberInv'
  <2>1. ASSUME NEW u \in Threads, ~IsBatch(u)' PROVE call'[u].seq = 0
    <3>1. ~IsBatch(u) /\ call'[u] = call[u]
      BY <1>3, <2>1 DEF IsBatch
    <3>2. QED
      BY <3>1 DEF Data, NumberInv
  <2>2. \A u \in Threads : call'[u].seq <= lastSeq' \/ (pc'[t] \in Logging /\ u \in Batch')
    BY <1>1, <1>3, <1>4 DEF Data, NumberInv, Logging
  <2>3. \A n \in mems'[Mem'] : n \in 1 .. lastSeq'
    BY <1>1, <1>4, <1>7 DEF Data, NumberInv, Logging
  <2>4. QED
    BY <1>1, <1>7, <2>1, <2>2, <2>3 DEF Data, NumberInv
<1>9. AckedAreKept' /\ PublishedIsReadable' /\ NewestFirst'
  BY <1>1, <1>7 DEF Data, AckedAreKept, PublishedIsReadable, NewestFirst
<1>10. SyncIsSynced'
  <2>1. SUFFICES ASSUME NEW u \in Threads, call'[u].kind = "sync", call'[u].seq \in acked
                 PROVE  call'[u].seq \in synced
    BY <1>1 DEF SyncIsSynced
  <2>2. u \notin Batch'
    <3>1. u \in Batch' => call'[u].seq \in Numbers'
      BY DEF Numbers
    <3>2. acked \subseteq 1 .. lastSeq /\ lastSeq \in Nat
      BY DEF Data, NumberInv, Core, Types, TypeOK
    <3>3. \A n \in Numbers' : n > lastSeq
      BY <1>3, <3>2
    <3>4. call'[u].seq \in 1 .. lastSeq
      BY <2>1, <3>2
    <3>5. call'[u].seq \in Numbers' => FALSE
      BY <3>2, <3>3, <3>4
    <3>6. QED
      BY <3>1, <3>5
  <2>3. QED
    BY <1>3, <2>1, <2>2 DEF Data, SyncIsSynced
<1>11. QED
  BY <1>6, <1>8, <1>9, <1>10 DEF Data

(* The group is in log and memtable before its numbers are published.      *)
LEMMA DataLog ==
    ASSUME Core, Data, Core', NEW t \in Threads, Log(t)
    PROVE  Data'
<1>1. /\ pc[t] = "logging" /\ pc' = [pc EXCEPT ![t] = "logged"]
      /\ UNCHANGED <<call, queue, last, imm, tables, lastSeq, acked, failed>>
      /\ mems' = [mems EXCEPT ![Mem] = @ \cup Numbers]
      /\ synced' = IF call[t].kind = "sync" THEN synced \cup Numbers ELSE synced
  <2>1. Entries(t) = Numbers
    BY DEF Entries, Numbers, Batch
  <2>2. QED
    BY <2>1 DEF Log, Goto
<1>2. /\ \A u \in Threads : pc[u] \in Logging => u = t
      /\ \A u \in Threads : pc'[u] = IF u = t THEN "logged" ELSE pc[u]
  BY <1>1, OneAhead DEF Core, Types, TypeOK, Logging, Ahead
<1>3. Group(last)' = Group(last)
  BY <1>1 DEF Group, Position
<1>4. /\ Batch' = Batch /\ Numbers' = Numbers
      /\ \A u, v \in Threads : MayJoin(u, v)' <=> MayJoin(u, v)
  BY <1>1, <1>3 DEF Batch, Numbers, IsBatch, MayJoin
<1>5. /\ Mem' = Mem /\ mems'[Mem'] = mems[Mem] \cup Numbers
      /\ Contents(imm)' = Contents(imm)
  <2>1. mems \in Seq(SUBSET Nat) /\ Len(mems) \in Nat \ {0} /\ imm \in 0 .. Len(mems) - 1
    BY EmptySeq DEF Core, Types, TypeOK
  <2>2. Numbers \subseteq Nat /\ mems[Mem] \subseteq Nat
    BY <1>1, <2>1, NumbersOf, ElementOfSeq DEF Logging, Mem
  <2>3. mems[Mem] \cup Numbers \in SUBSET Nat
    BY <2>2
  <2>4. /\ Len(mems') = Len(mems)
        /\ \A n \in 1 .. Len(mems) : mems'[n] = IF n = Mem THEN mems[Mem] \cup Numbers ELSE mems[n]
    BY <1>1, <2>1, <2>3, ExceptSeq DEF Mem
  <2>5. imm # 0 => imm \in 1 .. Len(mems) /\ imm # Mem
    BY <2>1 DEF Mem
  <2>6. Mem \in 1 .. Len(mems) /\ Mem' = Mem
    BY <2>1, <2>4 DEF Mem
  <2>7. mems'[Mem'] = mems[Mem] \cup Numbers
    BY <2>4, <2>6
  <2>8. imm # 0 => mems'[imm] = mems[imm]
    BY <2>4, <2>5
  <2>9. QED
    BY <1>1, <2>6, <2>7, <2>8 DEF Contents
<1>6. /\ Numbers = lastSeq + 1 .. lastSeq + Cardinality(Numbers) /\ lastSeq \in Nat
      /\ Cardinality(Numbers) \in Nat
      /\ \A u \in Group(last) : MayJoin(t, u)
      /\ Group(last) \subseteq Threads
  <2>1. pc[t] \in Logging
    BY <1>1 DEF Logging
  <2>2. QED
    BY <2>1, NumbersOf, GroupOf DEF Data, GroupInv, Core, Types, TypeOK, QueueInv, Logging, Ahead
<1>7. GroupInv'
  <2>1. SUFFICES ASSUME NEW u \in Threads, pc'[u] \in Logging
                 PROVE  /\ Numbers' = lastSeq' + 1 .. lastSeq' + Cardinality(Numbers')
                        /\ \A v \in Group(last)' : MayJoin(u, v)'
                        /\ pc'[u] = "logged" => /\ Numbers' \subseteq mems'[Mem']
                                                /\ call'[u].kind = "sync" => Numbers' \subseteq synced'
                        /\ pc'[u] \in {"unlogged", "unsynced"} => Numbers' \subseteq failed'
    BY DEF GroupInv
  <2>2. u = t /\ pc'[u] = "logged"
    BY <1>2, <2>1
  <2>3. QED
    BY <1>1, <1>3, <1>4, <1>5, <1>6, <2>2
<1>8. NumberInv'
  <2>1. \A u \in Threads : call[u].seq <= lastSeq \/ u \in Batch
    BY DEF Data, NumberInv
  <2>2. \A n \in mems[Mem] : n \in 1 .. lastSeq
    BY <1>1, <1>2 DEF Data, NumberInv, Logging
  <2>3. /\ \A u \in Threads : ~IsBatch(u)' => call'[u].seq = 0
        /\ Contents(imm)' \cup tables' \subseteq 1 .. lastSeq'
        /\ acked' \subseteq 1 .. lastSeq'
    BY <1>1, <1>5 DEF Data, NumberInv, IsBatch
  <2>4. pc'[t] \in Logging /\ pc'[t] = "logged"
    BY <1>2 DEF Logging
  <2>5. \A n \in mems'[Mem'] : n \in 1 .. lastSeq' \/ (pc'[t] = "logged" /\ n \in Numbers')
    BY <1>1, <1>4, <1>5, <2>2, <2>4
  <2>6. \A u \in Threads : call'[u].seq <= lastSeq' \/ (pc'[t] \in Logging /\ u \in Batch')
    BY <1>1, <1>4, <2>1, <2>4
  <2>7. QED
    BY <2>3, <2>5, <2>6 DEF NumberInv
<1>9. AckedAreKept' /\ PublishedIsReadable'
  BY <1>1, <1>5 DEF Data, AckedAreKept, PublishedIsReadable
<1>10. NewestFirst'
  <2>1. \A s \in Numbers, r \in Contents(imm) \cup tables : s > r
    BY <1>6 DEF Data, NumberInv
  <2>2. QED
    BY <1>1, <1>5, <2>1 DEF Data, NewestFirst
<1>11. SyncIsSynced'
  BY <1>1 DEF Data, SyncIsSynced
<1>12. QED
  BY <1>7, <1>8, <1>9, <1>10, <1>11 DEF Data

(* A group that could not be logged is noted as failed.                    *)
LEMMA DataLogFails ==
    ASSUME Core, Data, Core', NEW t \in Threads, LogFails(t)
    PROVE  Data'
<1>1. /\ pc[t] = "logging"
      /\ pc' = [pc EXCEPT ![t] = "unlogged"] \/ pc' = [pc EXCEPT ![t] = "unsynced"]
      /\ UNCHANGED <<call, queue, last, mems, imm, tables, lastSeq, acked, synced>>
      /\ failed' = failed \cup Numbers
  <2>1. Entries(t) = Numbers
    BY DEF Entries, Numbers, Batch
  <2>2. QED
    BY <2>1 DEF LogFails, Goto, memory
<1>2. /\ \A u \in Threads : pc[u] \in Logging => u = t
      /\ pc'[t] \in {"unlogged", "unsynced"} /\ \A u \in Threads : u # t => pc'[u] = pc[u]
  BY <1>1, OneAhead DEF Core, Types, TypeOK, Logging, Ahead
<1>3. Group(last)' = Group(last)
  BY <1>1 DEF Group, Position
<1>4. /\ Batch' = Batch /\ Numbers' = Numbers
      /\ \A u, v \in Threads : MayJoin(u, v)' <=> MayJoin(u, v)
  BY <1>1, <1>3 DEF Batch, Numbers, IsBatch, MayJoin
<1>5. Mem' = Mem /\ mems'[Mem'] = mems[Mem] /\ Contents(imm)' = Contents(imm)
  BY <1>1 DEF Mem, Contents
<1>6. pc[t] \in Logging /\ pc'[t] \in Logging /\ pc'[t] # "logged"
  BY <1>1, <1>2 DEF Logging
<1>7. Group(last) \subseteq Threads
  BY <1>6, GroupOf DEF Core, QueueInv, Logging, Ahead
<1>8. GroupInv'
  <2>1. SUFFICES ASSUME NEW u \in Threads, pc'[u] \in Logging
                 PROVE  /\ Numbers' = lastSeq' + 1 .. lastSeq' + Cardinality(Numbers')
                        /\ \A v \in Group(last)' : MayJoin(u, v)'
                        /\ pc'[u] = "logged" => /\ Numbers' \subseteq mems'[Mem']
                                                /\ call'[u].kind = "sync" => Numbers' \subseteq synced'
                        /\ pc'[u] \in {"unlogged", "unsynced"} => Numbers' \subseteq failed'
    BY DEF GroupInv
  <2>2. u = t
    BY <1>2, <2>1
  <2>3. QED
    BY <1>1, <1>3, <1>4, <1>6, <1>7, <2>2 DEF Data, GroupInv
<1>9. NumberInv'
  <2>1. \A u \in Threads : call[u].seq <= lastSeq \/ u \in Batch
    BY DEF Data, NumberInv
  <2>2. \A n \in mems[Mem] : n \in 1 .. lastSeq
    BY <1>1, <1>2 DEF Data, NumberInv, Logging
  <2>3. \A u \in Threads : call'[u].seq <= lastSeq' \/ (pc'[t] \in Logging /\ u \in Batch')
    BY <1>1, <1>4, <1>6, <2>1
  <2>4. QED
    BY <1>1, <1>5, <2>2, <2>3 DEF Data, NumberInv, IsBatch
<1>10. AckedAreKept' /\ PublishedIsReadable' /\ NewestFirst' /\ SyncIsSynced'
  BY <1>1, <1>5 DEF Data, AckedAreKept, PublishedIsReadable, NewestFirst, SyncIsSynced
<1>11. QED
  BY <1>8, <1>9, <1>10 DEF Data

(* Publishing: the numbers of the group become readable and, if they were  *)
(* logged, promised.                                                       *)
LEMMA DataPublish ==
    ASSUME Core, Data, Core', NEW t \in Threads, Publish(t)
    PROVE  Data'
<1>1. /\ pc[t] \in {"logged", "unlogged", "unsynced"}
      /\ LeaveQueue(t, last, pc[t] = "logged")
      /\ lastSeq' = lastSeq + Cardinality(Entries(t))
      /\ UNCHANGED <<mems, imm, tables, synced, failed>>
  BY DEF Publish, memory
<1>2. /\ pc[t] \in Logging /\ pc[t] \in Ahead /\ last \in Range(queue)
  BY <1>1 DEF Logging, Ahead, Core, QueueInv
<1>3. /\ Numbers = lastSeq + 1 .. lastSeq + Cardinality(Numbers) /\ lastSeq \in Nat
      /\ Cardinality(Numbers) \in Nat
      /\ lastSeq' = lastSeq + Cardinality(Numbers)
      /\ \A u \in Group(last) : MayJoin(t, u)
      /\ pc[t] = "logged" => /\ Numbers \subseteq mems[Mem]
                             /\ call[t].kind = "sync" => Numbers \subseteq synced
      /\ pc[t] \in {"unlogged", "unsynced"} => Numbers \subseteq failed
      /\ Group(last) \subseteq Threads /\ t \in Group(last)
  BY <1>1, <1>2, NumbersOf, GroupOf DEF Data, GroupInv, Core, Types, TypeOK
<1>4. \A u \in Threads : pc[u] \in Logging => u = t
  BY <1>2, OneAhead DEF Logging, Ahead
<1>5. \A u \in Threads : pc'[u] \notin Logging
  <2>1. pc' = [pc EXCEPT ![t] = "flushed"] \/ pc' = [pc EXCEPT ![t] = "idle"]
    BY <1>1 DEF LeaveQueue, Goto
  <2>2. QED
    BY <2>1, <1>4 DEF Core, Types, TypeOK, Logging
<1>6. \A u \in Threads : call'[u].kind = call[u].kind /\ call'[u].seq = call[u].seq
  BY <1>1 DEF LeaveQueue, Core, Types, Call
<1>7. Mem' = Mem /\ mems'[Mem'] = mems[Mem] /\ Contents(imm)' = Contents(imm)
  BY <1>1 DEF Mem, Contents
<1>8. acked' \subseteq acked \cup Numbers /\ (pc[t] # "logged" => acked' = acked)
  <2>1. \A u \in Group(last) : call[u].seq = 0 \/ call[u].seq \in Numbers
    BY <1>3 DEF Data, NumberInv, Numbers, Batch
  <2>2. acked' = acked \cup IF pc[t] = "logged" THEN {call[u].seq : u \in Group(last)} \ {0} ELSE {}
    BY <1>1 DEF LeaveQueue
  <2>3. QED
    BY <2>1, <2>2
<1>9. Numbers \subseteq 1 .. lastSeq' /\ 1 .. lastSeq \subseteq 1 .. lastSeq' /\ lastSeq <= lastSeq'
  BY <1>3
<1>10. GroupInv'
  BY <1>5 DEF GroupInv
<1>11. NumberInv'
  <2>1. ASSUME NEW u \in Threads PROVE call'[u].seq <= lastSeq'
    <3>1. call[u].seq <= lastSeq \/ u \in Batch
      BY DEF Data, NumberInv
    <3>2. u \in Batch => call[u].seq \in 1 .. lastSeq'
      BY <1>9 DEF Numbers
    <3>3. call[u].seq \in Nat /\ lastSeq' \in Nat
      BY <1>3 DEF Core, Types, TypeOK
    <3>4. QED
      BY <1>3, <1>6, <1>9, <3>1, <3>2, <3>3
  <2>2. \A n \in mems[Mem] : n \in 1 .. lastSeq \/ n \in Numbers
    BY DEF Data, NumberInv
  <2>3. /\ \A n \in mems'[Mem'] : n \in 1 .. lastSeq'
        /\ acked' \subseteq 1 .. lastSeq'
        /\ Contents(imm)' \cup tables' \subseteq 1 .. lastSeq'
    BY <1>1, <1>7, <1>8, <1>9, <2>2 DEF Data, NumberInv
  <2>4. \A u \in Threads : ~IsBatch(u)' => call'[u].seq = 0
    BY <1>6 DEF Data, NumberInv, IsBatch
  <2>5. QED
    BY <2>1, <2>3, <2>4 DEF NumberInv
<1>12. AckedAreKept'
  BY <1>1, <1>3, <1>7, <1>8 DEF Data, AckedAreKept
<1>13. PublishedIsReadable'
  <2>1. \A n \in 1 .. lastSeq' : n \in 1 .. lastSeq \/ n \in Numbers
    BY <1>3
  <2>2. QED
    BY <1>1, <1>3, <1>7, <2>1 DEF Data, PublishedIsReadable
<1>14. NewestFirst'
  BY <1>1, <1>7 DEF Data, NewestFirst
<1>15. SyncIsSynced'
  <2>1. SUFFICES ASSUME NEW u \in Threads, call[u].kind = "sync", call[u].seq \in acked'
                 PROVE  call[u].seq \in synced
    BY <1>1, <1>6 DEF SyncIsSynced
  <2>2. CASE call[u].seq \in acked
    BY <2>1, <2>2 DEF Data, SyncIsSynced
  <2>3. CASE call[u].seq \notin acked
    <3>1. pc[t] = "logged" /\ call[u].seq \in Numbers
      BY <1>8, <2>1, <2>3
    <3>2. ~(call[u].seq <= lastSeq)
      BY <1>3, <3>1
    <3>3. u \in Batch
      BY <3>2 DEF Data, NumberInv
    <3>4. call[t].kind = "sync"
      BY <1>3, <2>1, <3>3 DEF Batch, MayJoin
    <3>5. QED
      BY <1>3, <3>1, <3>4
  <2>4. QED
    BY <2>2, <2>3
<1>16. QED
  BY <1>10, <1>11, <1>12, <1>13, <1>14, <1>15 DEF Data

(* What moves from the immutable memtable to a table is found there.       *)
LEMMA DataCompactMemTable ==
    ASSUME Core, Data, Core', CompactMemTable,
           UNCHANGED <<pc, call, queue, last, lastSeq, acked, synced, failed>>
    PROVE  Data'
<1>1. mems' = mems /\ imm' = 0 /\ tables' = tables \cup Contents(imm)
  BY DEF CompactMemTable
<1>2. Mem' = Mem /\ Contents(imm)' = {}
  BY <1>1 DEF Mem, Contents
<1>3. Group(last)' = Group(last)
  BY DEF Group, Position
<1>4. /\ Batch' = Batch /\ Numbers' = Numbers
      /\ \A u, v : MayJoin(u, v)' <=> MayJoin(u, v)
  BY <1>3 DEF Batch, Numbers, IsBatch, MayJoin
<1>5. GroupInv'
  BY <1>1, <1>2, <1>3, <1>4 DEF Data, GroupInv
<1>6. NumberInv'
  BY <1>1, <1>2, <1>4 DEF Data, NumberInv, IsBatch
<1>7. AckedAreKept' /\ PublishedIsReadable' /\ NewestFirst' /\ SyncIsSynced'
  BY <1>1, <1>2 DEF Data, AckedAreKept, PublishedIsReadable, NewestFirst, SyncIsSynced
<1>8. QED
  BY <1>5, <1>6, <1>7 DEF Data

(* No step loses a write, or promises one that is not there.               *)
LEMMA DataStep ==
    ASSUME Core, Data, Core', [Next]_vars
    PROVE  Data'
<1>a. /\ pc \in [Threads -> Labels] /\ call \in [Threads -> Call] /\ QueueInv
  BY DEF Core, Types, TypeOK
<1>1. ASSUME NEW t \in Threads, NEW kind \in {"put", "sync", "flush"}, BeginWrite(t, kind)
      PROVE  Data'
  <2>1. /\ pc[t] = "idle" /\ queue' = Append(queue, t)
        /\ call' = [call EXCEPT ![t] = [NoCall EXCEPT !.kind = kind, !.delay = kind # "flush",
                                                      !.force = kind = "flush", !.old = acked]]
        /\ pc' = [pc EXCEPT ![t] = "room"] \/ pc' = [pc EXCEPT ![t] = "queued"]
        /\ UNCHANGED <<last, mems, imm, tables, lastSeq, acked, synced, failed>>
    BY <1>1 DEF BeginWrite, Goto, memory
  <2>2. t \notin Range(queue)
    BY <1>a, <2>1 DEF QueueInv, InQueue, Ahead
  <2>3. /\ \A u \in Threads : u # t => pc'[u] = pc[u] /\ call'[u] = call[u]
        /\ pc'[t] \notin Logging /\ pc[t] \notin Logging /\ call'[t].seq = 0
    BY <1>a, <2>1 DEF NoCall, Logging
  <2>4. ASSUME NEW u \in Threads, pc[u] \in Logging
        PROVE  Group(last)' = Group(last) /\ t \notin Group(last) /\ Group(last) \subseteq Threads
    <3>1. /\ last \in Range(queue) /\ queue \in Seq(Threads) /\ Distinct(queue)
          /\ Range(queue) = {queue[j] : j \in 1 .. Len(queue)}
      BY <1>a, <2>4, RangeEquality DEF QueueInv, Core, Types, TypeOK
    <3>2. PICK i \in 1 .. Len(queue) : last = queue[i]
      BY <3>1
    <3>3. Position(last) = i /\ Position(last)' = i /\ \A j \in 1 .. Len(queue) : queue'[j] = queue[j]
      BY <2>1, <2>2, <3>1, <3>2, PlaceOf, Appended DEF Position
    <3>4. Group(last)' = Group(last)
      BY <3>1, <3>3, LenProperties DEF Group
    <3>5. Group(last) \subseteq Range(queue) /\ Range(queue) \subseteq Threads
      BY <2>4, <3>1, GroupOf DEF Logging, Ahead
    <3>6. QED
      BY <2>2, <3>4, <3>5
  <2>5. QED
    BY <2>1, <2>3, <2>4, DataQuiet
<1>2. ASSUME NEW t \in Threads, BeginRange(t) PROVE Data'
  <2>1. /\ pc[t] = "idle" /\ pc' = [pc EXCEPT ![t] = "range"]
        /\ call' = [call EXCEPT ![t] = [NoCall EXCEPT !.kind = "range"]]
        /\ UNCHANGED <<queue, last, mems, imm, tables, lastSeq, acked, synced, failed>>
    BY <1>2 DEF BeginRange, Goto, memory
  <2>2. t \notin Range(queue)
    BY <1>a, <2>1 DEF QueueInv, InQueue, Ahead
  <2>3. /\ \A u \in Threads : u # t => pc'[u] = pc[u] /\ call'[u] = call[u]
        /\ pc'[t] \notin Logging /\ pc[t] \notin Logging /\ call'[t].seq = 0
    BY <1>a, <2>1 DEF NoCall, Logging
  <2>4. Group(last)' = Group(last)
    BY <2>1 DEF Group, Position
  <2>5. \A u \in Threads : pc[u] \in Logging => t \notin Group(last) /\ Group(last) \subseteq Threads
    BY <1>a, <2>2, GroupOf DEF QueueInv, Logging, Ahead
  <2>6. QED
    BY <2>1, <2>3, <2>4, <2>5, DataQuiet
<1>3. ASSUME NEW t \in Threads,
             \/ BeginGet(t) \/ WakeWriter(t) \/ RoomDelay(t) \/ EndDelay(t) \/ RoomWait(t)
             \/ EndGet(t) \/ AwaitFlush(t) \/ RangeWait(t) \/ RangeEnds(t)
      PROVE  Data'
  <2>1. UNCHANGED <<queue, last, mems, imm, tables, lastSeq, acked, synced, failed>>
    BY <1>3 DEF BeginGet, WakeWriter, RoomDelay, EndDelay, RoomWait, EndGet, AwaitFlush, RangeWait,
                RangeEnds, memory, history
  <2>2. pc[t] \notin Logging
    BY <1>3 DEF BeginGet, WakeWriter, RoomDelay, EndDelay, RoomWait, EndGet, AwaitFlush, RangeWait,
                RangeEnds, AtHead, Roomless, Range1, Logging
  <2>3. \/ pc' = pc
        \/ \E l \in {"idle", "room", "delayed", "reading", "flushed"} : pc' = [pc EXCEPT ![t] = l]
    BY <1>3 DEF BeginGet, WakeWriter, RoomDelay, EndDelay, RoomWait, EndGet, AwaitFlush, RangeWait,
                RangeEnds, Goto
  <2>4. call' = call \/ call' = [call EXCEPT ![t].delay = FALSE]
    BY <1>3 DEF BeginGet, WakeWriter, RoomDelay, EndDelay, RoomWait, EndGet, AwaitFlush, RangeWait,
                RangeEnds, Goto
  <2>5. \A u \in Threads : pc[u] \in Logging \/ pc'[u] \in Logging => pc'[u] = pc[u]
    BY <1>a, <2>2, <2>3 DEF Logging
  <2>6. \A u \in Threads : call'[u].kind = call[u].kind /\ call'[u].seq = call[u].seq
    BY <1>a, <2>4 DEF Call
  <2>7. QED
    BY <2>1, <2>5, <2>6, DataUntouched
<1>4. ASSUME NEW t \in Threads, RoomRefused(t) \/ RoomNoFile(t) PROVE Data'
  <2>1. /\ pc[t] = "room" /\ LeaveQueue(t, t, FALSE)
        /\ UNCHANGED <<mems, imm, tables, lastSeq, synced, failed>>
    BY <1>4 DEF RoomRefused, RoomNoFile, Roomless, AtHead, memory
  <2>2. QED
    BY <2>1, DataLeaving
<1>5. ASSUME NEW t \in Threads, RoomForFlush(t) PROVE Data'
  <2>1. /\ pc[t] = "room" /\ LeaveQueue(t, t, TRUE) /\ ~IsBatch(t)
        /\ UNCHANGED <<mems, imm, tables, lastSeq, synced, failed>>
    BY <1>5 DEF RoomForFlush, Roomy, AtHead, memory
  <2>2. QED
    BY <2>1, DataLeaving
<1>6. ASSUME NEW t \in Threads,
             RoomSwitch(t) \/ RoomForBatch(t) \/ Log(t) \/ LogFails(t) \/ Publish(t)
      PROVE  Data'
  BY <1>6, DataRoomSwitch, DataRoomForBatch, DataLog, DataLogFails, DataPublish
<1>7. ASSUME \/ BackgroundIdle \/ BackgroundFlush \/ BackgroundNothing \/ BackgroundCompact
             \/ FlushFails \/ FlushWithin \/ CompactOK \/ CompactFails \/ Close \/ UNCHANGED vars
      PROVE  Data'
  <2>1. UNCHANGED <<pc, queue, last, mems, imm, tables, lastSeq, acked, synced, failed>>
    BY <1>7 DEF BackgroundIdle, BackgroundFlush, BackgroundNothing, BackgroundCompact, FlushFails,
                FlushWithin, CompactOK, CompactFails, Close, vars, memory, history
  <2>2. call' = call \/ call' = [call EXCEPT ![manual].done = TRUE]
    BY <1>7 DEF BackgroundIdle, BackgroundFlush, BackgroundNothing, BackgroundCompact, FlushFails,
                FlushWithin, CompactOK, CompactFails, Close, vars
  <2>3. \A u \in Threads : call'[u].kind = call[u].kind /\ call'[u].seq = call[u].seq
    BY <1>a, <2>2 DEF Call
  <2>4. QED
    BY <2>1, <2>3, DataUntouched
<1>8. ASSUME FlushOK PROVE Data'
  BY <1>8, DataCompactMemTable DEF FlushOK, history
<1>9. ASSUME FlushWithinEnds PROVE Data'
  <2>1. UNCHANGED <<pc, call, queue, last, lastSeq, acked, synced, failed>>
    BY <1>9 DEF FlushWithinEnds, history
  <2>2. CASE CompactMemTable
    BY <2>1, <2>2, DataCompactMemTable
  <2>3. CASE UNCHANGED memory
    BY <2>1, <2>3, DataUntouched DEF memory
  <2>4. QED
    BY <1>9, <2>2, <2>3 DEF FlushWithinEnds
<1>10. QED
  BY <1>1, <1>2, <1>3, <1>4, <1>5, <1>6, <1>7, <1>8, <1>9 DEF Next, Begin, GoOn, Background
-----------------------------------------------------------------------------
(* Nothing is written when the database is opened.                         *)
LEMMA CoreInit == Init => Core /\ Data
<1> SUFFICES ASSUME Init PROVE Core /\ Data
  OBVIOUS
<1> USE DEF Init
<1>1. mems = <<{}>> /\ Len(mems) = 1 /\ Mem = 1 /\ mems[Mem] = {} /\ Contents(imm) = {}
  BY DEF Mem, Contents
<1>2. mems \in Seq(SUBSET Nat) \ {<<>>}
  OBVIOUS
<1>3. NoCall \in Call /\ NoView \in View /\ "idle" \in Labels
  BY DEF NoCall, Call, NoView, View, Labels
<1>4. Types
  <2>1. call \in [Threads -> Call] /\ view \in [Threads -> View] /\ pc \in [Threads -> Labels]
    BY <1>3
  <2>2. \A t \in Threads : call[t].seq \in Nat
    BY <2>1 DEF Call
  <2>3. imm \in 0 .. Len(mems) - 1 /\ calls \in 0 .. MaxCalls
    BY <1>1, DBWriteAssumption
  <2>4. queue \in Seq(Threads)
    OBVIOUS
  <2>5. TypeOK
    BY <1>2, <2>1, <2>2, <2>3, <2>4 DEF TypeOK
  <2>6. QED
    BY <2>1, <2>5 DEF Types
<1>5. QueueInv
  <2>1. Range(queue) = {} /\ Distinct(queue)
    BY DEF Distinct, Range
  <2>2. QED
    BY <2>1 DEF QueueInv, InQueue, OneLogger, Ahead, Logging
<1>6. Data
  BY <1>1
     DEF Data, GroupInv, NumberInv, AckedAreKept, PublishedIsReadable, SyncIsSynced, NewestFirst,
              Logging, NoCall
<1>7. QED
  BY <1>4, <1>5, <1>6 DEF Core

THEOREM CoreHolds == Spec => [](Core /\ Data)
<1>1. Core /\ Data /\ [Next]_vars => (Core /\ Data)'
  BY CoreStep, DataStep
<1>2. QED
  BY <1>1, CoreInit, PTL DEF Spec

(* One writer at a time logs, and what a writer was told OK for is kept,   *)
(* synced if it asked for that, and published only when it can be found:   *)
(* whatever the other threads, the switches of the memtable and the        *)
(* background thread do.                                                   *)
THEOREM WritesAreKeptHolds == Spec => []WritesAreKept
<1>1. Core /\ Data => WritesAreKept
  BY DEF Core, Types, QueueInv, Data, WritesAreKept
<1>2. QED
  BY <1>1, CoreHolds, PTL
-----------------------------------------------------------------------------
(* A reader holds on to memtables that exist and only grow.                *)
ReadInv == /\ \A t \in Threads : view[t].open => /\ view[t].mem \in 1 .. Len(mems)
                                                 /\ view[t].imm \in 0 .. Len(mems)
           /\ ReadersSeeWrites

LEMMA MemsGrow ==
    ASSUME Core, [Next]_vars
    PROVE  /\ Len(mems') \in Nat /\ Len(mems) <= Len(mems')
           /\ \A n \in 1 .. Len(mems) : mems[n] \subseteq mems'[n]
<1>a. mems \in Seq(SUBSET Nat) /\ Len(mems) \in Nat \ {0}
  BY EmptySeq DEF Core, Types, TypeOK
<1>1. ASSUME NEW t \in Threads, Log(t)
      PROVE  Len(mems') = Len(mems) /\ \A n \in 1 .. Len(mems) : mems[n] \subseteq mems'[n]
  <2>1. mems' = [mems EXCEPT ![Mem] = @ \cup Entries(t)] /\ Mem \in 1 .. Len(mems)
    BY <1>a, <1>1 DEF Log, Mem
  <2>2. Entries(t) \subseteq Nat
    BY <1>1, NumbersOf DEF Log, Logging
  <2>3. mems[Mem] \cup Entries(t) \in SUBSET Nat
    BY <1>a, <2>1, <2>2, ElementOfSeq
  <2>4. /\ Len(mems') = Len(mems)
        /\ \A n \in 1 .. Len(mems) : mems'[n] = IF n = Mem THEN mems[Mem] \cup Entries(t) ELSE mems[n]
    BY <1>a, <2>1, <2>3, ExceptSeq
  <2>5. QED
    BY <2>4
<1>2. ASSUME NEW t \in Threads, RoomSwitch(t)
      PROVE  Len(mems') = Len(mems) + 1 /\ \A n \in 1 .. Len(mems) : mems'[n] = mems[n]
  <2>1. mems' = Append(mems, {})
    BY <1>2 DEF RoomSwitch
  <2>2. QED
    BY <1>a, <2>1, AppendProperties
<1>3. CASE mems' = mems
  BY <1>a, <1>3
<1>4. \/ mems' = mems
      \/ \E t \in Threads : Log(t) \/ RoomSwitch(t)
  BY DEF Next, Begin, GoOn, Background, BeginWrite, BeginGet, BeginRange, WakeWriter, RoomRefused,
         RoomDelay, EndDelay, RoomWait, RoomNoFile, RoomForBatch, RoomForFlush, LogFails, Publish,
         EndGet, AwaitFlush, RangeWait, RangeEnds, BackgroundIdle, BackgroundFlush, BackgroundNothing,
         BackgroundCompact, FlushOK, FlushFails, FlushWithin, FlushWithinEnds, CompactMemTable,
         CompactOK, CompactFails, Close, vars, memory
<1>5. QED
  BY <1>a, <1>1, <1>2, <1>3, <1>4

LEMMA ReadStep ==
    ASSUME Core, Data, ReadInv, [Next]_vars
    PROVE  ReadInv'
<1>a. /\ view \in [Threads -> View] /\ Mem \in 1 .. Len(mems) /\ imm \in 0 .. Len(mems)
      /\ Len(mems) \in Nat
  <2>1. /\ view \in [Threads -> View] /\ mems \in Seq(SUBSET Nat) /\ mems # <<>>
        /\ imm \in 0 .. Len(mems) - 1
    BY DEF Core, Types, TypeOK
  <2>2. Len(mems) \in Nat \ {0}
    BY <2>1, EmptySeq
  <2>3. QED
    BY <2>1, <2>2 DEF Mem
<1>b. /\ Len(mems') \in Nat /\ Len(mems) <= Len(mems')
      /\ \A n \in 1 .. Len(mems) : mems[n] \subseteq mems'[n]
  BY MemsGrow
<1>1. ASSUME NEW t \in Threads, view[t].open, view'[t] = view[t]
      PROVE  /\ view'[t].mem \in 1 .. Len(mems') /\ view'[t].imm \in 0 .. Len(mems')
             /\ view'[t].acked \subseteq Visible(view[t])'
  <2>1. /\ view[t].mem \in 1 .. Len(mems) /\ view[t].imm \in 0 .. Len(mems)
        /\ view[t].acked \subseteq Visible(view[t])
    BY <1>1 DEF ReadInv, ReadersSeeWrites
  <2>2. Contents(view[t].imm) \subseteq Contents(view[t].imm)'
    BY <1>1, <1>b, <2>1 DEF Contents
  <2>3. mems[view[t].mem] \subseteq mems'[view[t].mem]
    BY <1>b, <2>1
  <2>4. Visible(view[t]) \subseteq Visible(view[t])'
    BY <1>1, <2>2, <2>3 DEF Visible, Contents
  <2>5. QED
    BY <1>b, <1>1, <2>1, <2>4
<1>2. ASSUME NEW t \in Threads, BeginGet(t) PROVE ReadInv'
  <2>1. /\ view' = [view EXCEPT ![t] = [open |-> TRUE, snapshot |-> lastSeq, mem |-> Mem, imm |-> imm,
                                        tables |-> tables, acked |-> acked]]
        /\ mems' = mems
    BY <1>2 DEF BeginGet, memory
  <2>2. acked \subseteq {s \in mems[Mem] \cup Contents(imm) \cup tables : s <= lastSeq}
    BY DEF Data, AckedAreKept, NumberInv
  <2>3. QED
    BY <1>a, <2>1, <2>2 DEF ReadInv, ReadersSeeWrites, Visible, Contents
<1>3. ASSUME NEW t \in Threads, EndGet(t) PROVE ReadInv'
  <2>1. view' = [view EXCEPT ![t] = NoView] /\ mems' = mems
    BY <1>3 DEF EndGet
  <2>2. ~NoView.open
    BY DEF NoView
  <2>3. QED
    BY <1>a, <2>1, <2>2 DEF ReadInv, ReadersSeeWrites, Visible, Contents
<1>4. CASE view' = view
  BY <1>1, <1>4 DEF ReadInv, ReadersSeeWrites
<1>5. \/ view' = view
      \/ \E t \in Threads : BeginGet(t) \/ EndGet(t)
  BY DEF Next, Begin, GoOn, Background, BeginWrite, BeginRange, WakeWriter, RoomRefused,
         RoomDelay, EndDelay, RoomWait, RoomSwitch, RoomNoFile, RoomForBatch, RoomForFlush, Log, LogFails,
         Publish, AwaitFlush, RangeWait, RangeEnds, BackgroundIdle, BackgroundFlush, BackgroundNothing,
         BackgroundCompact, FlushOK, FlushFails, FlushWithin, FlushWithinEnds,
         CompactOK, CompactFails, Close, vars, history
<1>6. QED
  BY <1>2, <1>3, <1>4, <1>5

(* Every read finds what was acknowledged before it began, in the memtable *)
(* and tables it holds on to, and the newest version first: whatever is    *)
(* switched, written to tables and dropped while it reads.                 *)
THEOREM ReadsAreCompleteHolds == Spec => []ReadsAreComplete
<1>1. Init => ReadInv
  BY DEF Init, ReadInv, ReadersSeeWrites, NoView
<1>2. Core /\ Data /\ ReadInv /\ [Next]_vars => ReadInv'
  BY ReadStep
<1>3. Data /\ ReadInv => ReadsAreComplete
  BY DEF Data, ReadInv, ReadsAreComplete
<1>4. QED
  BY <1>1, <1>2, <1>3, CoreHolds, PTL DEF Spec
-----------------------------------------------------------------------------
(* Whenever there is work and it may be done, the background thread is     *)
(* there to do it; only whoever looks again when it is done sleeps, and    *)
(* nobody is left in a database that is being closed.                      *)
ScheduleInv ==
    /\ (imm # 0 \/ manual # Nobody \/ l0 >= Trigger \/ seek) /\ ~shut /\ ~bgError => bg # "off"
    /\ NobodyForgotten
    /\ \A t \in asleep : pc[t] \in {"room", "flushed", "range"}
    /\ shut => \A t \in Threads : pc[t] = "idle"

LEMMA ScheduleStep ==
    ASSUME Core, ScheduleInv, [Next]_vars
    PROVE  ScheduleInv'
<1>a. /\ pc \in [Threads -> Labels] /\ asleep \subseteq Threads /\ manual \in Threads \cup {Nobody}
      /\ bgError \in BOOLEAN /\ shut \in BOOLEAN /\ seek \in BOOLEAN /\ l0 \in Nat
      /\ bg \in {"off", "queued", "flush", "compact", "flush within"}
  BY DEF Core, Types, TypeOK
<1>b. Nobody \notin Threads /\ Trigger \in Nat /\ Stop \in Nat /\ Trigger <= Stop
  BY DBWriteAssumption
<1>1. ASSUME NEW t \in Threads, NEW kind \in {"put", "sync", "flush"}, BeginWrite(t, kind) PROVE ScheduleInv'
  BY <1>a, <1>b, <1>1
     DEF BeginWrite, Goto, ScheduleInv, NobodyForgotten, memory, background, history
<1>2. ASSUME NEW t \in Threads, BeginGet(t) PROVE ScheduleInv'
  BY <1>a, <1>b, <1>2 DEF BeginGet, Goto, ScheduleInv, NobodyForgotten, memory, background, history
<1>3. ASSUME NEW t \in Threads, BeginRange(t) PROVE ScheduleInv'
  BY <1>a, <1>b, <1>3
     DEF BeginRange, Goto, ScheduleInv, NobodyForgotten, memory, background, history
<1>4. ASSUME NEW t \in Threads, WakeWriter(t) PROVE ScheduleInv'
  BY <1>a, <1>b, <1>4
     DEF WakeWriter, Goto, ScheduleInv, NobodyForgotten, memory, background, history
<1>5. ASSUME NEW t \in Threads, RoomRefused(t) PROVE ScheduleInv'
  BY <1>a, <1>b, <1>5
     DEF RoomRefused, AtHead, LeaveQueue, Goto, ScheduleInv, NobodyForgotten, memory, background,
         history
<1>6. ASSUME NEW t \in Threads, RoomDelay(t) PROVE ScheduleInv'
  BY <1>a, <1>b, <1>6
     DEF RoomDelay, AtHead, Goto, ScheduleInv, NobodyForgotten, memory, background, history
<1>7. ASSUME NEW t \in Threads, EndDelay(t) PROVE ScheduleInv'
  BY <1>a, <1>b, <1>7 DEF EndDelay, Goto, ScheduleInv, NobodyForgotten, memory, background, history
<1>8. ASSUME NEW t \in Threads, RoomWait(t) PROVE ScheduleInv'
  <2>1. pc[t] = "room" /\ ~bgError /\ (imm # 0 \/ l0 >= Stop) /\ asleep' = asleep \cup {t}
    BY <1>8 DEF RoomWait, Roomless, AtHead, Wait
  <2>2. UNCHANGED <<pc, imm, manual, l0, seek, shut, bgError, bg>>
    BY <1>8 DEF RoomWait, memory, background
  <2>3. l0 >= Stop => l0 >= Trigger
    <3>1. l0 \in Nat /\ Trigger \in Nat /\ Stop \in Nat /\ Trigger <= Stop
      BY <1>a, <1>b
    <3>2. QED
      BY <3>1
  <2>4. ~shut /\ bg # "off"
    BY <2>1, <2>3 DEF ScheduleInv
  <2>5. QED
    BY <1>a, <2>1, <2>2, <2>4 DEF ScheduleInv, NobodyForgotten
<1>9. ASSUME NEW t \in Threads, RoomSwitch(t) PROVE ScheduleInv'
  BY <1>a, <1>b, <1>9
     DEF RoomSwitch, Roomless, AtHead, MaybeScheduleCompaction, WorkToDo, Goto, ScheduleInv,
         NobodyForgotten, memory, background, history
<1>10. ASSUME NEW t \in Threads, RoomNoFile(t) PROVE ScheduleInv'
  BY <1>a, <1>b, <1>10
     DEF RoomNoFile, Roomless, AtHead, LeaveQueue, Goto, ScheduleInv, NobodyForgotten, memory,
         background, history
<1>11. ASSUME NEW t \in Threads, RoomForBatch(t) PROVE ScheduleInv'
  BY <1>a, <1>b, <1>11
     DEF RoomForBatch, Roomy, AtHead, Goto, ScheduleInv, NobodyForgotten, memory, background,
         history
<1>12. ASSUME NEW t \in Threads, RoomForFlush(t) PROVE ScheduleInv'
  BY <1>a, <1>b, <1>12
     DEF RoomForFlush, Roomy, AtHead, LeaveQueue, Goto, ScheduleInv, NobodyForgotten, memory,
         background, history
<1>13. ASSUME NEW t \in Threads, Log(t) PROVE ScheduleInv'
  BY <1>a, <1>b, <1>13 DEF Log, Goto, ScheduleInv, NobodyForgotten, memory, background, history
<1>14. ASSUME NEW t \in Threads, LogFails(t) PROVE ScheduleInv'
  BY <1>a, <1>b, <1>14
     DEF LogFails, Goto, ScheduleInv, NobodyForgotten, memory, background, history
<1>15. ASSUME NEW t \in Threads, Publish(t) PROVE ScheduleInv'
  BY <1>a, <1>b, <1>15
     DEF Publish, LeaveQueue, RecordBackgroundError, Goto, ScheduleInv, NobodyForgotten, memory,
         background, history
<1>16. ASSUME NEW t \in Threads, EndGet(t) PROVE ScheduleInv'
  BY <1>a, <1>b, <1>16
     DEF EndGet, MaybeScheduleCompaction, WorkToDo, Goto, ScheduleInv, NobodyForgotten, memory,
         background, history
<1>17. ASSUME NEW t \in Threads, AwaitFlush(t) PROVE ScheduleInv'
  <2>1. UNCHANGED <<imm, manual, l0, seek, shut, bgError, bg>> /\ pc[t] = "flushed" /\ t \notin asleep
    BY <1>17 DEF AwaitFlush, memory, background
  <2>2. CASE imm # 0 /\ ~bgError /\ asleep' = asleep \cup {t} /\ pc' = pc
    <3>1. ~shut /\ bg # "off"
      BY <2>1, <2>2 DEF ScheduleInv
    <3>2. QED
      BY <1>a, <2>1, <2>2, <3>1 DEF ScheduleInv, NobodyForgotten
  <2>3. CASE asleep' = asleep /\ pc' = [pc EXCEPT ![t] = "idle"]
    BY <1>a, <2>1, <2>3 DEF ScheduleInv, NobodyForgotten
  <2>4. QED
    BY <1>17, <2>2, <2>3 DEF AwaitFlush, Wait, Goto
<1>18. ASSUME NEW t \in Threads, RangeWait(t) PROVE ScheduleInv'
  BY <1>a, <1>b, <1>18
     DEF RangeWait, Range1, RangeOver, Wait, MaybeScheduleCompaction, WorkToDo, Goto, ScheduleInv,
         NobodyForgotten, memory, background, history
<1>19. ASSUME NEW t \in Threads, RangeEnds(t) PROVE ScheduleInv'
  BY <1>a, <1>b, <1>19
     DEF RangeEnds, Range1, Goto, ScheduleInv, NobodyForgotten, memory, background, history
<1>20. ASSUME BackgroundIdle PROVE ScheduleInv'
  BY <1>a, <1>b, <1>20
     DEF BackgroundIdle, EndCall, Rescheduled, WorkToDo, ScheduleInv, NobodyForgotten, memory,
         background, history
<1>21. ASSUME BackgroundFlush PROVE ScheduleInv'
  BY <1>a, <1>b, <1>21
     DEF BackgroundFlush, ScheduleInv, NobodyForgotten, memory, background, history
<1>22. ASSUME BackgroundNothing PROVE ScheduleInv'
  BY <1>a, <1>b, <1>22
     DEF BackgroundNothing, EndCall, Rescheduled, WorkToDo, ScheduleInv, NobodyForgotten, memory,
         background, history
<1>23. ASSUME BackgroundCompact PROVE ScheduleInv'
  BY <1>a, <1>b, <1>23
     DEF BackgroundCompact, ScheduleInv, NobodyForgotten, memory, background, history
<1>24. ASSUME FlushOK PROVE ScheduleInv'
  BY <1>a, <1>b, <1>24
     DEF FlushOK, EndCall, Rescheduled, WorkToDo, CompactMemTable, ScheduleInv, NobodyForgotten,
         memory, background, history
<1>25. ASSUME FlushFails PROVE ScheduleInv'
  BY <1>a, <1>b, <1>25
     DEF FlushFails, EndCall, Rescheduled, WorkToDo, ScheduleInv, NobodyForgotten, memory,
         background, history
<1>26. ASSUME FlushWithin PROVE ScheduleInv'
  BY <1>a, <1>b, <1>26 DEF FlushWithin, ScheduleInv, NobodyForgotten, memory, background, history
<1>27. ASSUME FlushWithinEnds PROVE ScheduleInv'
  BY <1>a, <1>b, <1>27
     DEF FlushWithinEnds, CompactMemTable, ScheduleInv, NobodyForgotten, memory, background,
         history
<1>28. ASSUME CompactOK PROVE ScheduleInv'
  BY <1>a, <1>b, <1>28
     DEF CompactOK, EndCall, Rescheduled, WorkToDo, ScheduleInv, NobodyForgotten, memory,
         background, history
<1>29. ASSUME CompactFails PROVE ScheduleInv'
  BY <1>a, <1>b, <1>29
     DEF CompactFails, EndCall, Rescheduled, WorkToDo, ScheduleInv, NobodyForgotten, memory,
         background, history
<1>30. ASSUME Close PROVE ScheduleInv'
  BY <1>a, <1>b, <1>30 DEF Close, ScheduleInv, NobodyForgotten, memory, background, history
<1>31. CASE UNCHANGED vars
  BY <1>31 DEF ScheduleInv, NobodyForgotten, vars, memory, background
<1>32. QED
  BY <1>1, <1>2, <1>3, <1>4, <1>5, <1>6, <1>7, <1>8, <1>9, <1>10, <1>11, <1>12, <1>13, <1>14,
     <1>15, <1>16, <1>17, <1>18, <1>19, <1>20, <1>21, <1>22, <1>23, <1>24, <1>25, <1>26, <1>27,
     <1>28, <1>29, <1>30, <1>31
     DEF Next, Begin, GoOn, Background

(* Whoever sleeps until background work is finished sleeps while such work *)
(* is scheduled or under way: no wake-up is lost.                          *)
THEOREM NobodyForgottenHolds == Spec => []NobodyForgotten
<1>1. Init => ScheduleInv
  <2>1. SUFFICES ASSUME Init PROVE ScheduleInv
    OBVIOUS
  <2>2. ~(l0 >= Trigger)
    BY <2>1, DBWriteAssumption DEF Init
  <2>3. QED
    BY <2>1, <2>2 DEF Init, ScheduleInv, NobodyForgotten
<1>2. Core /\ ScheduleInv /\ [Next]_vars => ScheduleInv'
  BY ScheduleStep
<1>3. ScheduleInv => NobodyForgotten
  BY DEF ScheduleInv
<1>4. QED
  BY <1>1, <1>2, <1>3, CoreHolds, PTL DEF Spec
-----------------------------------------------------------------------------
(* What a flush asked for has left the current memtable once it has        *)
(* switched memtables, and a flush that was taken into a group of others   *)
(* still asks for it.                                                      *)
FlushInv == \A t \in Threads :
    /\ pc[t] = "flushed" => call[t].kind = "flush"
    /\ call[t].old \subseteq acked
    /\ call[t].kind = "flush" => pc[t] \in {"idle", "queued", "room", "delayed", "flushed", "reading"}
    /\ call[t].kind = "flush" /\ pc[t] = "queued" => call[t].force
    /\ call[t].kind = "flush" /\ pc[t] \in {"room", "delayed", "flushed"} /\ ~call[t].force
          => call[t].old \subseteq Contents(imm) \cup tables

(* A thread that stays where it is with the same call keeps its part.      *)
LEMMA FlushKept ==
    ASSUME FlushInv, NEW u \in Threads, pc'[u] = pc[u],
           call'[u].kind = call[u].kind, call'[u].force = call[u].force, call'[u].old = call[u].old,
           acked \subseteq acked', Contents(imm) \cup tables \subseteq Contents(imm)' \cup tables'
    PROVE  /\ pc'[u] = "flushed" => call'[u].kind = "flush"
           /\ call'[u].old \subseteq acked'
           /\ call'[u].kind = "flush"
                => pc'[u] \in {"idle", "queued", "room", "delayed", "flushed", "reading"}
           /\ call'[u].kind = "flush" /\ pc'[u] = "queued" => call'[u].force
           /\ call'[u].kind = "flush" /\ pc'[u] \in {"room", "delayed", "flushed"} /\ ~call'[u].force
                 => call'[u].old \subseteq Contents(imm)' \cup tables'
BY DEF FlushInv

LEMMA FlushStep ==
    ASSUME Core, Data, FlushInv, [Next]_vars
    PROVE  FlushInv'
<1>a. pc \in [Threads -> Labels] /\ call \in [Threads -> Call] /\ manual \in Threads \cup {Nobody}
  BY DEF Core, Types, TypeOK
<1>b. \A u \in Threads : call[u].old \subseteq acked
  BY DEF FlushInv
<1>1. ASSUME NEW t \in Threads, NEW kind \in {"put", "sync", "flush"}, BeginWrite(t, kind)
      PROVE  FlushInv'
  <2> DEFINE new == [NoCall EXCEPT !.kind = kind, !.delay = kind # "flush", !.force = kind = "flush",
                                   !.old = acked]
  <2>1. /\ pc[t] = "idle" /\ call' = [call EXCEPT ![t] = new]
        /\ pc' = [pc EXCEPT ![t] = "room"] \/ pc' = [pc EXCEPT ![t] = "queued"]
        /\ UNCHANGED <<mems, imm, tables, acked>>
    BY <1>1 DEF BeginWrite, Goto, memory
  <2>2. new.kind = kind /\ (kind = "flush" => new.force) /\ new.old = acked
    BY DEF NoCall
  <2> HIDE DEF new
  <2>3. ASSUME NEW u \in Threads, u # t PROVE pc'[u] = pc[u] /\ call'[u] = call[u]
    BY <1>a, <2>1, <2>3
  <2>4. call'[t] = new /\ pc'[t] \in {"room", "queued"}
    BY <1>a, <2>1
  <2>5. QED
    BY <2>1, <2>2, <2>3, <2>4, FlushKept DEF FlushInv, Contents
<1>2. ASSUME NEW t \in Threads, BeginRange(t) PROVE FlushInv'
  <2> DEFINE new == [NoCall EXCEPT !.kind = "range"]
  <2>1. /\ call' = [call EXCEPT ![t] = new] /\ pc' = [pc EXCEPT ![t] = "range"]
        /\ UNCHANGED <<mems, imm, tables, acked>>
    BY <1>2 DEF BeginRange, Goto, memory
  <2>2. new.kind = "range" /\ new.old = {}
    BY DEF NoCall
  <2> HIDE DEF new
  <2>3. ASSUME NEW u \in Threads, u # t PROVE pc'[u] = pc[u] /\ call'[u] = call[u]
    BY <1>a, <2>1, <2>3
  <2>4. call'[t] = new /\ pc'[t] = "range"
    BY <1>a, <2>1
  <2>5. QED
    BY <2>1, <2>2, <2>3, <2>4, FlushKept DEF FlushInv, Contents
(* Steps that move a thread, with the call it makes.                       *)
<1>3. ASSUME NEW t \in Threads,
             \/ BeginGet(t) \/ WakeWriter(t) \/ RoomDelay(t) \/ EndDelay(t) \/ RoomWait(t)
             \/ EndGet(t) \/ AwaitFlush(t) \/ RangeWait(t) \/ RangeEnds(t) \/ LogFails(t) \/ Log(t)
      PROVE  FlushInv'
  <2>1. /\ UNCHANGED <<imm, tables, acked>>
        /\ imm # 0 => mems[imm] \subseteq mems'[imm]
    <3>1. UNCHANGED <<imm, tables, acked>>
      BY <1>3
         DEF BeginGet, WakeWriter, RoomDelay, EndDelay, RoomWait, EndGet, AwaitFlush, RangeWait,
                  RangeEnds, LogFails, Log, memory, history
    <3>2. imm # 0 => imm \in 1 .. Len(mems)
      <4>1. imm \in 0 .. Len(mems) - 1 /\ Len(mems) \in Nat
        BY LenProperties DEF Core, Types, TypeOK
      <4>2. QED
        BY <4>1
    <3>3. QED
      BY <3>1, <3>2, MemsGrow
  <2>2. /\ call' = call \/ call' = [call EXCEPT ![t].delay = FALSE]
        /\ \/ pc' = pc
           \/ pc[t] = "queued" /\ call[t].kind = "flush" /\ pc' = [pc EXCEPT ![t] = "flushed"]
           \/ pc[t] \in {"queued", "delayed"} /\ pc' = [pc EXCEPT ![t] = "room"]
           \/ pc[t] = "room" /\ pc' = [pc EXCEPT ![t] = "delayed"]
           \/ pc' = [pc EXCEPT ![t] = "idle"]
           \/ pc' = [pc EXCEPT ![t] = "reading"]
           \/ \E l \in {"logged", "unlogged", "unsynced"} :
                 pc[t] = "logging" /\ pc' = [pc EXCEPT ![t] = l]
    BY <1>3 DEF BeginGet, WakeWriter, RoomDelay, EndDelay, RoomWait, EndGet, AwaitFlush, RangeWait,
                RangeEnds, LogFails, Log, Goto, AtHead
  <2>3. \A u \in Threads : /\ call'[u].kind = call[u].kind /\ call'[u].force = call[u].force
                           /\ call'[u].old = call[u].old
    BY <1>a, <2>2 DEF Call
  <2>4. \A u \in Threads : u # t => pc'[u] = pc[u]
    BY <1>a, <2>2
  <2>5. \/ pc'[t] = pc[t]
        \/ pc[t] = "queued" /\ call[t].kind = "flush" /\ pc'[t] = "flushed"
        \/ pc[t] \in {"queued", "delayed"} /\ pc'[t] = "room"
        \/ pc[t] = "room" /\ pc'[t] = "delayed"
        \/ pc'[t] \in {"idle", "reading"}
        \/ pc[t] = "logging" /\ pc'[t] \in {"logged", "unlogged", "unsynced"}
    BY <1>a, <2>2
  <2>6. Contents(imm) \cup tables \subseteq Contents(imm)' \cup tables' /\ acked \subseteq acked'
    BY <2>1 DEF Contents
  <2>7. /\ pc'[t] = "flushed" => call'[t].kind = "flush"
        /\ call'[t].old \subseteq acked'
        /\ call'[t].kind = "flush" => pc'[t] \in {"idle", "queued", "room", "delayed", "flushed", "reading"}
        /\ call'[t].kind = "flush" /\ pc'[t] = "queued" => call'[t].force
        /\ call'[t].kind = "flush" /\ pc'[t] \in {"room", "delayed", "flushed"} /\ ~call'[t].force
              => call'[t].old \subseteq Contents(imm)' \cup tables'
    BY <2>3, <2>5, <2>6 DEF FlushInv
  <2>8. QED
    BY <2>3, <2>4, <2>6, <2>7, FlushKept DEF FlushInv
(* A flush leaves the queue when it has switched memtables.                *)
<1>4. ASSUME NEW t \in Threads,
             RoomRefused(t) \/ RoomNoFile(t) \/ RoomForFlush(t) \/ Publish(t)
      PROVE  FlushInv'
  <2>1. PICK upto \in Threads \cup {Nobody}, ok \in BOOLEAN :
           /\ LeaveQueue(t, upto, ok) /\ UNCHANGED <<mems, imm, tables>>
           /\ pc[t] \in {"room", "logged", "unlogged", "unsynced"}
    <3>1. last \in Threads \cup {Nobody} /\ (pc[t] = "logged") \in BOOLEAN
      BY DEF Core, Types, TypeOK
    <3>2. QED
      BY <1>4, <3>1
         DEF RoomRefused, RoomNoFile, RoomForFlush, Publish, Roomless, Roomy, AtHead, memory
  <2>2. \A u \in Threads : /\ call'[u].kind = call[u].kind /\ call'[u].force = call[u].force
                           /\ call'[u].old = call[u].old
    BY <1>a, <2>1 DEF LeaveQueue, Call
  <2>3. /\ \A u \in Threads : u # t => pc'[u] = pc[u]
        /\ pc'[t] = "idle" \/ (pc'[t] = "flushed" /\ call[t].kind = "flush")
    BY <1>a, <2>1 DEF LeaveQueue, Goto
  <2>4. acked \subseteq acked'
    BY <2>1 DEF LeaveQueue
  <2>5. Contents(imm)' = Contents(imm) /\ tables' = tables
    BY <2>1 DEF Contents
  <2>6. /\ pc'[t] = "flushed" => call'[t].kind = "flush"
        /\ call'[t].old \subseteq acked'
        /\ call'[t].kind = "flush" => pc'[t] \in {"idle", "queued", "room", "delayed", "flushed", "reading"}
        /\ call'[t].kind = "flush" /\ pc'[t] = "queued" => call'[t].force
        /\ call'[t].kind = "flush" /\ pc'[t] \in {"room", "delayed", "flushed"} /\ ~call'[t].force
              => call'[t].old \subseteq Contents(imm)' \cup tables'
    BY <2>1, <2>2, <2>3, <2>4, <2>5 DEF FlushInv
  <2>7. QED
    BY <2>2, <2>3, <2>4, <2>5, <2>6, FlushKept DEF FlushInv
<1>5. ASSUME NEW t \in Threads, RoomSwitch(t) PROVE FlushInv'
  <2>1. /\ pc' = pc /\ call' = [call EXCEPT ![t].force = FALSE] /\ pc[t] = "room"
        /\ imm = 0 /\ imm' = Mem /\ mems' = Append(mems, {}) /\ UNCHANGED <<tables, acked>>
    BY <1>5 DEF RoomSwitch, Roomless, AtHead, history
  <2>2. Contents(imm) = {} /\ Contents(imm)' = mems[Mem]
    <3>1. mems \in Seq(SUBSET Nat) /\ Len(mems) \in Nat \ {0}
      BY EmptySeq DEF Core, Types, TypeOK
    <3>2. mems'[Len(mems)] = mems[Len(mems)]
      BY <2>1, <3>1, AppendProperties
    <3>3. QED
      BY <2>1, <3>1, <3>2 DEF Contents, Mem
  <2>3. acked \subseteq Contents(imm)' \cup tables'
    BY <2>1, <2>2 DEF Data, AckedAreKept
  <2>4. \A u \in Threads : /\ call'[u].kind = call[u].kind /\ call'[u].old = call[u].old
                           /\ u # t => call'[u].force = call[u].force
    BY <1>a, <2>1 DEF Call
  <2>5. ASSUME NEW u \in Threads
        PROVE  call'[u].old \subseteq Contents(imm)' \cup tables' /\ call'[u].old \subseteq acked'
    BY <1>b, <2>1, <2>3, <2>4
  <2>6. QED
    BY <2>1, <2>4, <2>5 DEF FlushInv
<1>6. ASSUME NEW t \in Threads, RoomForBatch(t) PROVE FlushInv'
  <2>1. /\ IsBatch(t) /\ pc' = [pc EXCEPT ![t] = "logging"] /\ UNCHANGED <<mems, imm, tables, acked>>
        /\ pc[t] = "room" /\ UNCHANGED queue
    BY <1>6 DEF RoomForBatch, Roomy, AtHead, Goto, memory, history
  <2>2. PICK upto \in Range(queue) : call' = Numbered(upto)
    BY <1>6 DEF RoomForBatch
  <2>3. \A u \in Threads : /\ call'[u].kind = call[u].kind /\ call'[u].force = call[u].force
                           /\ call'[u].old = call[u].old
    BY <1>a, <2>2 DEF Numbered, Call
  <2>4. \A u \in Threads : pc'[u] = IF u = t THEN "logging" ELSE pc[u]
    BY <1>a, <2>1
  <2>5. Contents(imm)' = Contents(imm) /\ call[t].kind # "flush"
    BY <2>1 DEF Contents, IsBatch
  <2>6. QED
    BY <1>b, <2>1, <2>3, <2>4, <2>5, FlushKept DEF FlushInv
<1>7. ASSUME Background \/ Close \/ UNCHANGED vars PROVE FlushInv'
  <2>1. UNCHANGED <<pc, acked>> /\ (call' = call \/ call' = [call EXCEPT ![manual].done = TRUE])
    BY <1>7 DEF Background, BackgroundIdle, BackgroundFlush, BackgroundNothing, BackgroundCompact,
                FlushOK, FlushFails, FlushWithin, FlushWithinEnds, CompactOK, CompactFails, Close, vars,
                history
  <2>2. UNCHANGED <<mems, imm, tables>> \/ CompactMemTable
    BY <1>7 DEF Background, BackgroundIdle, BackgroundFlush, BackgroundNothing, BackgroundCompact,
                FlushOK, FlushFails, FlushWithin, FlushWithinEnds, CompactOK, CompactFails, Close, vars,
                memory
  <2>3. \A u \in Threads : /\ call'[u].kind = call[u].kind /\ call'[u].force = call[u].force
                           /\ call'[u].old = call[u].old
    BY <1>a, <2>1 DEF Call
  <2>4. Contents(imm) \cup tables \subseteq Contents(imm)' \cup tables'
    BY <2>2 DEF CompactMemTable, Contents
  <2>5. QED
    BY <2>1, <2>3, <2>4, FlushKept DEF FlushInv
<1>8. QED
  BY <1>1, <1>2, <1>3, <1>4, <1>5, <1>6, <1>7 DEF Next, Begin, GoOn

(* A flush that switched memtables returns OK only when everything that    *)
(* was acknowledged before it is in tables, whoever else switches, flushes *)
(* and writes in the meantime.                                             *)
THEOREM FlushFlushesHolds == Spec => FlushFlushes
<1>1. Init => FlushInv
  BY DEF Init, FlushInv, NoCall
<1>2. Core /\ Data /\ FlushInv /\ [Next]_vars => FlushInv'
  BY FlushStep
<1>3. FlushInv => \A t \in Threads : pc[t] = "flushed" /\ pc'[t] = "idle" /\ imm = 0 /\ ~call[t].force
                                        => call[t].old \subseteq tables
  BY DEF FlushInv, Contents
<1>4. QED
  BY <1>1, <1>2, <1>3, CoreHolds, PTL DEF Spec, FlushFlushes
=============================================================================
