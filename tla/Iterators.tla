----------------------------- MODULE Iterators -----------------------------
(***************************************************************************)
(* An iterator of a leveldb: DBIter shows the newest visible entry of each *)
(* key on top of a MergingIterator, whose children are the memtable and a  *)
(* TwoLevelIterator over blocks (db/db_iter.cc, table/merger.cc,           *)
(* table/two_level_iterator.cc).  Each of the three has a direction or a   *)
(* position of its own that has to be put right when the caller turns.     *)
(*                                                                         *)
(* An entry is <<key, sequence number, type>>.  Writers insert into the    *)
(* memtable between two calls, and a block may turn out to be damaged.     *)
(***************************************************************************)
EXTENDS Naturals, FiniteSets, Sequences, FiniteSetsExt

CONSTANTS IterKeys,   \* user keys, a range of the naturals
          Flushed,    \* bound: entries in tables
          Buffered,   \* bound: entries in the memtable at first
          Inserted,   \* bound: entries inserted later
          Blocks      \* number of blocks of the tables

ASSUME IteratorsAssumption == IterKeys \subseteq Nat \ {0} /\ {Flushed, Buffered, Inserted, Blocks} \subseteq Nat

VARIABLES memtable,   \* the entries of the memtable
          blocks,     \* the entries of each block, in order
          damaged,    \* blocks that cannot be read
          sequence,   \* sequence_, what the iterator sees
          iter,       \* the state of the iterators
          at          \* the key a map would be at

iterVars == <<memtable, blocks, damaged, sequence, iter, at>>
-----------------------------------------------------------------------------
NoEntry == <<0, 0, "value">>
IsBefore(e, d) == e[1] < d[1] \/ (e[1] = d[1] /\ e[2] > d[2])
FirstOf(s) == IF s = {} THEN NoEntry ELSE CHOOSE e \in s : \A d \in s : d = e \/ IsBefore(e, d)
LastEntry(s) == IF s = {} THEN NoEntry ELSE CHOOSE e \in s : \A d \in s : d = e \/ IsBefore(d, e)
AfterOf(s, e) == FirstOf({d \in s : IsBefore(e, d)})
BeforeOf(s, e) == LastEntry({d \in s : IsBefore(d, e)})
AtLeast(s, e) == FirstOf({d \in s : ~IsBefore(d, e)})
-----------------------------------------------------------------------------
(* The memtable: a position.                                               *)
MemCall(c, call, e) ==
    [c EXCEPT !.pos = CASE call = "First" -> FirstOf(memtable)
                        [] call = "Last" -> LastEntry(memtable)
                        [] call = "Next" -> AfterOf(memtable, c.pos)
                        [] call = "Prev" -> BeforeOf(memtable, c.pos)
                        [] call = "Seek" -> AtLeast(memtable, e)]

(* The tables: a position in the index, past its end when it is not valid, *)
(* a block, and a position in it.  A block that cannot be read is an empty *)
(* iterator with an error.                                                 *)
InBlock(i) == IF i \in damaged THEN {} ELSE blocks[i]
Past == Len(blocks) + 1

(* SetDataIterator, by InitDataBlock: keep the error of the block left.    *)
SetDataIterator(c, i) ==
    [c EXCEPT !.index = i, !.block = IF i = Past THEN 0 ELSE i, !.error = @ \/ c.block \in damaged]

RECURSIVE SkipEmptyDataBlocksForward(_)
SkipEmptyDataBlocksForward(c) ==
    IF c.block # 0 /\ c.pos # NoEntry THEN c
    ELSE IF c.index = Past THEN [SetDataIterator(c, Past) EXCEPT !.pos = NoEntry]
    ELSE LET i == c.index + 1
         IN  SkipEmptyDataBlocksForward(
                [SetDataIterator(c, i) EXCEPT !.pos = IF i = Past THEN NoEntry ELSE FirstOf(InBlock(i))])

RECURSIVE SkipEmptyDataBlocksBackward(_)
SkipEmptyDataBlocksBackward(c) ==
    IF c.block # 0 /\ c.pos # NoEntry THEN c
    ELSE IF c.index = Past THEN [SetDataIterator(c, Past) EXCEPT !.pos = NoEntry]
    ELSE LET i == IF c.index = 1 THEN Past ELSE c.index - 1
         IN  SkipEmptyDataBlocksBackward(
                [SetDataIterator(c, i) EXCEPT !.pos = IF i = Past THEN NoEntry ELSE LastEntry(InBlock(i))])

(* The index has the last key of each block (LevelFileNumIterator).        *)
IndexSeek(e) == Min({i \in DOMAIN blocks : ~IsBefore(LastEntry(blocks[i]), e)} \cup {Past})

Enter(c, i, pos) == [SetDataIterator(c, i) EXCEPT !.pos = IF i = Past THEN NoEntry ELSE pos]

TwoLevelCall(c, call, e) ==
    CASE call = "First" -> SkipEmptyDataBlocksForward(Enter(c, 1, FirstOf(InBlock(1))))
      [] call = "Last" -> SkipEmptyDataBlocksBackward(Enter(c, Len(blocks), LastEntry(InBlock(Len(blocks)))))
      [] call = "Seek" -> LET i == IndexSeek(e)
                          IN  SkipEmptyDataBlocksForward(
                                 Enter(c, i, IF i = Past THEN NoEntry ELSE AtLeast(InBlock(i), e)))
      [] call = "Next" -> SkipEmptyDataBlocksForward([c EXCEPT !.pos = AfterOf(InBlock(c.block), @)])
      [] call = "Prev" -> SkipEmptyDataBlocksBackward([c EXCEPT !.pos = BeforeOf(InBlock(c.block), @)])

ChildCall(c, call, e) == IF c.kind = "mem" THEN MemCall(c, call, e) ELSE TwoLevelCall(c, call, e)
-----------------------------------------------------------------------------
(* MergingIterator: the children, which of them is current, a direction.   *)
Pos(m, i) == m.children[i].pos
Valid(m) == m.current # 0
Entry(m) == Pos(m, m.current)
Positioned(m) == {i \in DOMAIN m.children : Pos(m, i) # NoEntry}

FindSmallest(m) ==
    [m EXCEPT !.current = IF Positioned(m) = {} THEN 0
        ELSE CHOOSE i \in Positioned(m) : \A j \in Positioned(m) : i = j \/ IsBefore(Pos(m, i), Pos(m, j))]
FindLargest(m) ==
    [m EXCEPT !.current = IF Positioned(m) = {} THEN 0
        ELSE CHOOSE i \in Positioned(m) : \A j \in Positioned(m) : i = j \/ IsBefore(Pos(m, j), Pos(m, i))]

All(m, call, e) == [m EXCEPT !.children = [i \in DOMAIN @ |-> ChildCall(@[i], call, e)]]
MoveCurrent(m, call) == [m EXCEPT !.children[m.current] = ChildCall(@, call, NoEntry)]

(* Turning: the other children go to where the current one is.             *)
OthersAfter(m) ==
    [m EXCEPT !.children = [i \in DOMAIN @ |-> IF i = m.current THEN @[i] ELSE ChildCall(@[i], "Seek", Entry(m))]]

(* Fault: a child with nothing from there on stays at the end. *)
OthersBeforeLost(m) ==
    [m EXCEPT !.children = [i \in DOMAIN @ |->
        IF i = m.current THEN @[i]
        ELSE LET c == ChildCall(@[i], "Seek", Entry(m))
             IN  IF c.pos # NoEntry THEN ChildCall(c, "Prev", NoEntry) ELSE c]]

OthersBefore(m) ==
    [m EXCEPT !.children = [i \in DOMAIN @ |->
        IF i = m.current THEN @[i]
        ELSE LET c == ChildCall(@[i], "Seek", Entry(m))
             IN  IF c.pos # NoEntry THEN ChildCall(c, "Prev", NoEntry) ELSE ChildCall(c, "Last", NoEntry)]]

MergeFirst(m) == [FindSmallest(All(m, "First", NoEntry)) EXCEPT !.forward = TRUE]
MergeLast(m) == [FindLargest(All(m, "Last", NoEntry)) EXCEPT !.forward = FALSE]
MergeSeek(m, e) == [FindSmallest(All(m, "Seek", e)) EXCEPT !.forward = TRUE]
MergeNext(m) == LET turned == IF m.forward THEN m ELSE OthersAfter(m)
                IN  [FindSmallest(MoveCurrent(turned, "Next")) EXCEPT !.forward = TRUE]
MergePrev(m) == LET turned == IF m.forward THEN OthersBefore(m) ELSE m
                IN  [FindLargest(MoveCurrent(turned, "Prev")) EXCEPT !.forward = FALSE]
-----------------------------------------------------------------------------
(* DBIter: a direction and, going backwards, the entry it is at; the       *)
(* merging iterator is then before all entries of its key.                 *)
Invalid(d) == [d EXCEPT !.valid = FALSE, !.saved = NoEntry]

(* skip is the user key to skip, 0 for none.                               *)
RECURSIVE FindNextUserEntry(_, _)
FindNextUserEntry(d, skip) ==
    IF ~Valid(d.merge) THEN Invalid(d)
    ELSE LET e == Entry(d.merge)
             next == [d EXCEPT !.merge = MergeNext(@)]
         IN  IF e[2] > sequence THEN FindNextUserEntry(next, skip)
             ELSE IF e[3] = "deletion" THEN FindNextUserEntry(next, e[1])
             ELSE IF e[1] <= skip THEN FindNextUserEntry(next, skip)
             ELSE [d EXCEPT !.valid = TRUE, !.saved = NoEntry]

RECURSIVE FindPrevUserEntry(_)
FindPrevUserEntry(d) ==
    LET e == Entry(d.merge)
        prev == [d EXCEPT !.merge = MergePrev(@)]
    IN  IF Valid(d.merge) /\ e[2] > sequence THEN FindPrevUserEntry(prev)
        ELSE IF Valid(d.merge) /\ ~(d.saved # NoEntry /\ e[1] < d.saved[1])
        THEN FindPrevUserEntry([prev EXCEPT !.saved = IF e[3] = "deletion" THEN NoEntry ELSE e])
        ELSE IF d.saved = NoEntry THEN [Invalid(d) EXCEPT !.forward = TRUE] ELSE [d EXCEPT !.valid = TRUE]

(* The loop starts from a deletion, whatever was saved.                    *)
Backwards(d) == FindPrevUserEntry([d EXCEPT !.saved = NoEntry])

DBKey(d) == IF d.forward THEN Entry(d.merge) ELSE d.saved

DBNext(d) ==
    IF d.forward THEN FindNextUserEntry(d, Entry(d.merge)[1])
    ELSE LET m == IF Valid(d.merge) THEN MergeNext(d.merge) ELSE MergeFirst(d.merge)
         IN  FindNextUserEntry([d EXCEPT !.forward = TRUE, !.merge = m], d.saved[1])

RECURSIVE BeforeKey(_, _)
BeforeKey(m, key) == IF Valid(m) /\ Entry(m)[1] >= key THEN BeforeKey(MergePrev(m), key) ELSE m

DBPrev(d) ==
    IF ~d.forward THEN Backwards(d)
    ELSE LET m == BeforeKey(MergePrev(d.merge), Entry(d.merge)[1])
         IN  IF Valid(m) THEN Backwards([d EXCEPT !.forward = FALSE, !.merge = m])
             ELSE [Invalid(d) EXCEPT !.merge = m]

DBFirst(d) == FindNextUserEntry([d EXCEPT !.forward = TRUE, !.merge = MergeFirst(@)], 0)
DBLast(d) == Backwards([d EXCEPT !.forward = FALSE, !.merge = MergeLast(@)])
DBSeek(d, key) == FindNextUserEntry([d EXCEPT !.forward = TRUE, !.merge = MergeSeek(@, <<key, sequence, "value">>)], 0)
-----------------------------------------------------------------------------
Child(kind) == [kind |-> kind, pos |-> NoEntry, index |-> Past, block |-> 0, error |-> FALSE]
NewIterator == [forward |-> TRUE, valid |-> FALSE, saved |-> NoEntry,
                merge |-> [children |-> <<Child("mem"), Child("tables")>>, current |-> 0, forward |-> TRUE]]

(* status(): whether some iterator has met an error.                       *)
Failed(d) == \E i \in DOMAIN d.merge.children :
                LET c == d.merge.children[i] IN c.error \/ c.block \in damaged

(* Some history of writes, the oldest in tables of some blocks.            *)
IterInit ==
    \E h \in [1 .. Flushed + Buffered -> IterKeys \X {"value", "deletion"}] :
        LET Entries(numbers) == {<<h[n][1], n, h[n][2]>> : n \in numbers}
            old == Entries(1 .. Flushed)
        IN  /\ memtable = Entries(Flushed + 1 .. Flushed + Buffered)
            /\ \E ends \in SUBSET old :
                  /\ Cardinality(ends) = Blocks /\ LastEntry(old) \in ends
                  /\ blocks = [i \in 1 .. Blocks |->
                        {e \in old : Cardinality({d \in ends : IsBefore(d, e)}) = i - 1}]
            /\ \E i \in 0 .. Blocks : damaged = {i} \ {0}
            /\ sequence \in 0 .. Flushed + Buffered
            /\ iter = NewIterator
            /\ at = 0

Stored == memtable \cup UNION {blocks[i] : i \in DOMAIN blocks}
Visible == {e \in Stored : /\ e[2] <= sequence /\ e[3] = "value"
                           /\ ~\E d \in Stored : d[1] = e[1] /\ d[2] > e[2] /\ d[2] <= sequence}
Shown == {e[1] : e \in Visible}

Lowest(s) == Min(s \cup {Max(IterKeys) + 1}) % (Max(IterKeys) + 1)
Highest(s) == Max(s \cup {0})

SeekToFirst == iter' = DBFirst(iter) /\ at' = Lowest(Shown)
SeekToLast == iter' = DBLast(iter) /\ at' = Highest(Shown)
Seek(k) == iter' = DBSeek(iter, k) /\ at' = Lowest({x \in Shown : x >= k})
CallNext == iter.valid /\ iter' = DBNext(iter) /\ at' = Lowest({x \in Shown : x > at})
CallPrev == iter.valid /\ iter' = DBPrev(iter) /\ at' = Highest({x \in Shown : x < at})

Call == /\ SeekToFirst \/ SeekToLast \/ (\E k \in IterKeys : Seek(k)) \/ CallNext \/ CallPrev
        /\ UNCHANGED <<memtable, blocks, damaged, sequence>>

(* A writer inserts an entry the iterator must not see.                    *)
Insert == /\ Cardinality(memtable) < Buffered + Inserted
          /\ \E k \in IterKeys, type \in {"value", "deletion"} :
                memtable' = memtable \cup {<<k, Flushed + Cardinality(memtable) + 1, type>>}
          /\ UNCHANGED <<blocks, damaged, sequence, iter, at>>

IterNext == Call \/ Insert

IterSpec == IterInit /\ [][IterNext]_iterVars
-----------------------------------------------------------------------------
(* Whatever was called before, and whatever is inserted meanwhile, the     *)
(* iterator is where a sorted map of the visible keys would be, and yields *)
(* the newest visible entry - or it says that it met an error.             *)
FollowsTheMap == Failed(iter) \/ /\ iter.valid = (at # 0)
                                 /\ iter.valid => DBKey(iter) \in Visible /\ DBKey(iter)[1] = at
=============================================================================
