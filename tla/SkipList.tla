------------------------------ MODULE SkipList ------------------------------
(***************************************************************************)
(* The skip list of a memtable (db/skiplist.h): one writer links nodes in, *)
(* readers search and iterate without a lock.                              *)
(*                                                                         *)
(* Memory is that of C++ atomics.  What the writer stores is kept in       *)
(* order; a reader has a view, the number of stores it is sure to see, and *)
(* a load may return any store to its location from the view on.  A load   *)
(* that returns a release-store moves the view to it.  A node is named by  *)
(* its key.                                                                *)
(***************************************************************************)
EXTENDS Naturals, Sequences, FiniteSetsExt

CONSTANTS ListKeys,    \* the keys, numbers greater than 0
          MaxHeight   \* kMaxHeight

ASSUME SkipListAssumption ==
    /\ ListKeys \subseteq Nat \ {0} /\ MaxHeight \in Nat \ {0}
    /\ \E greatest \in ListKeys : \A k \in ListKeys : k <= greatest

VARIABLES stores,     \* the stores of the writer, in order
          insert,     \* the insertion under way
          view,       \* the stores the reader is sure to see
          node,       \* node_ of the reader's iterator
          search      \* the operation of the reader

listVars == <<stores, insert, view, node, search>>

head == 0                       \* head_
nullptr == Max(ListKeys) + 1    \* sorts after all keys
garbage == nullptr + 1          \* memory nobody has written
Levels == 0 .. MaxHeight - 1    \* <<n, l>> is next_[l] of node n ...
key == MaxHeight                \* ... <<n, key>> its key
max_height_ == MaxHeight + 1    \* ... and <<head, max_height_>> the list's height
-----------------------------------------------------------------------------
(* Locations: a node and one of its fields.                                *)
Store(at, to, release) == [at |-> at, to |-> to, release |-> release]
StoredAt(at, n) == {i \in 1 .. n : stores[i].at = at}
Latest(at) == stores[Max(StoredAt(at, Len(stores)))].to

(* What a load may return: a store that the view reaches to, or a later    *)
(* one; 0 stands for what was in memory before.                            *)
Loadable(at) == LET last == Max(StoredAt(at, view) \cup {0})
                IN  {i \in StoredAt(at, Len(stores)) \cup {0} : i >= last}
Loaded(i) == IF i = 0 THEN garbage ELSE stores[i].to

AcquireLoad(i) == IF i > 0 /\ stores[i].release THEN Max({view, i}) ELSE view

GetMaxHeight == Latest(<<head, max_height_>>)
-----------------------------------------------------------------------------
(* The writer alone changes the list: its own search sees every store.     *)
At(n, l) == Latest(<<n, l>>)
Linked(l) == {k \in ListKeys : \E i \in 1 .. Len(stores) : stores[i].to = k /\ stores[i].at[2] = l}

PrevNodes(new) == [l \in Levels |-> Max({k \in Linked(l) : k < new} \cup {head})]

NoInsert == [key |-> head]

(* Insert up to NewNode: a height by RandomHeight, the nodes before it.    *)
ListInsert(new, height) ==
    /\ insert = NoInsert
    /\ new \notin Linked(0)
    /\ stores' = stores \o (IF height > GetMaxHeight
                            THEN <<Store(<<head, max_height_>>, height, FALSE)>> ELSE << >>)
                        \o <<Store(<<new, key>>, new, FALSE)>>
    /\ insert' = [key |-> new, height |-> height, level |-> 0, prev |-> PrevNodes(new), set |-> FALSE]
    /\ UNCHANGED <<view, node, search>>

NextLink(l) == insert.set

(* Fault: the node is published without a barrier. *)
PublishedRelaxed == FALSE

PublishedWith == TRUE

(* One store of the loop: the node's own link, then the one to the node.   *)
SetNext ==
    /\ insert # NoInsert
    /\ LET l == insert.level
           before == insert.prev[l]
       IN  IF NextLink(l)
           THEN stores' = Append(stores, Store(<<before, l>>, insert.key, PublishedWith))
           ELSE stores' = Append(stores, Store(<<insert.key, l>>, At(before, l), FALSE))
    /\ insert' = IF ~insert.set THEN [insert EXCEPT !.set = TRUE]
                 ELSE IF insert.level + 1 = insert.height THEN NoInsert
                 ELSE [insert EXCEPT !.set = FALSE, !.level = @ + 1]
    /\ UNCHANGED <<view, node, search>>
-----------------------------------------------------------------------------
(* The reader.  An operation descends from x at a level; it goes on to the *)
(* next node as long as that is a node Before the target.                  *)
Idle == [op |-> "none"]
Before(op, target, next) == next # nullptr /\ (op = "FindLast" \/ next < target)

Begin(op, target, x, level) ==
    search' = [op |-> op, target |-> target, x |-> x, level |-> level, from |-> view]

(* FindGreaterOrEqual, FindLessThan and FindLast start at the top, with    *)
(* any max_height_ that a relaxed load may return.                         *)
Find(op, target) ==
    /\ search = Idle
    /\ \E i \in Loadable(<<head, max_height_>>) : Begin(op, target, head, Loaded(i) - 1)
    /\ UNCHANGED <<stores, insert, view, node>>

ListSeek == \E target \in ListKeys : Find("FindGreaterOrEqual", target)
ListSeekToLast == Find("FindLast", nullptr)
StepBack == node \in ListKeys /\ Find("FindLessThan", node)

(* Next and SeekToFirst load one link of level 0.                          *)
Follow(x) == /\ search = Idle
             /\ Begin("Next", head, x, 0)
             /\ UNCHANGED <<stores, insert, view, node>>
ListSeekToFirst == Follow(head)
StepForward == node \in ListKeys /\ Follow(node)

Load ==
    /\ search.op \notin {"none", "ended"}
    /\ \E i \in Loadable(<<search.x, search.level>>) :
          LET next == Loaded(i)
              op == search.op
          IN  /\ view' = AcquireLoad(i)
              /\ IF op # "Next" /\ Before(op, search.target, next)
                 THEN search' = [search EXCEPT !.x = next] /\ UNCHANGED node
                 ELSE IF search.level > 0
                 THEN search' = [search EXCEPT !.level = @ - 1] /\ UNCHANGED node
                 ELSE /\ search' = [op |-> "ended", by |-> op, target |-> search.target,
                                    x |-> search.x, from |-> search.from]
                      /\ node' = IF op \in {"Next", "FindGreaterOrEqual"} THEN next
                                 ELSE IF search.x = head THEN nullptr ELSE search.x
    /\ UNCHANGED <<stores, insert>>

(* The iterator returns; its caller may take the mutex before the next     *)
(* call, after an insertion that the writer has finished under it.         *)
Return == /\ search.op = "ended"
          /\ search' = Idle
          /\ view' \in {view} \cup (IF insert = NoInsert THEN {Len(stores)} ELSE {})
          /\ UNCHANGED <<stores, insert, node>>
-----------------------------------------------------------------------------
ListInit ==
    /\ stores = [i \in 1 .. MaxHeight |-> Store(<<head, i - 1>>, nullptr, TRUE)]
                    \o <<Store(<<head, max_height_>>, 1, FALSE)>>
    /\ insert = NoInsert
    /\ view = MaxHeight + 1
    /\ node = nullptr
    /\ search = Idle

Write == (\E new \in ListKeys, height \in 1 .. MaxHeight : ListInsert(new, height)) \/ SetNext
Read == ListSeek \/ ListSeekToLast \/ StepBack \/ ListSeekToFirst \/ StepForward \/ Load \/ Return

ListNext == Write \/ Read

ListSpec == ListInit /\ [][ListNext]_listVars
-----------------------------------------------------------------------------
(* A reader never comes to a node whose key it may see uninitialised, and  *)
(* never follows a link nobody has set: a node is published level by level *)
(* from below, each with a barrier, after its own link is set.             *)
ReadsInitialised ==
    /\ \A n \in {node} \cup (IF "x" \in DOMAIN search THEN {search.x} ELSE {}) :
          /\ n # garbage
          /\ n \in ListKeys => StoredAt(<<n, key>>, view) # {}

(* No reader misses a node it could be sure of when its operation began,   *)
(* and none finds a node on the wrong side of its target.                  *)
Sure == {k \in ListKeys : \E i \in 1 .. search.from : stores[i].to = k /\ stores[i].at[2] = 0}
FindsWhatIsThere ==
    search.op = "ended" =>
        CASE search.by = "FindGreaterOrEqual" -> node >= search.target /\ ~\E k \in Sure : search.target <= k /\ k < node
          [] search.by = "FindLessThan" -> search.x < search.target /\ ~\E k \in Sure : search.x < k /\ k < search.target
          [] search.by = "FindLast" -> ~\E k \in Sure : search.x < k
          [] search.by = "Next" -> node > search.x /\ ~\E k \in Sure : search.x < k /\ k < node

(* Between two insertions every level is sorted, ends, and holds what the  *)
(* level above holds: the list the next search descends.  A node's link    *)
(* leads to the next of its level, so that from head one comes to each.    *)
LevelsAreSorted ==
    insert = NoInsert =>
        \A l \in Levels :
           /\ \A n \in Linked(l) \cup {head} : At(n, l) = Min({k \in Linked(l) : k > n} \cup {nullptr})
           /\ l > 0 => Linked(l) \subseteq Linked(l - 1)

(* The list is in order, and a reader sees it so at any time.              *)
ReadersAreSafe == ReadsInitialised /\ FindsWhatIsThere /\ LevelsAreSorted
=============================================================================
