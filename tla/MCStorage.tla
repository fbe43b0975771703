----------------------------- MODULE MCStorage ------------------------------
(***************************************************************************)
(* Instances of the parts of leveldb that share no state here, for TLC:    *)
(* the write-ahead log, the files and their recovery, the levels, the      *)
(* cache of open tables, the skip list of a memtable, an iterator, the     *)
(* lock on a database and the limits on open files.  One run checks them   *)
(* all: a behaviour moves one part and leaves the others as they were, so  *)
(* the states are those of the parts side by side.                         *)
(*                                                                         *)
(* The log has blocks of five units with headers of two, so that a record  *)
(* fills a block, leaves a trailer or spans three blocks.                  *)
(***************************************************************************)
EXTENDS LogFile, Recovery, Levels, TableCache, SkipList, Iterators, FileLock, Limiter

CONSTANT Parts    \* the parts that are checked

FewSizes == {0, 1, 4, 7}
HashThree == <<1, 2, 3>>       \* in one slot of one, in two and one of two
FirstTwo == <<"p", "p", "q">>
Symmetry == Permutations(Clients)

(* Where no iterator is looked at, there is no database for one.           *)
NoIterator == /\ memtable = {} /\ blocks = << >> /\ damaged = {} /\ sequence = 0
              /\ iter = NewIterator /\ at = 0

VARIABLE part    \* the part that moves

vars == <<logVars, recoveryVars, levelsVars, cacheVars, listVars, iterVars, lockVars, limiterVars, part>>

Init == /\ part \in Parts
        /\ LogInit /\ RecoveryInit /\ LevelsInit /\ CacheInit /\ ListInit /\ LockInit /\ LimiterInit
        /\ IF part = "iterator" THEN IterInit ELSE NoIterator
Next == \/ /\ part = "log" /\ LogNext
           /\ UNCHANGED <<recoveryVars, levelsVars, cacheVars, listVars, iterVars, lockVars, limiterVars, part>>
        \/ /\ part = "files" /\ RecoveryNext
           /\ UNCHANGED <<logVars, levelsVars, cacheVars, listVars, iterVars, lockVars, limiterVars, part>>
        \/ /\ part = "levels" /\ LevelsNext
           /\ UNCHANGED <<logVars, recoveryVars, cacheVars, listVars, iterVars, lockVars, limiterVars, part>>
        \/ /\ part = "cache" /\ CacheNext
           /\ UNCHANGED <<logVars, recoveryVars, levelsVars, listVars, iterVars, lockVars, limiterVars, part>>
        \/ /\ part = "list" /\ ListNext
           /\ UNCHANGED <<logVars, recoveryVars, levelsVars, cacheVars, iterVars, lockVars, limiterVars, part>>
        \/ /\ part = "iterator" /\ IterNext
           /\ UNCHANGED <<logVars, recoveryVars, levelsVars, cacheVars, listVars, lockVars, limiterVars, part>>
        \/ /\ part = "lock" /\ LockNext
           /\ UNCHANGED <<logVars, recoveryVars, levelsVars, cacheVars, listVars, iterVars, limiterVars, part>>
        \/ /\ part = "limiter" /\ LimiterNext
           /\ UNCHANGED <<logVars, recoveryVars, levelsVars, cacheVars, listVars, iterVars, lockVars, part>>

Spec == Init /\ [][Next]_vars
=============================================================================
