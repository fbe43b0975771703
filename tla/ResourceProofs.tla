--------------------------- MODULE ResourceProofs ---------------------------
(***************************************************************************)
(* Proofs about the resources that the threads of a process share under a  *)
(* leveldb, for any threads, processes, limits, tables, capacity and hash: *)
(* the lock on the database (FileLock), the limits on open files and maps  *)
(* (Limiter) and the cache of open tables (TableCache).                    *)
(***************************************************************************)
EXTENDS FileLock, Limiter, TableCache, FiniteSetTheorems, SequenceTheorems, TLAPS

(***************************************************************************)
(* The lock.  The table of names keeps the threads of a process apart and  *)
(* nothing is left behind; and where each process has one thread and       *)
(* nobody calls DestroyDB, the fcntl lock keeps the processes apart.       *)
(***************************************************************************)
(* The states in which a thread's name is in the table.                    *)
ListedStates == Holding \cup {"listed", "refused", "unlocked", "stuck"}
Listed(t) == thread[t].pc \in ListedStates

(* A process in the table is there for exactly one of its threads, and it  *)
(* has a lock for a thread that holds or is stuck with it.                 *)
TableInv ==
    /\ LockTypeOK
    /\ \A t \in Openers : Listed(t) => ProcessOf[t] \in locks
    /\ \A t, u \in Openers : Listed(t) /\ Listed(u) /\ ProcessOf[t] = ProcessOf[u] => t = u
    /\ \A p \in locks : \E t \in Openers : Listed(t) /\ ProcessOf[t] = p
    /\ \A i \in Inodes : held[i] # Nobody =>
          \E t \in Openers : /\ thread[t].pc \in Holding \cup {"stuck"}
                            /\ ProcessOf[t] = held[i] /\ thread[t].file = i
-----------------------------------------------------------------------------
(* Where a thread goes, the others stay.                                   *)
LEMMA Others ==
  ASSUME LockTypeOK, NEW t \in Openers, NEW pc, ThreadGoes(t, pc)
  PROVE  /\ thread'[t].pc = pc /\ thread'[t].file = thread[t].file /\ thread'[t].destroys = thread[t].destroys
         /\ \A u \in Openers \ {t} : thread'[u] = thread[u]
BY DEF LockTypeOK, ThreadGoes, ThreadStates

LEMMA OthersAtEnd ==
  ASSUME LockTypeOK, NEW t \in Openers, NEW pc, Ends(t, pc)
  PROVE  /\ thread'[t].pc = pc /\ thread'[t].file = NoFile /\ thread'[t].destroys = FALSE
         /\ \A u \in Openers \ {t} : thread'[u] = thread[u]
BY DEF LockTypeOK, Ends

LEMMA ClosingReleases ==
  ASSUME LockTypeOK, NEW t \in Openers, Close(t)
  PROVE  /\ held' \in [Inodes -> Processes \cup {Nobody}]
         /\ \A i \in Inodes : held'[i] = held[i] \/ (held'[i] = Nobody /\ held[i] = ProcessOf[t])
BY DEF LockTypeOK, Close

(* A step of a thread keeps the type of what is known of threads.          *)
LEMMA GoesType ==
  ASSUME LockTypeOK, NEW t \in Openers, NEW pc, ThreadGoes(t, pc), [thread[t] EXCEPT !.pc = pc] \in ThreadStates
  PROVE  thread' \in [Openers -> ThreadStates]
BY DEF LockTypeOK, ThreadGoes

LEMMA EndsType ==
  ASSUME LockTypeOK, NEW t \in Openers, NEW pc, Ends(t, pc), pc \in {"idle", "closed"}
  PROVE  thread' \in [Openers -> ThreadStates]
<1>1. [pc |-> pc, file |-> NoFile, destroys |-> FALSE] \in ThreadStates
  BY DEF ThreadStates
<1>2. QED
  BY <1>1 DEF LockTypeOK, Ends

(* Every variable of FileLock keeps its type.                              *)
LEMMA TypeStep == LockTypeOK /\ [LockNext]_lockVars => LockTypeOK'
<1> SUFFICES ASSUME LockTypeOK, [LockNext]_lockVars PROVE LockTypeOK'
  OBVIOUS
<1>1. \A t \in Openers : /\ ProcessOf[t] \in Processes
                         /\ \A pc \in {"opened", "listed", "refused", "holds", "destroys", "unlocked", "removed", "stuck"} :
                               [thread[t] EXCEPT !.pc = pc] \in ThreadStates
  BY FileLockAssumption DEF LockTypeOK, ThreadStates
<1>2. ASSUME NEW t \in Openers, LockFile(t) PROVE LockTypeOK'
  <2>2. ASSUME NEW d \in BOOLEAN, OpenFile(t, d) PROVE LockTypeOK'
    <3>1. name' \in Inodes \cup {NoFile}
      BY <2>2 DEF OpenFile, Unused, LockTypeOK
    <3>2. [pc |-> "opened", file |-> name', destroys |-> d] \in ThreadStates
      BY <3>1 DEF ThreadStates
    <3>3. QED
      BY <2>2, <3>1, <3>2 DEF OpenFile, LockTypeOK
  <2>3. CASE ListName(t)
    BY <1>1, <2>3, GoesType DEF ListName, LockTypeOK
  <2>4. CASE AlreadyHeld(t)
    BY <2>4, EndsType, ClosingReleases DEF AlreadyHeld, Leaves, LockTypeOK
  <2>5. CASE Lock(t)
    BY <1>1, <2>5, GoesType DEF Lock, LockTypeOK
  <2>6. CASE Refused(t)
    BY <1>1, <2>6, GoesType, ClosingReleases DEF Refused, LockTypeOK
  <2>7. CASE RemoveRefused(t)
    BY <2>7, EndsType DEF RemoveRefused, Leaves, Unlisted, LockTypeOK
  <2>8. QED
    BY <1>2, <2>2, <2>3, <2>4, <2>5, <2>6, <2>7 DEF LockFile
<1>3. ASSUME NEW t \in Openers, UnlockFile(t) PROVE LockTypeOK'
  <2>1. CASE Unlock(t)
    BY <1>1, <2>1, GoesType DEF Unlock, LockTypeOK
  <2>2. CASE UnlockFails(t)
    BY <1>1, <2>2, GoesType DEF UnlockFails, LockTypeOK
  <2>3. CASE RemoveName(t)
    BY <1>1, <2>3, GoesType DEF RemoveName, LockTypeOK
  <2>4. CASE CloseFile(t)
    BY <2>4, EndsType, ClosingReleases DEF CloseFile, Leaves, LockTypeOK
  <2>5. QED
    BY <1>3, <2>1, <2>2, <2>3, <2>4 DEF UnlockFile
<1>4. ASSUME NEW t \in Openers, DeleteLock(t) PROVE LockTypeOK'
  BY <1>4, EndsType DEF DeleteLock, Leaves, LockTypeOK
<1>5. ASSUME NEW p \in Processes, Exit(p) PROVE LockTypeOK'
  <2>1. [pc |-> "idle", file |-> NoFile, destroys |-> FALSE] \in ThreadStates
    BY DEF ThreadStates
  <2>2. QED
    BY <1>5, <2>1 DEF Exit, LockTypeOK
<1>6. CASE UNCHANGED lockVars
  BY <1>6 DEF lockVars, LockTypeOK
<1>7. QED
  BY <1>2, <1>3, <1>4, <1>5, <1>6 DEF LockNext
-----------------------------------------------------------------------------
LEMMA TableStep == TableInv /\ [LockNext]_lockVars => TableInv'
<1> SUFFICES ASSUME TableInv, [LockNext]_lockVars PROVE TableInv'
  OBVIOUS
<1>1. LockTypeOK /\ LockTypeOK'
  BY TypeStep DEF TableInv
<1>2. \A t \in Openers : ProcessOf[t] \in Processes /\ ProcessOf[t] # Nobody
  BY FileLockAssumption DEF Nobody
<1>3. ASSUME NEW t \in Openers, LockFile(t) PROVE TableInv'
  <2>1. ASSUME NEW d \in BOOLEAN, OpenFile(t, d) PROVE TableInv'
    <3>1. /\ thread'[t].pc = "opened" /\ thread[t].pc = "idle" /\ locks' = locks /\ held' = held
          /\ \A u \in Openers \ {t} : thread'[u] = thread[u]
      BY <1>1, <2>1 DEF OpenFile, LockTypeOK
    <3>2. QED
      BY <1>1, <3>1 DEF TableInv, Listed, ListedStates, Holding
  <2>2. CASE ListName(t)
    <3>1. /\ thread'[t].pc = "listed" /\ thread[t].pc = "opened" /\ held' = held
          /\ locks' = locks \cup {ProcessOf[t]} /\ ProcessOf[t] \notin locks
          /\ \A u \in Openers \ {t} : thread'[u] = thread[u]
      BY <1>1, <2>2, Others DEF ListName, MayList
    <3>2. QED
      BY <1>1, <3>1 DEF TableInv, Listed, ListedStates, Holding
  <2>3. CASE AlreadyHeld(t)
    <3>1. /\ thread'[t].pc = "idle" /\ thread[t].pc = "opened" /\ locks' = locks
          /\ \A i \in Inodes : held'[i] = held[i] \/ held'[i] = Nobody
          /\ \A u \in Openers \ {t} : thread'[u] = thread[u]
      BY <1>1, <2>3, OthersAtEnd, ClosingReleases DEF AlreadyHeld, Leaves
    <3>2. QED
      BY <1>1, <3>1 DEF TableInv, Listed, ListedStates, Holding
  <2>4. CASE Lock(t)
    <3>1. /\ thread'[t].pc \in Holding /\ thread[t].pc = "listed" /\ locks' = locks
          /\ thread'[t].file = thread[t].file
          /\ \A i \in Inodes : held'[i] = held[i] \/ (held'[i] = ProcessOf[t] /\ i = thread[t].file)
          /\ \A u \in Openers \ {t} : thread'[u] = thread[u]
      BY <1>1, <2>4, Others DEF Lock, LockTypeOK, Holding
    <3>2. QED
      BY <1>1, <3>1 DEF TableInv, Listed, ListedStates, Holding
  <2>5. CASE Refused(t)
    <3>1. /\ thread'[t].pc = "refused" /\ thread[t].pc = "listed" /\ locks' = locks
          /\ \A i \in Inodes : held'[i] = held[i] \/ held'[i] = Nobody
          /\ \A u \in Openers \ {t} : thread'[u] = thread[u]
      BY <1>1, <2>5, Others, ClosingReleases DEF Refused
    <3>2. QED
      BY <1>1, <3>1 DEF TableInv, Listed, ListedStates, Holding
  <2>6. CASE RemoveRefused(t)
    <3>1. /\ thread'[t].pc = "idle" /\ thread[t].pc = "refused" /\ locks' = locks \ {ProcessOf[t]} /\ held' = held
          /\ \A u \in Openers \ {t} : thread'[u] = thread[u]
      BY <1>1, <2>6, OthersAtEnd DEF RemoveRefused, Leaves, Unlisted
    <3>2. QED
      BY <1>1, <3>1 DEF TableInv, Listed, ListedStates, Holding
  <2>7. QED
    BY <1>3, <2>1, <2>2, <2>3, <2>4, <2>5, <2>6 DEF LockFile
<1>4. ASSUME NEW t \in Openers, UnlockFile(t) PROVE TableInv'
  <2>1. CASE Unlock(t)
    <3>1. /\ thread'[t].pc = "unlocked" /\ thread[t].pc \in Holding /\ locks' = locks
          /\ held' = [held EXCEPT ![thread[t].file] = IF @ = ProcessOf[t] THEN Nobody ELSE @]
          /\ \A u \in Openers \ {t} : thread'[u] = thread[u]
      BY <1>1, <2>1, Others DEF Unlock
    <3>2. \A i \in Inodes : held'[i] = held[i] \/ held'[i] = Nobody
      BY <1>1, <3>1 DEF LockTypeOK
    <3>3. \A i \in Inodes : held[i] = ProcessOf[t] => held'[i] = Nobody
      BY <1>1, <1>2, <3>1 DEF TableInv, Listed, ListedStates, Holding, LockTypeOK
    <3>4. QED
      BY <1>1, <3>1, <3>2, <3>3 DEF TableInv, Listed, ListedStates, Holding
  <2>2. CASE UnlockFails(t)
    <3>1. /\ thread'[t].pc = "stuck" /\ thread[t].pc \in Holding /\ locks' = locks /\ held' = held
          /\ thread'[t].file = thread[t].file
          /\ \A u \in Openers \ {t} : thread'[u] = thread[u]
      BY <1>1, <2>2, Others DEF UnlockFails
    <3>2. QED
      BY <1>1, <3>1 DEF TableInv, Listed, ListedStates, Holding
  <2>3. CASE RemoveName(t)
    <3>1. /\ thread'[t].pc = "removed" /\ thread[t].pc = "unlocked" /\ locks' = locks \ {ProcessOf[t]} /\ held' = held
          /\ \A u \in Openers \ {t} : thread'[u] = thread[u]
      BY <1>1, <2>3, Others DEF RemoveName
    <3>2. QED
      BY <1>1, <3>1 DEF TableInv, Listed, ListedStates, Holding
  <2>4. CASE CloseFile(t)
    <3>1. /\ thread'[t].pc \in {"idle", "closed"} /\ thread[t].pc = "removed" /\ locks' = locks
          /\ \A i \in Inodes : held'[i] = held[i] \/ held'[i] = Nobody
          /\ \A u \in Openers \ {t} : thread'[u] = thread[u]
      BY <1>1, <2>4, OthersAtEnd, ClosingReleases DEF CloseFile, Leaves
    <3>2. QED
      BY <1>1, <3>1 DEF TableInv, Listed, ListedStates, Holding
  <2>5. QED
    BY <1>4, <2>1, <2>2, <2>3, <2>4 DEF UnlockFile
<1>5. ASSUME NEW t \in Openers, DeleteLock(t) PROVE TableInv'
  <2>1. /\ thread'[t].pc = "idle" /\ thread[t].pc = "closed" /\ locks' = locks /\ held' = held
        /\ \A u \in Openers \ {t} : thread'[u] = thread[u]
    BY <1>1, <1>5, OthersAtEnd DEF DeleteLock, Leaves
  <2>2. QED
    BY <1>1, <2>1 DEF TableInv, Listed, ListedStates, Holding
<1>6. ASSUME NEW p \in Processes, Exit(p) PROVE TableInv'
  <2>1. /\ \A t \in Openers : IF ProcessOf[t] = p THEN thread'[t].pc = "idle" ELSE thread'[t] = thread[t]
        /\ \A i \in Inodes : held'[i] = IF held[i] = p THEN Nobody ELSE held[i]
        /\ locks' = locks \ {p}
    BY <1>6 DEF Exit
  <2>2. QED
    BY <1>1, <1>2, <2>1 DEF TableInv, Listed, ListedStates, Holding
<1>7. CASE UNCHANGED lockVars
  BY <1>1, <1>7 DEF lockVars, TableInv, Listed
<1>8. QED
  BY <1>3, <1>4, <1>5, <1>6, <1>7 DEF LockNext

(* Every variable of FileLock keeps its type, and the table and the locks  *)
(* match what the threads are doing.                                       *)
THEOREM LockTableInductive == LockSpec => []TableInv
<1>1. LockInit => TableInv
  BY FileLockAssumption DEF LockInit, TableInv, LockTypeOK, ThreadStates, Listed, ListedStates, Holding, Nobody
<1>2. TableInv /\ [LockNext]_lockVars => TableInv'
  BY TableStep
<1>3. QED
  BY <1>1, <1>2, PTL DEF LockSpec

(* The threads of a process never have the database open together, even    *)
(* after the process has lost its fcntl lock.                              *)
THEOREM OneHolder == LockSpec => []OneHolderPerProcess
<1>1. TableInv => OneHolderPerProcess
  BY DEF TableInv, OneHolderPerProcess, HoldsLock, Listed, ListedStates
<1>2. QED
  BY <1>1, LockTableInductive, PTL

(* Whatever failed on the way, a process whose attempts have ended has no  *)
(* lock and no name in its table.                                          *)
THEOREM NothingLeft == LockSpec => []NothingIsLeft
<1>1. TableInv => NothingIsLeft
  BY FileLockAssumption DEF TableInv, NothingIsLeft, Quiet, Listed, ListedStates, Holding, Nobody
<1>2. QED
  BY <1>1, LockTableInductive, PTL
-----------------------------------------------------------------------------
(* Where each process has one thread and nobody destroys the database, all *)
(* descriptors are of one inode and only its holder closes one of a        *)
(* process with the lock.                                                  *)
Alone == Destroyers = {} /\ \A t, u \in Openers : ProcessOf[t] = ProcessOf[u] => t = u

LockStates == {"holds", "stuck"}
AloneInv ==
    /\ LockTypeOK /\ Alone
    /\ \A t \in Openers : thread[t].destroys = FALSE /\ thread[t].pc \notin {"destroys", "closed"}
    /\ \A t \in Openers : thread[t].pc # "idle" => thread[t].file = name /\ name # NoFile
    /\ \A t \in Openers : thread[t].pc \in LockStates => held[name] = ProcessOf[t]

LEMMA AloneStep == AloneInv /\ [LockNext]_lockVars => AloneInv'
<1> SUFFICES ASSUME AloneInv, [LockNext]_lockVars PROVE AloneInv'
  OBVIOUS
<1>1. LockTypeOK /\ LockTypeOK' /\ Alone
  BY TypeStep DEF AloneInv
<1>2. \A t \in Openers : ProcessOf[t] \in Processes /\ ProcessOf[t] # Nobody
  BY FileLockAssumption DEF Nobody
<1>3. ASSUME NEW t \in Openers, name' = name,
             \A u \in Openers \ {t} : thread'[u] = thread[u],
             \A i \in Inodes : held'[i] = held[i] \/ held[i] \in {Nobody, ProcessOf[t]},
             thread'[t].destroys = FALSE, thread'[t].pc \notin {"destroys", "closed"},
             thread'[t].pc # "idle" => thread'[t].file = name /\ name # NoFile,
             thread'[t].pc \in LockStates => held'[name] = ProcessOf[t]
      PROVE  AloneInv'
  <2>1. ASSUME NEW u \in Openers \ {t}, thread[u].pc \in LockStates PROVE held'[name] = ProcessOf[u]
    <3>1. held[name] = ProcessOf[u] /\ name \in Inodes
      BY <1>1, <2>1 DEF AloneInv, LockStates, LockTypeOK
    <3>2. ProcessOf[u] # ProcessOf[t] /\ ProcessOf[u] # Nobody
      BY <1>1, <1>2 DEF Alone
    <3>3. QED
      BY <1>3, <3>1, <3>2
  <2>2. QED
    BY <1>1, <1>3, <2>1 DEF AloneInv
<1>4. ASSUME NEW t \in Openers, LockFile(t) PROVE AloneInv'
  <2>1. CASE OpenFile(t, FALSE)
    <3>1. /\ thread[t].pc = "idle" /\ held' = held
          /\ thread'[t].pc = "opened" /\ thread'[t].file = name' /\ thread'[t].destroys = FALSE
          /\ \A u \in Openers \ {t} : thread'[u] = thread[u]
          /\ name # NoFile => name' = name
          /\ name' # NoFile
      BY <1>1, <2>1 DEF OpenFile, LockTypeOK, Unused, Inodes, NoFile
    <3>2. QED
      BY <1>1, <3>1 DEF AloneInv, LockStates
  <2>2. CASE ListName(t)
    BY <1>1, <1>3, <2>2, Others DEF ListName, AloneInv, LockStates
  <2>3. CASE AlreadyHeld(t)
    <3>1. /\ name' = name /\ thread'[t].pc = "idle" /\ thread'[t].destroys = FALSE
          /\ \A u \in Openers \ {t} : thread'[u] = thread[u]
          /\ \A i \in Inodes : held'[i] = held[i] \/ held[i] \in {Nobody, ProcessOf[t]}
      BY <1>1, <2>3, OthersAtEnd, ClosingReleases DEF AlreadyHeld, Leaves
    <3>2. QED
      BY <1>3, <3>1 DEF LockStates
  <2>4. CASE Lock(t)
    <3>1. /\ held[name] \in {Nobody, ProcessOf[t]} /\ name \in Inodes
          /\ held' = [held EXCEPT ![name] = ProcessOf[t]] /\ name' = name
          /\ ThreadGoes(t, "holds")
      BY <1>1, <2>4 DEF Lock, MayLock, AloneInv, LockTypeOK
    <3>2. held'[name] = ProcessOf[t] /\ \A i \in Inodes : held'[i] = held[i] \/ held[i] \in {Nobody, ProcessOf[t]}
      BY <1>1, <3>1 DEF LockTypeOK
    <3>3. /\ thread'[t].pc = "holds" /\ thread'[t].file = thread[t].file /\ thread'[t].destroys = thread[t].destroys
          /\ \A u \in Openers \ {t} : thread'[u] = thread[u]
      BY <1>1, <3>1, Others
    <3>4. thread[t].file = name /\ name # NoFile /\ thread[t].destroys = FALSE
      BY <2>4 DEF Lock, AloneInv
    <3>5. QED
      BY <1>3, <3>1, <3>2, <3>3, <3>4
  <2>5. CASE Refused(t)
    <3>1. ThreadGoes(t, "refused") /\ Close(t) /\ name' = name /\ thread[t].file = name /\ name # NoFile /\ thread[t].destroys = FALSE
      BY <2>5 DEF Refused, AloneInv
    <3>2. /\ thread'[t].pc = "refused" /\ thread'[t].destroys = FALSE /\ thread'[t].file = name
          /\ \A u \in Openers \ {t} : thread'[u] = thread[u]
          /\ \A i \in Inodes : held'[i] = held[i] \/ held[i] \in {Nobody, ProcessOf[t]}
      BY <1>1, <3>1, Others, ClosingReleases
    <3>3. QED
      BY <1>3, <3>1, <3>2 DEF LockStates
  <2>6. CASE RemoveRefused(t)
    <3>1. /\ name' = name /\ held' = held /\ thread'[t].pc = "idle" /\ thread'[t].destroys = FALSE
          /\ \A u \in Openers \ {t} : thread'[u] = thread[u]
      BY <1>1, <2>6, OthersAtEnd DEF RemoveRefused, Leaves
    <3>2. QED
      BY <1>3, <3>1 DEF LockStates
  <2>7. QED
    BY <1>1, <1>4, <2>1, <2>2, <2>3, <2>4, <2>5, <2>6 DEF LockFile, Alone
<1>5. ASSUME NEW t \in Openers, UnlockFile(t) PROVE AloneInv'
  <2>1. CASE Unlock(t)
    <3>1. \A i \in Inodes : held'[i] = held[i] \/ held[i] \in {Nobody, ProcessOf[t]}
      BY <1>1, <2>1 DEF Unlock, LockTypeOK
    <3>2. /\ name' = name /\ thread'[t].pc = "unlocked" /\ thread'[t].destroys = FALSE
          /\ thread'[t].file = name /\ name # NoFile
          /\ \A u \in Openers \ {t} : thread'[u] = thread[u]
      BY <1>1, <2>1, Others DEF Unlock, AloneInv, Holding
    <3>3. QED
      BY <1>3, <3>1, <3>2 DEF LockStates
  <2>2. CASE UnlockFails(t)
    BY <1>1, <1>3, <2>2, Others DEF UnlockFails, AloneInv, LockStates, Holding
  <2>3. CASE RemoveName(t)
    <3>1. /\ name' = name /\ held' = held /\ thread'[t].pc = "removed" /\ thread'[t].destroys = FALSE
          /\ thread'[t].file = name /\ name # NoFile
          /\ \A u \in Openers \ {t} : thread'[u] = thread[u]
      BY <1>1, <2>3, Others DEF RemoveName, AloneInv
    <3>2. QED
      BY <1>3, <3>1 DEF LockStates
  <2>4. CASE CloseFile(t)
    <3>1. Ends(t, "idle") /\ Close(t) /\ name' = name
      BY <2>4 DEF CloseFile, Leaves, AloneInv
    <3>2. /\ thread'[t].pc = "idle" /\ thread'[t].destroys = FALSE
          /\ \A u \in Openers \ {t} : thread'[u] = thread[u]
          /\ \A i \in Inodes : held'[i] = held[i] \/ held[i] \in {Nobody, ProcessOf[t]}
      BY <1>1, <3>1, OthersAtEnd, ClosingReleases
    <3>3. QED
      BY <1>3, <3>1, <3>2 DEF LockStates
  <2>5. QED
    BY <1>5, <2>1, <2>2, <2>3, <2>4 DEF UnlockFile
<1>6. ASSUME NEW t \in Openers, DeleteLock(t) PROVE AloneInv'
  BY <1>6 DEF DeleteLock, AloneInv
<1>7. ASSUME NEW p \in Processes, Exit(p) PROVE AloneInv'
  <2>1. /\ \A t \in Openers : IF ProcessOf[t] = p THEN thread'[t].pc = "idle" /\ thread'[t].destroys = FALSE
                             ELSE thread'[t] = thread[t]
        /\ \A i \in Inodes : held'[i] = IF held[i] = p THEN Nobody ELSE held[i]
        /\ name' = name
    BY <1>7 DEF Exit
  <2>2. ASSUME NEW t \in Openers, thread'[t].pc \in LockStates PROVE held'[name] = ProcessOf[t]
    <3>1. thread'[t] = thread[t] /\ ProcessOf[t] # p
      BY <2>1, <2>2 DEF LockStates
    <3>2. held[name] = ProcessOf[t] /\ name \in Inodes
      BY <1>1, <2>2, <3>1 DEF AloneInv, LockStates, LockTypeOK
    <3>3. QED
      BY <2>1, <3>1, <3>2
  <2>3. QED
    BY <1>1, <2>1, <2>2 DEF AloneInv
<1>8. CASE UNCHANGED lockVars
  BY <1>1, <1>8 DEF lockVars, AloneInv
<1>9. QED
  BY <1>4, <1>5, <1>6, <1>7, <1>8 DEF LockNext

(* The lock file keeps the processes apart as long as none of them tries   *)
(* twice and nobody calls DestroyDB.                                       *)
THEOREM ProcessesExclude == Alone /\ LockSpec => []HeldByOneProcess
<1>1. Alone /\ LockInit => AloneInv
  BY FileLockAssumption DEF LockInit, AloneInv, LockTypeOK, ThreadStates, LockStates, Alone
<1>2. AloneInv /\ [LockNext]_lockVars => AloneInv'
  BY AloneStep
<1>3. AloneInv => HeldByOneProcess
  BY DEF AloneInv, HeldByOneProcess, HoldsLock, Holding, LockStates
<1>4. QED
  BY <1>1, <1>2, <1>3, PTL DEF LockSpec

(* Within a process the table of locked names decides, and an unlocked     *)
(* lock leaves nothing behind.                                             *)
THEOREM LockKept == LockSpec => []LockIsKept
<1>1. LockSpec => []LockTypeOK
  <2>1. TableInv => LockTypeOK
    BY DEF TableInv
  <2>2. QED
    BY <2>1, LockTableInductive, PTL
<1>2. LockTypeOK /\ OneHolderPerProcess /\ NothingIsLeft => LockIsKept
  BY DEF LockIsKept
<1>3. QED
  BY <1>1, <1>2, OneHolder, NothingLeft, PTL
-----------------------------------------------------------------------------
(***************************************************************************)
(* The limiters: the counters lose nothing, and no more is given out than  *)
(* there is.                                                               *)
(***************************************************************************)
LimiterStates == {"none", "opened", "maps", "refused map", "mapped", "unmapped", "permanent",
           "refused descriptor", "temporary"}

(* What a thread has decremented is what the counter lacks; with it, what  *)
(* is given out stays within the limits.                                   *)
LimiterInv ==
    /\ acquires_allowed \in [Resources -> Int]
    /\ access \in [Threads -> LimiterStates]
    /\ NothingIsLost
    /\ WithinLimits
-----------------------------------------------------------------------------
(* A thread that moves is counted where it goes and no more where it was.  *)
LEMMA Counting ==
  ASSUME NEW f \in [Threads -> LimiterStates], NEW t \in Threads, NEW s \in LimiterStates, NEW S
  PROVE  LET before == {u \in Threads : f[u] \in S}
             after == {u \in Threads : [f EXCEPT ![t] = s][u] \in S}
         IN  /\ Cardinality(before) \in Nat /\ Cardinality(after) \in Nat
             /\ Cardinality(after) = Cardinality(before) + (IF s \in S THEN 1 ELSE 0)
                                                         - (IF f[t] \in S THEN 1 ELSE 0)
<1> DEFINE before == {u \in Threads : f[u] \in S}
           after == {u \in Threads : [f EXCEPT ![t] = s][u] \in S}
           rest == before \ {t}
<1>0. \A u \in Threads : [f EXCEPT ![t] = s][u] = IF u = t THEN s ELSE f[u]
  OBVIOUS
<1>1. IsFiniteSet(rest) /\ IsFiniteSet(before) /\ IsFiniteSet(after)
  BY FS_Subset, LimiterAssumption
<1>2. Cardinality(before) \in Nat /\ Cardinality(after) \in Nat /\ Cardinality(rest) \in Nat
  BY <1>1, FS_CardinalityType
<1>3. t \notin rest /\ before = rest \cup (IF f[t] \in S THEN {t} ELSE {})
  OBVIOUS
<1>4. after = rest \cup (IF s \in S THEN {t} ELSE {})
  <2>1. \A u \in Threads : u \in after <=> u \in rest \/ (u = t /\ s \in S)
    BY <1>0
  <2>2. after \subseteq Threads /\ rest \subseteq Threads
    OBVIOUS
  <2> HIDE DEF before, after, rest
  <2>3. QED
    BY <2>1, <2>2
<1> HIDE DEF before, after, rest
<1>5. Cardinality(rest \cup {t}) = Cardinality(rest) + 1 /\ rest \cup {} = rest
  BY <1>1, <1>3, FS_AddElement
<1>6. Cardinality(before) = Cardinality(rest) + (IF f[t] \in S THEN 1 ELSE 0)
  <2>1. CASE f[t] \in S
    <3>1. before = rest \cup {t}
      BY <1>3, <2>1
    <3>2. QED
      BY <1>2, <1>5, <2>1, <3>1
  <2>2. CASE f[t] \notin S
    <3>1. before = rest
      BY <1>3, <1>5, <2>2
    <3>2. QED
      BY <1>2, <2>2, <3>1
  <2>3. QED
    BY <2>1, <2>2
<1>7. Cardinality(after) = Cardinality(rest) + (IF s \in S THEN 1 ELSE 0)
  <2>1. CASE s \in S
    <3>1. after = rest \cup {t}
      BY <1>4, <2>1
    <3>2. QED
      BY <1>2, <1>5, <2>1, <3>1
  <2>2. CASE s \notin S
    <3>1. after = rest
      BY <1>4, <1>5, <2>2
    <3>2. QED
      BY <1>2, <2>2, <3>1
  <2>3. QED
    BY <2>1, <2>2
<1>8. Cardinality(after) = Cardinality(before) + (IF s \in S THEN 1 ELSE 0)
                                               - (IF f[t] \in S THEN 1 ELSE 0)
  BY <1>2, <1>6, <1>7
<1>9. QED
  BY <1>2, <1>8 DEF before, after

(* The same for the two counts of a resource.                              *)
LEMMA Moves ==
  ASSUME access \in [Threads -> LimiterStates], NEW t \in Threads, NEW s \in LimiterStates, FileGoes(t, s), NEW r \in Resources
  PROVE  /\ Holders(r) \in Nat /\ Counted(r) \in Nat
         /\ access' \in [Threads -> LimiterStates]
         /\ Holders(r)' = Holders(r) + (IF s \in HoldingStates(r) THEN 1 ELSE 0)
                                     - (IF access[t] \in HoldingStates(r) THEN 1 ELSE 0)
         /\ Counted(r)' = Counted(r) + (IF s \in CountedStates(r) THEN 1 ELSE 0)
                                     - (IF access[t] \in CountedStates(r) THEN 1 ELSE 0)
BY Counting DEF FileGoes, Holders, Counted, In

LEMMA HoldersAreCounted ==
  ASSUME NEW r \in Resources PROVE Holders(r) <= Counted(r)
<1>1. In(HoldingStates(r)) \subseteq In(CountedStates(r))
  BY DEF In, CountedStates
<1>2. IsFiniteSet(In(CountedStates(r)))
  BY FS_Subset, LimiterAssumption DEF In
<1>3. QED
  BY <1>1, <1>2, FS_Subset DEF Holders, Counted
-----------------------------------------------------------------------------
(* A step that neither takes nor returns anything.                         *)
LEMMA QuietStep ==
  ASSUME LimiterInv, NEW t \in Threads, NEW s \in LimiterStates, FileGoes(t, s), acquires_allowed' = acquires_allowed,
         \A r \in Resources : /\ s \in HoldingStates(r) <=> access[t] \in HoldingStates(r)
                              /\ s \in CountedStates(r) <=> access[t] \in CountedStates(r)
  PROVE  LimiterInv'
<1>1. ASSUME NEW r \in Resources
      PROVE  /\ Holders(r) \in Nat /\ Counted(r) \in Nat
             /\ Holders(r)' = Holders(r) /\ Counted(r)' = Counted(r) /\ access' \in [Threads -> LimiterStates]
  BY Moves DEF LimiterInv
<1>2. QED
  BY <1>1 DEF LimiterInv, NothingIsLost, WithinLimits, Resources, Limit

LEMMA AcquireStep ==
  ASSUME LimiterInv, NEW t \in Threads, NEW from, NEW r \in Resources, NEW got \in LimiterStates, NEW refused \in LimiterStates,
         LimiterAcquire(t, from, r, got, refused),
         got \in HoldingStates(r), refused \in CountedStates(r) \ HoldingStates(r),
         \A q \in Resources : from \notin CountedStates(q),
         \A q \in Resources \ {r} : {got, refused} \cap CountedStates(q) = {}
  PROVE  LimiterInv'
<1> DEFINE s == IF Allows(r) THEN got ELSE refused
<1>1. FileGoes(t, s) /\ s \in LimiterStates /\ access[t] = from /\ access \in [Threads -> LimiterStates]
  BY DEF LimiterAcquire, LimiterInv
<1>2. \A q \in Resources : HoldingStates(q) \subseteq CountedStates(q)
  BY DEF CountedStates
<1>3. /\ Holders(r) \in Nat /\ Counted(r) \in Nat /\ access' \in [Threads -> LimiterStates]
      /\ Holders(r)' = Holders(r) + (IF Allows(r) THEN 1 ELSE 0)
      /\ Counted(r)' = Counted(r) + 1
  BY <1>1, <1>2, Moves
<1>4. ASSUME NEW q \in Resources \ {r}
      PROVE  Holders(q)' = Holders(q) /\ Counted(q)' = Counted(q)
  <2>1. s \notin CountedStates(q) /\ from \notin CountedStates(q)
    OBVIOUS
  <2>2. Holders(q) \in Nat /\ Counted(q) \in Nat
    BY <1>1, Moves
  <2>3. QED
    BY <1>1, <1>2, <2>1, <2>2, Moves
<1>5. /\ acquires_allowed' \in [Resources -> Int]
      /\ acquires_allowed'[r] = acquires_allowed[r] - 1
      /\ \A q \in Resources \ {r} : acquires_allowed'[q] = acquires_allowed[q]
  BY DEF LimiterInv, LimiterAcquire
<1>6. \A q \in Resources : /\ Limit[q] \in Nat /\ acquires_allowed[q] = Limit[q] - Counted(q)
                          /\ Holders(q) <= Counted(q) /\ Holders(q) <= Limit[q]
  BY LimiterAssumption, HoldersAreCounted DEF LimiterInv, NothingIsLost, WithinLimits, Limit, Resources
<1>7. NothingIsLost'
  BY <1>3, <1>4, <1>5, <1>6 DEF NothingIsLost, Limit
<1>8. Holders(r)' <= Limit[r]
  BY <1>3, <1>6 DEF Allows
<1>9. WithinLimits'
  BY <1>4, <1>6, <1>8 DEF WithinLimits, Limit
<1>10. QED
  BY <1>3, <1>5, <1>7, <1>9 DEF LimiterInv

LEMMA ReleaseStep ==
  ASSUME LimiterInv, NEW t \in Threads, NEW from \in LimiterStates, NEW r \in Resources, NEW to \in LimiterStates,
         LimiterRelease(t, from, r, to), from \in CountedStates(r),
         \A q \in Resources : to \notin CountedStates(q),
         \A q \in Resources \ {r} : from \notin CountedStates(q)
  PROVE  LimiterInv'
<1>1. FileGoes(t, to) /\ access[t] = from /\ access \in [Threads -> LimiterStates]
  BY DEF LimiterRelease, LimiterInv
<1>2. \A q \in Resources : HoldingStates(q) \subseteq CountedStates(q)
  BY DEF CountedStates
<1>3. /\ Holders(r) \in Nat /\ Counted(r) \in Nat /\ access' \in [Threads -> LimiterStates]
      /\ Holders(r)' \in {Holders(r), Holders(r) - 1} /\ Counted(r)' = Counted(r) - 1
  BY <1>1, <1>2, Moves
<1>4. ASSUME NEW q \in Resources \ {r}
      PROVE  Holders(q)' = Holders(q) /\ Counted(q)' = Counted(q)
  <2>1. Holders(q) \in Nat /\ Counted(q) \in Nat
    BY <1>1, Moves
  <2>2. QED
    BY <1>1, <1>2, <2>1, Moves
<1>5. /\ acquires_allowed' \in [Resources -> Int]
      /\ acquires_allowed'[r] = acquires_allowed[r] + 1
      /\ \A q \in Resources \ {r} : acquires_allowed'[q] = acquires_allowed[q]
  BY DEF LimiterInv, LimiterRelease
<1>6. \A q \in Resources : Limit[q] \in Nat /\ acquires_allowed[q] = Limit[q] - Counted(q) /\ Holders(q) <= Limit[q]
  BY LimiterAssumption DEF LimiterInv, NothingIsLost, WithinLimits, Limit, Resources
<1>7. NothingIsLost'
  BY <1>3, <1>4, <1>5, <1>6 DEF NothingIsLost, Limit
<1>8. WithinLimits'
  BY <1>3, <1>4, <1>6 DEF WithinLimits, Limit
<1>9. QED
  BY <1>3, <1>5, <1>7, <1>8 DEF LimiterInv

LEMMA LimiterStep == LimiterInv /\ [LimiterNext]_limiterVars => LimiterInv'
<1> SUFFICES ASSUME LimiterInv, [LimiterNext]_limiterVars PROVE LimiterInv'
  OBVIOUS
<1> USE DEF LimiterStates, Resources, HoldingStates, CountedStates
<1>1. ASSUME NEW t \in Threads, OpenForReading(t) PROVE LimiterInv'
  BY <1>1, QuietStep DEF OpenForReading
<1>2. ASSUME NEW t \in Threads, AcquireMmap(t) PROVE LimiterInv'
  <2>1. LimiterAcquire(t, "opened", "mmap", "maps", "refused map")
    BY <1>2 DEF AcquireMmap
  <2>2. /\ \A q \in Resources : "opened" \notin CountedStates(q)
        /\ \A q \in Resources \ {"mmap"} : {"maps", "refused map"} \cap CountedStates(q) = {}
        /\ "maps" \in HoldingStates("mmap") /\ "refused map" \in CountedStates("mmap") \ HoldingStates("mmap")
    OBVIOUS
  <2>3. "maps" \in LimiterStates /\ "refused map" \in LimiterStates /\ "mmap" \in Resources
    OBVIOUS
  <2>4. QED
    BY <2>1, <2>2, <2>3, AcquireStep
<1>3. ASSUME NEW t \in Threads, RefuseMmap(t) PROVE LimiterInv'
  BY <1>3, ReleaseStep DEF RefuseMmap
<1>4. ASSUME NEW t \in Threads, AcquireFd(t) PROVE LimiterInv'
  <2>1. LimiterAcquire(t, "unmapped", "fd", "permanent", "refused descriptor")
    BY <1>4 DEF AcquireFd
  <2>2. /\ \A q \in Resources : "unmapped" \notin CountedStates(q)
        /\ \A q \in Resources \ {"fd"} : {"permanent", "refused descriptor"} \cap CountedStates(q) = {}
        /\ "permanent" \in HoldingStates("fd") /\ "refused descriptor" \in CountedStates("fd") \ HoldingStates("fd")
    OBVIOUS
  <2>3. "permanent" \in LimiterStates /\ "refused descriptor" \in LimiterStates /\ "fd" \in Resources
    OBVIOUS
  <2>4. QED
    BY <2>1, <2>2, <2>3, AcquireStep
<1>5. ASSUME NEW t \in Threads, RefuseFd(t) PROVE LimiterInv'
  BY <1>5, ReleaseStep DEF RefuseFd
<1>6. ASSUME NEW t \in Threads, Mmap(t) PROVE LimiterInv'
  <2>1. FileGoes(t, "mapped") /\ access[t] = "maps" /\ acquires_allowed' = acquires_allowed
    BY <1>6 DEF Mmap
  <2>2. QED
    BY <2>1, QuietStep
<1>7. ASSUME NEW t \in Threads, MmapFails(t) PROVE LimiterInv'
  BY <1>7, ReleaseStep DEF MmapFails
<1>8. ASSUME NEW t \in Threads, DeleteMapped(t) PROVE LimiterInv'
  BY <1>8, ReleaseStep DEF DeleteMapped
<1>9. ASSUME NEW t \in Threads, DeletePermanent(t) PROVE LimiterInv'
  BY <1>9, ReleaseStep DEF DeletePermanent
<1>10. ASSUME NEW t \in Threads, DeleteTemporary(t) PROVE LimiterInv'
  BY <1>10, QuietStep DEF DeleteTemporary
<1>11. CASE UNCHANGED limiterVars
  BY <1>11 DEF limiterVars, LimiterInv, NothingIsLost, WithinLimits, Holders, Counted, In
<1>12. QED
  BY <1>1, <1>2, <1>3, <1>4, <1>5, <1>6, <1>7, <1>8, <1>9, <1>10, <1>11 DEF LimiterNext

THEOREM LimiterInductive == LimiterSpec => []LimiterInv
<1>1. LimiterInit => LimiterInv
  <2> SUFFICES ASSUME LimiterInit PROVE LimiterInv
    OBVIOUS
  <2>1. ASSUME NEW r \in Resources PROVE Holders(r) = 0 /\ Counted(r) = 0
    <3>1. In(HoldingStates(r)) = {} /\ In(CountedStates(r)) = {}
      BY DEF LimiterInit, In, HoldingStates, CountedStates
    <3>2. QED
      BY <3>1, FS_EmptySet DEF Holders, Counted
  <2>2. Limit \in [Resources -> Nat] /\ acquires_allowed = Limit /\ access \in [Threads -> LimiterStates]
    BY LimiterAssumption DEF LimiterInit, Limit, LimiterStates
  <2>3. QED
    BY <2>1, <2>2 DEF LimiterInv, NothingIsLost, WithinLimits
<1>2. LimiterInv /\ [LimiterNext]_limiterVars => LimiterInv'
  BY LimiterStep
<1>3. QED
  BY <1>1, <1>2, PTL DEF LimiterSpec

(* However many threads race, no more files are mapped or keep their       *)
(* descriptor than allowed.                                                *)
THEOREM Limited == LimiterSpec => []WithinLimits
<1>1. LimiterInv => WithinLimits
  BY DEF LimiterInv
<1>2. QED
  BY <1>1, LimiterInductive, PTL

(* No way through NewRandomAccessFile and the destructors loses a resource.*)
THEOREM NothingLost == LimiterSpec => []NothingIsLost
<1>1. LimiterInv => NothingIsLost
  BY DEF LimiterInv
<1>2. QED
  BY <1>1, LimiterInductive, PTL

(* The limits hold, and every resource comes back.                         *)
THEOREM LimitsKept == LimiterSpec => []LimitsAreKept
<1>1. LimiterInv => LimitsAreKept
  BY DEF LimiterInv, LimitsAreKept
<1>2. QED
  BY <1>1, LimiterInductive, PTL
-----------------------------------------------------------------------------
(***************************************************************************)
(* The cache: whatever the clients do, in whatever order evictions come,   *)
(* the hash table, the references and the two lists stay consistent.       *)
(***************************************************************************)
(* What the cache is, whatever the clients do: the handles in the hash     *)
(* table, the references to each handle, the two lists.                    *)
CachedIn(c) == {a \in Addresses : c.entry[a].inCache}

Handles == [key : Tables \cup {None}, refs : Nat, inCache : BOOLEAN]
Caching == [entry : [Addresses -> Handles], buckets : Seq(SUBSET Addresses), elems : Nat,
            lru : Seq(Addresses), inUse : SUBSET Addresses, usage : Nat]
Shape(c) == c \in Caching /\ Len(c.buckets) > 0

Hashed(c, S) ==
    /\ S \subseteq Addresses /\ c.elems = Cardinality(S)
    /\ \A i \in DOMAIN c.buckets : c.buckets[i] = {a \in S : Slot(c.buckets, c.entry[a].key) = i}
    /\ \A a \in S : c.entry[a].key \in Tables
    /\ \A a, b \in S : c.entry[a].key = c.entry[b].key => a = b

RefsCounted(c, h) ==
    \A a \in Addresses :
        /\ c.entry[a] = Free => h[a] = 0
        /\ c.entry[a] # Free => /\ c.entry[a].key \in Tables /\ c.entry[a].refs > 0
                                /\ c.entry[a].refs = h[a] + (IF c.entry[a].inCache THEN 1 ELSE 0)

OnLists(c) ==
    /\ IsInjective(c.lru)
    /\ Range(c.lru) = {a \in CachedIn(c) : c.entry[a].refs = 1}
    /\ Caches => c.inUse = CachedIn(c) \ Range(c.lru)
    /\ ~Caches => CachedIn(c) = {}
    /\ c.usage = Cardinality(CachedIn(c))

Sound(c, h) == Shape(c) /\ Hashed(c, CachedIn(c)) /\ RefsCounted(c, h) /\ OnLists(c)

(* The same while a handle has left the hash table and not yet the cache.  *)
SoundBut(c, h, a) == /\ Shape(c) /\ Hashed(c, CachedIn(c) \ {a}) /\ RefsCounted(c, h) /\ OnLists(c)
                     /\ a \in CachedIn(c)

(* Whoever holds a handle keeps it as it is, and what is open was.         *)
KeepsHandles(c, d) == \A a \in Addresses : d.entry[a] # Free => c.entry[a] # Free /\ d.entry[a].key = c.entry[a].key
-----------------------------------------------------------------------------
(* Lists without repetition.                                               *)
LEMMA WithoutOne ==
  ASSUME NEW S, NEW list \in Seq(S), IsInjective(list), NEW a
  PROVE  /\ Without(list, a) \in Seq(S) /\ IsInjective(Without(list, a))
         /\ Range(Without(list, a)) = Range(list) \ {a}
<1>1. CASE a \notin Range(list)
  BY <1>1 DEF Without, Range
<1>2. CASE a \in Range(list)
  <2> DEFINE i == CHOOSE j \in DOMAIN list : list[j] = a
             l == SubSeq(list, 1, i - 1)
             r == SubSeq(list, i + 1, Len(list))
  <2>1. i \in 1 .. Len(list) /\ list[i] = a
    BY <1>2 DEF Range
  <2>2. Without(list, a) = l \o r
    BY <1>2 DEF Without
  <2> HIDE DEF i
  <2>3. /\ l \in Seq(S) /\ Len(l) = i - 1
        /\ \A k \in 1 .. i - 1 : l[k] = list[k]
    BY <2>1, SubSeqProperties
  <2>4. /\ r \in Seq(S) /\ Len(r) = Len(list) - i
        /\ \A k \in 1 .. Len(list) - i : r[k] = list[i + k]
    BY <2>1, SubSeqProperties
  <2> HIDE DEF l, r
  <2> DEFINE s == l \o r
             At(k) == IF k < i THEN k ELSE k + 1
  <2>5. /\ s \in Seq(S) /\ Len(s) = Len(list) - 1
        /\ \A k \in 1 .. Len(list) - 1 : At(k) \in 1 .. Len(list) /\ s[k] = list[At(k)]
    <3>1. s \in Seq(S) /\ Len(s) = Len(list) - 1
      BY <2>1, <2>3, <2>4, ConcatProperties
    <3>2. ASSUME NEW k \in 1 .. Len(list) - 1 PROVE s[k] = list[At(k)]
      <4>1. s[k] = IF k <= Len(l) THEN l[k] ELSE r[k - Len(l)]
        BY <2>1, <2>3, <2>4, <3>2, ConcatProperties
      <4>2. CASE k < i
        BY <2>1, <2>3, <4>1, <4>2
      <4>3. CASE ~ k < i
        <5>1. k - Len(l) = k - i + 1 /\ k - i + 1 \in 1 .. Len(list) - i
          BY <2>1, <2>3, <3>2, <4>3
        <5>2. r[k - i + 1] = list[i + (k - i + 1)]
          BY <2>4, <5>1
        <5>3. s[k] = r[k - i + 1] /\ i + (k - i + 1) = k + 1
          BY <2>1, <2>3, <4>1, <4>3, <5>1
        <5>4. QED
          BY <4>3, <5>2, <5>3
      <4>4. QED
        BY <4>2, <4>3
    <3>3. QED
      BY <2>1, <3>1, <3>2
  <2>6. DOMAIN s = 1 .. Len(list) - 1 /\ DOMAIN list = 1 .. Len(list)
    BY <2>5
  <2>7. \A k, m \in 1 .. Len(list) - 1 : (At(k) = At(m) => k = m) /\ At(k) # i
    BY <2>1
  <2>8. \A k \in 1 .. Len(list) : k # i => \E m \in 1 .. Len(list) - 1 : At(m) = k
    <3>1. ASSUME NEW k \in 1 .. Len(list), k # i PROVE \E m \in 1 .. Len(list) - 1 : At(m) = k
      <4>1. CASE k < i
        BY <2>1, <4>1
      <4>2. CASE k > i
        <5>1. k - 1 \in 1 .. Len(list) - 1 /\ At(k - 1) = k
          BY <2>1, <4>2
        <5>2. QED
          BY <5>1
      <4>3. QED
        BY <2>1, <3>1, <4>1, <4>2
    <3>2. QED
      BY <3>1
  <2> HIDE DEF s, At
  <2>9. IsInjective(s)
    BY <2>5, <2>6, <2>7 DEF IsInjective
  <2>10. ASSUME NEW x \in Range(s) PROVE x \in Range(list) \ {a}
    <3>1. PICK k \in 1 .. Len(list) - 1 : x = list[At(k)]
      BY <2>5, <2>6, <2>10 DEF Range
    <3>2. At(k) \in 1 .. Len(list) /\ At(k) # i
      BY <2>5, <2>7
    <3>3. QED
      BY <2>1, <2>6, <3>1, <3>2 DEF Range, IsInjective
  <2>11. ASSUME NEW x \in Range(list) \ {a} PROVE x \in Range(s)
    <3>1. PICK k \in 1 .. Len(list) : x = list[k] /\ k # i
      BY <2>1, <2>6, <2>11 DEF Range
    <3>2. PICK m \in 1 .. Len(list) - 1 : At(m) = k
      BY <2>8, <3>1
    <3>3. m \in DOMAIN s /\ s[m] = x
      BY <2>5, <2>6, <3>1, <3>2
    <3>4. QED
      BY <3>3 DEF Range
  <2>12. QED
    BY <2>2, <2>5, <2>9, <2>10, <2>11 DEF s
<1>3. QED
  BY <1>1, <1>2

LEMMA AppendOne ==
  ASSUME NEW S, NEW list \in Seq(S), IsInjective(list), NEW a \in S, a \notin Range(list)
  PROVE  /\ Append(list, a) \in Seq(S) /\ IsInjective(Append(list, a))
         /\ Range(Append(list, a)) = Range(list) \cup {a}
<1> DEFINE s == Append(list, a)
<1>1. /\ s \in Seq(S) /\ DOMAIN s = 1 .. Len(list) + 1 /\ DOMAIN list = 1 .. Len(list)
      /\ s[Len(list) + 1] = a /\ \A k \in 1 .. Len(list) : s[k] = list[k]
  OBVIOUS
<1> HIDE DEF s
<1>2. IsInjective(s)
  BY <1>1 DEF IsInjective, Range
<1>3. ASSUME NEW x PROVE x \in Range(s) <=> x \in Range(list) \cup {a}
  <2>1. ASSUME x \in Range(s) PROVE x \in Range(list) \cup {a}
    BY <1>1, <2>1 DEF Range
  <2>2. ASSUME x \in Range(list) PROVE x \in Range(s)
    BY <1>1, <2>2 DEF Range
  <2>3. a \in Range(s)
    BY <1>1 DEF Range
  <2>4. QED
    BY <2>1, <2>2, <2>3
<1>4. QED
  BY <1>1, <1>2, <1>3 DEF s

(* The n oldest are n.                                                     *)
LEMMA OldestOfList ==
  ASSUME NEW S, NEW list \in Seq(S), IsInjective(list), NEW n \in 0 .. Len(list)
  PROVE  /\ SubSeq(list, n + 1, Len(list)) \in Seq(S) /\ IsInjective(SubSeq(list, n + 1, Len(list)))
         /\ Range(SubSeq(list, n + 1, Len(list))) = Range(list) \ Range(SubSeq(list, 1, n))
         /\ Range(SubSeq(list, 1, n)) \subseteq Range(list)
         /\ IsFiniteSet(Range(SubSeq(list, 1, n))) /\ Cardinality(Range(SubSeq(list, 1, n))) = n
<1> DEFINE l == SubSeq(list, 1, n)
           r == SubSeq(list, n + 1, Len(list))
<1>1. l \in Seq(S) /\ Len(l) = n /\ \A k \in 1 .. n : l[k] = list[k]
  BY SubSeqProperties
<1>2. /\ r \in Seq(S) /\ Len(r) = Len(list) - n
      /\ \A k \in 1 .. Len(list) - n : r[k] = list[n + k]
  BY SubSeqProperties
<1>3. DOMAIN l = 1 .. n /\ DOMAIN r = 1 .. Len(list) - n /\ DOMAIN list = 1 .. Len(list)
  BY <1>1, <1>2
<1> HIDE DEF l, r
<1>4. IsInjective(r)
  <2>1. ASSUME NEW i \in DOMAIN r, NEW j \in DOMAIN r, r[i] = r[j] PROVE i = j
    <3>1. r[i] = list[n + i] /\ r[j] = list[n + j] /\ n + i \in DOMAIN list /\ n + j \in DOMAIN list
      BY <1>2, <1>3
    <3>2. n + i = n + j
      BY <2>1, <3>1 DEF IsInjective
    <3>3. QED
      BY <1>3, <3>2
  <2>2. QED
    BY <2>1 DEF IsInjective
<1>5. Range(l) \subseteq Range(list)
  BY <1>1, <1>3 DEF Range
<1>6. ASSUME NEW x \in Range(r) PROVE x \in Range(list) \ Range(l)
  <2>1. PICK k \in DOMAIN r : x = r[k]
    BY <1>6 DEF Range
  <2>2. x = list[n + k] /\ n + k \in DOMAIN list
    BY <1>2, <1>3, <2>1
  <2>3. ASSUME x \in Range(l) PROVE FALSE
    <3>1. PICK m \in DOMAIN l : x = l[m]
      BY <2>3 DEF Range
    <3>2. x = list[m] /\ m \in DOMAIN list /\ m # n + k
      BY <1>1, <1>3, <3>1
    <3>3. QED
      BY <2>2, <3>2 DEF IsInjective
  <2>4. QED
    BY <2>2, <2>3 DEF Range
<1>7. ASSUME NEW x \in Range(list) \ Range(l) PROVE x \in Range(r)
  <2>1. PICK k \in 1 .. Len(list) : x = list[k]
    BY <1>3, <1>7 DEF Range
  <2>2. k > n
    BY <1>1, <1>3, <1>7, <2>1 DEF Range
  <2>3. k - n \in DOMAIN r /\ r[k - n] = x
    BY <1>2, <1>3, <2>1, <2>2
  <2>4. QED
    BY <2>3 DEF Range
<1>8. IsFiniteSet(Range(l)) /\ Cardinality(Range(l)) = n
  <2>1. l \in Surjection(1 .. n, Range(l)) /\ l \in Injection(1 .. n, Range(l))
    <3>1. l \in [1 .. n -> Range(l)]
      BY <1>1, <1>3 DEF Range
    <3>2. \A i, j \in 1 .. n : l[i] = l[j] => i = j
      BY <1>1, <1>3 DEF IsInjective
    <3>3. \A x \in Range(l) : \E i \in 1 .. n : l[i] = x
      BY <1>3 DEF Range
    <3>4. QED
      BY <3>1, <3>2, <3>3 DEF Surjection, Injection, IsInjective
  <2>2. IsFiniteSet(1 .. n) /\ Cardinality(1 .. n) = n
    BY FS_Interval
  <2>3. QED
    BY <2>1, <2>2, FS_Surjection
<1>9. QED
  BY <1>2, <1>4, <1>5, <1>6, <1>7, <1>8 DEF l, r
-----------------------------------------------------------------------------
LEMMA CachedFinite ==
  ASSUME NEW S \in SUBSET Addresses
  PROVE  /\ IsFiniteSet(S) /\ Cardinality(S) \in Nat
         /\ \A a \in Addresses : /\ Cardinality(S \cup {a}) = IF a \in S THEN Cardinality(S) ELSE Cardinality(S) + 1
                                 /\ Cardinality(S \ {a}) = IF a \in S THEN Cardinality(S) - 1 ELSE Cardinality(S)
<1>1. Cardinality(Clients) \in Nat
  BY TableCacheAssumption, FS_CardinalityType
<1>2. Capacity + 2 * Cardinality(Clients) \in Nat
  BY <1>1, TableCacheAssumption
<1>3. IsFiniteSet(Addresses)
  BY <1>2, FS_Interval DEF Addresses
<1>4. IsFiniteSet(S)
  BY <1>3, FS_Subset
<1>5. QED
  BY <1>4, FS_CardinalityType, FS_AddElement, FS_RemoveElement

LEMMA SameCache ==
  ASSUME NEW c \in Caching, NEW d \in Caching, c.entry = d.entry, c.buckets = d.buckets,
         c.elems = d.elems, c.lru = d.lru, c.inUse = d.inUse, c.usage = d.usage
  PROVE  c = d
<1> DEFINE Entries == [Addresses -> Handles]
           Chains == Seq(SUBSET Addresses)
<1>1. c \in [entry : Entries, buckets : Chains, elems : Nat, lru : Seq(Addresses), inUse : SUBSET Addresses, usage : Nat]
  BY DEF Caching
<1>2. d \in [entry : Entries, buckets : Chains, elems : Nat, lru : Seq(Addresses), inUse : SUBSET Addresses, usage : Nat]
  BY DEF Caching
<1> HIDE DEF Entries, Chains
<1>3. QED
  BY <1>1, <1>2

(* What FindPointer finds: the one handle of the table in the hash table.  *)
LEMMA Found ==
  ASSUME NEW c, Shape(c), NEW S, Hashed(c, S), NEW t \in Tables
  PROVE  /\ Slot(c.buckets, t) \in DOMAIN c.buckets
         /\ FindPointer(c, t) = {a \in S : c.entry[a].key = t}
         /\ TableLookup(c, t) = None => \A a \in S : c.entry[a].key # t
         /\ TableLookup(c, t) # None => /\ TableLookup(c, t) \in S /\ c.entry[TableLookup(c, t)].key = t
                                        /\ FindPointer(c, t) = {TableLookup(c, t)}
<1>1. Len(c.buckets) \in Nat /\ Len(c.buckets) > 0 /\ DOMAIN c.buckets = 1 .. Len(c.buckets)
  BY DEF Shape, Caching
<1>2. Hash[t] \in Nat
  BY TableCacheAssumption
<1>3. Slot(c.buckets, t) \in DOMAIN c.buckets
  BY <1>1, <1>2 DEF Slot
<1>4. FindPointer(c, t) = {a \in S : c.entry[a].key = t}
  <2>1. c.buckets[Slot(c.buckets, t)] = {a \in S : Slot(c.buckets, c.entry[a].key) = Slot(c.buckets, t)}
    BY <1>3 DEF Hashed
  <2>2. QED
    BY <2>1 DEF FindPointer
<1>5. None \notin S
  BY DEF Hashed, Addresses, None
<1>6. QED
  <2>1. CASE FindPointer(c, t) = {}
    BY <1>3, <1>4, <2>1 DEF TableLookup
  <2>2. CASE FindPointer(c, t) # {}
    <3>1. TableLookup(c, t) \in FindPointer(c, t)
      BY <2>2 DEF TableLookup
    <3>2. \A a, b \in FindPointer(c, t) : a = b
      BY <1>4 DEF Hashed
    <3>3. TableLookup(c, t) # None
      BY <1>4, <1>5, <3>1
    <3>4. QED
      BY <1>3, <1>4, <3>1, <3>2, <3>3
  <2>3. QED
    BY <2>1, <2>2

(* Resize puts every handle where FindPointer looks for it.                *)
LEMMA Resized ==
  ASSUME NEW c, Shape(c), NEW S, Hashed(c, S)
  PROVE  /\ Resize(c) = [c EXCEPT !.buckets = Resize(c).buckets]
         /\ Shape(Resize(c)) /\ Hashed(Resize(c), S)
<1> DEFINE n == 2 * Len(c.buckets)
           longer == [i \in 1 .. n |-> {}]
           b == [i \in DOMAIN longer |-> {a \in UNION Range(c.buckets) : Slot(longer, c.entry[a].key) = i}]
<1>1. /\ Len(c.buckets) \in Nat /\ Len(c.buckets) > 0 /\ DOMAIN c.buckets = 1 .. Len(c.buckets)
      /\ c.buckets \in Seq(SUBSET Addresses)
  BY DEF Shape, Caching
<1>2. n \in Nat /\ n > 0
  BY <1>1
<1>3. longer \in Seq({{}}) /\ Len(longer) = n /\ DOMAIN longer = 1 .. n
  BY <1>2
<1>4. Resize(c) = [c EXCEPT !.buckets = b]
  BY DEF Resize
<1> HIDE DEF n
<1>5. \A i \in 1 .. n : b[i] = {a \in UNION Range(c.buckets) : Slot(longer, c.entry[a].key) = i}
  BY <1>3
<1>6. b \in Seq(SUBSET Addresses) /\ Len(b) = n /\ DOMAIN b = 1 .. n
  <2>1. \A i \in 1 .. Len(c.buckets) : c.buckets[i] \subseteq Addresses
    BY <1>1
  <2>2. UNION Range(c.buckets) \subseteq Addresses
    BY <1>1, <2>1 DEF Range
  <2>3. \A i \in 1 .. n : b[i] \in SUBSET Addresses
    BY <1>5, <2>2
  <2>4. b \in [1 .. n -> SUBSET Addresses]
    BY <1>3, <2>3
  <2> HIDE DEF b
  <2>5. QED
    BY <1>2, <2>4
<1>7. UNION Range(c.buckets) = S
  <2>1. ASSUME NEW a \in UNION Range(c.buckets) PROVE a \in S
    <3>1. PICK i \in DOMAIN c.buckets : a \in c.buckets[i]
      BY <2>1 DEF Range
    <3>2. QED
      BY <3>1 DEF Hashed
  <2>2. ASSUME NEW a \in S PROVE a \in UNION Range(c.buckets)
    <3>1. c.entry[a].key \in Tables
      BY <2>2 DEF Hashed
    <3>2. Slot(c.buckets, c.entry[a].key) \in DOMAIN c.buckets
      BY <3>1, Found
    <3>3. a \in c.buckets[Slot(c.buckets, c.entry[a].key)]
      BY <2>2, <3>2 DEF Hashed
    <3>4. QED
      BY <3>2, <3>3 DEF Range
  <2>3. QED
    BY <2>1, <2>2
<1>8. \A a \in S : Slot(longer, c.entry[a].key) = Slot(b, c.entry[a].key)
  BY <1>3, <1>6 DEF Slot
<1> HIDE DEF b, longer
<1> DEFINE d == [c EXCEPT !.buckets = b]
<1>9. /\ d.buckets = b /\ d.entry = c.entry /\ d.elems = c.elems /\ d.lru = c.lru
      /\ d.inUse = c.inUse /\ d.usage = c.usage
  BY DEF Shape, Caching
<1>10. Shape(d)
  BY <1>2, <1>6 DEF Shape, Caching
<1>11. Hashed(d, S)
  <2> HIDE DEF d
  <2>1. \A i \in DOMAIN d.buckets : d.buckets[i] = {a \in S : Slot(d.buckets, d.entry[a].key) = i}
    BY <1>5, <1>6, <1>7, <1>8, <1>9
  <2>2. QED
    BY <1>9, <2>1 DEF Hashed
<1>12. QED
  BY <1>4, <1>9, <1>10, <1>11

(* Insert puts a handle in the place of the one with its key.              *)
LEMMA Inserted ==
  ASSUME NEW c, Shape(c), NEW S, Hashed(c, S), NEW a \in Addresses \ S, c.entry[a].key \in Tables
  PROVE  LET d == TableInsert(c, a)
             T == (S \ FindPointer(c, c.entry[a].key)) \cup {a}
         IN  Shape(d) /\ Hashed(d, T) /\ d = [c EXCEPT !.buckets = d.buckets, !.elems = d.elems]
<1> DEFINE t == c.entry[a].key
           old == FindPointer(c, t)
           s == Slot(c.buckets, t)
           T == (S \ old) \cup {a}
           b == [c.buckets EXCEPT ![s] = (@ \ old) \cup {a}]
           n == IF old = {} THEN c.elems + 1 ELSE c.elems
           d == [c EXCEPT !.buckets = b, !.elems = n]
<1>1. /\ Len(c.buckets) \in Nat /\ Len(c.buckets) > 0 /\ DOMAIN c.buckets = 1 .. Len(c.buckets)
      /\ c.buckets \in Seq(SUBSET Addresses)
  BY DEF Shape, Caching
<1>2. /\ s \in DOMAIN c.buckets /\ old = {x \in S : c.entry[x].key = t}
      /\ old # {} => \E x \in S : old = {x}
  <2>1. t \in Tables
    OBVIOUS
  <2>2. TableLookup(c, t) = None => old = {}
    BY <2>1, Found
  <2>3. QED
    BY <2>1, <2>2, Found
<1>3. TableInsert(c, a) = IF d.elems > Len(d.buckets) THEN Resize(d) ELSE d
  BY DEF TableInsert
<1> HIDE DEF t, old, s
<1>4. b \in Seq(SUBSET Addresses) /\ Len(b) = Len(c.buckets) /\ DOMAIN b = DOMAIN c.buckets
  <2>1. (c.buckets[s] \ old) \cup {a} \in SUBSET Addresses
    BY <1>1, <1>2
  <2>2. QED
    BY <1>1, <1>2, <2>1
<1>5. \A i \in DOMAIN b : b[i] = IF i = s THEN (c.buckets[i] \ old) \cup {a} ELSE c.buckets[i]
  BY <1>1, <1>2
<1>6. S \in SUBSET Addresses /\ T \in SUBSET Addresses
  BY DEF Hashed
<1>7. n \in Nat /\ n = Cardinality(T)
  <2>1. c.elems = Cardinality(S) /\ c.elems \in Nat
    BY DEF Hashed, Shape, Caching
  <2>2. CASE old = {}
    BY <1>6, <2>1, <2>2, CachedFinite
  <2>3. CASE old # {}
    <3>1. PICK x \in S : old = {x}
      BY <1>2, <2>3
    <3>2. /\ Cardinality(S \ {x}) = Cardinality(S) - 1 /\ S \ {x} \in SUBSET Addresses /\ a \notin S \ {x}
      BY <1>6, CachedFinite
    <3>3. Cardinality((S \ {x}) \cup {a}) = Cardinality(S) - 1 + 1
      BY <3>2, CachedFinite
    <3>4. QED
      BY <2>1, <2>3, <3>1, <3>3
  <2>4. QED
    BY <2>2, <2>3
<1>8. \A x \in S : Slot(b, c.entry[x].key) = Slot(c.buckets, c.entry[x].key)
  BY <1>4 DEF Slot
<1>9. Slot(b, t) = s
  BY <1>4 DEF Slot, s
<1> HIDE DEF b, n
<1>10. /\ d.buckets = b /\ d.entry = c.entry /\ d.elems = n /\ d.lru = c.lru
       /\ d.inUse = c.inUse /\ d.usage = c.usage
  BY DEF Shape, Caching
<1>11. Shape(d)
  BY <1>1, <1>4, <1>7 DEF Shape, Caching
<1>12. Hashed(d, T)
  <2>1. ASSUME NEW i \in DOMAIN b PROVE b[i] = {x \in T : Slot(b, c.entry[x].key) = i}
    <3>1. c.buckets[i] = {x \in S : Slot(c.buckets, c.entry[x].key) = i}
      BY <1>4, <2>1 DEF Hashed
    <3>2. CASE i = s
      <4>1. b[i] = (c.buckets[i] \ old) \cup {a}
        BY <1>5, <2>1, <3>2
      <4>2. QED
        BY <1>8, <1>9, <3>1, <3>2, <4>1 DEF t
    <3>3. CASE i # s
      <4>1. b[i] = c.buckets[i]
        BY <1>5, <2>1, <3>3
      <4>2. \A x \in old : Slot(c.buckets, c.entry[x].key) = s
        BY <1>2 DEF s
      <4>3. QED
        BY <1>8, <1>9, <3>1, <3>3, <4>1, <4>2 DEF t
    <3>4. QED
      BY <3>2, <3>3
  <2>2. \A x \in T : c.entry[x].key \in Tables
    BY DEF Hashed
  <2>3. \A x, y \in T : c.entry[x].key = c.entry[y].key => x = y
    <3>1. \A x \in S \ old : c.entry[x].key # c.entry[a].key
      BY <1>2 DEF t
    <3>2. QED
      BY <3>1 DEF Hashed
  <2> HIDE DEF d, T
  <2>4. QED
    BY <1>6, <1>7, <1>10, <2>1, <2>2, <2>3 DEF Hashed
<1> DEFINE e == TableInsert(c, a)
<1>13. Shape(e) /\ Hashed(e, T) /\ e = [c EXCEPT !.buckets = e.buckets, !.elems = e.elems]
  <2>1. CASE d.elems > Len(d.buckets)
    <3>1. e = Resize(d)
      BY <1>3, <2>1
    <3>2. /\ e = [d EXCEPT !.buckets = e.buckets] /\ Shape(e) /\ Hashed(e, T)
      <4> HIDE DEF d, T, e
      <4>1. QED
        BY <1>11, <1>12, <3>1, Resized
    <3>3. e = [c EXCEPT !.buckets = e.buckets, !.elems = e.elems]
      BY <3>2 DEF Shape, Caching
    <3>4. QED
      BY <3>2, <3>3
  <2>2. CASE ~ d.elems > Len(d.buckets)
    <3>1. e = d
      BY <1>3, <2>2
    <3>2. d = [c EXCEPT !.buckets = d.buckets, !.elems = d.elems]
      BY DEF Shape, Caching
    <3>3. QED
      BY <1>11, <1>12, <3>1, <3>2
  <2>3. QED
    BY <2>1, <2>2
<1>14. QED
  BY <1>13 DEF T, old, t

(* Remove takes the handle of a key out.                                   *)
LEMMA Removed ==
  ASSUME NEW c, Shape(c), NEW S, Hashed(c, S), NEW t \in Tables
  PROVE  LET d == TableRemove(c, t)
         IN  Shape(d) /\ Hashed(d, S \ FindPointer(c, t)) /\ d = [c EXCEPT !.buckets = d.buckets, !.elems = d.elems]
<1> DEFINE old == FindPointer(c, t)
           s == Slot(c.buckets, t)
           T == S \ old
           b == [c.buckets EXCEPT ![s] = @ \ old]
           n == IF old = {} THEN c.elems ELSE c.elems - 1
           d == [c EXCEPT !.buckets = b, !.elems = n]
<1>1. /\ Len(c.buckets) \in Nat /\ Len(c.buckets) > 0 /\ DOMAIN c.buckets = 1 .. Len(c.buckets)
      /\ c.buckets \in Seq(SUBSET Addresses)
  BY DEF Shape, Caching
<1>2. /\ s \in DOMAIN c.buckets /\ old = {x \in S : c.entry[x].key = t}
      /\ old # {} => \E x \in S : old = {x}
  <2>2. TableLookup(c, t) = None => old = {}
    BY Found
  <2>3. QED
    BY <2>2, Found
<1>3. TableRemove(c, t) = d
  BY DEF TableRemove
<1> HIDE DEF old, s
<1>4. b \in Seq(SUBSET Addresses) /\ Len(b) = Len(c.buckets) /\ DOMAIN b = DOMAIN c.buckets
  <2>1. c.buckets[s] \ old \in SUBSET Addresses
    BY <1>1, <1>2
  <2>2. QED
    BY <1>1, <1>2, <2>1
<1>5. \A i \in DOMAIN b : b[i] = IF i = s THEN c.buckets[i] \ old ELSE c.buckets[i]
  BY <1>1, <1>2
<1>6. S \in SUBSET Addresses /\ T \in SUBSET Addresses
  BY DEF Hashed
<1>7. n \in Nat /\ n = Cardinality(T)
  <2>1. c.elems = Cardinality(S) /\ c.elems \in Nat
    BY DEF Hashed, Shape, Caching
  <2>2. CASE old = {}
    BY <1>6, <2>1, <2>2
  <2>3. CASE old # {}
    <3>1. PICK x \in S : old = {x}
      BY <1>2, <2>3
    <3>2. Cardinality(S \ {x}) = Cardinality(S) - 1 /\ Cardinality(S \ {x}) \in Nat
      <4>1. S \ {x} \in SUBSET Addresses
        BY <1>6
      <4>2. QED
        BY <1>6, <4>1, CachedFinite
    <3>3. QED
      BY <2>1, <2>3, <3>1, <3>2
  <2>4. QED
    BY <2>2, <2>3
<1>8. \A x \in S : Slot(b, c.entry[x].key) = Slot(c.buckets, c.entry[x].key)
  BY <1>4 DEF Slot
<1> HIDE DEF b, n
<1>9. /\ d.buckets = b /\ d.entry = c.entry /\ d.elems = n /\ d.lru = c.lru
      /\ d.inUse = c.inUse /\ d.usage = c.usage
  BY DEF Shape, Caching
<1>10. Shape(d)
  BY <1>1, <1>4, <1>7 DEF Shape, Caching
<1>11. Hashed(d, T)
  <2>1. ASSUME NEW i \in DOMAIN b PROVE b[i] = {x \in T : Slot(b, c.entry[x].key) = i}
    <3>1. c.buckets[i] = {x \in S : Slot(c.buckets, c.entry[x].key) = i}
      BY <1>4, <2>1 DEF Hashed
    <3>2. \A x \in old : Slot(c.buckets, c.entry[x].key) = s
      BY <1>2 DEF s
    <3>3. b[i] = IF i = s THEN c.buckets[i] \ old ELSE c.buckets[i]
      BY <1>5, <2>1
    <3>4. QED
      BY <1>8, <3>1, <3>2, <3>3
  <2>2. \A x \in T : c.entry[x].key \in Tables
    BY DEF Hashed
  <2>3. \A x, y \in T : c.entry[x].key = c.entry[y].key => x = y
    BY DEF Hashed
  <2> HIDE DEF d, T
  <2>4. QED
    BY <1>6, <1>7, <1>9, <2>1, <2>2, <2>3 DEF Hashed
<1>12. d = [c EXCEPT !.buckets = d.buckets, !.elems = d.elems]
  BY DEF Shape, Caching
<1>13. QED
  BY <1>3, <1>10, <1>11, <1>12 DEF T, old
-----------------------------------------------------------------------------
(* FinishErase takes a handle that is out of the hash table off its list,  *)
(* and frees it unless a client still holds it.                            *)
LEMMA Erased ==
  ASSUME NEW c, NEW h \in [Addresses -> Nat], NEW a, SoundBut(c, h, a)
  PROVE  LET d == FinishErase(c, a)
         IN  /\ Sound(d, h) /\ CachedIn(d) = CachedIn(c) \ {a} /\ KeepsHandles(c, d)
             /\ \A x \in Addresses : h[x] > 0 => d.entry[x].key = c.entry[x].key /\ d.entry[x] # Free
             /\ \A x \in Addresses \ {a} : d.entry[x] = c.entry[x]
<1> DEFINE r == c.entry[a].refs - 1
           x == [key |-> c.entry[a].key, refs |-> r, inCache |-> FALSE]
           E == [c.entry EXCEPT ![a] = IF r = 0 THEN Free ELSE x]
           l == Without(c.lru, a)
           g == [c EXCEPT !.lru = l, !.inUse = @ \ {a}, !.usage = @ - 1, !.entry[a].inCache = FALSE]
           d == [c EXCEPT !.lru = l, !.inUse = @ \ {a}, !.usage = @ - 1, !.entry = E]
<1>1. /\ a \in Addresses /\ c.entry[a].inCache /\ c.entry \in [Addresses -> Handles] /\ a # None
      /\ c.entry[a] \in Handles
  <2>1. a \in Addresses /\ c.entry[a].inCache
    BY DEF SoundBut, CachedIn
  <2>2. c.entry \in [Addresses -> Handles]
    BY DEF SoundBut, Shape, Caching
  <2>3. \A b \in Addresses : b # None
    BY DEF Addresses, None
  <2>4. QED
    BY <2>1, <2>2, <2>3
<1>2. /\ c.entry[a] # Free /\ c.entry[a].key \in Tables /\ c.entry[a].refs = h[a] + 1
  <2>1. c.entry[a] # Free
    BY <1>1 DEF Free
  <2>2. QED
    BY <1>1, <2>1 DEF SoundBut, RefsCounted
<1>3. r = h[a] /\ r \in Nat /\ x \in Handles /\ Free \in Handles
  BY <1>1, <1>2 DEF Handles, Free, None
<1>8. l \in Seq(Addresses) /\ IsInjective(l) /\ Range(l) = Range(c.lru) \ {a}
  BY WithoutOne DEF SoundBut, Shape, Caching, OnLists
<1>9. CachedIn(c) \in SUBSET Addresses /\ a \in CachedIn(c) /\ c.usage = Cardinality(CachedIn(c))
  BY DEF CachedIn, SoundBut, OnLists
<1>10. /\ Cardinality(CachedIn(c) \ {a}) = c.usage - 1 /\ c.usage - 1 \in Nat
  <2>1. CachedIn(c) \ {a} \in SUBSET Addresses
    BY <1>9
  <2>2. Cardinality(CachedIn(c) \ {a}) = Cardinality(CachedIn(c)) - 1
    BY <1>1, <1>9, CachedFinite
  <2>3. Cardinality(CachedIn(c) \ {a}) \in Nat
    BY <2>1, CachedFinite
  <2>4. QED
    BY <1>9, <2>2, <2>3
<1> HIDE DEF l
<1>4. FinishErase(c, a) = d
  <2>1. FinishErase(c, a) = Unref(g, a)
    BY <1>1 DEF FinishErase, l
  <2>2. /\ g.entry = [c.entry EXCEPT ![a] = [c.entry[a] EXCEPT !.inCache = FALSE]] /\ g.buckets = c.buckets
        /\ g.elems = c.elems /\ g.lru = l /\ g.inUse = c.inUse \ {a} /\ g.usage = c.usage - 1
    BY DEF SoundBut, Shape, Caching
  <2>3. c \in Caching
    BY DEF SoundBut, Shape
  <2>4. g \in Caching
    <3>1. g.entry \in [Addresses -> Handles]
      <4>1. [c.entry[a] EXCEPT !.inCache = FALSE] \in Handles
        BY <1>1 DEF Handles
      <4>2. QED
        BY <1>1, <2>2, <4>1
    <3>2. QED
      BY <1>1, <1>8, <1>10, <2>3, <3>1 DEF Caching, Handles
  <2>5. g.entry[a] = [c.entry[a] EXCEPT !.inCache = FALSE]
    BY <1>1, <2>2
  <2>6. g.entry[a].refs = c.entry[a].refs /\ g.entry[a].key = c.entry[a].key /\ g.entry[a].inCache = FALSE
    BY <1>1, <2>5 DEF Handles
  <2> DEFINE m == [g.entry[a] EXCEPT !.refs = g.entry[a].refs - 1]
             k == [g EXCEPT !.entry[a].refs = @ - 1]
  <2>7. m = x
    <3>1. g.entry[a] \in Handles /\ g.entry[a].refs - 1 \in Nat
      BY <1>1, <1>3, <2>4, <2>6 DEF Caching
    <3> HIDE DEF g
    <3>2. m \in Handles /\ m.refs = g.entry[a].refs - 1 /\ m.key = g.entry[a].key /\ m.inCache = g.entry[a].inCache
      BY <3>1 DEF Handles
    <3>3. x.refs = r /\ x.key = c.entry[a].key /\ x.inCache = FALSE
      OBVIOUS
    <3> HIDE DEF m, x
    <3>4. QED
      BY <1>3, <2>6, <3>2, <3>3 DEF Handles
  <2> HIDE DEF g
  <2>8. /\ k.entry = [g.entry EXCEPT ![a] = m] /\ k.buckets = g.buckets
        /\ k.elems = g.elems /\ k.lru = g.lru /\ k.inUse = g.inUse /\ k.usage = g.usage
    BY <2>4 DEF Caching
  <2>9. k.entry = [c.entry EXCEPT ![a] = x]
    <3> HIDE DEF m, x, k
    <3>1. g.entry \in [Addresses -> Handles] /\ \A y \in Addresses \ {a} : g.entry[y] = c.entry[y]
      BY <1>1, <2>2, <2>4 DEF Caching
    <3>2. k.entry = [g.entry EXCEPT ![a] = x]
      BY <2>7, <2>8
    <3>3. QED
      BY <1>1, <3>1, <3>2
  <2>10. k \in Caching
    <3>1. k.entry \in [Addresses -> Handles]
      BY <1>1, <1>3, <2>9
    <3>2. k = [g EXCEPT !.entry = k.entry]
      BY <2>4 DEF Caching
    <3>3. QED
      BY <2>4, <3>1, <3>2 DEF Caching
  <2>11. k.entry[a] = x
    BY <1>1, <2>9
  <2>12. Unref(g, a) = IF r = 0 THEN [k EXCEPT !.entry[a] = Free] ELSE k
    <3>1. Unref(g, a) = IF k.entry[a].refs = 0 THEN [k EXCEPT !.entry[a] = Free]
                        ELSE IF k.entry[a].refs = 1 /\ k.entry[a].inCache
                        THEN [k EXCEPT !.inUse = @ \ {a}, !.lru = Append(@, a)]
                        ELSE k
      BY DEF Unref
    <3> HIDE DEF k
    <3>2. k.entry[a].refs = r /\ k.entry[a].inCache = FALSE
      BY <2>11
    <3>3. QED
      BY <3>1, <3>2
  <2> HIDE DEF k
  <2>13. /\ d.entry = E /\ d.buckets = c.buckets /\ d.elems = c.elems /\ d.lru = l
         /\ d.inUse = c.inUse \ {a} /\ d.usage = c.usage - 1
    BY <2>3 DEF Caching
  <2>14. d \in Caching
    BY <1>1, <1>3, <1>8, <1>10, <2>3 DEF Caching
  <2> HIDE DEF d, x
  <2>15. CASE r = 0
    <3> DEFINE f == [k EXCEPT !.entry[a] = Free]
    <3>1. /\ f.entry = [k.entry EXCEPT ![a] = Free] /\ f.buckets = k.buckets
          /\ f.elems = k.elems /\ f.lru = k.lru /\ f.inUse = k.inUse /\ f.usage = k.usage
      BY <2>10 DEF Caching
    <3>2. f \in Caching
      BY <1>1, <1>3, <2>10 DEF Caching
    <3>3. f.entry = E
      BY <1>1, <2>9, <2>15, <3>1
    <3> HIDE DEF f, E
    <3>4. f = d
      <4>1. /\ f.entry = d.entry /\ f.buckets = d.buckets /\ f.elems = d.elems /\ f.lru = d.lru
            /\ f.inUse = d.inUse /\ f.usage = d.usage
        BY <2>2, <2>8, <2>13, <3>1, <3>3
      <4>2. QED
        BY <2>14, <3>2, <4>1, SameCache
    <3>5. QED
      BY <2>1, <2>12, <2>15, <3>4 DEF f
  <2>16. CASE r # 0
    <3>1. k.entry = E
      BY <2>9, <2>16
    <3> HIDE DEF E
    <3>2. k = d
      <4>1. /\ k.entry = d.entry /\ k.buckets = d.buckets /\ k.elems = d.elems /\ k.lru = d.lru
            /\ k.inUse = d.inUse /\ k.usage = d.usage
        BY <2>2, <2>8, <2>13, <3>1
      <4>2. QED
        BY <2>10, <2>14, <4>1, SameCache
    <3>3. QED
      BY <2>1, <2>12, <2>16, <3>2
  <2>17. QED
    BY <2>15, <2>16
<1> HIDE DEF E, x, r
<1>5. /\ d.entry = E /\ d.buckets = c.buckets /\ d.elems = c.elems /\ d.lru = l
      /\ d.inUse = c.inUse \ {a} /\ d.usage = c.usage - 1
  BY DEF SoundBut, Shape, Caching
<1>6. /\ E \in [Addresses -> Handles] /\ E[a] = IF r = 0 THEN Free ELSE x
      /\ \A y \in Addresses \ {a} : E[y] = c.entry[y]
  BY <1>1, <1>3 DEF E
<1>7. x.key = c.entry[a].key /\ x.refs = r /\ x.inCache = FALSE /\ Free.inCache = FALSE /\ Free.refs = 0
  BY DEF x, Free
<1>11. Shape(d)
  BY <1>6, <1>8, <1>10 DEF SoundBut, Shape, Caching
<1> HIDE DEF d
<1>12. CachedIn(d) = CachedIn(c) \ {a}
  BY <1>5, <1>6, <1>7 DEF CachedIn
<1>13. Hashed(d, CachedIn(d))
  <2>1. Hashed(c, CachedIn(c) \ {a})
    BY DEF SoundBut
  <2>2. \A y \in CachedIn(d) : d.entry[y] = c.entry[y]
    BY <1>5, <1>6, <1>9, <1>12
  <2>3. QED
    BY <1>5, <1>12, <2>1, <2>2 DEF Hashed
<1>14. RefsCounted(d, h)
  <2>1. ASSUME NEW y \in Addresses \ {a}
        PROVE  /\ d.entry[y] = Free => h[y] = 0
               /\ d.entry[y] # Free => /\ d.entry[y].key \in Tables /\ d.entry[y].refs > 0
                                       /\ d.entry[y].refs = h[y] + (IF d.entry[y].inCache THEN 1 ELSE 0)
    <3>1. d.entry[y] = c.entry[y]
      BY <1>5, <1>6
    <3>2. QED
      BY <3>1 DEF SoundBut, RefsCounted
  <2>2. /\ d.entry[a] = Free => h[a] = 0
        /\ d.entry[a] # Free => /\ d.entry[a].key \in Tables /\ d.entry[a].refs > 0
                                /\ d.entry[a].refs = h[a] + (IF d.entry[a].inCache THEN 1 ELSE 0)
    <3>1. CASE r = 0
      BY <1>3, <1>5, <1>6, <3>1
    <3>2. CASE r # 0
      BY <1>2, <1>3, <1>5, <1>6, <1>7, <3>2
    <3>3. QED
      BY <3>1, <3>2
  <2>3. QED
    BY <2>1, <2>2 DEF RefsCounted
<1>15. OnLists(d)
  <2>1. Range(d.lru) = {y \in CachedIn(d) : d.entry[y].refs = 1}
    <3>1. Range(c.lru) = {y \in CachedIn(c) : c.entry[y].refs = 1}
      BY DEF SoundBut, OnLists
    <3>2. \A y \in CachedIn(d) : d.entry[y] = c.entry[y]
      BY <1>5, <1>6, <1>9, <1>12
    <3>3. QED
      BY <1>5, <1>8, <1>12, <3>1, <3>2
  <2>2. Caches => d.inUse = CachedIn(d) \ Range(d.lru)
    BY <1>5, <1>8, <1>12 DEF SoundBut, OnLists
  <2>3. Caches
    BY <1>9 DEF SoundBut, OnLists
  <2>4. QED
    BY <1>5, <1>8, <1>10, <1>12, <2>1, <2>2, <2>3 DEF OnLists
<1>16. \A y \in Addresses : h[y] > 0 => d.entry[y].key = c.entry[y].key /\ d.entry[y] # Free
  <2>1. ASSUME NEW y \in Addresses, h[y] > 0, y # a
        PROVE  d.entry[y].key = c.entry[y].key /\ d.entry[y] # Free
    <3>1. d.entry[y] = c.entry[y]
      BY <1>5, <1>6, <2>1
    <3>2. QED
      BY <2>1, <3>1 DEF SoundBut, RefsCounted
  <2>2. ASSUME h[a] > 0 PROVE d.entry[a].key = c.entry[a].key /\ d.entry[a] # Free
    <3>1. d.entry[a] = x
      BY <1>3, <1>5, <1>6, <2>2
    <3>2. QED
      BY <1>3, <1>7, <2>2, <3>1
  <2>3. QED
    BY <2>1, <2>2
<1>17. KeepsHandles(c, d)
  BY <1>2, <1>5, <1>6, <1>7 DEF KeepsHandles
<1>18. QED
  BY <1>4, <1>5, <1>6, <1>11, <1>12, <1>13, <1>14, <1>15, <1>16, <1>17 DEF Sound

(* A handle with another number of references.                             *)
LEMMA Referred ==
  ASSUME NEW c \in Caching, NEW a \in Addresses, NEW n \in Nat
  PROVE  LET d == [c EXCEPT !.entry[a].refs = n]
         IN  /\ d \in Caching /\ d.buckets = c.buckets /\ d.elems = c.elems /\ d.lru = c.lru
             /\ d.inUse = c.inUse /\ d.usage = c.usage
             /\ d.entry[a].key = c.entry[a].key /\ d.entry[a].refs = n /\ d.entry[a].inCache = c.entry[a].inCache
             /\ \A y \in Addresses \ {a} : d.entry[y] = c.entry[y]
<1> DEFINE m == [c.entry[a] EXCEPT !.refs = n]
           d == [c EXCEPT !.entry[a].refs = n]
<1>1. c.entry \in [Addresses -> Handles] /\ c.entry[a] \in Handles
  BY DEF Caching
<1>2. m \in Handles /\ m.key = c.entry[a].key /\ m.refs = n /\ m.inCache = c.entry[a].inCache
  BY <1>1 DEF Handles
<1>3. /\ d.entry = [c.entry EXCEPT ![a] = m] /\ d.buckets = c.buckets /\ d.elems = c.elems /\ d.lru = c.lru
      /\ d.inUse = c.inUse /\ d.usage = c.usage
  BY DEF Caching
<1>4. d = [c EXCEPT !.entry = d.entry]
  BY DEF Caching
<1> HIDE DEF m
<1>5. d.entry \in [Addresses -> Handles] /\ d.entry[a] = m /\ \A y \in Addresses \ {a} : d.entry[y] = c.entry[y]
  BY <1>1, <1>2, <1>3
<1> HIDE DEF d
<1>6. d \in Caching
  BY <1>4, <1>5 DEF Caching
<1>7. QED
  BY <1>2, <1>3, <1>5, <1>6 DEF d

(* Whichever lists a handle moves between, the hash table stays.           *)
LEMMA SameHashed ==
  ASSUME NEW c, NEW d, NEW S, Hashed(c, S), d.buckets = c.buckets, d.elems = c.elems,
         \A a \in S : d.entry[a].key = c.entry[a].key
  PROVE  Hashed(d, S)
BY DEF Hashed

LEMMA RefSound ==
  ASSUME NEW c, NEW h \in [Addresses -> Nat], Sound(c, h), NEW a \in Addresses, c.entry[a] # Free
  PROVE  LET d == Ref(c, a)
         IN  /\ Sound(d, [h EXCEPT ![a] = @ + 1])
             /\ \A x \in Addresses : d.entry[x].key = c.entry[x].key /\ (d.entry[x] # Free <=> c.entry[x] # Free)
<1> DEFINE moves == c.entry[a].refs = 1 /\ c.entry[a].inCache
           g == IF moves THEN [c EXCEPT !.lru = Without(@, a), !.inUse = @ \cup {a}] ELSE c
           d == Ref(c, a)
           h2 == [h EXCEPT ![a] = @ + 1]
<1>1. c \in Caching /\ Len(c.buckets) > 0 /\ c.lru \in Seq(Addresses) /\ IsInjective(c.lru)
  BY DEF Sound, Shape, Caching, OnLists
<1>2. /\ Without(c.lru, a) \in Seq(Addresses) /\ IsInjective(Without(c.lru, a))
      /\ Range(Without(c.lru, a)) = Range(c.lru) \ {a}
  BY <1>1, WithoutOne
<1>3. /\ g \in Caching /\ g.entry = c.entry /\ g.buckets = c.buckets /\ g.elems = c.elems /\ g.usage = c.usage
      /\ g.lru = IF moves THEN Without(c.lru, a) ELSE c.lru
      /\ g.inUse = IF moves THEN c.inUse \cup {a} ELSE c.inUse
  <2>1. CASE moves
    BY <1>1, <1>2, <2>1 DEF Caching
  <2>2. CASE ~moves
    BY <1>1, <2>2
  <2>3. QED
    BY <2>1, <2>2
<1>4. d = [g EXCEPT !.entry[a].refs = g.entry[a].refs + 1]
  BY DEF Ref
<1>5. c.entry[a].refs \in Nat
  BY <1>1 DEF Caching, Handles
<1> HIDE DEF g, d, moves
<1>6. /\ d \in Caching /\ d.buckets = c.buckets /\ d.elems = c.elems /\ d.lru = g.lru
      /\ d.inUse = g.inUse /\ d.usage = c.usage
      /\ d.entry[a].key = c.entry[a].key /\ d.entry[a].refs = c.entry[a].refs + 1
      /\ d.entry[a].inCache = c.entry[a].inCache
      /\ \A y \in Addresses \ {a} : d.entry[y] = c.entry[y]
  <2> DEFINE n == g.entry[a].refs + 1
  <2>1. n \in Nat /\ n = c.entry[a].refs + 1
    BY <1>3, <1>5
  <2>2. d = [g EXCEPT !.entry[a].refs = n]
    BY <1>4
  <2> HIDE DEF n
  <2>3. QED
    BY <1>3, <2>1, <2>2, Referred
<1>7. \A x \in Addresses : d.entry[x].key = c.entry[x].key /\ d.entry[x].inCache = c.entry[x].inCache
  BY <1>6
<1>8. /\ \A x \in Addresses : d.entry[x] # Free <=> c.entry[x] # Free
      /\ c.entry[a].refs > 0 /\ c.entry[a].key \in Tables /\ c.entry[a].refs = h[a] + (IF c.entry[a].inCache THEN 1 ELSE 0)
  <2>1. c.entry[a].refs > 0 /\ c.entry[a].key \in Tables /\ c.entry[a].refs = h[a] + (IF c.entry[a].inCache THEN 1 ELSE 0)
    BY DEF Sound, RefsCounted
  <2>2. d.entry[a] # Free
    BY <1>5, <1>6, <2>1 DEF Free
  <2>3. QED
    BY <1>6, <2>1, <2>2
<1>9. CachedIn(d) = CachedIn(c)
  BY <1>7 DEF CachedIn
<1>10. Hashed(d, CachedIn(d))
  <2>1. Hashed(c, CachedIn(c)) /\ \A x \in CachedIn(c) : d.entry[x].key = c.entry[x].key
    BY <1>7 DEF Sound, CachedIn
  <2>2. QED
    BY <1>6, <1>9, <2>1, SameHashed
<1>11. RefsCounted(d, h2)
  <2>1. ASSUME NEW x \in Addresses \ {a}
        PROVE  /\ d.entry[x] = Free => h2[x] = 0
               /\ d.entry[x] # Free => /\ d.entry[x].key \in Tables /\ d.entry[x].refs > 0
                                       /\ d.entry[x].refs = h2[x] + (IF d.entry[x].inCache THEN 1 ELSE 0)
    <3>1. d.entry[x] = c.entry[x] /\ h2[x] = h[x]
      BY <1>6
    <3>2. QED
      BY <3>1 DEF Sound, RefsCounted
  <2>2. h2[a] = h[a] + 1 /\ h[a] \in Nat
    OBVIOUS
  <2>3. d.entry[a].refs = h2[a] + (IF d.entry[a].inCache THEN 1 ELSE 0)
    BY <1>5, <1>6, <1>8, <2>2
  <2>4. QED
    BY <1>5, <1>6, <1>8, <2>1, <2>3 DEF RefsCounted
<1>12. OnLists(d)
  <2>1. /\ Range(c.lru) = {x \in CachedIn(c) : c.entry[x].refs = 1}
        /\ Caches => c.inUse = CachedIn(c) \ Range(c.lru)
        /\ ~Caches => CachedIn(c) = {}
        /\ c.usage = Cardinality(CachedIn(c))
    BY DEF Sound, OnLists
  <2>2. moves <=> a \in Range(c.lru)
    BY <2>1 DEF moves, CachedIn
  <2>3. IsInjective(d.lru) /\ Range(d.lru) = Range(c.lru) \ {a}
    BY <1>1, <1>2, <1>3, <1>6, <2>2
  <2>4. ASSUME NEW x \in CachedIn(c) PROVE x \in Range(d.lru) <=> d.entry[x].refs = 1
    <3>1. CASE x = a
      BY <1>6, <1>8, <2>3, <3>1
    <3>2. CASE x # a
      <4>1. x \in Range(c.lru) <=> c.entry[x].refs = 1
        BY <2>1, <2>4
      <4>2. d.entry[x] = c.entry[x]
        BY <1>6, <2>4, <3>2 DEF CachedIn
      <4>3. QED
        BY <2>3, <3>2, <4>1, <4>2
    <3>3. QED
      BY <3>1, <3>2
  <2>5. Range(d.lru) = {x \in CachedIn(d) : d.entry[x].refs = 1}
    BY <1>9, <2>1, <2>3, <2>4
  <2>6. Caches => d.inUse = CachedIn(d) \ Range(d.lru)
    BY <1>3, <1>6, <1>9, <2>1, <2>2, <2>3
  <2>7. QED
    BY <1>6, <1>9, <2>1, <2>3, <2>5, <2>6 DEF OnLists
<1>13. Shape(d)
  BY <1>1, <1>6 DEF Shape
<1>14. QED
  BY <1>7, <1>8, <1>10, <1>11, <1>12, <1>13 DEF Sound, d

(* Unref of a handle that a client holds.                                  *)
LEMMA UnrefSound ==
  ASSUME NEW c, NEW h \in [Addresses -> Nat], Sound(c, h), NEW a \in Addresses, h[a] > 0
  PROVE  LET d == Unref(c, a)
             h2 == [h EXCEPT ![a] = @ - 1]
         IN  /\ Sound(d, h2) /\ KeepsHandles(c, d)
             /\ \A x \in Addresses : h2[x] > 0 => d.entry[x].key = c.entry[x].key /\ d.entry[x] # Free
<1> DEFINE n == c.entry[a].refs - 1
           g == [c EXCEPT !.entry[a].refs = n]
           d == Unref(c, a)
           h2 == [h EXCEPT ![a] = @ - 1]
<1>1. c \in Caching /\ Len(c.buckets) > 0 /\ c.lru \in Seq(Addresses) /\ IsInjective(c.lru)
  BY DEF Sound, Shape, Caching, OnLists
<1>2. /\ c.entry[a] # Free /\ c.entry[a].key \in Tables /\ c.entry[a] \in Handles
      /\ c.entry[a].refs = h[a] + (IF c.entry[a].inCache THEN 1 ELSE 0)
  <2>1. c.entry[a] # Free
    BY DEF Sound, RefsCounted
  <2>2. QED
    BY <1>1, <2>1 DEF Sound, RefsCounted, Caching
<1>3. n \in Nat /\ n = h[a] - 1 + (IF c.entry[a].inCache THEN 1 ELSE 0) /\ h2 \in [Addresses -> Nat] /\ h2[a] = h[a] - 1
  BY <1>2 DEF Handles
<1>4. /\ g \in Caching /\ g.buckets = c.buckets /\ g.elems = c.elems /\ g.lru = c.lru
      /\ g.inUse = c.inUse /\ g.usage = c.usage
      /\ g.entry[a].key = c.entry[a].key /\ g.entry[a].refs = n /\ g.entry[a].inCache = c.entry[a].inCache
      /\ \A y \in Addresses \ {a} : g.entry[y] = c.entry[y]
  <2>1. g = [c EXCEPT !.entry[a].refs = n]
    OBVIOUS
  <2> HIDE DEF n, g
  <2>2. QED
    BY <1>1, <1>3, <2>1, Referred
<1>5. d = IF g.entry[a].refs = 0 THEN [g EXCEPT !.entry[a] = Free]
          ELSE IF g.entry[a].refs = 1 /\ g.entry[a].inCache
          THEN [g EXCEPT !.inUse = @ \ {a}, !.lru = Append(@, a)]
          ELSE g
  BY DEF Unref
<1> HIDE DEF g, d, n
<1>6. /\ Range(c.lru) = {x \in CachedIn(c) : c.entry[x].refs = 1}
      /\ Caches => c.inUse = CachedIn(c) \ Range(c.lru)
      /\ ~Caches => CachedIn(c) = {}
      /\ c.usage = Cardinality(CachedIn(c))
  BY DEF Sound, OnLists
<1>7. a \notin Range(c.lru)
  BY <1>2, <1>6 DEF CachedIn
<1>8. CASE n = 0
  <2>1. d = [g EXCEPT !.entry[a] = Free]
    BY <1>4, <1>5, <1>8
  <2>2. /\ d \in Caching /\ d.buckets = c.buckets /\ d.elems = c.elems /\ d.lru = c.lru
        /\ d.inUse = c.inUse /\ d.usage = c.usage /\ d.entry[a] = Free
        /\ \A y \in Addresses \ {a} : d.entry[y] = c.entry[y]
    <3>1. Free \in Handles
      BY DEF Free, Handles, None
    <3>2. g.entry \in [Addresses -> Handles]
      BY <1>4 DEF Caching
    <3>3. /\ d.entry = [g.entry EXCEPT ![a] = Free] /\ d.buckets = g.buckets /\ d.elems = g.elems /\ d.lru = g.lru
          /\ d.inUse = g.inUse /\ d.usage = g.usage
      BY <1>4, <2>1 DEF Caching
    <3>4. d \in Caching
      <4>1. d = [g EXCEPT !.entry = d.entry]
        BY <1>4, <2>1 DEF Caching
      <4>2. d.entry \in [Addresses -> Handles]
        BY <3>1, <3>2, <3>3
      <4>3. QED
        BY <1>4, <4>1, <4>2 DEF Caching
    <3>5. QED
      BY <1>4, <3>2, <3>3, <3>4
  <2>3. ~c.entry[a].inCache /\ h[a] = 1
    BY <1>3, <1>8
  <2>4. a \notin CachedIn(c) /\ \A x \in CachedIn(c) : x \in Addresses /\ d.entry[x] = c.entry[x]
    BY <2>2, <2>3 DEF CachedIn
  <2>5. CachedIn(d) = CachedIn(c)
    BY <2>2, <2>3 DEF CachedIn, Free
  <2>6. Hashed(d, CachedIn(d))
    BY <2>2, <2>4, <2>5, SameHashed DEF Sound
  <2>7. RefsCounted(d, h2)
    <3>1. \A x \in Addresses \ {a} : d.entry[x] = c.entry[x] /\ h2[x] = h[x]
      BY <2>2
    <3>2. h2[a] = 0
      BY <1>3, <2>3
    <3>3. QED
      BY <2>2, <3>1, <3>2 DEF Sound, RefsCounted
  <2>8. OnLists(d)
    <3>1. Range(d.lru) = {x \in CachedIn(d) : d.entry[x].refs = 1}
      BY <1>6, <2>2, <2>4, <2>5
    <3>2. QED
      BY <1>1, <1>6, <2>2, <2>5, <3>1 DEF OnLists
  <2>9. KeepsHandles(c, d)
    BY <1>2, <2>2 DEF KeepsHandles
  <2>10. \A x \in Addresses : h2[x] > 0 => d.entry[x].key = c.entry[x].key /\ d.entry[x] # Free
    <3>1. h2[a] = 0
      BY <1>3, <2>3
    <3>2. \A x \in Addresses \ {a} : d.entry[x] = c.entry[x] /\ h2[x] = h[x]
      BY <2>2
    <3>3. \A x \in Addresses : h[x] > 0 => c.entry[x] # Free
      BY DEF Sound, RefsCounted
    <3>4. QED
      BY <3>1, <3>2, <3>3
  <2>11. Shape(d)
    BY <1>1, <2>2 DEF Shape
  <2>12. QED
    BY <2>6, <2>7, <2>8, <2>9, <2>10, <2>11 DEF Sound, d
<1>9. CASE n # 0
  <2> DEFINE lists == n = 1 /\ c.entry[a].inCache
  <2>1. d = IF lists THEN [g EXCEPT !.inUse = @ \ {a}, !.lru = Append(@, a)] ELSE g
    BY <1>4, <1>5, <1>9
  <2> HIDE DEF lists
  <2>2. /\ Append(c.lru, a) \in Seq(Addresses) /\ IsInjective(Append(c.lru, a))
        /\ Range(Append(c.lru, a)) = Range(c.lru) \cup {a}
    BY <1>1, <1>7, AppendOne
  <2>3. /\ d \in Caching /\ d.buckets = c.buckets /\ d.elems = c.elems /\ d.usage = c.usage
        /\ d.lru = IF lists THEN Append(c.lru, a) ELSE c.lru
        /\ d.inUse = IF lists THEN c.inUse \ {a} ELSE c.inUse
        /\ d.entry = g.entry
    <3>1. CASE lists
      BY <1>4, <2>1, <2>2, <3>1 DEF Caching
    <3>2. CASE ~lists
      BY <1>4, <2>1, <3>2
    <3>3. QED
      BY <3>1, <3>2
  <2>4. \A x \in Addresses : d.entry[x].key = c.entry[x].key /\ d.entry[x].inCache = c.entry[x].inCache
    BY <1>4, <2>3
  <2>5. CachedIn(d) = CachedIn(c)
    BY <2>4 DEF CachedIn
  <2>6. Hashed(d, CachedIn(d))
    <3>1. Hashed(c, CachedIn(c)) /\ \A x \in CachedIn(c) : d.entry[x].key = c.entry[x].key
      BY <2>4 DEF Sound, CachedIn
    <3>2. QED
      BY <2>3, <2>5, <3>1, SameHashed
  <2>7. n > 0 /\ d.entry[a] # Free
    BY <1>3, <1>4, <1>9, <2>3 DEF Free
  <2>8. RefsCounted(d, h2)
    <3>1. \A x \in Addresses \ {a} : d.entry[x] = c.entry[x] /\ h2[x] = h[x]
      BY <1>4, <2>3
    <3>2. d.entry[a].key \in Tables /\ d.entry[a].refs > 0 /\ d.entry[a].refs = h2[a] + (IF d.entry[a].inCache THEN 1 ELSE 0)
      BY <1>2, <1>3, <1>4, <2>3, <2>7
    <3>3. QED
      BY <2>7, <3>1, <3>2 DEF Sound, RefsCounted
  <2>9. OnLists(d)
    <3>1. lists => a \in CachedIn(c)
      BY DEF lists, CachedIn
    <3>2. IsInjective(d.lru) /\ Range(d.lru) = IF lists THEN Range(c.lru) \cup {a} ELSE Range(c.lru)
      BY <1>1, <2>2, <2>3
    <3>3. ASSUME NEW x \in CachedIn(c) PROVE x \in Range(d.lru) <=> d.entry[x].refs = 1
      <4>1. CASE x = a
        BY <1>4, <1>7, <2>3, <3>2, <3>3, <4>1 DEF lists, CachedIn
      <4>2. CASE x # a
        <5>1. x \in Range(c.lru) <=> c.entry[x].refs = 1
          BY <1>6, <3>3
        <5>2. d.entry[x] = c.entry[x]
          BY <1>4, <2>3, <3>3, <4>2 DEF CachedIn
        <5>3. QED
          BY <3>2, <4>2, <5>1, <5>2
      <4>3. QED
        BY <4>1, <4>2
    <3>4. Range(d.lru) = {x \in CachedIn(d) : d.entry[x].refs = 1}
      BY <1>6, <2>5, <3>1, <3>2, <3>3
    <3>5. Caches => d.inUse = CachedIn(d) \ Range(d.lru)
      BY <1>6, <2>3, <2>5, <3>2
    <3>6. QED
      BY <1>6, <2>3, <2>5, <3>2, <3>4, <3>5 DEF OnLists
  <2>10. \A x \in Addresses : d.entry[x] # Free <=> c.entry[x] # Free
    BY <1>2, <1>4, <2>3, <2>7
  <2>11. KeepsHandles(c, d)
    BY <2>4, <2>10 DEF KeepsHandles
  <2>12. \A x \in Addresses : h2[x] > 0 => d.entry[x].key = c.entry[x].key /\ d.entry[x] # Free
    <3>1. \A x \in Addresses : h[x] > 0 => c.entry[x] # Free
      BY DEF Sound, RefsCounted
    <3>2. \A x \in Addresses : h2[x] > 0 => h[x] > 0
      OBVIOUS
    <3>3. QED
      BY <2>4, <2>10, <3>1, <3>2
  <2>13. Shape(d)
    BY <1>1, <2>3 DEF Shape
  <2>14. QED
    BY <2>6, <2>8, <2>9, <2>11, <2>12, <2>13 DEF Sound, d
<1>10. QED
  BY <1>8, <1>9

(* Erasing the oldest handles of lru_, which no client holds.              *)
LEMMA OldestErased ==
  ASSUME NEW c, NEW h \in [Addresses -> Nat], Sound(c, h), NEW n \in 0 .. Len(c.lru)
  PROVE  LET d == EraseOldest(c, n)
         IN  /\ Sound(d, h) /\ KeepsHandles(c, d)
             /\ Len(d.lru) = Len(c.lru) - n /\ d.usage = c.usage - n
             /\ \A x \in Addresses : h[x] > 0 => d.entry[x] = c.entry[x]
<1> DEFINE erased == Range(SubSeq(c.lru, 1, n))
           rest == SubSeq(c.lru, n + 1, Len(c.lru))
           E == [x \in DOMAIN c.entry |-> IF x \in erased THEN Free ELSE c.entry[x]]
           b == [i \in DOMAIN c.buckets |-> c.buckets[i] \ erased]
           d == [c EXCEPT !.entry = E, !.buckets = b, !.elems = @ - n, !.usage = @ - n, !.lru = rest]
<1>1. /\ c \in Caching /\ Len(c.buckets) > 0 /\ c.lru \in Seq(Addresses) /\ IsInjective(c.lru)
      /\ c.entry \in [Addresses -> Handles] /\ c.buckets \in Seq(SUBSET Addresses)
  BY DEF Sound, Shape, Caching, OnLists
<1>2. /\ rest \in Seq(Addresses) /\ IsInjective(rest) /\ Range(rest) = Range(c.lru) \ erased
      /\ erased \subseteq Range(c.lru) /\ IsFiniteSet(erased) /\ Cardinality(erased) = n
  BY <1>1, OldestOfList
<1>3. Len(rest) = Len(c.lru) - n
  BY <1>1, SubSeqProperties
<1>4. EraseOldest(c, n) = d
  BY DEF EraseOldest
<1>5. /\ Range(c.lru) = {x \in CachedIn(c) : c.entry[x].refs = 1}
      /\ Caches => c.inUse = CachedIn(c) \ Range(c.lru)
      /\ ~Caches => CachedIn(c) = {}
      /\ c.usage = Cardinality(CachedIn(c)) /\ c.elems = Cardinality(CachedIn(c))
  BY DEF Sound, OnLists, Hashed
<1>6. \A x \in erased : /\ x \in CachedIn(c) /\ x \in Addresses /\ c.entry[x].refs = 1 /\ h[x] = 0
                        /\ c.entry[x] # Free
  <2>1. ASSUME NEW x \in erased PROVE x \in CachedIn(c) /\ x \in Addresses /\ c.entry[x].refs = 1 /\ c.entry[x].inCache
    BY <1>2, <1>5 DEF CachedIn
  <2>2. ASSUME NEW x \in erased PROVE h[x] = 0 /\ c.entry[x] # Free
    <3>1. x \in Addresses /\ c.entry[x].refs = 1 /\ c.entry[x].inCache
      BY <2>1
    <3>2. c.entry[x] # Free
      BY <3>1 DEF Free
    <3>3. c.entry[x].refs = h[x] + 1
      BY <3>1, <3>2 DEF Sound, RefsCounted
    <3>4. QED
      BY <3>1, <3>2, <3>3
  <2>3. QED
    BY <2>1, <2>2
<1> HIDE DEF erased, rest
<1>7. /\ E \in [Addresses -> Handles] /\ \A x \in Addresses : E[x] = IF x \in erased THEN Free ELSE c.entry[x]
  <2>1. DOMAIN c.entry = Addresses /\ Free \in Handles
    BY <1>1 DEF Free, Handles, None
  <2>2. \A x \in Addresses : c.entry[x] \in Handles
    BY <1>1
  <2>3. QED
    BY <2>1, <2>2
<1>8. /\ b \in Seq(SUBSET Addresses) /\ Len(b) = Len(c.buckets) /\ DOMAIN b = DOMAIN c.buckets
      /\ \A i \in DOMAIN b : b[i] = c.buckets[i] \ erased
  <2>1. DOMAIN c.buckets = 1 .. Len(c.buckets) /\ Len(c.buckets) \in Nat
    BY <1>1
  <2>2. \A i \in 1 .. Len(c.buckets) : b[i] \in SUBSET Addresses
    BY <1>1, <2>1
  <2>3. b \in [1 .. Len(c.buckets) -> SUBSET Addresses]
    BY <2>1, <2>2
  <2>4. \A i \in DOMAIN b : b[i] = c.buckets[i] \ erased
    OBVIOUS
  <2> HIDE DEF b
  <2>5. b \in Seq(SUBSET Addresses) /\ Len(b) = Len(c.buckets)
    BY <2>1, <2>3
  <2>6. QED
    BY <2>1, <2>3, <2>4, <2>5
<1> HIDE DEF E, b
<1>9. Cardinality(CachedIn(c) \ erased) = c.usage - n /\ c.usage - n \in Nat
  <2>1. CachedIn(c) \in SUBSET Addresses /\ CachedIn(c) \ erased \in SUBSET Addresses
    BY DEF CachedIn
  <2>2. IsFiniteSet(CachedIn(c)) /\ Cardinality(CachedIn(c) \ erased) \in Nat
    BY <2>1, CachedFinite
  <2>3. CachedIn(c) \cap erased = erased
    BY <1>6
  <2>4. Cardinality(CachedIn(c) \ erased) = Cardinality(CachedIn(c)) - Cardinality(erased)
    BY <2>2, <2>3, FS_Difference
  <2>5. QED
    BY <1>2, <1>5, <2>2, <2>4
<1>10. /\ d.entry = E /\ d.buckets = b /\ d.elems = c.elems - n /\ d.lru = rest
       /\ d.inUse = c.inUse /\ d.usage = c.usage - n
  BY <1>1 DEF Caching
<1>11. Shape(d)
  <2>1. c.elems - n \in Nat
    BY <1>5, <1>9
  <2>2. QED
    BY <1>1, <1>2, <1>7, <1>8, <1>9, <2>1 DEF Shape, Caching
<1> HIDE DEF d
<1>12. CachedIn(d) = CachedIn(c) \ erased
  BY <1>7, <1>10 DEF CachedIn, Free
<1>13. \A x \in Addresses : x \notin erased => d.entry[x] = c.entry[x]
  BY <1>7, <1>10
<1>14. Hashed(d, CachedIn(d))
  <2>1. \A x \in CachedIn(d) : x \in CachedIn(c) /\ x \notin erased /\ d.entry[x] = c.entry[x]
    BY <1>12, <1>13 DEF CachedIn
  <2>2. Hashed(c, CachedIn(c))
    BY DEF Sound
  <2>3. ASSUME NEW i \in DOMAIN d.buckets
        PROVE  d.buckets[i] = {x \in CachedIn(d) : Slot(d.buckets, d.entry[x].key) = i}
    <3>1. c.buckets[i] = {x \in CachedIn(c) : Slot(c.buckets, c.entry[x].key) = i}
      BY <1>8, <1>10, <2>2, <2>3 DEF Hashed
    <3>2. d.buckets[i] = c.buckets[i] \ erased
      BY <1>8, <1>10, <2>3
    <3>3. \A t : Slot(d.buckets, t) = Slot(c.buckets, t)
      BY <1>8, <1>10 DEF Slot
    <3>4. QED
      BY <1>12, <2>1, <3>1, <3>2, <3>3
  <2>4. CachedIn(d) \subseteq Addresses /\ d.elems = Cardinality(CachedIn(d))
    BY <1>5, <1>9, <1>10, <1>12 DEF CachedIn
  <2>5. /\ \A x \in CachedIn(d) : d.entry[x].key \in Tables
        /\ \A x, y \in CachedIn(d) : d.entry[x].key = d.entry[y].key => x = y
    BY <2>1, <2>2 DEF Hashed
  <2>6. QED
    BY <2>3, <2>4, <2>5 DEF Hashed
<1>15. RefsCounted(d, h)
  <2>1. ASSUME NEW x \in Addresses
        PROVE  /\ d.entry[x] = Free => h[x] = 0
               /\ d.entry[x] # Free => /\ d.entry[x].key \in Tables /\ d.entry[x].refs > 0
                                       /\ d.entry[x].refs = h[x] + (IF d.entry[x].inCache THEN 1 ELSE 0)
    <3>1. CASE x \in erased
      BY <1>6, <1>7, <1>10, <3>1
    <3>2. CASE x \notin erased
      BY <1>13, <3>2 DEF Sound, RefsCounted
    <3>3. QED
      BY <3>1, <3>2
  <2>2. QED
    BY <2>1 DEF RefsCounted
<1>16. OnLists(d)
  <2>1. Range(d.lru) = {x \in CachedIn(d) : d.entry[x].refs = 1}
    <3>1. \A x \in CachedIn(d) : x \in CachedIn(c) /\ x \notin erased /\ d.entry[x] = c.entry[x]
      BY <1>12, <1>13 DEF CachedIn
    <3>2. QED
      BY <1>2, <1>5, <1>10, <1>12, <3>1
  <2>2. Caches => d.inUse = CachedIn(d) \ Range(d.lru)
    BY <1>2, <1>5, <1>10, <1>12
  <2>3. QED
    BY <1>2, <1>5, <1>9, <1>10, <1>12, <2>1, <2>2 DEF OnLists
<1>17. KeepsHandles(c, d)
  <2>1. \A x \in Addresses : d.entry[x] # Free => x \notin erased
    BY <1>7, <1>10
  <2>2. QED
    BY <1>13, <2>1 DEF KeepsHandles
<1>18. \A x \in Addresses : h[x] > 0 => d.entry[x] = c.entry[x]
  BY <1>6, <1>13
<1>19. QED
  BY <1>3, <1>4, <1>10, <1>11, <1>14, <1>15, <1>16, <1>17, <1>18 DEF Sound

(* The loop of Insert stops at the capacity or at an empty list.           *)
LEMMA LoopStops ==
  ASSUME NEW c, NEW h \in [Addresses -> Nat], Sound(c, h)
  PROVE  \E n \in 0 .. Len(c.lru) : EvictOldest(c) = EraseOldest(c, n) /\ (n = Len(c.lru) \/ c.usage - n <= Capacity)
<1> DEFINE most == {n \in 0 .. Len(c.lru) : \A k \in 0 .. n - 1 : Evicts(c, k)}
           m == IF c.usage <= Capacity THEN 0
                ELSE IF c.usage - Capacity <= Len(c.lru) THEN c.usage - Capacity ELSE Len(c.lru)
           n == CHOOSE i \in most : \A k \in most : k <= i
<1>1. c.usage \in Nat /\ Len(c.lru) \in Nat /\ Capacity \in Nat
  BY TableCacheAssumption DEF Sound, Shape, Caching
<1>2. m \in 0 .. Len(c.lru) /\ (m = Len(c.lru) \/ c.usage - m <= Capacity)
  BY <1>1
<1>3. m \in most
  BY <1>1, <1>2 DEF Evicts
<1>4. ASSUME NEW k \in most PROVE k <= m
  <2>1. k \in 0 .. Len(c.lru) /\ \A i \in 0 .. k - 1 : c.usage - i > Capacity
    BY DEF Evicts
  <2>2. k > m => m \in 0 .. k - 1
    BY <1>1, <1>2, <2>1
  <2>3. QED
    BY <1>1, <1>2, <2>1, <2>2
<1>5. EvictOldest(c) = EraseOldest(c, n)
  BY DEF EvictOldest
<1>6. \A k \in most : k \in Nat
  BY <1>1
<1> HIDE DEF m, most
<1>7. n \in most /\ \A k \in most : k <= n
  BY <1>3, <1>4
<1>8. n = m
  BY <1>3, <1>4, <1>6, <1>7
<1>9. QED
  BY <1>2, <1>5, <1>8

(* Insert: the new handle is the client's and, with a capacity, the cache  *)
(* has it as the only one of its table.                                    *)
IsAdded(c, h, d, a, t) ==
    /\ d.entry[a] # Free /\ d.entry[a].key = t
    /\ \A x \in Addresses \ {a} : d.entry[x] # Free => c.entry[x] # Free /\ d.entry[x].key = c.entry[x].key
    /\ \A x \in Addresses \ {a} : h[x] > 0 => d.entry[x].key = c.entry[x].key /\ d.entry[x] # Free
    /\ Caches => d.entry[a].inCache /\ (d.usage <= Capacity \/ d.lru = << >>)

LEMMA InsertSound ==
  ASSUME NEW c, NEW h \in [Addresses -> Nat], Sound(c, h), NEW a \in Addresses, c.entry[a] = Free, NEW t \in Tables
  PROVE  LET d == InsertHandle(c, a, t)
         IN  /\ Sound(d, [h EXCEPT ![a] = @ + 1])
             /\ IsAdded(c, h, d, a, t)
<1> DEFINE new == [key |-> t, refs |-> IF Caches THEN 2 ELSE 1, inCache |-> Caches]
           added == [c EXCEPT !.entry[a] = new, !.inUse = @ \cup {a}, !.usage = @ + 1]
           h2 == [h EXCEPT ![a] = @ + 1]
           d == InsertHandle(c, a, t)
<1>1. /\ c \in Caching /\ Len(c.buckets) > 0 /\ c.lru \in Seq(Addresses)
      /\ c.entry \in [Addresses -> Handles] /\ Hashed(c, CachedIn(c))
  BY DEF Sound, Shape, Caching
<1>2. Caches \in BOOLEAN /\ new \in Handles /\ new # Free /\ new.key = t /\ new.inCache = Caches /\ new.refs > 0
  BY DEF Handles, Free, None, Caches
<1>3. new.refs = 1 + (IF Caches THEN 1 ELSE 0)
  OBVIOUS
<1>4. h[a] = 0 /\ h2[a] = 1 /\ h2 \in [Addresses -> Nat] /\ \A x \in Addresses \ {a} : h2[x] = h[x]
  BY DEF Sound, RefsCounted
<1>5. a \notin CachedIn(c) /\ CachedIn(c) \in SUBSET Addresses
  BY DEF CachedIn, Free
<1>6. /\ Range(c.lru) = {x \in CachedIn(c) : c.entry[x].refs = 1} /\ IsInjective(c.lru)
      /\ Caches => c.inUse = CachedIn(c) \ Range(c.lru)
      /\ ~Caches => CachedIn(c) = {}
      /\ c.usage = Cardinality(CachedIn(c))
  BY DEF Sound, OnLists
<1> HIDE DEF new
<1>7. CASE ~Caches
  <2>1. d = [c EXCEPT !.entry[a] = new]
    BY <1>7 DEF InsertHandle, new
  <2>2. /\ d.entry = [c.entry EXCEPT ![a] = new] /\ d.buckets = c.buckets /\ d.elems = c.elems /\ d.lru = c.lru
        /\ d.inUse = c.inUse /\ d.usage = c.usage /\ d = [c EXCEPT !.entry = d.entry]
    BY <1>1, <2>1 DEF Caching
  <2> HIDE DEF d
  <2>3. d.entry \in [Addresses -> Handles] /\ d.entry[a] = new /\ \A x \in Addresses \ {a} : d.entry[x] = c.entry[x]
    BY <1>1, <1>2, <2>2
  <2>4. Shape(d)
    BY <1>1, <2>2, <2>3 DEF Shape, Caching
  <2>5. CachedIn(d) = CachedIn(c)
    BY <1>2, <1>5, <1>7, <2>3 DEF CachedIn
  <2>6. CachedIn(c) = {}
    BY <1>6, <1>7
  <2>7. Hashed(d, CachedIn(d))
    BY <1>1, <2>2, <2>5, <2>6, SameHashed
  <2>8. OnLists(d)
    BY <1>6, <1>7, <2>2, <2>5, <2>6 DEF OnLists
  <2>9. RefsCounted(d, h2)
    <3>1. ASSUME NEW x \in Addresses \ {a}
          PROVE  /\ d.entry[x] = Free => h2[x] = 0
                 /\ d.entry[x] # Free => /\ d.entry[x].key \in Tables /\ d.entry[x].refs > 0
                                         /\ d.entry[x].refs = h2[x] + (IF d.entry[x].inCache THEN 1 ELSE 0)
      BY <1>4, <2>3 DEF Sound, RefsCounted
    <3>2. d.entry[a].refs = h2[a] + (IF d.entry[a].inCache THEN 1 ELSE 0)
      BY <1>2, <1>3, <1>4, <1>7, <2>3
    <3>3. QED
      BY <1>2, <2>3, <3>1, <3>2 DEF RefsCounted
  <2>10. \A x \in Addresses \ {a} : h[x] > 0 => d.entry[x].key = c.entry[x].key /\ d.entry[x] # Free
    <3>1. \A x \in Addresses : h[x] > 0 => c.entry[x] # Free
      BY DEF Sound, RefsCounted
    <3>2. QED
      BY <2>3, <3>1
  <2>11. Sound(d, h2)
    BY <2>4, <2>7, <2>8, <2>9 DEF Sound
  <2>12. d.entry[a] # Free /\ d.entry[a].key = t
    BY <1>2, <2>3
  <2>13. \A x \in Addresses \ {a} : d.entry[x] # Free => c.entry[x] # Free /\ d.entry[x].key = c.entry[x].key
    BY <2>3
  <2> HIDE DEF d
  <2>14. IsAdded(c, h, d, a, t)
    BY <1>7, <2>10, <2>12, <2>13 DEF IsAdded
  <2>15. QED
    BY <2>11, <2>14 DEF d
<1>8. CASE Caches
  <2> DEFINE old == TableLookup(c, t)
             e == TableInsert(added, a)
             f == FinishErase(e, old)
             T == (CachedIn(c) \ FindPointer(added, t)) \cup {a}
  <2>1. d = EvictOldest(f)
    BY <1>8 DEF InsertHandle, new
  <2>2. /\ added.entry = [c.entry EXCEPT ![a] = new] /\ added.buckets = c.buckets /\ added.elems = c.elems
        /\ added.lru = c.lru /\ added.inUse = c.inUse \cup {a} /\ added.usage = c.usage + 1
    BY <1>1 DEF Caching
  <2>3. added.entry[a] = new /\ \A x \in Addresses \ {a} : added.entry[x] = c.entry[x]
    BY <1>1, <1>2, <2>2
  <2>4. added \in Caching
    <3>1. [c EXCEPT !.entry[a] = new] \in Caching
      <4>1. [c.entry EXCEPT ![a] = new] \in [Addresses -> Handles]
        BY <1>1, <1>2
      <4>2. [c EXCEPT !.entry[a] = new] = [c EXCEPT !.entry = [c.entry EXCEPT ![a] = new]]
        BY <1>1 DEF Caching
      <4>3. QED
        BY <1>1, <4>1, <4>2 DEF Caching
    <3> DEFINE g == [c EXCEPT !.entry[a] = new]
    <3>2. g.inUse \cup {a} \in SUBSET Addresses /\ g.usage + 1 \in Nat
      <4>1. g \in Caching
        BY <3>1
      <4> HIDE DEF g
      <4>2. QED
        BY <4>1 DEF Caching
    <3>3. added = [g EXCEPT !.inUse = g.inUse \cup {a}, !.usage = g.usage + 1]
      BY <1>1 DEF Caching
    <3> HIDE DEF g, added
    <3>4. QED
      BY <3>1, <3>2, <3>3 DEF Caching, g
  <2> HIDE DEF added
  <2>5. Shape(added)
    BY <1>1, <2>2, <2>4 DEF Shape
  <2>6. \A x \in CachedIn(c) : added.entry[x] = c.entry[x]
    BY <1>5, <2>3
  <2>7. Hashed(added, CachedIn(c))
    <3>1. \A x \in CachedIn(c) : added.entry[x].key = c.entry[x].key
      BY <2>6
    <3>2. added.buckets = c.buckets /\ added.elems = c.elems /\ Hashed(c, CachedIn(c))
      BY <1>1, <2>2
    <3>3. QED
      BY <3>1, <3>2, SameHashed
  <2>8. /\ Shape(e) /\ Hashed(e, T) /\ e = [added EXCEPT !.buckets = e.buckets, !.elems = e.elems]
    <3>1. added.entry[a].key = t /\ a \in Addresses \ CachedIn(c)
      BY <1>2, <1>5, <2>3
    <3>2. added.entry[a].key \in Tables
      BY <3>1
    <3>3. QED
      BY <2>5, <2>7, <3>1, <3>2, Inserted
  <2> HIDE DEF e
  <2>9. /\ e.entry = added.entry /\ e.lru = c.lru /\ e.inUse = c.inUse \cup {a} /\ e.usage = c.usage + 1
    BY <2>2, <2>4, <2>8 DEF Caching
  <2>10. CachedIn(e) = CachedIn(c) \cup {a}
    BY <1>2, <1>8, <2>3, <2>9 DEF CachedIn
  <2>11. RefsCounted(e, h2)
    <3>1. ASSUME NEW x \in Addresses \ {a}
          PROVE  /\ e.entry[x] = Free => h2[x] = 0
                 /\ e.entry[x] # Free => /\ e.entry[x].key \in Tables /\ e.entry[x].refs > 0
                                         /\ e.entry[x].refs = h2[x] + (IF e.entry[x].inCache THEN 1 ELSE 0)
      BY <1>4, <2>3, <2>9 DEF Sound, RefsCounted
    <3>2. e.entry[a] = new
      BY <2>3, <2>9
    <3>3. e.entry[a].refs = h2[a] + (IF e.entry[a].inCache THEN 1 ELSE 0)
      BY <1>2, <1>3, <1>4, <1>8, <3>2
    <3>4. QED
      BY <1>2, <3>1, <3>2, <3>3 DEF RefsCounted
  <2>12. OnLists(e)
    <3>1. new.refs # 1
      BY <1>3, <1>8
    <3>2. \A x \in CachedIn(c) : e.entry[x] = c.entry[x]
      BY <2>6, <2>9
    <3>3. e.entry[a] = new
      BY <2>3, <2>9
    <3>4. Range(e.lru) = {x \in CachedIn(e) : e.entry[x].refs = 1}
      BY <1>6, <2>9, <2>10, <3>1, <3>2, <3>3
    <3>5. e.inUse = CachedIn(e) \ Range(e.lru)
      BY <1>5, <1>6, <1>8, <2>9, <2>10
    <3>6. e.usage = Cardinality(CachedIn(e))
      <4>1. Cardinality(CachedIn(c) \cup {a}) = Cardinality(CachedIn(c)) + 1
        BY <1>5, CachedFinite
      <4>2. QED
        BY <1>6, <2>9, <2>10, <4>1
    <3>7. QED
      BY <1>6, <1>8, <2>9, <3>4, <3>5, <3>6 DEF OnLists
  <2>13. /\ FindPointer(added, t) = {x \in CachedIn(c) : c.entry[x].key = t}
         /\ old = None => FindPointer(added, t) = {}
         /\ old # None => old \in CachedIn(c) /\ FindPointer(added, t) = {old}
    <3>1. Shape(c)
      BY <1>1 DEF Shape
    <3>2. /\ old = None => \A x \in CachedIn(c) : c.entry[x].key # t
          /\ old # None => old \in CachedIn(c) /\ c.entry[old].key = t /\ FindPointer(c, t) = {old}
          /\ FindPointer(c, t) = {x \in CachedIn(c) : c.entry[x].key = t}
      BY <1>1, <3>1, Found
    <3>3. FindPointer(added, t) = {x \in CachedIn(c) : added.entry[x].key = t}
      BY <2>5, <2>7, Found
    <3>4. QED
      BY <2>6, <3>2, <3>3
  <2>14. /\ Sound(f, h2) /\ KeepsHandles(e, f)
         /\ \A x \in Addresses : h2[x] > 0 => f.entry[x].key = e.entry[x].key /\ f.entry[x] # Free
         /\ f.entry[a] = new
    <3>1. CASE old = None
      <4>1. f = e
        BY <3>1 DEF FinishErase
      <4>2. T = CachedIn(e)
        BY <2>10, <2>13, <3>1
      <4>3. Sound(f, h2)
        BY <2>8, <2>11, <2>12, <4>1, <4>2 DEF Sound
      <4>4. KeepsHandles(e, f)
        BY <4>1 DEF KeepsHandles
      <4>5. \A x \in Addresses : h2[x] > 0 => f.entry[x] # Free
        BY <4>3 DEF Sound, RefsCounted
      <4>6. QED
        BY <2>3, <2>9, <4>1, <4>3, <4>4, <4>5
    <3>2. CASE old # None
      <4>1. T = CachedIn(e) \ {old} /\ old \in CachedIn(e) /\ old # a
        BY <1>5, <2>10, <2>13, <3>2
      <4>2. SoundBut(e, h2, old)
        BY <2>8, <2>11, <2>12, <4>1 DEF SoundBut
      <4>3. /\ Sound(f, h2) /\ KeepsHandles(e, f)
            /\ \A x \in Addresses : h2[x] > 0 => f.entry[x].key = e.entry[x].key /\ f.entry[x] # Free
            /\ \A x \in Addresses \ {old} : f.entry[x] = e.entry[x]
        <5>1. h2 \in [Addresses -> Nat] /\ f = FinishErase(e, old)
          BY <1>4
        <5> HIDE DEF f, h2, old
        <5>2. QED
          BY <4>2, <5>1, Erased
      <4>4. QED
        BY <2>3, <2>9, <4>1, <4>3
    <3>3. QED
      BY <3>1, <3>2
  <2> HIDE DEF f
  <2>15. PICK n \in 0 .. Len(f.lru) : EvictOldest(f) = EraseOldest(f, n) /\ (n = Len(f.lru) \/ f.usage - n <= Capacity)
    BY <1>4, <2>14, LoopStops
  <2>16. /\ Sound(d, h2) /\ KeepsHandles(f, d) /\ Len(d.lru) = Len(f.lru) - n /\ d.usage = f.usage - n
         /\ \A x \in Addresses : h2[x] > 0 => d.entry[x] = f.entry[x]
    <3>1. d = EraseOldest(f, n)
      BY <2>1, <2>15
    <3> HIDE DEF d, h2
    <3>2. QED
      BY <1>4, <2>14, <3>1, OldestErased
  <2> HIDE DEF d
  <2>17. d.entry[a] = new
    BY <1>4, <2>14, <2>16
  <2>18. d.usage <= Capacity \/ d.lru = << >>
    <3>1. d.lru \in Seq(Addresses) /\ Len(f.lru) \in Nat
      BY <2>14, <2>16 DEF Sound, Shape, Caching
    <3>2. CASE n = Len(f.lru)
      BY <2>16, <3>1, <3>2
    <3>3. CASE f.usage - n <= Capacity
      BY <2>16, <3>3
    <3>4. QED
      BY <2>15, <3>2, <3>3
  <2>19. \A x \in Addresses \ {a} : d.entry[x] # Free => c.entry[x] # Free /\ d.entry[x].key = c.entry[x].key
    BY <2>3, <2>9, <2>14, <2>16 DEF KeepsHandles
  <2>20. \A x \in Addresses \ {a} : h[x] > 0 => d.entry[x].key = c.entry[x].key /\ d.entry[x] # Free
    BY <1>4, <2>3, <2>9, <2>14, <2>16
  <2>21. d.entry[a] # Free /\ d.entry[a].key = t /\ d.entry[a].inCache /\ (d.usage <= Capacity \/ d.lru = << >>)
    BY <1>2, <1>8, <2>16, <2>17, <2>18
  <2>22. IsAdded(c, h, d, a, t)
    BY <2>19, <2>20, <2>21 DEF IsAdded
  <2>23. QED
    BY <2>16, <2>22 DEF d
<1>9. QED
  BY <1>2, <1>7, <1>8
-----------------------------------------------------------------------------
(* How many clients hold each handle.                                      *)
HeldIn(cl) == [a \in Addresses |-> Cardinality({c \in Clients : cl[c].pc = "uses" /\ cl[c].handle = a})]

Doing == [pc : {"idle", "opens", "uses"}, table : Tables \cup {None}, handle : Addresses \cup {None}]

(* The cache is sound for the references clients have; a client has a      *)
(* handle of its table, and its table is live from the lookup on.          *)
CacheInv ==
    /\ client \in [Clients -> Doing]
    /\ live \subseteq Tables
    /\ Sound(cache, HeldIn(client))
    /\ \A c \in Clients : /\ client[c].pc = "idle" => client[c].table = None
                          /\ client[c].pc # "idle" => client[c].table \in live
                          /\ client[c].pc = "uses" => /\ client[c].handle \in Addresses
                                                      /\ entry[client[c].handle].key = client[c].table
    /\ \A a \in Addresses : entry[a] # Free => entry[a].key \in live
    /\ OpenIsBounded

LEMMA HeldType ==
  ASSUME NEW cl
  PROVE  HeldIn(cl) \in [Addresses -> Nat]
<1>1. ASSUME NEW a \in Addresses PROVE HeldIn(cl)[a] \in Nat
  <2>1. IsFiniteSet({c \in Clients : cl[c].pc = "uses" /\ cl[c].handle = a})
    BY TableCacheAssumption, FS_Subset
  <2>2. QED
    BY <2>1, FS_CardinalityType DEF HeldIn
<1>2. QED
  BY <1>1 DEF HeldIn

(* A client that takes a handle, gives one back, or does neither.          *)
HoldersOf(cl, a) == {c \in Clients : cl[c].pc = "uses" /\ cl[c].handle = a}

LEMMA HoldersFinite ==
  ASSUME NEW cl, NEW a \in Addresses
  PROVE  /\ HeldIn(cl)[a] = Cardinality(HoldersOf(cl, a))
         /\ IsFiniteSet(HoldersOf(cl, a)) /\ Cardinality(HoldersOf(cl, a)) \in Nat
<1>1. HoldersOf(cl, a) \subseteq Clients
  BY DEF HoldersOf
<1>2. QED
  BY <1>1, TableCacheAssumption, FS_Subset, FS_CardinalityType DEF HeldIn, HoldersOf

(* The handle of a client is counted.                                      *)
LEMMA HolderCounted ==
  ASSUME NEW cl, NEW c \in Clients, NEW a \in Addresses, cl[c].pc = "uses", cl[c].handle = a
  PROVE  HeldIn(cl)[a] > 0
<1>1. c \in HoldersOf(cl, a)
  BY DEF HoldersOf
<1>2. QED
  BY <1>1, HoldersFinite, FS_EmptySet

More(h, a) == [x \in Addresses |-> IF x = a THEN h[x] + 1 ELSE h[x]]
Less(h, a) == [x \in Addresses |-> IF x = a THEN h[x] - 1 ELSE h[x]]

LEMMA MoreOrLess ==
  ASSUME NEW h \in [Addresses -> Nat], NEW a \in Addresses
  PROVE  More(h, a) = [h EXCEPT ![a] = @ + 1] /\ Less(h, a) = [h EXCEPT ![a] = @ - 1]
BY DEF More, Less

LEMMA HeldKept ==
  ASSUME NEW cl \in [Clients -> Doing], NEW c \in Clients, NEW r \in Doing, NEW new,
         new = [cl EXCEPT ![c] = r],
         cl[c].pc # "uses", r.pc # "uses"
  PROVE  HeldIn(new) = HeldIn(cl)
<1>0. \A x \in Addresses :
         /\ HeldIn(cl)[x] = Cardinality(HoldersOf(cl, x)) /\ HeldIn(new)[x] = Cardinality(HoldersOf(new, x))
         /\ IsFiniteSet(HoldersOf(cl, x)) /\ Cardinality(HoldersOf(cl, x)) \in Nat
  BY HoldersFinite
<1>1. \A a \in Addresses : HoldersOf(new, a) = HoldersOf(cl, a)
  BY DEF HoldersOf
<1>2. \A a \in Addresses : HeldIn(new)[a] = HeldIn(cl)[a]
  BY <1>0, <1>1
<1>3. HeldIn(new) \in [Addresses -> Nat] /\ HeldIn(cl) \in [Addresses -> Nat]
  BY HeldType
<1> DEFINE h == HeldIn(cl)
           h2 == HeldIn(new)
<1> HIDE DEF h, h2
<1>4. h2 \in [Addresses -> Nat] /\ h \in [Addresses -> Nat] /\ \A a \in Addresses : h2[a] = h[a]
  BY <1>2, <1>3 DEF h, h2
<1>5. h2 = h
  BY <1>4
<1>6. QED
  BY <1>5 DEF h, h2

LEMMA HeldTaken ==
  ASSUME NEW cl, NEW new, NEW c \in Clients, \A x \in Clients \ {c} : new[x] = cl[x],
         cl[c].pc # "uses", new[c].pc = "uses", NEW a \in Addresses, new[c].handle = a
  PROVE  HeldIn(new) = More(HeldIn(cl), a)
<1>0. \A x \in Addresses :
         /\ HeldIn(cl)[x] = Cardinality(HoldersOf(cl, x)) /\ HeldIn(new)[x] = Cardinality(HoldersOf(new, x))
         /\ IsFiniteSet(HoldersOf(cl, x)) /\ Cardinality(HoldersOf(cl, x)) \in Nat
  BY HoldersFinite
<1>1. \A x \in Addresses \ {a} : HoldersOf(new, x) = HoldersOf(cl, x)
  BY DEF HoldersOf
<1>2. HoldersOf(new, a) = HoldersOf(cl, a) \cup {c} /\ c \notin HoldersOf(cl, a)
  BY DEF HoldersOf
<1>3. Cardinality(HoldersOf(new, a)) = Cardinality(HoldersOf(cl, a)) + 1
  <2> DEFINE H == HoldersOf(cl, a)
  <2>1. IsFiniteSet(H)
    BY <1>0
  <2> HIDE DEF H
  <2>2. c \notin H => Cardinality(H \cup {c}) = Cardinality(H) + 1
    BY <2>1, FS_AddElement
  <2>3. QED
    BY <1>2, <2>2 DEF H
<1>4. \A x \in Addresses : HeldIn(new)[x] = IF x = a THEN HeldIn(cl)[x] + 1 ELSE HeldIn(cl)[x]
  BY <1>0, <1>1, <1>3
<1>5. HeldIn(new) \in [Addresses -> Nat] /\ HeldIn(cl) \in [Addresses -> Nat]
  BY HeldType
<1> DEFINE h == HeldIn(new)
           h2 == More(HeldIn(cl), a)
<1>6. \A x \in Addresses : h2[x] = IF x = a THEN HeldIn(cl)[x] + 1 ELSE HeldIn(cl)[x]
  BY DEF More
<1>7. h2 = [x \in Addresses |-> h2[x]] /\ h = [x \in Addresses |-> h[x]]
  BY DEF More, HeldIn
<1> HIDE DEF h, h2
<1>8. \A x \in Addresses : h[x] = h2[x]
  BY <1>4, <1>6 DEF h
<1>9. h = h2
  BY <1>7, <1>8
<1>10. QED
  BY <1>9 DEF h, h2

LEMMA HeldReturned ==
  ASSUME NEW cl \in [Clients -> Doing], NEW c \in Clients, NEW r \in Doing, NEW new,
         new = [cl EXCEPT ![c] = r],
         cl[c].pc = "uses", r.pc # "uses", NEW a \in Addresses, cl[c].handle = a
  PROVE  HeldIn(new) = Less(HeldIn(cl), a)
<1>0. \A x \in Addresses :
         /\ HeldIn(cl)[x] = Cardinality(HoldersOf(cl, x)) /\ HeldIn(new)[x] = Cardinality(HoldersOf(new, x))
         /\ IsFiniteSet(HoldersOf(cl, x)) /\ Cardinality(HoldersOf(cl, x)) \in Nat
  BY HoldersFinite
<1>1. \A x \in Addresses \ {a} : HoldersOf(new, x) = HoldersOf(cl, x)
  BY DEF HoldersOf
<1>2. HoldersOf(new, a) = HoldersOf(cl, a) \ {c} /\ c \in HoldersOf(cl, a)
  BY DEF HoldersOf
<1>3. /\ Cardinality(HoldersOf(new, a)) = Cardinality(HoldersOf(cl, a)) - 1
      /\ Cardinality(HoldersOf(cl, a)) # 0
  <2> DEFINE H == HoldersOf(cl, a)
  <2>1. IsFiniteSet(H)
    BY <1>0
  <2> HIDE DEF H
  <2>2. c \in H => Cardinality(H \ {c}) = Cardinality(H) - 1 /\ Cardinality(H) # 0
    BY <2>1, FS_RemoveElement, FS_EmptySet
  <2>3. QED
    BY <1>2, <2>2 DEF H
<1>4. \A x \in Addresses : HeldIn(new)[x] = IF x = a THEN HeldIn(cl)[x] - 1 ELSE HeldIn(cl)[x]
  BY <1>0, <1>1, <1>3
<1>5. HeldIn(new) \in [Addresses -> Nat] /\ HeldIn(cl) \in [Addresses -> Nat]
  BY HeldType
<1> DEFINE h == HeldIn(new)
           h2 == Less(HeldIn(cl), a)
<1>6. \A x \in Addresses : h2[x] = IF x = a THEN HeldIn(cl)[x] - 1 ELSE HeldIn(cl)[x]
  BY DEF Less
<1>7. h2 = [x \in Addresses |-> h2[x]] /\ h = [x \in Addresses |-> h[x]]
  BY DEF Less, HeldIn
<1> HIDE DEF h, h2
<1>8. \A x \in Addresses : h[x] = h2[x]
  BY <1>4, <1>6 DEF h
<1>9. h = h2
  BY <1>7, <1>8
<1>10. QED
  BY <1>9 DEF h, h2

(* Some clients hold no more handles than they are.                        *)
LEMMA HeldAreFew ==
  ASSUME NEW cl, NEW W, NEW K \in SUBSET Clients, \A a \in W : \E c \in K : cl[c].handle = a
  PROVE  IsFiniteSet(W) /\ Cardinality(W) <= Cardinality(K)
<1> DEFINE f == [a \in W |-> CHOOSE c \in K : cl[c].handle = a]
<1>1. \A a \in W : f[a] \in K /\ cl[f[a]].handle = a
  OBVIOUS
<1>2. f \in Injection(W, K)
  <2>1. f \in [W -> K]
    BY <1>1
  <2>2. \A a, b \in W : f[a] = f[b] => a = b
    BY <1>1
  <2> HIDE DEF f
  <2>3. QED
    BY <2>1, <2>2 DEF Injection, IsInjective
<1>3. IsFiniteSet(K)
  BY TableCacheAssumption, FS_Subset
<1>4. QED
  BY <1>2, <1>3, FS_Injection

(* A handle somebody holds is held by a client.                            *)
LEMMA SomebodyHolds ==
  ASSUME NEW cl, NEW a \in Addresses, HeldIn(cl)[a] # 0
  PROVE  \E c \in Clients : cl[c].pc = "uses" /\ cl[c].handle = a
<1> DEFINE S == {c \in Clients : cl[c].pc = "uses" /\ cl[c].handle = a}
<1>1. S # {}
  BY FS_EmptySet DEF HeldIn
<1>2. QED
  BY <1>1

LEMMA OpenIsFinite ==
  /\ IsFiniteSet(OpenTables) /\ Cardinality(OpenTables) \in Nat
  /\ Cardinality(Clients) \in Nat /\ Capacity \in Nat
  /\ IsFiniteSet(Addresses) /\ Cardinality(Addresses) = Capacity + 2 * Cardinality(Clients)
<1>1. Cardinality(Clients) \in Nat /\ Capacity \in Nat
  BY TableCacheAssumption, FS_CardinalityType
<1>2. Capacity + 2 * Cardinality(Clients) \in Nat
  BY <1>1
<1>3. IsFiniteSet(Addresses) /\ Cardinality(Addresses) = Capacity + 2 * Cardinality(Clients)
  BY <1>2, FS_Interval DEF Addresses
<1>4. OpenTables \subseteq Addresses
  BY DEF OpenTables
<1>5. QED
  BY <1>1, <1>3, <1>4, FS_Subset, FS_CardinalityType

(* There is memory for a handle.                                           *)
LEMMA MemoryIsLeft ==
  ASSUME CacheInv, NEW c \in Clients
  PROVE  \E a \in Addresses : entry[a] = Free
<1> SUFFICES ASSUME \A a \in Addresses : entry[a] # Free PROVE FALSE
  OBVIOUS
<1>1. OpenTables = Addresses
  BY DEF OpenTables
<1>2. Cardinality(Clients) > 0
  BY TableCacheAssumption, FS_EmptySet, OpenIsFinite
<1>3. CASE Caches
  BY <1>1, <1>2, <1>3, OpenIsFinite DEF CacheInv, OpenIsBounded
<1>4. CASE ~Caches
  <2>1. cache.entry = entry
    BY DEF cache
  <2>2. \A a \in Addresses : ~entry[a].inCache
    BY <1>4, <2>1 DEF CacheInv, Sound, OnLists, CachedIn
  <2>3. \A a \in Addresses : HeldIn(client)[a] # 0
    <3>1. ASSUME NEW a \in Addresses PROVE HeldIn(client)[a] # 0
      <4>1. entry[a].refs > 0 /\ entry[a].refs = HeldIn(client)[a] + (IF entry[a].inCache THEN 1 ELSE 0)
        BY <2>1 DEF CacheInv, Sound, RefsCounted
      <4>2. entry[a].refs = HeldIn(client)[a] + 0
        BY <2>2, <4>1
      <4>3. QED
        BY <4>1, <4>2
    <3>2. QED
      BY <3>1
  <2>4. \A a \in Addresses : \E k \in Clients : client[k].handle = a
    BY <2>3, SomebodyHolds
  <2>5. Cardinality(Addresses) <= Cardinality(Clients)
    BY <2>4, HeldAreFew
  <2>6. QED
    BY <1>2, <2>5, OpenIsFinite
<1>5. QED
  BY <1>3, <1>4

(* No more handles are open than the cache keeps and others hold.          *)
LEMMA FewAreOpen ==
  ASSUME NEW d, NEW cl, Sound(d, HeldIn(cl)), Caches, NEW c \in Clients, NEW a \in Addresses,
         cl[c].pc = "uses", cl[c].handle = a, d.entry[a].inCache, d.usage <= Capacity \/ d.lru = << >>
  PROVE  Cardinality({b \in Addresses : d.entry[b] # Free}) < Capacity + Cardinality(Clients)
<1> DEFINE Open == {b \in Addresses : d.entry[b] # Free}
<1>1. /\ Capacity \in Nat /\ Capacity > 0 /\ Cardinality(Clients) \in Nat /\ Cardinality(Clients) > 0
      /\ IsFiniteSet(Clients)
  BY TableCacheAssumption, OpenIsFinite, FS_EmptySet DEF Caches
<1>2. \A b \in Open : \/ \E k \in Clients : cl[k].pc = "uses" /\ cl[k].handle = b
                      \/ b \in Range(d.lru)
  <2>1. ASSUME NEW b \in Open, HeldIn(cl)[b] = 0 PROVE b \in Range(d.lru)
    <3>1. d.entry[b].refs > 0 /\ d.entry[b].refs = 0 + (IF d.entry[b].inCache THEN 1 ELSE 0)
      BY <2>1 DEF Sound, RefsCounted
    <3>2. d.entry[b].inCache /\ d.entry[b].refs = 1
      BY <3>1
    <3>3. QED
      BY <3>2 DEF Sound, OnLists, CachedIn
  <2>2. QED
    BY <2>1, SomebodyHolds
<1>3. CASE d.lru = << >>
  <2>1. Range(d.lru) = {}
    BY <1>3 DEF Range
  <2>2. \A b \in Open : \E k \in Clients : cl[k].handle = b
    BY <1>2, <2>1
  <2> HIDE DEF Open
  <2>3. IsFiniteSet(Open) /\ Cardinality(Open) <= Cardinality(Clients)
    BY <2>2, HeldAreFew
  <2>4. QED
    BY <1>1, <2>3, FS_CardinalityType DEF Open
<1>4. CASE d.usage <= Capacity
  <2> DEFINE W == Open \ CachedIn(d)
             K == Clients \ {c}
  <2>1. Open \subseteq CachedIn(d) \cup W
    OBVIOUS
  <2>2. d.usage = Cardinality(CachedIn(d)) /\ Range(d.lru) \subseteq CachedIn(d) /\ CachedIn(d) \in SUBSET Addresses
    BY DEF Sound, OnLists, CachedIn
  <2>3. IsFiniteSet(CachedIn(d)) /\ Cardinality(CachedIn(d)) \in Nat
    BY <2>2, CachedFinite
  <2>4. \A b \in W : \E k \in K : cl[k].handle = b
    BY <1>2, <2>2 DEF CachedIn
  <2>5. K \in SUBSET Clients /\ Cardinality(K) = Cardinality(Clients) - 1
    BY <1>1, FS_RemoveElement
  <2> HIDE DEF Open, W, K
  <2>6. IsFiniteSet(W) /\ Cardinality(W) <= Cardinality(K)
    BY <2>4, <2>5, HeldAreFew
  <2>7. /\ IsFiniteSet(CachedIn(d) \cup W)
        /\ Cardinality(CachedIn(d) \cup W) = Cardinality(CachedIn(d)) + Cardinality(W) - Cardinality(CachedIn(d) \cap W)
    BY <2>3, <2>6, FS_Union
  <2>8. Cardinality(W) \in Nat /\ Cardinality(CachedIn(d) \cap W) \in Nat /\ Cardinality(CachedIn(d) \cup W) \in Nat
    BY <2>3, <2>6, <2>7, FS_CardinalityType, FS_Intersection
  <2>9. IsFiniteSet(Open) /\ Cardinality(Open) <= Cardinality(CachedIn(d) \cup W) /\ Cardinality(Open) \in Nat
    BY <2>1, <2>7, FS_Subset, FS_CardinalityType
  <2>10. QED
    BY <1>1, <1>4, <2>2, <2>3, <2>5, <2>6, <2>7, <2>8, <2>9 DEF Open
<1>5. QED
  BY <1>3, <1>4

(* Where no handle is opened, the bound stays.                             *)
LEMMA BoundStays ==
  ASSUME OpenIsBounded, \A a \in Addresses : entry'[a] # Free => entry[a] # Free
  PROVE  OpenIsBounded'
<1>1. (OpenTables)' \subseteq OpenTables
  BY DEF OpenTables
<1>2. Cardinality((OpenTables)') <= Cardinality(OpenTables) /\ IsFiniteSet((OpenTables)')
  BY <1>1, OpenIsFinite, FS_Subset
<1>3. Cardinality((OpenTables)') \in Nat
  BY <1>2, FS_CardinalityType
<1>4. Caches' = Caches
  BY DEF Caches
<1>5. QED
  BY <1>2, <1>3, <1>4, OpenIsFinite DEF OpenIsBounded

(* A step that makes the cache d, sound for what the clients then hold.    *)
LEMMA BecomesSound ==
  ASSUME NEW d, d \in Caching, Becomes(d)
  PROVE  cache' = d /\ entry' = d.entry
<1>1. cache' = [entry |-> d.entry, buckets |-> d.buckets, elems |-> d.elems, lru |-> d.lru,
                inUse |-> d.inUse, usage |-> d.usage]
  BY DEF Becomes, cache
<1>2. cache' \in Caching
  BY <1>1 DEF Caching
<1> DEFINE e == cache'
<1>3. /\ e.entry = d.entry /\ e.buckets = d.buckets /\ e.elems = d.elems /\ e.lru = d.lru
      /\ e.inUse = d.inUse /\ e.usage = d.usage
  BY <1>1
<1> HIDE DEF e
<1>4. e = d
  BY <1>2, <1>3, SameCache DEF e
<1>5. QED
  BY <1>4 DEF Becomes, e
-----------------------------------------------------------------------------
LEMMA CacheStarts == CacheInit => CacheInv
<1> SUFFICES ASSUME CacheInit PROVE CacheInv
  OBVIOUS
<1>1. \A c \in Clients : client[c] = [pc |-> "idle", table |-> None, handle |-> None]
  BY DEF CacheInit
<1>2. client \in [Clients -> Doing]
  BY DEF CacheInit, Doing
<1>3. HeldIn(client) = [a \in Addresses |-> 0]
  <2>1. \A a \in Addresses : {c \in Clients : client[c].pc = "uses" /\ client[c].handle = a} = {}
    BY <1>1
  <2>2. QED
    BY <2>1, FS_EmptySet DEF HeldIn
<1>4. \A a \in Addresses : entry[a] = Free /\ ~Free.inCache
  BY DEF CacheInit, Free
<1>5. cache.entry = entry /\ cache.buckets = buckets /\ cache.elems = 0 /\ cache.lru = << >> /\ cache.inUse = {} /\ cache.usage = 0
  BY DEF cache, CacheInit
<1>6. CachedIn(cache) = {}
  BY <1>4, <1>5 DEF CachedIn
<1>7. Shape(cache)
  <2>1. entry \in [Addresses -> Handles]
    BY DEF CacheInit, Free, Handles, None
  <2>2. buckets \in Seq(SUBSET Addresses) /\ Len(buckets) > 0
    BY TableCacheAssumption DEF CacheInit
  <2>3. elems \in Nat /\ lru \in Seq(Addresses) /\ inUse \in SUBSET Addresses /\ usage \in Nat
    BY DEF CacheInit
  <2>4. cache \in Caching
    BY <2>1, <2>2, <2>3 DEF Caching, cache
  <2>5. QED
    BY <1>5, <2>2, <2>4 DEF Shape
<1>8. Hashed(cache, {})
  <2>1. \A i \in DOMAIN buckets : buckets[i] = {}
    BY DEF CacheInit
  <2>2. QED
    BY <1>5, <2>1, FS_EmptySet DEF Hashed
<1>9. RefsCounted(cache, HeldIn(client))
  BY <1>3, <1>4, <1>5 DEF RefsCounted
<1>10. OnLists(cache)
  BY <1>5, <1>6, FS_EmptySet DEF OnLists, IsInjective, Range
<1>11. OpenIsBounded
  <2>1. OpenTables = {}
    BY <1>4 DEF OpenTables
  <2>2. QED
    BY <2>1, FS_EmptySet, OpenIsFinite, TableCacheAssumption DEF OpenIsBounded, Caches
<1>12. QED
  BY <1>1, <1>2, <1>4, <1>6, <1>7, <1>8, <1>9, <1>10, <1>11 DEF CacheInv, Sound, CacheInit

LEMMA CacheStep == CacheInv /\ [CacheNext]_cacheVars => CacheInv'
<1> SUFFICES ASSUME CacheInv, [CacheNext]_cacheVars PROVE CacheInv'
  OBVIOUS
<1> DEFINE h == HeldIn(client)
<1>0. /\ client \in [Clients -> Doing] /\ live \subseteq Tables /\ Sound(cache, h) /\ h \in [Addresses -> Nat]
      /\ cache.entry = entry /\ OpenIsBounded /\ cache \in Caching
      /\ \A a \in Addresses : entry[a] # Free => entry[a].key \in live
      /\ \A t \in Tables : t # None
  <2>1. cache.entry = entry
    BY DEF cache
  <2>2. \A t \in Tables : t # None
    BY TableCacheAssumption DEF None
  <2>3. QED
    BY <2>1, <2>2, HeldType DEF CacheInv, Sound, Shape
<1> USE DEF Does
<1>1. ASSUME NEW c \in Clients, NEW t \in Tables, FindTable(c, t) PROVE CacheInv'
  <2> DEFINE a == TableLookup(cache, t)
  <2>1. client[c].pc = "idle" /\ t \in live /\ live' = live
    BY <1>1 DEF FindTable
  <2>2. /\ a = None => \A x \in CachedIn(cache) : entry[x].key # t
        /\ a # None => a \in CachedIn(cache) /\ entry[a].key = t
    BY <1>0, Found DEF Sound
  <2>3. CASE a = None
    <3> DEFINE r == [pc |-> "opens", table |-> t, handle |-> None]
    <3>1. client' = [client EXCEPT ![c] = r] /\ Becomes(cache)
      BY <1>1, <2>3 DEF FindTable
    <3>2. r \in Doing /\ r.pc = "opens" /\ r.table = t
      BY DEF Doing
    <3>3. cache' = cache /\ entry' = entry
      BY <1>0, <3>1, BecomesSound
    <3> HIDE DEF r
    <3>4. HeldIn(client') = h
      BY <1>0, <2>1, <3>1, <3>2, HeldKept
    <3> HIDE DEF h
    <3>5. client' \in [Clients -> Doing] /\ client'[c] = r /\ \A x \in Clients \ {c} : client'[x] = client[x]
      BY <1>0, <3>1, <3>2
    <3>6. OpenIsBounded'
      BY <1>0, <3>3, BoundStays
    <3>7. QED
      BY <1>0, <2>1, <3>2, <3>3, <3>4, <3>5, <3>6 DEF CacheInv, h
  <2>4. CASE a # None
    <3> DEFINE r == [pc |-> "uses", table |-> t, handle |-> a]
               d == Ref(cache, a)
    <3>1. client' = [client EXCEPT ![c] = r] /\ Becomes(d)
      BY <1>1, <2>4 DEF FindTable
    <3>2. a \in Addresses /\ entry[a].key = t /\ entry[a] # Free
      BY <1>0, <2>2, <2>4 DEF CachedIn, Free
    <3>3. r \in Doing /\ r.pc = "uses" /\ r.table = t /\ r.handle = a
      BY <3>2 DEF Doing
    <3>4. HeldIn(client') = [h EXCEPT ![a] = @ + 1]
      <4> HIDE DEF r, a
      <4>1. /\ client[c].pc # "uses" /\ client'[c].pc = "uses" /\ client'[c].handle = a
            /\ \A x \in Clients \ {c} : client'[x] = client[x]
        BY <1>0, <2>1, <3>1, <3>3
      <4>2. HeldIn(client') = More(h, a)
        BY <3>2, <4>1, HeldTaken
      <4> HIDE DEF h
      <4>3. QED
        BY <1>0, <3>2, <4>2, MoreOrLess
    <3>5. /\ Sound(d, [h EXCEPT ![a] = @ + 1])
          /\ \A x \in Addresses : d.entry[x].key = entry[x].key /\ (d.entry[x] # Free <=> entry[x] # Free)
      BY <1>0, <3>2, RefSound
    <3> HIDE DEF r, h, a, d
    <3>6. cache' = d /\ entry' = d.entry
      BY <3>1, <3>5, BecomesSound DEF Sound, Shape
    <3>7. client' \in [Clients -> Doing] /\ client'[c] = r /\ \A x \in Clients \ {c} : client'[x] = client[x]
      BY <1>0, <3>1, <3>3
    <3>8. OpenIsBounded'
      BY <1>0, <3>5, <3>6, BoundStays
    <3>9. \A x \in Clients : /\ client'[x].pc = "idle" => client'[x].table = None
                             /\ client'[x].pc # "idle" => client'[x].table \in live
                             /\ client'[x].pc = "uses" => /\ client'[x].handle \in Addresses
                                                          /\ entry'[client'[x].handle].key = client'[x].table
      BY <2>1, <3>2, <3>3, <3>5, <3>6, <3>7 DEF CacheInv
    <3>10. QED
      BY <1>0, <2>1, <3>4, <3>5, <3>6, <3>7, <3>8, <3>9 DEF CacheInv
  <2>5. QED
    BY <2>3, <2>4
<1>2. ASSUME NEW c \in Clients, OpenFails(c) PROVE CacheInv'
  <2> DEFINE r == [pc |-> "idle", table |-> None, handle |-> None]
  <2>1. client[c].pc = "opens" /\ client' = [client EXCEPT ![c] = r] /\ Becomes(cache) /\ live' = live
    BY <1>2 DEF OpenFails
  <2>2. r \in Doing /\ r.pc = "idle" /\ r.table = None
    BY DEF Doing
  <2>3. cache' = cache /\ entry' = entry
    BY <1>0, <2>1, BecomesSound
  <2> HIDE DEF r
  <2>4. HeldIn(client') = h
    BY <1>0, <2>1, <2>2, HeldKept
  <2> HIDE DEF h
  <2>5. client' \in [Clients -> Doing] /\ client'[c] = r /\ \A x \in Clients \ {c} : client'[x] = client[x]
    BY <1>0, <2>1, <2>2
  <2>6. OpenIsBounded'
    BY <1>0, <2>3, BoundStays
  <2>7. QED
    BY <1>0, <2>1, <2>2, <2>3, <2>4, <2>5, <2>6 DEF CacheInv, h
<1>3. ASSUME NEW c \in Clients, CacheInsert(c) PROVE CacheInv'
  <2> DEFINE a == CHOOSE b \in Addresses : entry[b] = Free
             t == client[c].table
             r == [pc |-> "uses", table |-> t, handle |-> a]
             d == InsertHandle(cache, a, t)
             h2 == [h EXCEPT ![a] = @ + 1]
  <2>1. client[c].pc = "opens" /\ client' = [client EXCEPT ![c] = r] /\ Becomes(d) /\ live' = live
    BY <1>3 DEF CacheInsert
  <2>2. a \in Addresses /\ entry[a] = Free
    BY MemoryIsLeft
  <2>3. t \in live /\ t \in Tables
    BY <1>0, <2>1 DEF CacheInv
  <2> HIDE DEF a, t
  <2>4. r \in Doing /\ r.pc = "uses" /\ r.table = t /\ r.handle = a
    BY <2>2, <2>3 DEF Doing
  <2>5. HeldIn(client') = h2
    <3> HIDE DEF r
    <3>1. /\ client[c].pc # "uses" /\ client'[c].pc = "uses" /\ client'[c].handle = a
          /\ \A x \in Clients \ {c} : client'[x] = client[x]
      BY <1>0, <2>1, <2>2, <2>4
    <3>2. HeldIn(client') = More(h, a)
      BY <2>2, <3>1, HeldTaken
    <3> HIDE DEF h
    <3>3. QED
      BY <1>0, <2>2, <3>2, MoreOrLess
  <2>6. /\ Sound(d, h2) /\ d.entry[a] # Free /\ d.entry[a].key = t
        /\ \A x \in Addresses \ {a} : d.entry[x] # Free => entry[x] # Free /\ d.entry[x].key = entry[x].key
        /\ \A x \in Addresses \ {a} : h[x] > 0 => d.entry[x].key = entry[x].key /\ d.entry[x] # Free
        /\ Caches => d.entry[a].inCache /\ (d.usage <= Capacity \/ d.lru = << >>)
    <3> HIDE DEF h, d
    <3>1. /\ cache.entry[a] = Free /\ a \in Addresses /\ t \in Tables
          /\ Sound(cache, h) /\ h \in [Addresses -> Nat]
      BY <1>0, <2>2, <2>3 DEF h
    <3>2. /\ Sound(d, h2) /\ d.entry[a] # Free /\ d.entry[a].key = t
          /\ \A x \in Addresses \ {a} : d.entry[x] # Free => cache.entry[x] # Free /\ d.entry[x].key = cache.entry[x].key
          /\ \A x \in Addresses \ {a} : h[x] > 0 => d.entry[x].key = cache.entry[x].key /\ d.entry[x] # Free
          /\ Caches => d.entry[a].inCache /\ (d.usage <= Capacity \/ d.lru = << >>)
      <4>1. Sound(d, h2)
        BY ONLY <3>1, InsertSound DEF d, h2
      <4>2. IsAdded(cache, h, d, a, t)
        BY ONLY <3>1, InsertSound DEF d
      <4>3. QED
        BY <4>1, <4>2 DEF IsAdded
    <3> HIDE DEF h2
    <3>3. QED
      BY <1>0, <3>2
  <2> HIDE DEF d, r
  <2>7. cache' = d /\ entry' = d.entry
    BY <2>1, <2>6, BecomesSound DEF Sound, Shape
  <2>8. client' \in [Clients -> Doing] /\ client'[c] = r /\ \A x \in Clients \ {c} : client'[x] = client[x]
    BY <1>0, <2>1, <2>4
  <2>9. \A x \in Clients \ {c} : client[x].pc = "uses" => /\ client[x].handle \in Addresses /\ h[client[x].handle] > 0
                                                          /\ client[x].handle # a
    <3>1. ASSUME NEW x \in Clients \ {c}, client[x].pc = "uses"
          PROVE  client[x].handle \in Addresses /\ h[client[x].handle] > 0
      <4>1. client[x].handle \in Addresses
        BY <3>1 DEF CacheInv
      <4>2. QED
        BY <3>1, <4>1, HolderCounted
    <3>2. h[a] = 0
      BY <1>0, <2>2 DEF Sound, RefsCounted
    <3>3. QED
      BY <3>1, <3>2
  <2> HIDE DEF h
  <2>10. \A x \in Clients : /\ client'[x].pc = "idle" => client'[x].table = None
                            /\ client'[x].pc # "idle" => client'[x].table \in live
                            /\ client'[x].pc = "uses" => /\ client'[x].handle \in Addresses
                                                         /\ entry'[client'[x].handle].key = client'[x].table
    <3>1. client'[c].pc = "uses" /\ client'[c].table \in live /\ client'[c].handle \in Addresses
          /\ entry'[client'[c].handle].key = client'[c].table
      BY <2>2, <2>3, <2>4, <2>6, <2>7, <2>8
    <3>2. ASSUME NEW x \in Clients \ {c}
          PROVE  /\ client'[x].pc = "idle" => client'[x].table = None
                 /\ client'[x].pc # "idle" => client'[x].table \in live
                 /\ client'[x].pc = "uses" => /\ client'[x].handle \in Addresses
                                              /\ entry'[client'[x].handle].key = client'[x].table
      BY <2>6, <2>7, <2>8, <2>9 DEF CacheInv
    <3>3. QED
      BY <3>1, <3>2
  <2>11. \A x \in Addresses : entry'[x] # Free => entry'[x].key \in live
    BY <1>0, <2>3, <2>6, <2>7
  <2>12. OpenIsBounded'
    <3>1. ASSUME Caches PROVE Cardinality({b \in Addresses : d.entry[b] # Free}) < Capacity + Cardinality(Clients)
      <4>1. Sound(d, HeldIn(client'))
        BY <2>5, <2>6
      <4>2. client'[c].pc = "uses" /\ client'[c].handle = a
        BY <2>4, <2>8
      <4>3. QED
        BY <2>2, <2>6, <3>1, <4>1, <4>2, FewAreOpen
    <3>2. (OpenTables)' = {b \in Addresses : d.entry[b] # Free}
      BY <2>7 DEF OpenTables
    <3>3. Caches' = Caches
      BY DEF Caches
    <3>4. QED
      BY <3>1, <3>2, <3>3 DEF OpenIsBounded
  <2>13. Sound(cache, HeldIn(client))'
    BY <2>5, <2>6, <2>7
  <2>14. QED
    BY <1>0, <2>1, <2>8, <2>10, <2>11, <2>12, <2>13 DEF CacheInv
<1>4. ASSUME NEW c \in Clients, Release(c) PROVE CacheInv'
  <2> DEFINE a == client[c].handle
             r == [pc |-> "idle", table |-> None, handle |-> None]
             d == Unref(cache, a)
             h2 == [h EXCEPT ![a] = @ - 1]
  <2>1. client[c].pc = "uses" /\ client' = [client EXCEPT ![c] = r] /\ Becomes(d) /\ live' = live
    BY <1>4 DEF Release
  <2>2. a \in Addresses
    BY <2>1 DEF CacheInv
  <2>3. r \in Doing /\ r.pc = "idle" /\ r.table = None
    BY DEF Doing
  <2>4. h[a] > 0 /\ HeldIn(client') = h2
    <3> HIDE DEF r, a
    <3>1. h[a] > 0
      BY <2>1, <2>2, HolderCounted DEF a
    <3>2. client[c].handle = a
      BY DEF a
    <3>3. HeldIn(client') = Less(h, a)
      BY <1>0, <2>1, <2>2, <2>3, <3>2, HeldReturned
    <3> HIDE DEF h
    <3>4. QED
      BY <1>0, <2>2, <3>1, <3>3, MoreOrLess
  <2> HIDE DEF a
  <2>5. /\ Sound(d, h2) /\ KeepsHandles(cache, d)
        /\ \A x \in Addresses : h2[x] > 0 => d.entry[x].key = entry[x].key /\ d.entry[x] # Free
    <3> HIDE DEF h, d
    <3>1. a \in Addresses /\ Sound(cache, h) /\ h \in [Addresses -> Nat] /\ h[a] > 0
      BY <1>0, <2>2, <2>4 DEF h
    <3>2. /\ Sound(d, h2) /\ KeepsHandles(cache, d)
          /\ \A x \in Addresses : h2[x] > 0 => d.entry[x].key = cache.entry[x].key /\ d.entry[x] # Free
      BY ONLY <3>1, UnrefSound DEF d, h2
    <3> HIDE DEF h2
    <3>3. QED
      BY <1>0, <3>2
  <2> HIDE DEF d, r
  <2>6. cache' = d /\ entry' = d.entry
    BY <2>1, <2>5, BecomesSound DEF Sound, Shape
  <2>7. client' \in [Clients -> Doing] /\ client'[c] = r /\ \A x \in Clients \ {c} : client'[x] = client[x]
    BY <1>0, <2>1, <2>3
  <2>8. \A x \in Clients \ {c} : client[x].pc = "uses" =>
            client[x].handle \in Addresses /\ h2[client[x].handle] > 0
    <3>1. ASSUME NEW x \in Clients \ {c}, client[x].pc = "uses"
          PROVE  client[x].handle \in Addresses /\ h2[client[x].handle] > 0
      <4>1. client'[x] = client[x] /\ client[x].handle \in Addresses
        BY <2>7, <3>1 DEF CacheInv
      <4>2. HeldIn(client')[client[x].handle] > 0
        BY <3>1, <4>1, HolderCounted
      <4>3. QED
        BY <2>4, <4>1, <4>2
    <3>2. QED
      BY <3>1
  <2> HIDE DEF h2
  <2>9. \A x \in Clients : /\ client'[x].pc = "idle" => client'[x].table = None
                           /\ client'[x].pc # "idle" => client'[x].table \in live
                           /\ client'[x].pc = "uses" => /\ client'[x].handle \in Addresses
                                                        /\ entry'[client'[x].handle].key = client'[x].table
    BY <2>3, <2>5, <2>6, <2>7, <2>8 DEF CacheInv
  <2>10. \A x \in Addresses : entry'[x] # Free => entry[x] # Free /\ entry'[x].key = entry[x].key
    BY <1>0, <2>5, <2>6 DEF KeepsHandles
  <2>11. OpenIsBounded'
    BY <1>0, <2>10, BoundStays
  <2>12. Sound(cache, HeldIn(client))'
    BY <2>4, <2>5, <2>6
  <2>13. QED
    BY <1>0, <2>1, <2>7, <2>9, <2>10, <2>11, <2>12 DEF CacheInv
<1>5. ASSUME NEW t \in Tables, Evict(t) PROVE CacheInv'
  <2> DEFINE a == TableLookup(cache, t)
             e == TableRemove(cache, t)
             d == FinishErase(e, a)
  <2>1. /\ t \in live /\ \A c \in Clients : client[c].table # t
        /\ Becomes(d) /\ live' = live \ {t} /\ client' = client
    BY <1>5 DEF Evict, Obsolete
  <2>2. /\ FindPointer(cache, t) = {x \in CachedIn(cache) : entry[x].key = t}
        /\ a = None => \A x \in CachedIn(cache) : entry[x].key # t
        /\ a # None => a \in CachedIn(cache) /\ entry[a].key = t /\ FindPointer(cache, t) = {a}
    BY <1>0, Found DEF Sound
  <2>3. /\ Shape(e) /\ Hashed(e, CachedIn(cache) \ FindPointer(cache, t))
        /\ e = [cache EXCEPT !.buckets = e.buckets, !.elems = e.elems]
    BY <1>0, Removed DEF Sound
  <2> HIDE DEF e, a
  <2>4. e.entry = entry /\ e.lru = cache.lru /\ e.inUse = cache.inUse /\ e.usage = cache.usage
    BY <1>0, <2>3 DEF Caching
  <2>5. CachedIn(e) = CachedIn(cache) /\ RefsCounted(e, h) /\ OnLists(e)
    BY <1>0, <2>4 DEF CachedIn, Sound, RefsCounted, OnLists
  <2>6. /\ Sound(d, h) /\ KeepsHandles(e, d)
        /\ \A x \in Addresses : h[x] > 0 => d.entry[x].key = e.entry[x].key /\ d.entry[x] # Free
        /\ \A x \in CachedIn(d) : x \in CachedIn(cache) /\ d.entry[x] = entry[x] /\ entry[x].key # t
    <3>1. CASE a = None
      <4>1. d = e
        BY <3>1 DEF FinishErase
      <4>2. FindPointer(cache, t) = {}
        BY <2>2, <3>1
      <4>3. Hashed(e, CachedIn(e))
        BY <2>3, <2>5, <4>2
      <4>4. Sound(d, h)
        BY <2>3, <2>5, <4>1, <4>3 DEF Sound
      <4>5. QED
        BY <1>0, <2>2, <2>4, <2>5, <3>1, <4>1, <4>4 DEF KeepsHandles, Sound, RefsCounted, CachedIn
    <3>2. CASE a # None
      <4>1. SoundBut(e, h, a)
        BY <2>2, <2>3, <2>5, <3>2 DEF SoundBut
      <4>2. /\ Sound(d, h) /\ KeepsHandles(e, d) /\ CachedIn(d) = CachedIn(e) \ {a}
            /\ \A x \in Addresses : h[x] > 0 => d.entry[x].key = e.entry[x].key /\ d.entry[x] # Free
            /\ \A x \in Addresses \ {a} : d.entry[x] = e.entry[x]
        <5> HIDE DEF h, d
        <5>1. SoundBut(e, h, a) /\ h \in [Addresses -> Nat]
          BY <1>0, <4>1 DEF h
        <5>2. QED
          BY ONLY <5>1, Erased DEF d
      <4>3. ASSUME NEW x \in CachedIn(d) PROVE x \in CachedIn(cache) /\ d.entry[x] = entry[x] /\ entry[x].key # t
        <5>1. x \in CachedIn(cache) /\ x # a /\ x \in Addresses
          BY <2>5, <4>2, <4>3 DEF CachedIn
        <5>2. QED
          BY <2>2, <2>4, <3>2, <4>2, <5>1
      <4>4. QED
        BY <4>2, <4>3
    <3>3. QED
      BY <3>1, <3>2
  <2> HIDE DEF d
  <2>7. cache' = d /\ entry' = d.entry
    BY <2>1, <2>6, BecomesSound DEF Sound, Shape
  <2>8. \A x \in Clients : client[x].pc = "uses" => client[x].handle \in Addresses /\ h[client[x].handle] > 0
    <3>1. ASSUME NEW x \in Clients, client[x].pc = "uses"
          PROVE  client[x].handle \in Addresses /\ h[client[x].handle] > 0
      <4>1. client[x].handle \in Addresses
        BY <3>1 DEF CacheInv
      <4>2. QED
        BY <3>1, <4>1, HolderCounted
    <3>2. QED
      BY <3>1
  <2>9. \A x \in Addresses : entry'[x] # Free => entry[x] # Free /\ entry'[x].key = entry[x].key
    BY <2>4, <2>6, <2>7 DEF KeepsHandles
  <2>10. ASSUME NEW x \in Addresses, entry'[x] # Free PROVE entry'[x].key \in live'
    <3>1. entry[x].key \in live /\ entry'[x].key = entry[x].key
      BY <1>0, <2>9, <2>10
    <3>2. CASE entry'[x].inCache
      <4>1. x \in CachedIn(d)
        BY <2>7, <3>2 DEF CachedIn
      <4>2. QED
        BY <2>1, <2>6, <3>1, <4>1
    <3>3. CASE ~entry'[x].inCache
      <4>1. entry'[x].refs > 0 /\ entry'[x].refs = h[x] + 0
        BY <2>6, <2>7, <2>10, <3>3 DEF Sound, RefsCounted
      <4>2. h[x] # 0
        BY <1>0, <4>1
      <4>3. PICK c \in Clients : client[c].pc = "uses" /\ client[c].handle = x
        BY <4>2, SomebodyHolds
      <4>4. entry[x].key = client[c].table
        BY <4>3 DEF CacheInv
      <4>5. QED
        BY <2>1, <3>1, <4>4
    <3>4. QED
      BY <3>2, <3>3
  <2>11. OpenIsBounded'
    BY <1>0, <2>9, BoundStays
  <2>12. \A x \in Clients : /\ client'[x].pc = "idle" => client'[x].table = None
                            /\ client'[x].pc # "idle" => client'[x].table \in live'
                            /\ client'[x].pc = "uses" => /\ client'[x].handle \in Addresses
                                                         /\ entry'[client'[x].handle].key = client'[x].table
    BY <2>1, <2>4, <2>6, <2>7, <2>8 DEF CacheInv
  <2>13. Sound(cache, HeldIn(client))'
    BY <2>1, <2>6, <2>7
  <2>14. client' \in [Clients -> Doing] /\ live' \subseteq Tables
    BY <1>0, <2>1
  <2>15. QED
    BY <2>10, <2>11, <2>12, <2>13, <2>14 DEF CacheInv
<1>6. ASSUME Prune PROVE CacheInv'
  <2> DEFINE d == EraseOldest(cache, Len(lru))
  <2>1. Becomes(d) /\ client' = client /\ live' = live
    BY <1>6 DEF Prune
  <2>2. cache.lru = lru /\ lru \in Seq(Addresses)
    BY <1>0 DEF cache, Caching
  <2>3. Len(lru) \in 0 .. Len(cache.lru)
    BY <2>2
  <2>4. /\ Sound(d, h) /\ KeepsHandles(cache, d)
        /\ \A x \in Addresses : h[x] > 0 => d.entry[x] = entry[x]
    <3> HIDE DEF h
    <3>1. QED
      BY <1>0, <2>3, OldestErased
  <2> HIDE DEF d
  <2>5. cache' = d /\ entry' = d.entry
    BY <2>1, <2>4, BecomesSound DEF Sound, Shape
  <2>6. \A x \in Addresses : entry'[x] # Free => entry[x] # Free /\ entry'[x].key = entry[x].key
    BY <1>0, <2>4, <2>5 DEF KeepsHandles
  <2>7. OpenIsBounded'
    BY <1>0, <2>6, BoundStays
  <2>8. \A x \in Clients : client[x].pc = "uses" => client[x].handle \in Addresses /\ h[client[x].handle] > 0
    <3>1. ASSUME NEW x \in Clients, client[x].pc = "uses"
          PROVE  client[x].handle \in Addresses /\ h[client[x].handle] > 0
      <4>1. client[x].handle \in Addresses
        BY <3>1 DEF CacheInv
      <4>2. QED
        BY <3>1, <4>1, HolderCounted
    <3>2. QED
      BY <3>1
  <2>9. QED
    BY <1>0, <2>1, <2>4, <2>5, <2>6, <2>7, <2>8 DEF CacheInv
<1>7. ASSUME UNCHANGED cacheVars PROVE CacheInv'
  BY <1>7 DEF cacheVars, CacheInv, cache, OpenIsBounded, OpenTables, Caches
<1>8. QED
  BY <1>1, <1>2, <1>3, <1>4, <1>5, <1>6, <1>7 DEF CacheNext
-----------------------------------------------------------------------------
(* The cache, whatever its capacity, the hash and the interleaving of the  *)
(* clients with evictions: CacheInv is inductive.                          *)
THEOREM CacheInductive == CacheSpec => []CacheInv
<1>1. CacheInit => CacheInv
  BY CacheStarts
<1>2. CacheInv /\ [CacheNext]_cacheVars => CacheInv'
  BY CacheStep
<1>3. QED
  BY <1>1, <1>2, PTL DEF CacheSpec

(* However many clients open the same table at once and whatever they hold *)
(* when others insert, no more files are open than the capacity and one    *)
(* for each client but one.                                                *)
THEOREM OpenBounded == CacheSpec => []OpenIsBounded
<1>1. CacheInv => OpenIsBounded
  BY DEF CacheInv
<1>2. QED
  BY <1>1, CacheInductive, PTL

LEMMA SoundIsHeld == CacheInv => HeldStaysOpen
<1> SUFFICES ASSUME CacheInv PROVE HeldStaysOpen
  OBVIOUS
<1>1. cache.entry = entry
  BY DEF cache
<1>2. ASSUME NEW c \in Clients, NEW a \in Addresses, Holds(c, a) PROVE entry[a].key = client[c].table
  BY <1>2 DEF CacheInv, Holds
<1>3. ASSUME NEW a \in OpenTables
      PROVE  entry[a].refs = Cardinality({c \in Clients : Holds(c, a)}) + (IF entry[a].inCache THEN 1 ELSE 0)
  <2>1. a \in Addresses /\ entry[a] # Free
    BY DEF OpenTables
  <2>2. HeldIn(client)[a] = Cardinality({c \in Clients : Holds(c, a)})
    BY <2>1 DEF HeldIn, Holds
  <2>3. entry[a].refs = HeldIn(client)[a] + (IF entry[a].inCache THEN 1 ELSE 0)
    BY <1>1, <2>1 DEF CacheInv, Sound, RefsCounted
  <2>4. QED
    BY <2>2, <2>3
<1>4. QED
  BY <1>2, <1>3 DEF HeldStaysOpen

LEMMA SoundListsAgree == CacheInv => ListsAgree
<1> SUFFICES ASSUME CacheInv PROVE ListsAgree
  OBVIOUS
<1>1. /\ cache.entry = entry /\ cache.lru = lru /\ cache.inUse = inUse
      /\ cache.usage = usage /\ cache.elems = elems
  BY DEF cache
<1>2. Shape(cache) /\ Hashed(cache, CachedIn(cache)) /\ OnLists(cache)
  BY DEF CacheInv, Sound
<1>3. CachedIn(cache) = Cached
  BY <1>1 DEF CachedIn, Cached, OpenTables, Free
<1>4. lru \in Seq(Addresses)
  BY <1>1, <1>2 DEF Shape, Caching
<1>5. ASSUME NEW t \in Tables, NEW a, a = TableLookup(cache, t)
      PROVE  IF a = None THEN ~\E b \in Cached : entry[b].key = t
             ELSE a \in Cached /\ entry[a].key = t /\ \A b \in Cached : entry[b].key = t => b = a
  <2>1. /\ a = None => \A x \in Cached : entry[x].key # t
        /\ a # None => a \in Cached /\ entry[a].key = t
    BY <1>1, <1>2, <1>3, <1>5, Found
  <2>2. \A x, y \in Cached : entry[x].key = entry[y].key => x = y
    BY <1>1, <1>2, <1>3 DEF Hashed
  <2>3. QED
    BY <2>1, <2>2
<1>6. Len(lru) = Cardinality(Range(lru))
  <2>1. IsInjective(lru) /\ Len(lru) \in 0 .. Len(lru)
    BY <1>1, <1>2, <1>4 DEF OnLists
  <2>2. Cardinality(Range(SubSeq(lru, 1, Len(lru)))) = Len(lru)
    BY <1>4, <2>1, OldestOfList
  <2>3. SubSeq(lru, 1, Len(lru)) = lru
    BY <1>4
  <2>4. QED
    BY <2>2, <2>3
<1>7. /\ Range(lru) = {a \in Cached : entry[a].refs = 1}
      /\ Caches => inUse = Cached \ Range(lru)
      /\ usage = Cardinality(Cached)
  BY <1>1, <1>2, <1>3 DEF OnLists
<1>8. usage = elems
  BY <1>1, <1>2, <1>3, <1>7 DEF Hashed
<1>9. QED
  BY <1>5, <1>6, <1>7, <1>8 DEF ListsAgree

(* What a client uses stays open and is what it asked for; the hash table  *)
(* finds exactly what the cache has; the two lists share it out; a table   *)
(* that was evicted is closed with its last reference and stays closed.    *)
THEOREM CacheSoundHolds == CacheSpec => []CacheIsSound
<1>1. CacheInv => EvictedStaysOut
  BY DEF CacheInv, EvictedStaysOut, OpenTables
<1>2. CacheInv => CacheIsSound
  BY <1>1, SoundIsHeld, SoundListsAgree DEF CacheIsSound
<1>3. QED
  BY <1>2, CacheInductive, PTL
=============================================================================
