------------------------------ MODULE FileLock ------------------------------
(***************************************************************************)
(* The lock on a database: LockFile and UnlockFile of PosixEnv, called by  *)
(* DBImpl::Recover, ~DBImpl, Repair and DestroyDB (util/env_posix.cc,      *)
(* db/db_impl.cc).  An fcntl lock keeps other processes out, a table of    *)
(* names the other threads of the process.                                 *)
(*                                                                         *)
(* External: fcntl locks an inode for a process, and closing any           *)
(* descriptor of the inode gives the process's lock up.                    *)
(***************************************************************************)
EXTENDS Naturals, FiniteSets

CONSTANTS Openers,
          Processes,
          ProcessOf,     \* the process of a thread
          Destroyers     \* threads that may call DestroyDB

ASSUME FileLockAssumption ==
    /\ ProcessOf \in [Openers -> Processes] /\ Destroyers \subseteq Openers
    /\ "nobody" \notin Processes

VARIABLES name,      \* the inode that LOCK is the name of
          held,      \* the process that has the fcntl lock of each inode
          locks,     \* processes with the name in their PosixLockTable
          thread     \* where each thread is, its descriptor and its purpose

lockVars == <<name, held, locks, thread>>

Inodes == 1 .. Cardinality(Openers) + 1
NoFile == 0
Nobody == "nobody"
Holding == {"holds", "destroys"}

ThreadGoes(t, pc) == thread' = [thread EXCEPT ![t].pc = pc]
Ends(t, pc) == thread' = [thread EXCEPT ![t] = [pc |-> pc, file |-> NoFile, destroys |-> FALSE]]
Leaves(t) == Ends(t, "idle")

(* External: close.                                                        *)
Close(t) == LET i == thread[t].file
            IN  held' = [held EXCEPT ![i] = IF @ = ProcessOf[t] THEN Nobody ELSE @]
-----------------------------------------------------------------------------
Unused == {i \in Inodes : i # name /\ \A t \in Openers : thread[t].file # i}

(* LockFile: open the file, creating it where it is not there.             *)
OpenFile(t, destroys) ==
    /\ thread[t].pc = "idle"
    /\ name' \in IF name = NoFile THEN Unused ELSE {name}
    /\ thread' = [thread EXCEPT ![t] = [pc |-> "opened", file |-> name', destroys |-> destroys]]
    /\ UNCHANGED <<held, locks>>

MayList(p) == p \notin locks

(* locks_.Insert, or close and "already held by process".                  *)
ListName(t) ==
    /\ thread[t].pc = "opened" /\ MayList(ProcessOf[t])
    /\ locks' = locks \cup {ProcessOf[t]}
    /\ ThreadGoes(t, "listed")
    /\ UNCHANGED <<name, held>>

AlreadyHeld(t) ==
    /\ thread[t].pc = "opened" /\ ~MayList(ProcessOf[t])
    /\ Close(t) /\ Leaves(t)
    /\ UNCHANGED <<name, locks>>

MayLock(t) == held[thread[t].file] \in {Nobody, ProcessOf[t]}

(* LockOrUnlock(fd, true).                                                 *)
Lock(t) ==
    /\ thread[t].pc = "listed" /\ MayLock(t)
    /\ held' = [held EXCEPT ![thread[t].file] = ProcessOf[t]]
    /\ ThreadGoes(t, IF thread[t].destroys THEN "destroys" ELSE "holds")
    /\ UNCHANGED <<name, locks>>

Refused(t) ==
    /\ thread[t].pc = "listed" /\ ~MayLock(t)
    /\ Close(t)
    /\ ThreadGoes(t, "refused")
    /\ UNCHANGED <<name, locks>>

(* Fault: a refused attempt stays in the table. *)
Kept(p) == locks

Unlisted(p) == locks \ {p}

RemoveRefused(t) ==
    /\ thread[t].pc = "refused"
    /\ locks' = Unlisted(ProcessOf[t])
    /\ Leaves(t)
    /\ UNCHANGED <<name, held>>
-----------------------------------------------------------------------------
(* UnlockFile: unlock, take the name out of the table, close.  A failure   *)
(* of the first leaves everything as it is, for good.                      *)
Unlock(t) ==
    /\ thread[t].pc \in Holding
    /\ held' = [held EXCEPT ![thread[t].file] = IF @ = ProcessOf[t] THEN Nobody ELSE @]
    /\ ThreadGoes(t, "unlocked")
    /\ UNCHANGED <<name, locks>>

UnlockFails(t) == thread[t].pc \in Holding /\ ThreadGoes(t, "stuck") /\ UNCHANGED <<name, held, locks>>

RemoveName(t) ==
    /\ thread[t].pc = "unlocked"
    /\ locks' = locks \ {ProcessOf[t]}
    /\ ThreadGoes(t, "removed")
    /\ UNCHANGED <<name, held>>

CloseFile(t) ==
    /\ thread[t].pc = "removed"
    /\ Close(t)
    /\ IF thread[t].destroys THEN Ends(t, "closed") ELSE Leaves(t)
    /\ UNCHANGED <<name, locks>>

(* DestroyDB deletes the lock file last, after it is unlocked.             *)
DeleteLock(t) ==
    /\ thread[t].pc = "closed"
    /\ name' = NoFile
    /\ Leaves(t)
    /\ UNCHANGED <<held, locks>>

(* The process exits, or is killed.                                        *)
Exit(p) ==
    /\ thread' = [t \in Openers |-> IF ProcessOf[t] = p THEN [pc |-> "idle", file |-> NoFile, destroys |-> FALSE]
                                    ELSE thread[t]]
    /\ held' = [i \in Inodes |-> IF held[i] = p THEN Nobody ELSE held[i]]
    /\ locks' = locks \ {p}
    /\ UNCHANGED name
-----------------------------------------------------------------------------
LockInit ==
    /\ name = NoFile
    /\ held = [i \in Inodes |-> Nobody]
    /\ locks = {}
    /\ thread = [t \in Openers |-> [pc |-> "idle", file |-> NoFile, destroys |-> FALSE]]

LockFile(t) == \/ \E d \in {FALSE} \cup {t \in Destroyers} : OpenFile(t, d)
               \/ ListName(t) \/ AlreadyHeld(t) \/ Lock(t) \/ Refused(t) \/ RemoveRefused(t)
UnlockFile(t) == Unlock(t) \/ UnlockFails(t) \/ RemoveName(t) \/ CloseFile(t)

LockNext == (\E t \in Openers : LockFile(t) \/ UnlockFile(t) \/ DeleteLock(t)) \/ (\E p \in Processes : Exit(p))

LockSpec == LockInit /\ [][LockNext]_lockVars
-----------------------------------------------------------------------------
ThreadStates == [pc : {"idle", "opened", "listed", "refused", "holds", "destroys", "unlocked",
                       "removed", "closed", "stuck"},
                 file : Inodes \cup {NoFile}, destroys : BOOLEAN]
LockTypeOK ==
    /\ name \in Inodes \cup {NoFile}
    /\ held \in [Inodes -> Processes \cup {Nobody}]
    /\ locks \subseteq Processes
    /\ thread \in [Openers -> ThreadStates]

HoldsLock(t) == thread[t].pc \in Holding

(* Two threads of a process never have the database open at once, whatever *)
(* happens to the fcntl lock: the table of names sees to it.               *)
OneHolderPerProcess ==
    \A t, u \in Openers : HoldsLock(t) /\ HoldsLock(u) /\ ProcessOf[t] = ProcessOf[u] => t = u

(* "Used to prevent concurrent access to the same db by multiple           *)
(* processes" (include/leveldb/env.h:142).                                 *)
HeldByOneProcess == \A t, u \in Openers : HoldsLock(t) /\ HoldsLock(u) => ProcessOf[t] = ProcessOf[u]

(* Failed attempts, ended ones and processes that died leave neither a     *)
(* lock nor a name behind: the database can be opened again.               *)
Quiet(p) == \A t \in Openers : ProcessOf[t] = p => thread[t].pc \in {"idle", "closed"}
NothingIsLeft == \A p \in Processes : Quiet(p) => p \notin locks /\ \A i \in Inodes : held[i] # p

(* The table of names and the locks are what the threads make of them.     *)
LockIsKept == LockTypeOK /\ OneHolderPerProcess /\ NothingIsLeft
=============================================================================
