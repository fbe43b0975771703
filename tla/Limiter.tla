------------------------------ MODULE Limiter ------------------------------
(***************************************************************************)
(* The limits on what open tables cost: memory maps and file descriptors   *)
(* (util/env_posix.cc).  NewRandomAccessFile maps the file while the first *)
(* limiter allows it, keeps the descriptor while the second does, and else *)
(* opens the file anew for every read.  A limiter is an atomic counter     *)
(* that a thread decrements before it knows whether it may.                *)
(***************************************************************************)
EXTENDS Integers, FiniteSets

CONSTANTS Threads,
          MaxMmaps,        \* MaxMmaps()
          MaxOpenFiles     \* MaxOpenFiles()

ASSUME LimiterAssumption == IsFiniteSet(Threads) /\ MaxMmaps \in Nat /\ MaxOpenFiles \in Nat

VARIABLES acquires_allowed,   \* the counters of the two limiters
          access,             \* how far each thread is with its file
          spurious            \* a refusal although something was free

limiterVars == <<acquires_allowed, access, spurious>>

Resources == {"mmap", "fd"}
Limit == [r \in Resources |-> IF r = "mmap" THEN MaxMmaps ELSE MaxOpenFiles]

(* Who has the resource, and who has decremented its counter.              *)
HoldingStates(r) == IF r = "mmap" THEN {"maps", "mapped"} ELSE {"permanent"}
CountedStates(r) == HoldingStates(r) \cup {IF r = "mmap" THEN "refused map" ELSE "refused descriptor"}
In(states) == {t \in Threads : access[t] \in states}
Holders(r) == Cardinality(In(HoldingStates(r)))
Counted(r) == Cardinality(In(CountedStates(r)))

FileGoes(t, state) == access' = [access EXCEPT ![t] = state]
-----------------------------------------------------------------------------
OpenForReading(t) == access[t] = "none" /\ FileGoes(t, "opened") /\ UNCHANGED <<acquires_allowed, spurious>>

Allows(r) == acquires_allowed[r] > 0

(* Acquire: fetch_sub, and fetch_add later when there was nothing left.    *)
LimiterAcquire(t, from, r, got, refused) ==
    /\ access[t] = from
    /\ acquires_allowed' = [acquires_allowed EXCEPT ![r] = @ - 1]
    /\ FileGoes(t, IF Allows(r) THEN got ELSE refused)
    /\ spurious' = (spurious \/ (~Allows(r) /\ Holders(r) < Limit[r]))

LimiterRelease(t, from, r, to) ==
    /\ access[t] = from
    /\ acquires_allowed' = [acquires_allowed EXCEPT ![r] = @ + 1]
    /\ FileGoes(t, to)
    /\ UNCHANGED spurious

AcquireMmap(t) == LimiterAcquire(t, "opened", "mmap", "maps", "refused map")
RefuseMmap(t) == LimiterRelease(t, "refused map", "mmap", "unmapped")
AcquireFd(t) == LimiterAcquire(t, "unmapped", "fd", "permanent", "refused descriptor")
RefuseFd(t) == LimiterRelease(t, "refused descriptor", "fd", "temporary")

Mmap(t) == access[t] = "maps" /\ FileGoes(t, "mapped") /\ UNCHANGED <<acquires_allowed, spurious>>

(* Fault: a failed mmap is not given back. *)
MmapFailsForGood(t) == access[t] = "maps" /\ FileGoes(t, "none") /\ UNCHANGED <<acquires_allowed, spurious>>

MmapFails(t) == LimiterRelease(t, "maps", "mmap", "none")

(* The file is deleted: the table is evicted.                              *)
DeleteMapped(t) == LimiterRelease(t, "mapped", "mmap", "none")
DeletePermanent(t) == LimiterRelease(t, "permanent", "fd", "none")
DeleteTemporary(t) == access[t] = "temporary" /\ FileGoes(t, "none") /\ UNCHANGED <<acquires_allowed, spurious>>
-----------------------------------------------------------------------------
LimiterInit == /\ acquires_allowed = Limit
               /\ access = [t \in Threads |-> "none"]
               /\ spurious = FALSE

LimiterNext == \E t \in Threads :
            \/ OpenForReading(t) \/ AcquireMmap(t) \/ RefuseMmap(t) \/ AcquireFd(t) \/ RefuseFd(t)
            \/ Mmap(t) \/ MmapFails(t) \/ DeleteMapped(t) \/ DeletePermanent(t) \/ DeleteTemporary(t)

LimiterSpec == LimiterInit /\ [][LimiterNext]_limiterVars
-----------------------------------------------------------------------------
(* "Helper class to limit resource usage" (env_posix.cc:60): however many  *)
(* threads decrement the counter at once, never more files are mapped, or  *)
(* keep a descriptor, than allowed.                                        *)
WithinLimits == \A r \in Resources : Holders(r) <= Limit[r]

(* Every way out of opening a file and using it gives back what it took:   *)
(* a limiter never loses a resource for good.                              *)
NothingIsLost == \A r \in Resources : acquires_allowed[r] = Limit[r] - Counted(r)

(* The limits hold, and hold no more than they must.                       *)
LimitsAreKept == WithinLimits /\ NothingIsLost

(* "If another resource is available, acquire it and return true.  Else    *)
(* return false." (env_posix.cc:70-71)                                     *)
RefusedOnlyWhenFull == ~spurious
=============================================================================
