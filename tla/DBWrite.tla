------------------------------- MODULE DBWrite ------------------------------
(***************************************************************************)
(* The threads of an open leveldb (db/db_impl.cc): client threads that     *)
(* write, read and ask for compactions, the queue of writers whose head    *)
(* logs for a group of them, the memtable that becomes immutable and is    *)
(* written to a table, and the one background thread.                      *)
(*                                                                         *)
(* A step is what a thread does between acquiring mutex_ and releasing it, *)
(* or without it; mutex says who still holds it when a thread goes on      *)
(* within one acquisition.  A batch is one entry, named by its sequence    *)
(* number; a level-0 file is counted, not described.                       *)
(***************************************************************************)
EXTENDS Naturals, FiniteSets, SequencesExt, FiniteSetsExt

CONSTANTS Threads,      \* client threads
          Nobody,       \* nullptr
          MemCapacity,  \* entries a memtable takes before it is full
          Slowdown,     \* kL0_SlowdownWritesTrigger
          Stop,         \* kL0_StopWritesTrigger
          Trigger,      \* kL0_CompactionTrigger
          Kinds,        \* calls made: "put", "sync", "get", "flush", "range"
          Faults,       \* what may fail: "append", "sync", "file", "background"
          MaxCalls      \* bound: calls made

ASSUME DBWriteAssumption ==
    /\ Nobody \notin Threads
    /\ Trigger <= Stop
    /\ MaxCalls \in Nat /\ MemCapacity \in Nat /\ Trigger \in Nat \ {0} /\ Slowdown \in Nat /\ Stop \in Nat
    /\ Kinds \subseteq {"put", "sync", "get", "flush", "range"}
    /\ Faults \subseteq {"append", "sync", "file", "background"}

VARIABLES
    mutex,    \* who holds mutex_ between two of its steps
    pc,       \* where each thread is
    call,     \* what it is doing: its kind, its entry, a refusal so far
    queue,    \* writers_
    last,     \* the last writer of the group being logged
    woken,    \* writers whose cv was signalled
    asleep,   \* threads in background_work_finished_signal_.Wait()
    mems,     \* contents of the memtables ever made, the newest is mem_
    imm,      \* imm_: number of a memtable, or 0
    tables,   \* entries in table files
    l0,       \* NumLevelFiles(0)
    seek,     \* file_to_compact_ is set
    lastSeq,  \* LastSequence()
    bg,       \* the background thread; "off" is ~background_compaction_scheduled_
    round,    \* the manual compaction the background thread is working on
    manual,   \* manual_compaction_
    bgError,  \* bg_error_
    shut,     \* shutting_down_
    calls,    \* calls made
    acked,    \* entries whose writer was told OK
    synced,   \* entries logged and synced
    failed,   \* entries that were not applied
    view      \* what a reader holds on to

vars == <<mutex, pc, call, queue, last, woken, asleep, mems, imm, tables, l0, seek,
          lastSeq, bg, round, manual, bgError, shut, calls, acked, synced, failed, view>>

memory == <<mems, imm, tables, l0, seek>>
background == <<bg, round, manual, bgError, shut>>
history == <<calls, acked, synced, failed, view>>

Mem == Len(mems)
Contents(n) == IF n = 0 THEN {} ELSE mems[n]
NoCall == [kind |-> "none", seq |-> 0, delay |-> FALSE, force |-> FALSE, old |-> {},
           done |-> FALSE, ok |-> FALSE]
NoView == [open |-> FALSE, snapshot |-> 0, mem |-> 0, imm |-> 0, tables |-> {}, acked |-> {}]

Init == /\ mutex = Nobody
        /\ pc = [t \in Threads |-> "idle"] /\ call = [t \in Threads |-> NoCall]
        /\ queue = <<>> /\ last = Nobody /\ woken = {} /\ asleep = {}
        /\ mems = <<{}>> /\ imm = 0 /\ tables = {} /\ l0 = 0 /\ seek = FALSE
        /\ lastSeq = 0
        /\ bg = "off" /\ round = Nobody /\ manual = Nobody /\ bgError = FALSE /\ shut = FALSE
        /\ calls = 0 /\ acked = {} /\ synced = {} /\ failed = {}
        /\ view = [t \in Threads |-> NoView]

Locked(t) == mutex \in {t, Nobody}
Goto(t, label) == pc' = [pc EXCEPT ![t] = label]
-----------------------------------------------------------------------------
(* Fault: an immutable memtable does not count as work. *)
MaybeScheduleManual ==
    bg' = IF bg # "off" THEN bg
          ELSE IF shut' \/ bgError' \/ (manual' = Nobody /\ l0' < Trigger /\ ~seek')
               THEN "off" ELSE "queued"

(* MaybeScheduleCompaction, evaluated in the state a step ends in.         *)
WorkToDo == imm' # 0 \/ manual' # Nobody \/ l0' >= Trigger \/ seek'
MaybeScheduleCompaction ==
    bg' = IF bg # "off" THEN bg
          ELSE IF shut' \/ bgError' \/ ~WorkToDo THEN "off" ELSE "queued"

(* RecordBackgroundError wakes everybody who waits for background work.    *)
RecordBackgroundError == /\ bgError' = TRUE
                         /\ asleep' = IF bgError THEN asleep ELSE {}

(* Wait() on background_work_finished_signal_.                             *)
Wait(t) == /\ asleep' = asleep \cup {t}
           /\ mutex' = Nobody
-----------------------------------------------------------------------------
(* Write: enter the queue.  Who is first goes on with the mutex.           *)
BeginWrite(t, kind) ==
    /\ pc[t] = "idle" /\ mutex = Nobody /\ calls < MaxCalls /\ ~shut
    /\ calls' = calls + 1
    /\ call' = [call EXCEPT ![t] = [NoCall EXCEPT !.kind = kind,
                                                  !.delay = kind # "flush", !.force = kind = "flush",
                                                  !.old = acked]]
    /\ queue' = Append(queue, t)
    /\ IF queue = <<>> THEN mutex' = t /\ Goto(t, "room")
                       ELSE UNCHANGED mutex /\ Goto(t, "queued")
    /\ UNCHANGED <<last, woken, asleep, memory, lastSeq, background, acked, synced, failed, view>>

(* A writer whose cv was signalled is done or has become the first.        *)
WakeWriter(t) ==
    /\ pc[t] = "queued" /\ t \in woken /\ mutex = Nobody
    /\ woken' = woken \ {t}
    /\ IF call[t].done THEN /\ Goto(t, IF call[t].kind = "flush" /\ call[t].ok THEN "flushed" ELSE "idle")
                            /\ UNCHANGED mutex
                       ELSE IF Head(queue) = t
                            THEN mutex' = t /\ Goto(t, "room")
                            ELSE UNCHANGED <<mutex, pc>>
    /\ UNCHANGED <<call, queue, last, asleep, memory, lastSeq, background, history>>

(* The end of Write: the group leaves the queue with the first's status,   *)
(* and the next writer is signalled.                                       *)
Place(q, t) == SelectInSeq(q, LAMBDA u : u = t)
Position(t) == Place(queue, t)
Group(upto) == {queue[i] : i \in 1 .. Position(upto)}
Rest(upto) == SubSeq(queue, Position(upto) + 1, Len(queue))

(* Fault: the new head of the queue is not signalled. *)
LeaveQueueQuietly(t, upto, ok) ==
    /\ queue' = Rest(upto)
    /\ woken' = woken \cup (Group(upto) \ {t})
    /\ call' = [u \in Threads |-> IF u \in Group(upto) \ {t}
                                   THEN [call[u] EXCEPT !.done = TRUE, !.ok = ok] ELSE call[u]]
    /\ acked' = acked \cup IF ok THEN {call[u].seq : u \in Group(upto)} \ {0} ELSE {}
    /\ last' = Nobody /\ mutex' = Nobody
    /\ Goto(t, IF call[t].kind = "flush" /\ ok THEN "flushed" ELSE "idle")

LeaveQueue(t, upto, ok) ==
    /\ queue' = Rest(upto)
    /\ woken' = woken \cup (Group(upto) \ {t})
                      \cup IF Rest(upto) = <<>> THEN {} ELSE {Head(Rest(upto))}
    /\ call' = [u \in Threads |-> IF u \in Group(upto) \ {t}
                                   THEN [call[u] EXCEPT !.done = TRUE, !.ok = ok] ELSE call[u]]
    /\ acked' = acked \cup IF ok THEN {call[u].seq : u \in Group(upto)} \ {0} ELSE {}
    /\ last' = Nobody /\ mutex' = Nobody
    /\ Goto(t, IF call[t].kind = "flush" /\ ok THEN "flushed" ELSE "idle")

(* Fault: a write that wants a sync is taken into any group. *)
MayJoinAny(t, u) == TRUE

(* BuildBatchGroup: writers behind the first join it up to one that wants  *)
(* a sync the first does not do, or until the batch is big enough, which   *)
(* only a batch can make it.                                               *)
MayJoin(t, u) == call[u].kind = "sync" => call[t].kind = "sync"

BatchGroup(t, upto) ==
    /\ \A u \in Group(upto) : MayJoin(t, u)
    /\ Rest(upto) # <<>> /\ MayJoin(t, Head(Rest(upto))) => call[Head(Rest(upto))].kind # "flush"

(* The entries of the group are numbered in the order of the queue.        *)
IsBatch(t) == call[t].kind \in {"put", "sync"}
Numbered(upto) ==
    [u \in Threads |-> IF u \in Group(upto) /\ IsBatch(u)
                       THEN [call[u] EXCEPT !.seq = lastSeq + Cardinality(
                              {w \in Group(upto) : IsBatch(w) /\ Position(w) <= Position(u)})]
                       ELSE call[u]]

(* MakeRoomForWrite, one round of its loop, by the head of the queue.      *)
AtHead(t) == pc[t] = "room" /\ Locked(t) /\ t \notin asleep

RoomRefused(t) ==
    /\ AtHead(t) /\ bgError
    /\ LeaveQueue(t, t, FALSE)
    /\ UNCHANGED <<asleep, memory, lastSeq, background, calls, synced, failed, view>>

Full(t) == call[t].force \/ Cardinality(mems[Mem]) > MemCapacity

RoomDelay(t) ==
    /\ AtHead(t) /\ ~bgError
    /\ call[t].delay /\ l0 >= Slowdown
    /\ call' = [call EXCEPT ![t].delay = FALSE]
    /\ Goto(t, "delayed")
    /\ mutex' = Nobody
    /\ UNCHANGED <<queue, last, woken, asleep, memory, lastSeq, background, history>>

(* After the millisecond the loop goes on, once the mutex is free.         *)
EndDelay(t) ==
    /\ pc[t] = "delayed"
    /\ Goto(t, "room")
    /\ UNCHANGED <<mutex, call, queue, last, woken, asleep, memory, lastSeq, background, history>>

Roomless(t) == /\ AtHead(t) /\ ~bgError
               /\ ~(call[t].delay /\ l0 >= Slowdown)
               /\ Full(t)

RoomWait(t) ==
    /\ Roomless(t)
    /\ imm # 0 \/ l0 >= Stop
    /\ Wait(t)
    /\ UNCHANGED <<pc, call, queue, last, woken, memory, lastSeq, background, history>>

RoomSwitch(t) ==
    /\ Roomless(t)
    /\ imm = 0 /\ l0 < Stop
    /\ imm' = Mem
    /\ mems' = Append(mems, {})
    /\ call' = [call EXCEPT ![t].force = FALSE]
    /\ mutex' = t
    /\ UNCHANGED <<manual, bgError, shut, round, tables, l0, seek>>
    /\ MaybeScheduleCompaction
    /\ UNCHANGED <<pc, queue, last, woken, asleep, lastSeq, history>>

(* The new log file cannot be created.                                     *)
RoomNoFile(t) ==
    /\ Roomless(t) /\ "file" \in Faults
    /\ imm = 0 /\ l0 < Stop
    /\ LeaveQueue(t, t, FALSE)
    /\ UNCHANGED <<asleep, memory, lastSeq, background, calls, synced, failed, view>>

Roomy(t) == /\ AtHead(t) /\ ~bgError
            /\ ~(call[t].delay /\ l0 >= Slowdown)
            /\ ~Full(t)

(* With room, a batch is grouped and logged without the mutex; a flush has *)
(* nothing to log.                                                         *)
RoomForBatch(t) ==
    /\ Roomy(t) /\ IsBatch(t)
    /\ \E upto \in Range(queue) : /\ BatchGroup(t, upto)
                                  /\ last' = upto
                                  /\ call' = Numbered(upto)
    /\ Goto(t, "logging")
    /\ mutex' = Nobody
    /\ UNCHANGED <<queue, woken, asleep, memory, lastSeq, background, history>>

RoomForFlush(t) ==
    /\ Roomy(t) /\ ~IsBatch(t)
    /\ LeaveQueue(t, t, TRUE)
    /\ UNCHANGED <<asleep, memory, lastSeq, background, calls, synced, failed, view>>
-----------------------------------------------------------------------------
(* Logging, without the mutex: append, sync if the first asks for it, and  *)
(* insert into the memtable.                                               *)
Entries(t) == {call[u].seq : u \in {w \in Group(last) : IsBatch(w)}}

Log(t) ==
    /\ pc[t] = "logging"
    /\ mems' = [mems EXCEPT ![Mem] = @ \cup Entries(t)]
    /\ synced' = IF call[t].kind = "sync" THEN synced \cup Entries(t) ELSE synced
    /\ Goto(t, "logged")
    /\ UNCHANGED <<mutex, call, queue, last, woken, asleep, imm, tables, l0, seek, lastSeq,
                   background, calls, acked, failed, view>>

LogFails(t) ==
    /\ pc[t] = "logging"
    /\ \/ "append" \in Faults /\ Goto(t, "unlogged")
       \/ "sync" \in Faults /\ call[t].kind = "sync" /\ Goto(t, "unsynced")
    /\ failed' = failed \cup Entries(t)
    /\ UNCHANGED <<mutex, call, queue, last, woken, asleep, memory, lastSeq, background,
                   calls, acked, synced, view>>

(* With the mutex again: publish the sequence numbers, used up even if the *)
(* group failed, and answer the group.  Only a failed sync is remembered.  *)
Publish(t) ==
    /\ pc[t] \in {"logged", "unlogged", "unsynced"} /\ mutex = Nobody
    /\ lastSeq' = lastSeq + Cardinality(Entries(t))
    /\ IF pc[t] = "unsynced" THEN RecordBackgroundError ELSE UNCHANGED <<bgError, asleep>>
    /\ LeaveQueue(t, last, pc[t] = "logged")
    /\ UNCHANGED <<memory, bg, round, manual, shut, calls, synced, failed, view>>
-----------------------------------------------------------------------------
(* Fault: a reader takes no reference to the immutable memtable. *)
BeginGetShort(t) ==
    /\ pc[t] = "idle" /\ mutex = Nobody /\ calls < MaxCalls /\ ~shut
    /\ calls' = calls + 1
    /\ view' = [view EXCEPT ![t] = [open |-> TRUE, snapshot |-> lastSeq, mem |-> Mem, imm |-> 0,
                                    tables |-> tables, acked |-> acked]]
    /\ Goto(t, "reading")
    /\ UNCHANGED <<mutex, call, queue, last, woken, asleep, memory, lastSeq, background,
                   acked, synced, failed>>

(* Get: under the mutex a reader notes the last sequence number and takes  *)
(* references; it reads without the mutex, and may end up asking for a     *)
(* compaction of a file it looked into in vain.                            *)
BeginGet(t) ==
    /\ pc[t] = "idle" /\ mutex = Nobody /\ calls < MaxCalls /\ ~shut
    /\ calls' = calls + 1
    /\ view' = [view EXCEPT ![t] = [open |-> TRUE, snapshot |-> lastSeq, mem |-> Mem, imm |-> imm,
                                    tables |-> tables, acked |-> acked]]
    /\ Goto(t, "reading")
    /\ UNCHANGED <<mutex, call, queue, last, woken, asleep, memory, lastSeq, background,
                   acked, synced, failed>>

EndGet(t) ==
    /\ pc[t] = "reading" /\ mutex = Nobody
    /\ view' = [view EXCEPT ![t] = NoView]
    /\ Goto(t, "idle")
    /\ seek' \in {seek, TRUE}
    /\ UNCHANGED <<manual, bgError, shut, round, mems, imm, tables, l0>>
    /\ IF seek' THEN MaybeScheduleCompaction ELSE UNCHANGED bg
    /\ UNCHANGED <<mutex, call, queue, last, woken, asleep, lastSeq, calls, acked, synced, failed>>
-----------------------------------------------------------------------------
(* TEST_CompactMemTable behind its empty write: wait until the immutable   *)
(* memtable is gone.                                                       *)
AwaitFlush(t) ==
    /\ pc[t] = "flushed" /\ t \notin asleep /\ mutex = Nobody
    /\ IF imm # 0 /\ ~bgError THEN Wait(t) /\ UNCHANGED pc
                              ELSE Goto(t, "idle") /\ UNCHANGED <<asleep, mutex>>
    /\ UNCHANGED <<call, queue, last, woken, memory, lastSeq, background, history>>

(* TEST_CompactRange on level 0: one compaction at a time is manual.       *)
BeginRange(t) ==
    /\ pc[t] = "idle" /\ mutex = Nobody /\ calls < MaxCalls /\ ~shut
    /\ calls' = calls + 1
    /\ call' = [call EXCEPT ![t] = [NoCall EXCEPT !.kind = "range"]]
    /\ Goto(t, "range")
    /\ UNCHANGED <<mutex, queue, last, woken, asleep, memory, lastSeq, background,
                   acked, synced, failed, view>>

Range1(t) == pc[t] = "range" /\ t \notin asleep /\ mutex = Nobody
RangeOver(t) == call[t].done \/ shut \/ bgError

RangeWait(t) ==
    /\ Range1(t) /\ ~RangeOver(t)
    /\ Wait(t)
    /\ manual' = IF manual = Nobody THEN t ELSE manual
    /\ UNCHANGED <<memory, bgError, shut, round>>
    /\ IF manual = Nobody THEN MaybeScheduleCompaction ELSE UNCHANGED bg
    /\ UNCHANGED <<pc, call, queue, last, woken, lastSeq, history>>

RangeEnds(t) ==
    /\ Range1(t) /\ RangeOver(t)
    /\ Goto(t, "idle")
    /\ manual' = IF manual = t THEN Nobody ELSE manual
    /\ UNCHANGED <<mutex, call, queue, last, woken, asleep, memory, lastSeq, bg, round, bgError, shut, history>>
-----------------------------------------------------------------------------
(* Fault: work is scheduled although the database is being closed. *)
RescheduledAlways == bg' = IF ~WorkToDo THEN "off" ELSE "queued"

(* The background thread.  BackgroundCall ends by looking for more work    *)
(* and waking everybody who waits.                                         *)
Rescheduled == bg' = IF shut' \/ bgError' \/ ~WorkToDo THEN "off" ELSE "queued"

EndCall == /\ Rescheduled
           /\ asleep' = {}

(* BackgroundCall and BackgroundCompaction: a memtable first, then a       *)
(* manual compaction, then what PickCompaction finds.                      *)
BackgroundIdle ==
    /\ bg = "queued" /\ mutex = Nobody
    /\ shut \/ bgError
    /\ UNCHANGED <<memory, round, manual, bgError, shut>>
    /\ EndCall
    /\ UNCHANGED <<mutex, pc, call, queue, last, woken, lastSeq, history>>

BackgroundFlush ==
    /\ bg = "queued" /\ mutex = Nobody /\ ~shut /\ ~bgError
    /\ imm # 0
    /\ bg' = "flush"
    /\ UNCHANGED <<mutex, pc, call, queue, last, woken, asleep, memory, lastSeq, round, manual,
                   bgError, shut, history>>

(* A manual compaction without files in its range is done; one that was    *)
(* cancelled meanwhile is scheduled for nothing.                           *)
BackgroundNothing ==
    /\ bg = "queued" /\ mutex = Nobody /\ ~shut /\ ~bgError
    /\ imm = 0
    /\ IF manual # Nobody THEN l0 = 0 ELSE l0 < Trigger /\ ~seek
    /\ call' = IF manual = Nobody THEN call ELSE [call EXCEPT ![manual].done = TRUE]
    /\ manual' = Nobody
    /\ UNCHANGED <<memory, round, bgError, shut>>
    /\ EndCall
    /\ UNCHANGED <<mutex, pc, queue, last, woken, lastSeq, history>>

BackgroundCompact ==
    /\ bg = "queued" /\ mutex = Nobody /\ ~shut /\ ~bgError
    /\ imm = 0
    /\ IF manual # Nobody THEN l0 > 0 ELSE l0 >= Trigger \/ seek
    /\ bg' = "compact" /\ round' = manual
    /\ UNCHANGED <<mutex, pc, call, queue, last, woken, asleep, memory, lastSeq, manual,
                   bgError, shut, history>>

(* CompactMemTable: the table was built without the mutex; its level is 0  *)
(* or deeper.  During a compaction the memtable goes first as well.  A     *)
(* shutting_down_ that is set meanwhile is noticed, or set too late.       *)
CompactMemTable ==
    /\ tables' = tables \cup Contents(imm)
    /\ imm' = 0
    /\ l0' \in {l0, l0 + 1}
    /\ UNCHANGED <<mems, seek>>

(* Fault: the memtable is forgotten although its table was not built. *)
FlushFailsForgetting ==
    /\ bg = "flush" /\ mutex = Nobody
    /\ "background" \in Faults \/ shut
    /\ imm' = 0
    /\ bgError' = TRUE /\ asleep' = {}
    /\ bg' = "off"
    /\ UNCHANGED <<mems, tables, l0, seek, round, manual, shut>>
    /\ UNCHANGED <<mutex, pc, call, queue, last, woken, lastSeq, history>>

FlushOK ==
    /\ bg = "flush" /\ mutex = Nobody
    /\ CompactMemTable
    /\ UNCHANGED <<round, manual, bgError, shut>>
    /\ EndCall
    /\ UNCHANGED <<mutex, pc, call, queue, last, woken, lastSeq, history>>

FlushFails ==
    /\ bg = "flush" /\ mutex = Nobody
    /\ "background" \in Faults \/ shut
    /\ bgError' = TRUE
    /\ UNCHANGED <<memory, round, manual, shut>>
    /\ EndCall
    /\ UNCHANGED <<mutex, pc, call, queue, last, woken, lastSeq, history>>

FlushWithin ==
    /\ bg = "compact" /\ mutex = Nobody /\ imm # 0
    /\ bg' = "flush within"
    /\ UNCHANGED <<mutex, pc, call, queue, last, woken, asleep, memory, lastSeq, round, manual,
                   bgError, shut, history>>

FlushWithinEnds ==
    /\ bg = "flush within" /\ mutex = Nobody
    /\ bg' = "compact"
    /\ \/ CompactMemTable /\ UNCHANGED bgError
       \/ ("background" \in Faults \/ shut) /\ bgError' = TRUE /\ UNCHANGED memory
    /\ asleep' = {}
    /\ UNCHANGED <<mutex, pc, call, queue, last, woken, lastSeq, round, manual, shut, history>>

(* The compaction is over: level-0 files are gone and with them what asked *)
(* for it, or bg_error_ is set.  A manual round that failed is done; one   *)
(* that did not has only done a part of its range.  (If it was cancelled   *)
(* meanwhile, the code follows a null pointer: RoundsKeepTheirManual.)     *)
CompactOK ==
    /\ bg = "compact" /\ mutex = Nobody
    /\ l0' \in 0 .. l0
    /\ l0' = l0 => round = Nobody /\ l0 < Trigger
    /\ seek' = FALSE
    /\ UNCHANGED <<mems, imm, tables, bgError, shut, call>>
    /\ round' = Nobody
    /\ manual' = IF round # Nobody THEN Nobody ELSE manual
    /\ EndCall
    /\ UNCHANGED <<mutex, pc, queue, last, woken, lastSeq, history>>

CompactFails ==
    /\ bg = "compact" /\ mutex = Nobody
    /\ "background" \in Faults \/ shut
    /\ bgError' = TRUE
    /\ call' = IF round # Nobody /\ manual # Nobody THEN [call EXCEPT ![manual].done = TRUE] ELSE call
    /\ round' = Nobody
    /\ manual' = IF round # Nobody THEN Nobody ELSE manual
    /\ UNCHANGED <<memory, shut>>
    /\ EndCall
    /\ UNCHANGED <<mutex, pc, queue, last, woken, lastSeq, history>>

(* ~DBImpl, when no call is running: it waits for the background thread.   *)
Close == /\ \A t \in Threads : pc[t] = "idle"
         /\ mutex = Nobody /\ ~shut
         /\ shut' = TRUE
         /\ UNCHANGED <<mutex, pc, call, queue, last, woken, asleep, memory, lastSeq, bg, round,
                        manual, bgError, history>>

Begin(t) == \/ \E kind \in Kinds \cap {"put", "sync", "flush"} : BeginWrite(t, kind)
            \/ "get" \in Kinds /\ BeginGet(t)
            \/ "range" \in Kinds /\ BeginRange(t)

GoOn(t) == \/ WakeWriter(t) \/ RoomRefused(t) \/ RoomDelay(t) \/ EndDelay(t) \/ RoomWait(t)
           \/ RoomSwitch(t) \/ RoomNoFile(t) \/ RoomForBatch(t) \/ RoomForFlush(t)
           \/ Log(t) \/ LogFails(t) \/ Publish(t) \/ EndGet(t)
           \/ AwaitFlush(t) \/ RangeWait(t) \/ RangeEnds(t)

Background == \/ BackgroundIdle \/ BackgroundFlush \/ BackgroundNothing \/ BackgroundCompact
              \/ FlushOK \/ FlushFails \/ FlushWithin \/ FlushWithinEnds
              \/ CompactOK \/ CompactFails

Next == \/ \E t \in Threads : Begin(t) \/ GoOn(t)
        \/ Background \/ Close

(* Threads are scheduled and mutex_ is handed out fairly: who can go on    *)
(* infinitely often does.                                                  *)
Fairness == /\ \A t \in Threads : SF_vars(GoOn(t))
            /\ SF_vars(Background) /\ SF_vars(CompactOK \/ CompactFails)

Spec == Init /\ [][Next]_vars
FairSpec == Spec /\ Fairness
-----------------------------------------------------------------------------
Labels == {"idle", "queued", "room", "delayed", "logging", "logged", "unlogged", "unsynced",
           "reading", "flushed", "range"}

TypeOK == /\ mutex \in Threads \cup {Nobody}
          /\ pc \in [Threads -> Labels]
          /\ \A t \in Threads : call[t].seq \in Nat
          /\ queue \in Seq(Threads) /\ last \in Threads \cup {Nobody}
          /\ woken \subseteq Threads /\ asleep \subseteq Threads
          /\ mems \in Seq(SUBSET Nat) \ {<<>>} /\ imm \in 0 .. Len(mems) - 1
          /\ tables \subseteq Nat /\ l0 \in Nat /\ seek \in BOOLEAN
          /\ lastSeq \in Nat
          /\ bg \in {"off", "queued", "flush", "compact", "flush within"}
          /\ round \in Threads \cup {Nobody} /\ manual \in Threads \cup {Nobody}
          /\ bgError \in BOOLEAN /\ shut \in BOOLEAN
          /\ calls \in 0 .. MaxCalls
          /\ acked \subseteq Nat /\ synced \subseteq Nat /\ failed \subseteq Nat

(* Only the head of the queue makes room, logs and inserts: the log and    *)
(* the memtable have one writer although mutex_ is not held.               *)
Ahead == {"room", "delayed", "logging", "logged", "unlogged", "unsynced"}
OneLogger == \A t \in Threads : pc[t] \in Ahead => queue # <<>> /\ Head(queue) = t

(* No acknowledged write is lost between memtables and tables.             *)
AckedAreKept == acked \subseteq mems[Mem] \cup Contents(imm) \cup tables

(* Whoever asked for a sync and got OK was in a group that was synced.     *)
SyncIsSynced == \A t \in Threads :
    call[t].kind = "sync" /\ call[t].seq \in acked => call[t].seq \in synced

(* A sequence number is published only when its entry can be found: a      *)
(* reader that takes LastSequence() as its snapshot misses nothing.        *)
PublishedIsReadable ==
    1 .. lastSeq \subseteq failed \cup mems[Mem] \cup Contents(imm) \cup tables

(* Every reader finds what was acknowledged before it began, however often *)
(* the memtable was switched or flushed since.                             *)
Visible(v) == {s \in mems[v.mem] \cup Contents(v.imm) \cup v.tables : s <= v.snapshot}
ReadersSeeWrites == \A t \in Threads : view[t].open => view[t].acked \subseteq Visible(view[t])

(* Memtable, immutable memtable, tables: the first hit is the newest, as   *)
(* Get assumes.                                                            *)
NewestFirst == /\ \A s \in mems[Mem], r \in Contents(imm) \cup tables : s > r
               /\ \A s \in Contents(imm), r \in tables : s > r

(* One writer at a time, and what it was told OK for is kept, synced and   *)
(* published as it asked.                                                  *)
WritesAreKept == TypeOK /\ OneLogger /\ AckedAreKept /\ SyncIsSynced /\ PublishedIsReadable

(* A read finds every write it may rely on, and the newest one first.      *)
ReadsAreComplete == ReadersSeeWrites /\ NewestFirst

(* Whoever waits for background work waits for work that is scheduled.     *)
NobodyForgotten == asleep # {} => bg # "off" /\ ~bgError

(* The manual compaction a background round works on is not cancelled     *)
(* under it ("Cancel my manual compaction", TEST_CompactRange).            *)
RoundsKeepTheirManual == round # Nobody => manual = round

(* "Force current memtable contents to be compacted" (db_impl.h): when     *)
(* TEST_CompactMemTable returns OK, what was written before it is in a     *)
(* table.  A flush that BuildBatchGroup took into the group of another      *)
(* writer has not switched the memtable: it still asks for it (force).     *)
FlushFlushes ==
    [][\A t \in Threads : pc[t] = "flushed" /\ pc'[t] = "idle" /\ imm = 0 /\ ~call[t].force
          => call[t].old \subseteq tables]_vars

(* The same of every flush, which the comment in db_impl.h promises.       *)
EveryFlushFlushes ==
    [][\A t \in Threads : pc[t] = "flushed" /\ pc'[t] = "idle" /\ imm = 0
          => call[t].old \subseteq tables]_vars

(* Every call returns; ~DBImpl gets to the end of its wait.                *)
CallsReturn == \A t \in Threads : pc[t] # "idle" ~> pc[t] = "idle"
CloseEnds == shut ~> bg = "off"
=============================================================================
