------------------------------ MODULE Recovery ------------------------------
(***************************************************************************)
(* The files of a leveldb and what a crash leaves of them: CURRENT names a *)
(* MANIFEST, the edits in it name the tables and the first log that are    *)
(* needed, and opening the database puts all of them together again        *)
(* (db/db_impl.cc, db/version_set.cc, util/env_posix.cc).                  *)
(*                                                                         *)
(* A step is one operation on the file system, so the process or the       *)
(* machine can crash between any two.  A log record is one entry, a table  *)
(* is a set of entries; whether a record is whole is LogFile's business.   *)
(***************************************************************************)
EXTENDS Naturals, FiniteSets, Sequences, SequencesExt, FiniteSetsExt, Functions

CONSTANTS Existing,       \* whether the database exists at first
          Crashes,        \* what crashes: "process", "machine"
          Writeback,      \* what the kernel writes before it is synced: "log", "MANIFEST"
          Faults,         \* what fails: "table", "manifest"
          MaxEntries,     \* bound: entries written
          MaxNumber,      \* bound: file numbers given out by one incarnation
          MaxCrashes      \* bound: crashes

ASSUME RecoveryAssumption == /\ Existing \in BOOLEAN /\ Writeback \subseteq {"log", "MANIFEST"}
                             /\ Crashes \subseteq {"process", "machine"}
                             /\ Faults \subseteq {"table", "manifest"}
                             /\ MaxEntries \in Nat /\ MaxNumber \in Nat /\ MaxCrashes \in Nat

VARIABLES
    dir,       \* the directory
    older,     \* what it was since it was synced last
    data,      \* what is in the files
    pc,        \* where DB::Open is, "up" when it has returned
    version,   \* current_: the tables
    kept,      \* a version a reader or an iterator refers to
    numbers,   \* next_file_number_, log_number_, manifest_file_number_
    logfile,   \* logfile_number_
    logs,      \* logs that are still to be recovered
    edit,      \* the edit at work: tables added and deleted, first log
    mem, imm,  \* the memtables
    lastSeq,   \* LastSequence()
    job,       \* what the background thread is doing
    pending,   \* pending_outputs_
    bgError,   \* bg_error_
    issued,    \* entries written so far
    acked,     \* entries whose writer was told OK, as far as a machine crash left them
    promised,  \* those of them that were written with sync
    crashes    \* crashes so far

memory == <<version, kept, numbers, logfile, logs, edit, mem, imm, lastSeq, job, pending, bgError>>
ghosts == <<issued, acked, promised, crashes>>
disk == <<dir, older, data>>
recoveryVars == <<disk, pc, memory, ghosts>>
-----------------------------------------------------------------------------
(* Files.  A directory maps names to files, and a file has a content and   *)
(* a number of its elements that are safe.                                 *)
CurrentFile == <<"CURRENT", 0>>
Manifest(n) == <<"MANIFEST", n>>
LogName(n) == <<"log", n>>
Table(n) == <<"table", n>>
Temp(n) == <<"temp", n>>
Numbered(d, type) == {name[2] : name \in {x \in DOMAIN d : x[1] = type}}

Files == [dir |-> dir, older |-> older, data |-> data]
DirsOf(f) == f.older \cup {f.dir}
Put(g, x, v) == [y \in DOMAIN g \cup {x} |-> IF y = x THEN v ELSE g[y]]

File(f, name) == f.data[f.dir[name]]
SetFile(f, name, file) == [dir |-> f.dir, older |-> f.older, data |-> Put(f.data, f.dir[name], file)]

(* NewWritableFile: a new file, or an old one emptied.                     *)
NewFile == [content |-> <<>>, safe |-> 0]
NewInode(f, name) == <<name, CHOOSE k \in 1 .. Cardinality(DOMAIN f.data) + 1 : <<name, k>> \notin DOMAIN f.data>>
AddFile(f, name) == LET i == NewInode(f, name)
                    IN  [dir |-> Put(f.dir, name, i), older |-> DirsOf(f), data |-> Put(f.data, i, NewFile)]
Create(f, name) == IF name \in DOMAIN f.dir THEN SetFile(f, name, NewFile) ELSE AddFile(f, name)

WriteFile(f, name, x) ==
    SetFile(f, name, [content |-> Append(File(f, name).content, x), safe |-> File(f, name).safe])

(* Sync, of the file and not of its name.                                  *)
Sync(f, name) ==
    SetFile(f, name, [content |-> File(f, name).content, safe |-> Len(File(f, name).content)])

(* The name goes, the file stays while some directory on disk has it.      *)
Unlink(f, names) ==
    IF names \cap DOMAIN f.dir = {} THEN f
    ELSE [dir |-> Restrict(f.dir, DOMAIN f.dir \ names), older |-> DirsOf(f), data |-> f.data]

Rename(f, old, new) ==
    [dir |-> Put(Restrict(f.dir, DOMAIN f.dir \ {old}), new, f.dir[old]), older |-> DirsOf(f), data |-> f.data]

(* SyncDirIfManifest.                                                      *)
SyncDir(f) == [dir |-> f.dir, older |-> {}, data |-> Restrict(f.data, Range(f.dir))]

DiskBecomes(f) == dir' = f.dir /\ older' = f.older /\ data' = f.data
Content(f, name) == File(f, name).content
-----------------------------------------------------------------------------
(* What a crash leaves: of a process everything it gave to the system; of  *)
(* a machine some earlier directory, and of each file what is safe, or     *)
(* more if it was written back.                                            *)
Cut(file, n) == [content |-> SubSeq(file.content, 1, n), safe |-> n]

Lengths(f, d) ==
    LET loose == {i \in Range(d) : i[1][1] \in Writeback}
        most == Max({0} \cup {Len(f.data[i].content) : i \in loose})
    IN  {[i \in Range(d) |-> IF i \in loose THEN n[i] ELSE f.data[i].safe] :
            n \in {m \in [loose -> 0 .. most] : \A i \in loose : m[i] \in f.data[i].safe .. Len(f.data[i].content)}}

AfterMachineCrash(f) ==
    UNION {{[dir |-> d, older |-> {}, data |-> [i \in Range(d) |-> Cut(f.data[i], n[i])]] :
               n \in Lengths(f, d)} : d \in DirsOf(f)}

AfterCrash(f) == (IF "process" \in Crashes THEN {f} ELSE {})
                 \cup (IF "machine" \in Crashes THEN AfterMachineCrash(f) ELSE {})
-----------------------------------------------------------------------------
(* VersionSet::Recover: what the edits of a manifest amount to.            *)
NoEdit == [add |-> {}, del |-> {}, log |-> 0]
SavedOf(edits) ==
    LET n == Len(edits)
        added == UNION {edits[i].add : i \in 1 .. n}
    IN  [tables |-> {t \in added : \E i \in 1 .. n : t \in edits[i].add /\ \A j \in i + 1 .. n : t \notin edits[j].del},
         log |-> edits[n].log, next |-> edits[n].next, last |-> edits[n].last]

HasManifest(f) == /\ CurrentFile \in DOMAIN f.dir
                  /\ Content(f, CurrentFile) # <<>>
                  /\ Manifest(Content(f, CurrentFile)[1]) \in DOMAIN f.dir
                  /\ Content(f, Manifest(Content(f, CurrentFile)[1])) # <<>>

Saved(f) == SavedOf(Content(f, Manifest(Content(f, CurrentFile)[1])))

LogsToRecover(f) == {n \in Numbered(f.dir, "log") : n >= Saved(f).log}

(* DBImpl::Recover succeeds unless CURRENT, its manifest or a table is     *)
(* missing.                                                                *)
Opens(f) == CurrentFile \in DOMAIN f.dir
            => HasManifest(f) /\ {Table(n) : n \in Saved(f).tables} \subseteq DOMAIN f.dir

InTable(f, n) == UNION ToSet(Content(f, Table(n)))
InLog(f, n) == ToSet(Content(f, LogName(n)))
Recovered(f) ==
    IF CurrentFile \notin DOMAIN f.dir THEN {}
    ELSE UNION ({InTable(f, n) : n \in Saved(f).tables} \cup {InLog(f, n) : n \in LogsToRecover(f)})
-----------------------------------------------------------------------------
NoJob == [kind |-> "none", stage |-> "none", number |-> 0, inputs |-> {}, output |-> 0]
NoMemory == /\ version = {} /\ kept = {} /\ numbers = [next |-> 2, log |-> 0, manifest |-> 0]
            /\ logfile = 0 /\ logs = {} /\ edit = NoEdit /\ mem = {} /\ imm = {} /\ lastSeq = 0
            /\ job = NoJob /\ pending = {} /\ bgError = FALSE

(* A database that was created and closed some time ago.                   *)
FoundedDir == [x \in {CurrentFile, Manifest(2), LogName(3)} |-> <<x, 1>>]
FoundedFile(x) == CASE x = CurrentFile -> [content |-> <<2>>, safe |-> 1]
                    [] x = Manifest(2) -> [content |-> <<[add |-> {}, del |-> {}, log |-> 3, next |-> 4, last |-> 0]>>,
                                           safe |-> 1]
                    [] OTHER -> NewFile

RecoveryInit == /\ dir = (IF Existing THEN FoundedDir ELSE <<>>) /\ older = {}
                /\ data = [i \in Range(dir) |-> FoundedFile(i[1])]
                /\ pc = "closed"
                /\ NoMemory
                /\ issued = 0 /\ acked = {} /\ promised = {} /\ crashes = 0

(* DB::Open: without CURRENT a database is created, by a manifest that is  *)
(* closed, but not synced, and then by CURRENT, which is.                  *)
Open == /\ pc = "closed"
        /\ pc' = IF CurrentFile \in DOMAIN dir THEN "recover" ELSE "new"
        /\ UNCHANGED <<disk, memory, ghosts>>

NewDB == /\ pc = "new"
         /\ DiskBecomes(WriteFile(Create(Files, Manifest(1)), Manifest(1),
                                  [add |-> {}, del |-> {}, log |-> 0, next |-> 2, last |-> 0]))
         /\ numbers' = [numbers EXCEPT !.manifest = 1]
         /\ pc' = "newCurrent"
         /\ UNCHANGED <<version, kept, logfile, logs, edit, mem, imm, lastSeq, job, pending, bgError, ghosts>>

(* SetCurrentFile: write and sync a temporary file, then rename it.        *)
WriteTemp(f, n) == Sync(WriteFile(Create(f, Temp(n)), Temp(n), n), Temp(n))

SetCurrentFile ==
    /\ pc \in {"newCurrent", "current"}
    /\ DiskBecomes(WriteTemp(Files, numbers.manifest))
    /\ pc' = IF pc = "current" THEN "rename" ELSE "newRename"
    /\ UNCHANGED <<memory, ghosts>>

RenameTemp ==
    /\ pc \in {"newRename", "rename"}
    /\ DiskBecomes(Rename(Files, Temp(numbers.manifest), CurrentFile))
    /\ pc' = IF pc = "rename" THEN "install" ELSE "recover"
    /\ UNCHANGED <<memory, ghosts>>
-----------------------------------------------------------------------------
(* DBImpl::Recover reads the manifest, then the logs it does not know of,  *)
(* one table for each.                                                     *)
Seqs(entries) == {e[2] : e \in entries}

Recover ==
    /\ pc = "recover"
    /\ IF Opens(Files)
       THEN LET v == Saved(Files)
            IN  /\ version' = v.tables /\ lastSeq' = v.last
                /\ numbers' = [next |-> v.next + 1, log |-> v.log, manifest |-> v.next]
                /\ logs' = LogsToRecover(Files)
                /\ pc' = "logs"
       ELSE pc' = "corrupt" /\ UNCHANGED <<version, lastSeq, numbers, logs>>
    /\ UNCHANGED <<disk, kept, logfile, edit, mem, imm, job, pending, bgError, ghosts>>

WriteTable(f, n, entries) == Sync(WriteFile(f, Table(n), entries), Table(n))

(* MarkFileNumberUsed.                                                     *)
Used(next, n) == Max({next, n + 1})

LastSequence(entries) == Max(Seqs(entries) \cup {lastSeq})

RecoverLog ==
    /\ pc = "logs" /\ logs # {}
    /\ LET n == Min(logs)
           entries == InLog(Files, n)
           t == numbers.next
       IN  /\ logs' = logs \ {n}
           /\ lastSeq' = LastSequence(entries)
           /\ IF entries = {}
              THEN /\ numbers' = [numbers EXCEPT !.next = Used(@, n)]
                   /\ UNCHANGED <<disk, edit>>
              ELSE /\ DiskBecomes(WriteTable(Create(Files, Table(t)), t, entries))
                   /\ numbers' = [numbers EXCEPT !.next = Used(t + 1, n)]
                   /\ edit' = [edit EXCEPT !.add = @ \cup {t}]
    /\ UNCHANGED <<pc, version, kept, logfile, mem, imm, job, pending, bgError, ghosts>>

(* The log of this incarnation.                                            *)
NewLog == /\ pc = "logs" /\ logs = {}
          /\ DiskBecomes(Create(Files, LogName(numbers.next)))
          /\ logfile' = numbers.next
          /\ edit' = [edit EXCEPT !.log = numbers.next]
          /\ numbers' = [numbers EXCEPT !.next = @ + 1]
          /\ pc' = "snapshot"
          /\ UNCHANGED <<version, kept, logs, mem, imm, lastSeq, job, pending, bgError, ghosts>>
-----------------------------------------------------------------------------
(* LogAndApply, by DB::Open to a new manifest and by the background thread *)
(* to the one there is.                                                    *)
AtStage(s) == IF pc = "up" THEN job.stage = s ELSE pc = s
Goto(s) == IF pc = "up" THEN job' = [job EXCEPT !.stage = s] /\ UNCHANGED pc
                        ELSE pc' = s /\ UNCHANGED job
Record == [add |-> edit.add, del |-> edit.del, log |-> edit.log, next |-> numbers.next, last |-> lastSeq]
Snapshot == [add |-> version, del |-> {}, log |-> 0, next |-> 0, last |-> 0]
ThisManifest == Manifest(numbers.manifest)

LogSnapshot ==
    /\ pc = "snapshot"
    /\ DiskBecomes(WriteFile(WriteFile(Create(Files, ThisManifest), ThisManifest, Snapshot), ThisManifest, Record))
    /\ pc' = "syncDir"
    /\ UNCHANGED <<memory, ghosts>>

LogEdit ==
    /\ pc = "up" /\ job.stage = "append"
    /\ DiskBecomes(WriteFile(Files, ThisManifest, Record))
    /\ Goto("syncDir")
    /\ UNCHANGED <<version, kept, numbers, logfile, logs, edit, mem, imm, lastSeq, pending, bgError, ghosts>>

SyncDirectory ==
    /\ AtStage("syncDir")
    /\ DiskBecomes(SyncDir(Files))
    /\ Goto("sync")
    /\ UNCHANGED <<version, kept, numbers, logfile, logs, edit, mem, imm, lastSeq, pending, bgError, ghosts>>

SyncManifest ==
    /\ AtStage("sync")
    /\ DiskBecomes(Sync(Files, ThisManifest))
    /\ Goto(IF pc = "up" THEN "install" ELSE "current")
    /\ UNCHANGED <<version, kept, numbers, logfile, logs, edit, mem, imm, lastSeq, pending, bgError, ghosts>>

(* Fault: the first log a version needs is the one in use when it is       *)
(* installed. *)
InstallCurrentLog ==
    /\ AtStage("install")
    /\ version' = (version \ edit.del) \cup edit.add
    /\ numbers' = [numbers EXCEPT !.log = logfile]
    /\ edit' = NoEdit
    /\ imm' = IF pc = "up" /\ job.kind = "flush" THEN {} ELSE imm
    /\ pending' = IF pc = "up" /\ job.kind = "compact" THEN pending \ {job.output} ELSE pending
    /\ Goto("clean")
    /\ UNCHANGED <<disk, kept, logfile, logs, mem, lastSeq, bgError, ghosts>>

Install ==
    /\ AtStage("install")
    /\ version' = (version \ edit.del) \cup edit.add
    /\ numbers' = [numbers EXCEPT !.log = edit.log]
    /\ edit' = NoEdit
    /\ imm' = IF pc = "up" /\ job.kind = "flush" THEN {} ELSE imm
    /\ pending' = IF pc = "up" /\ job.kind = "compact" THEN pending \ {job.output} ELSE pending
    /\ Goto("clean")
    /\ UNCHANGED <<disk, kept, logfile, logs, mem, lastSeq, bgError, ghosts>>

(* A manifest that cannot be written, synced or made current: Open fails   *)
(* and removes it; while running, nothing is written from now on.          *)
EndJob == job' = IF job.kind = "flush" /\ job.output # 0
                 THEN [job EXCEPT !.kind = "compact", !.stage = "build", !.number = 0] ELSE NoJob

ManifestFails ==
    /\ "manifest" \in Faults /\ pc = "up"
    /\ job.stage \in {"append", "syncDir", "sync"}
    /\ bgError' = TRUE /\ edit' = NoEdit
    /\ pending' = IF job.kind = "compact" THEN pending \ {job.output} ELSE pending
    /\ EndJob
    /\ UNCHANGED <<disk, pc, version, kept, numbers, logfile, logs, mem, imm, lastSeq, ghosts>>

Forget == /\ version' = {} /\ kept' = {} /\ numbers' = [next |-> 2, log |-> 0, manifest |-> 0]
          /\ logfile' = 0 /\ logs' = {} /\ edit' = NoEdit /\ mem' = {} /\ imm' = {} /\ lastSeq' = 0
          /\ job' = NoJob /\ pending' = {} /\ bgError' = FALSE

OpenDBFails ==
    /\ "manifest" \in Faults
    /\ pc \in {"snapshot", "syncDir", "sync", "current", "rename"}
    /\ crashes < MaxCrashes /\ crashes' = crashes + 1
    /\ DiskBecomes(Unlink(Files, {ThisManifest, Temp(numbers.manifest)}))
    /\ pc' = "closed"
    /\ Forget
    /\ UNCHANGED <<issued, acked, promised>>
-----------------------------------------------------------------------------
(* Fault: the versions readers use are not looked at. *)
LiveCurrent == pending \cup version

(* DeleteObsoleteFiles keeps what some version refers to or is being       *)
(* built, and does nothing after an error.                                 *)
Live == pending \cup version \cup kept

(* Fault: the manifest in use is not kept. *)
IsOldManifestOrThis(n) == n <= numbers.manifest

IsOldManifest(n) == n < numbers.manifest

ObsoleteFiles ==
    {name \in DOMAIN dir :
        /\ ~bgError
        /\ CASE name[1] = "log" -> name[2] < numbers.log
             [] name[1] = "MANIFEST" -> IsOldManifest(name[2])
             [] name[1] \in {"table", "temp"} -> name[2] \notin Live
             [] OTHER -> FALSE}

DeleteObsoleteFile ==
    /\ AtStage("clean")
    /\ \E name \in ObsoleteFiles : DiskBecomes(Unlink(Files, {name}))
    /\ UNCHANGED <<pc, memory, ghosts>>

Cleaned ==
    /\ AtStage("clean") /\ ObsoleteFiles = {}
    /\ IF pc = "up" THEN EndJob /\ UNCHANGED pc ELSE pc' = "up" /\ UNCHANGED job
    /\ UNCHANGED <<disk, version, kept, numbers, logfile, logs, edit, mem, imm, lastSeq,
                   pending, bgError, ghosts>>
-----------------------------------------------------------------------------
(* The running database; mutex_ is not held while a table is built and     *)
(* while the manifest is written.                                          *)
Unlocked == pc = "up" /\ job.stage \notin {"install", "clean"}

PutEntry(sync) ==
    /\ Unlocked /\ ~bgError /\ issued < MaxEntries
    /\ LET e == <<issued + 1, lastSeq + 1>>
           f == WriteFile(Files, LogName(logfile), e)
       IN  /\ DiskBecomes(IF sync THEN Sync(f, LogName(logfile)) ELSE f)
           /\ mem' = mem \cup {e} /\ acked' = acked \cup {e}
           /\ promised' = IF sync THEN promised \cup {e} ELSE promised
    /\ issued' = issued + 1 /\ lastSeq' = lastSeq + 1
    /\ UNCHANGED <<pc, version, kept, numbers, logfile, logs, edit, imm, job, pending, bgError, crashes>>

(* MakeRoomForWrite switches to a new log and a new memtable.              *)
Switch ==
    /\ Unlocked /\ ~bgError
    /\ imm = {} /\ mem # {} /\ numbers.next < numbers.manifest + MaxNumber
    /\ DiskBecomes(Create(Files, LogName(numbers.next)))
    /\ logfile' = numbers.next /\ numbers' = [numbers EXCEPT !.next = @ + 1]
    /\ imm' = mem /\ mem' = {}
    /\ UNCHANGED <<pc, version, kept, logs, edit, lastSeq, job, pending, bgError, ghosts>>

(* A reader takes and drops a reference to the current version.            *)
Hold == /\ Unlocked /\ kept = {} /\ version # {}
        /\ kept' = version
        /\ UNCHANGED <<disk, pc, version, numbers, logfile, logs, edit, mem, imm, lastSeq, job,
                       pending, bgError, ghosts>>

ReleaseVersion == /\ Unlocked /\ kept # {}
                  /\ kept' = {}
                  /\ UNCHANGED <<disk, pc, version, numbers, logfile, logs, edit, mem, imm, lastSeq, job,
                                 pending, bgError, ghosts>>

(* WriteLevel0Table and CompactMemTable, also within a compaction, where   *)
(* nobody looks at bg_error_.                                              *)
Begins(kind) == /\ pc = "up" /\ numbers.next < numbers.manifest + MaxNumber
                /\ DiskBecomes(Create(Files, Table(numbers.next)))
                /\ numbers' = [numbers EXCEPT !.next = @ + 1]
                /\ pending' = pending \cup {numbers.next}

BeginFlush ==
    /\ imm # {}
    /\ \/ job = NoJob /\ ~bgError
       \/ job.kind = "compact" /\ job.stage = "build"
    /\ Begins("flush")
    /\ job' = [job EXCEPT !.kind = "flush", !.stage = "build", !.number = numbers.next]
    /\ UNCHANGED <<pc, version, kept, logfile, logs, edit, mem, imm, lastSeq, bgError, ghosts>>

BuildFlush ==
    /\ pc = "up" /\ job.kind = "flush" /\ job.stage = "build"
    /\ DiskBecomes(WriteTable(Files, job.number, imm))
    /\ pending' = pending \ {job.number}
    /\ edit' = [add |-> {job.number}, del |-> {}, log |-> logfile]
    /\ Goto("append")
    /\ UNCHANGED <<version, kept, numbers, logfile, logs, mem, imm, lastSeq, bgError, ghosts>>

(* BuildTable removes a table it could not write.                          *)
FlushFails ==
    /\ "table" \in Faults
    /\ pc = "up" /\ job.kind = "flush" /\ job.stage = "build"
    /\ DiskBecomes(Unlink(Files, {Table(job.number)}))
    /\ pending' = pending \ {job.number}
    /\ bgError' = TRUE
    /\ EndJob
    /\ UNCHANGED <<pc, version, kept, numbers, logfile, logs, edit, mem, imm, lastSeq, ghosts>>

(* A compaction of some tables into one.                                   *)
BeginCompaction ==
    /\ job = NoJob /\ ~bgError /\ imm = {}
    /\ Begins("compact")
    /\ \E inputs \in SUBSET version \ {{}} :
          job' = [NoJob EXCEPT !.kind = "compact", !.stage = "build", !.inputs = inputs,
                               !.output = numbers.next]
    /\ UNCHANGED <<pc, version, kept, logfile, logs, edit, mem, imm, lastSeq, bgError, ghosts>>

BuildCompaction ==
    /\ pc = "up" /\ job.kind = "compact" /\ job.stage = "build"
    /\ DiskBecomes(WriteTable(Files, job.output, UNION {InTable(Files, n) : n \in job.inputs}))
    /\ edit' = [add |-> {job.output}, del |-> job.inputs, log |-> numbers.log]
    /\ Goto("append")
    /\ UNCHANGED <<version, kept, numbers, logfile, logs, mem, imm, lastSeq, pending, bgError, ghosts>>

CompactionFails ==
    /\ "table" \in Faults
    /\ pc = "up" /\ job.kind = "compact" /\ job.stage = "build"
    /\ bgError' = TRUE
    /\ pending' = pending \ {job.output}
    /\ job' = NoJob
    /\ UNCHANGED <<disk, pc, version, kept, numbers, logfile, logs, edit, mem, imm, lastSeq, ghosts>>
-----------------------------------------------------------------------------
Crashing == /\ pc # "corrupt" /\ crashes < MaxCrashes
            /\ crashes' = crashes + 1
            /\ pc' = "closed"
            /\ Forget
            /\ UNCHANGED issued

(* The end of the process, or of DBImpl, which writes nothing.             *)
ProcessCrash == /\ "process" \in Crashes
                /\ Crashing
                /\ UNCHANGED <<disk, acked, promised>>

MachineCrash == /\ "machine" \in Crashes
                /\ Crashing
                /\ \E f \in AfterMachineCrash(Files) :
                      /\ DiskBecomes(f)
                      /\ Opens(f) => /\ acked' = acked \cap Recovered(f)
                                     /\ promised' = promised \cap Recovered(f)
                      /\ ~Opens(f) => UNCHANGED <<acked, promised>>

RecoveryNext == \/ Open \/ NewDB \/ SetCurrentFile \/ RenameTemp \/ Recover \/ RecoverLog \/ NewLog
                \/ LogSnapshot \/ LogEdit \/ SyncDirectory \/ SyncManifest \/ Install
                \/ ManifestFails \/ OpenDBFails \/ DeleteObsoleteFile \/ Cleaned
                \/ (\E sync \in BOOLEAN : PutEntry(sync)) \/ Switch \/ Hold \/ ReleaseVersion
                \/ BeginFlush \/ BuildFlush \/ FlushFails
                \/ BeginCompaction \/ BuildCompaction \/ CompactionFails
                \/ ProcessCrash \/ MachineCrash

RecoverySpec == RecoveryInit /\ [][RecoveryNext]_recoveryVars
-----------------------------------------------------------------------------
RecoveryTypeOK == /\ pc \in {"closed", "new", "newCurrent", "newRename", "recover", "logs", "snapshot", "syncDir",
                             "sync", "current", "rename", "install", "clean", "up", "corrupt"}
                  /\ numbers \in [next : Nat, log : Nat, manifest : Nat]
                  /\ logfile \in Nat /\ version \cup kept \cup logs \cup pending \subseteq Nat
                  /\ \A d \in DirsOf(Files) : Range(d) \subseteq DOMAIN data
                  /\ \A i \in DOMAIN data : data[i].safe \in 0 .. Len(data[i].content)
                  /\ mem \cup imm \cup acked \cup promised \subseteq (1 .. MaxEntries) \X Nat
                  /\ promised \subseteq acked
                  /\ lastSeq \in Nat /\ issued \in 0 .. MaxEntries /\ crashes \in 0 .. MaxCrashes

(* "the creation of the DB is committed only when the descriptor is        *)
(* created" (db_impl.cc:283-284): whenever the process or the machine      *)
(* stops, the database can be opened.                                      *)
AlwaysOpens == \A f \in AfterCrash(Files) : Opens(f)

(* The same but for the manifest of NewDB, which nobody syncs: CURRENT,    *)
(* its manifest and the tables the manifest names are there.               *)
FirstManifestLost(f) == /\ CurrentFile \in DOMAIN f.dir /\ Content(f, CurrentFile) = <<1>>
                        /\ ~HasManifest(f)
OnceCreatedOpens == /\ pc = "corrupt" => FirstManifestLost(Files)
                    /\ \A f \in AfterCrash(Files) : Opens(f) \/ FirstManifestLost(f)

(* "If it is just the process that crashes, no writes will be lost"        *)
(* (options.h), whatever step of recovering, flushing, compacting or       *)
(* cleaning up it was in.                                                  *)
AckedAreRecovered == pc # "corrupt" /\ Opens(Files) => acked \subseteq Recovered(Files)

(* A write with sync survives the machine as well, unless the name of its  *)
(* log does not: MakeRoomForWrite does not sync the directory.             *)
NameLost(e, f) == \E n \in Numbered(dir, "log") :
                     e \in InLog(Files, n) /\ LogName(n) \notin DOMAIN f.dir

PromisedAreRecovered ==
    \A f \in AfterMachineCrash(Files) : Opens(f)
        => \A e \in promised : e \in Recovered(f) \/ NameLost(e, f)

(* What a crash lost stays lost: no left-over log or table is taken up     *)
(* again.                                                                  *)
LostStaysLost == \A f \in AfterCrash(Files) : Opens(f) => Recovered(f) \subseteq acked

(* What the current version and readers refer to is there and complete.    *)
VersionsExist == pc = "up" =>
    \A n \in version \cup kept : Table(n) \in DOMAIN dir /\ Content(Files, Table(n)) # <<>>

(* A new entry gets a higher sequence number than any entry there is.      *)
SequencesGrow == pc = "up" =>
    \A e \in mem \cup imm \cup Recovered(Files) :
        e[2] <= lastSeq /\ \A x \in mem \cup imm \cup Recovered(Files) : x[2] = e[2] => x = e

(* What is found after a crash is what was acknowledged or promised, not   *)
(* more, and new entries are told apart from it.                           *)
RecoveryIsExact == /\ RecoveryTypeOK
                   /\ AckedAreRecovered /\ PromisedAreRecovered /\ LostStaysLost
                   /\ SequencesGrow
=============================================================================
